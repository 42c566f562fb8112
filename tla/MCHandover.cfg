SPECIFICATION FairSpec
CONSTANTS
    Drivers = {d1, d2, d3}
    Nobody = Nobody
    MaxFailed = 3
    MaxTries = 3
    Timings = {TRUE, FALSE}
CHECK_DEADLOCK FALSE
INVARIANTS Agreement CreditedInTime
PROPERTIES HandoverEnds DeathIsNoticed
