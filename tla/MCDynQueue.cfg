SPECIFICATION FairQueueSpec
CONSTANTS
    s1 = s1
    s2 = s2
    Drivers <- MCDrivers
    Contents <- MCContents
    Seeds <- MCSeeds
    MaxHashes = 1
    MaxStatic = 1
    MaxCov = 2
    MaxTries = 1
    MaxAdds = 3
    MaxSwitches = 3
    Policies = {TRUE, FALSE}
INVARIANTS
    CursorInQueue
    IndicesInBounds
PROPERTIES
    OwnInputsFirst
    SeedsAreMeasured
CHECK_DEADLOCK FALSE
