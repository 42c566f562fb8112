SPECIFICATION FairPoolSpec
CONSTANTS
    w1 = w1
    w2 = w2
    c1 = c1
    c2 = c2
    h1 = h1
    b1 = b1
    None = None
    Runners = {w1, w2}
    Campaigns = {c1, c2}
    HostOf <- OneHost
    Benchmark <- Shared
    BySubject <- Groups
    Duration = 2
    Segment = 1
    RecoverForeign = TRUE
    Commits = {FALSE}
    MaxTrouble = 2
    MaxForce = 0
    AfterOverlap = FALSE
INVARIANTS OneFuzzerPerDirectory CleansNothingUnfinished TerminatedStaysDown
PROPERTY AllComplete
