SPECIFICATION Spec
CONSTANTS
    r1 = r1
    r2 = r2
    c1 = c1
    h1 = h1
    b1 = b1
    None = None
    Runners = {r1, r2}
    Campaigns = {c1}
    HostOf <- OneHost
    Benchmark <- OneBenchmark
    Duration = 3
    Segment = 2
    RecoverForeign = FALSE
    Commits = {TRUE, FALSE}
    MaxTrouble = 2
    MaxForce = 1
    AfterOverlap = FALSE
SYMMETRY Symmetry
INVARIANTS OverlapNeedsReclaim CompleteMeansDone SegmentsTile SummaryReadsCommitted LossBound NothingLeftBehind

