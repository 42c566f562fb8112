SPECIFICATION FairSpec
CONSTANTS
    Threads = {t1, t2}
    None = None
    StaticFiles = 1
    Limits = {0, 3}
INVARIANTS
    PhasesDisjoint
    ExitLeavesNoTarget
PROPERTIES
    SignalEnds
    LeavesDryRun
    LimitEnds
