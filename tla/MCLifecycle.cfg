SPECIFICATION FairLifeSpec
CONSTANTS
    N = 2
    Budgets = {1, 3}
    Windows = {0, 2}
    MayFail = TRUE
    MayInterrupt = TRUE
    MayDie = TRUE
CHECK_DEADLOCK FALSE
INVARIANTS ExitCleansUp SignalsItsOwnFuzzer
PROPERTY MfuzzEnds
