SPECIFICATION FairSpec
CONSTANTS
    N = 3
    Budgets <- Seconds
    Windows = {0, 1, 3, 5, 100}
CHECK_DEADLOCK FALSE
INVARIANTS TypeOK FairShare
PROPERTIES TwelveTurns Ends
