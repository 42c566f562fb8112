SPECIFICATION TableSpec
CONSTANTS
    Ids = {d1, d2, d3}
    BadIds = {zero, tooLarge}
    NULL = NULL
    Mod = 3
    MaxEdges = 4
    MaxKept = 1
INVARIANTS
    ListOK
    EdgesAccounted
    CopyRemoved
PROPERTY
    ImplementsOrder
