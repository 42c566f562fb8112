SPECIFICATION Spec
CONSTANTS
    k1 = k1
    k2 = k2
    k3 = k3
    Keys <- MCKeys
    Empty = Empty
    Writers = {w1, w2}
    TabSize = 3
    MaxProbe = 2
    Hash <- MCHash
    CountMod = 2
INVARIANTS
    NoDuplicateKeys
    GiveUpOnlyWhenFull
PROPERTY
    ImplementsCounters
SYMMETRY Symmetry
