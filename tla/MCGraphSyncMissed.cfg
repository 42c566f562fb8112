SPECIFICATION GraphSpec
CONSTANTS
    d1 = d1
    d2 = d2
    d3 = d3
    main = main
    parse = parse
    leaf = leaf
    None = None
    DriverIds = {d1, d2, d3}
    Nodes = {main, parse, leaf}
    Edges <- CallGraph
    CountMod = 5
    MaxCalls = 4
SYMMETRY Symmetry
INVARIANT ContributionSynchronized
