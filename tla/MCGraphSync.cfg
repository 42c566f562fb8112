SPECIFICATION GraphSpec
CONSTANTS
    d1 = d1
    d2 = d2
    d3 = d3
    main = main
    parse = parse
    leaf = leaf
    None = None
    DriverIds = {d1, d2, d3}
    Nodes = {main, parse, leaf}
    Edges <- CallGraph
    CountMod = 3
    MaxCalls = 4
SYMMETRY Symmetry
INVARIANTS NodeCreditJustified EdgesReportedOnce EdgeCreditNeedsNode
