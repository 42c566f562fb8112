---------------------------- MODULE MCGraphSync ----------------------------
EXTENDS GraphSync, TLC

CONSTANTS d1, d2, d3, main, parse, leaf

\* main calls parse, parse calls itself and leaf
CallGraph == {<<main, parse>>, <<parse, parse>>, <<parse, leaf>>}
Symmetry == Permutations({d1, d2, d3})
=============================================================================
