---------------------------- MODULE MCFcovTable -----------------------------
(* A table of three slots.  k1 and k2 collide and wrap around the end of the *)
(* table; k3 starts where k2 may have been pushed; a window of two slots can *)
(* fill up.                                                                  *)
EXTENDS FcovTable, TLC

CONSTANTS k1, k2, k3

MCKeys == {k1, k2, k3}
MCHash == (k1 :> 2) @@ (k2 :> 2) @@ (k3 :> 0)

Symmetry == Permutations(Writers)

=============================================================================
