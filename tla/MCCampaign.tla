----------------------------- MODULE MCCampaign -----------------------------
(* Small instances of Campaign for TLC. *)
EXTENDS Campaign, TLC

CONSTANTS r1, r2, c1, h1, b1

OneHost      == [r \in Runners |-> h1]
OneBenchmark == [c \in Campaigns |-> b1]
Symmetry     == Permutations(Runners)
=============================================================================
