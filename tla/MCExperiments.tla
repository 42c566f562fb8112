--------------------------- MODULE MCExperiments ---------------------------
(* A small instance of Experiments for TLC: c1 and c2 share a directory. *)
EXTENDS Experiments

CONSTANTS w1, w2, c1, c2, h1, b1

OneHost == [r \in Runners |-> h1]
Shared  == [c \in Campaigns |-> b1]
Groups  == <<<<c1, c2>>>>
=============================================================================
