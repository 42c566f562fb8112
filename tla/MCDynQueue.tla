----------------------------- MODULE MCDynQueue -----------------------------
(* Two drivers that share a seed; a corpus of a few inputs. *)
EXTENDS DynQueue, TLC

CONSTANTS s1, s2

MCDrivers == {1, 2}
MCContents == {s1, s2}
MCSeeds == (1 :> {s1, s2}) @@ (2 :> {s2})
=============================================================================
