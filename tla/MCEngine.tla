------------------------------ MODULE MCEngine ------------------------------
(* Two threads share one file of the input directory: one of them reports    *)
(* while the other still runs it.  The limit of three iterations ends some   *)
(* behaviours during the dry run and some after it.                          *)
EXTENDS Engine

=============================================================================
