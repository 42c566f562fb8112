---------------------------- MODULE DriverOrder -----------------------------
(***************************************************************************)
(* What honggfuzz's driver table promises: the drivers seen so far, which  *)
(* of two was handed over more recently, and the driver whose inputs and   *)
(* command line are in use.  DriverTable implements it with linked nodes.  *)
(***************************************************************************)

CONSTANTS Ids, NoDriver

VARIABLES
    seen,       \* the drivers handed over so far
    newer,      \* <<c, d>>: c was handed over more recently than d
    current     \* the driver in use, NoDriver before the first switch

vars == <<seen, newer, current>>

Init == seen = {} /\ newer = {} /\ current = NoDriver

\* d is now the most recent; the others keep their order.
ToFront(d) ==
    /\ seen' = seen \cup {d}
    /\ newer' = {p \in newer : p[1] # d /\ p[2] # d} \cup {d} \X (seen \ {d})

\* The command line is parsed: a driver is known, none is in use.
Preload(d) ==
    /\ seen = {}
    /\ ToFront(d)
    /\ UNCHANGED current

\* A hand-over between two runs of the target.
Focus(d) == ToFront(d) /\ current' = d

Next == \E d \in Ids : Preload(d) \/ Focus(d)

Spec == Init /\ [][Next]_vars

=============================================================================
