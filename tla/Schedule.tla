------------------------------ MODULE Schedule ------------------------------
(***************************************************************************)
(* MFuzz::run_schedule_policy: which driver runs for how long.             *)
(*                                                                         *)
(* The worker thread sleeps through windows until the time budget is spent *)
(* or stop_fuzzer sets stopped.  After each window it picks the next       *)
(* driver: in turn ("fixed"), in turn with a new order in every round      *)
(* ("random"), or only after a window without new edges ("progress").      *)
(* Times are whole seconds, as main passes them; the time that a handover  *)
(* takes is not counted by the code.                                       *)
(***************************************************************************)
EXTENDS Integers, Functions

CONSTANTS N,              \* number of drivers
          Budgets,        \* -t
          Windows         \* -w, where 0 lets the code choose

ASSUME ScheduleAssumption ==
    /\ N \in Nat \ {0}
    /\ Budgets \subseteq Nat \ {0}
    /\ Windows \subseteq Nat

Policies == {"fixed", "random", "progress"}

VARIABLES policy, budget, windowSeconds,  \* arguments
          order,    \* drivers, as a permutation of 1 .. N
          index,    \* from 0
          elapsed,
          stopped,
          turns,    \* history: windows that each driver got
          pc

args == <<policy, budget, windowSeconds>>
loopVars == <<args, order, index, elapsed, turns, pc>>
vars == <<loopVars, stopped>>

Orders == Bijection(1 .. N, 1 .. N)
Current == order[index + 1]

Init ==
    /\ policy \in Policies /\ budget \in Budgets /\ windowSeconds \in Windows
    /\ order = [i \in 1 .. N |-> i]
    /\ index = 0
    /\ elapsed = 0
    /\ stopped = FALSE
    /\ turns = [d \in 1 .. N |-> 0]
    /\ pc = "loop"

\* Variant: one round instead of twelve.
WindowOneRound == IF windowSeconds # 0 THEN windowSeconds
                  ELSE IF budget \div N = 0 THEN 1 ELSE budget \div N

\* Without -w, every driver gets twelve windows, of at least a second.
Window ==
    IF windowSeconds # 0 THEN windowSeconds
    ELSE IF budget \div (12 * N) = 0 THEN 1 ELSE budget \div (12 * N)

\* Variant: the last window is not cut.
SliceUncut == Window

Slice == IF Window < budget - elapsed THEN Window ELSE budget - elapsed

\* Variant: the time slept is not added up.
SleepUncounted ==
    /\ pc = "loop"
    /\ ~stopped /\ elapsed < budget
    /\ turns' = [turns EXCEPT ![Current] = IF @ < 1 THEN @ + 1 ELSE @]
    /\ pc' = "slept"
    /\ UNCHANGED <<args, order, index, elapsed, stopped>>

\* sleep_for(slice)
Sleep ==
    /\ pc = "loop"
    /\ ~stopped /\ elapsed < budget
    /\ elapsed' = elapsed + Slice
    /\ turns' = [turns EXCEPT ![Current] = @ + 1]
    /\ pc' = "slept"
    /\ UNCHANGED <<args, order, index, stopped>>

Following == (index + 1) % N

\* Variant: a new order for every window.
ReorderAlways(o) == IF policy = "random" THEN o \in Orders ELSE o = order

\* std::shuffle when a round is over
Reorder(o) == IF policy = "random" /\ Following = 0 THEN o \in Orders ELSE o = order

\* if (stopped) break, before the handover
Proceed ==
    /\ pc = "slept" /\ ~stopped
    /\ pc' = "switch"
    /\ UNCHANGED <<args, order, index, elapsed, stopped, turns>>

\* The next driver becomes active; coverage is logged.
Switch ==
    /\ pc = "switch"
    /\ \/ /\ policy = "progress"     \* the window brought new edges
          /\ UNCHANGED <<order, index>>
       \/ /\ index' = Following
          /\ order' \in {o \in Orders : Reorder(o)}
    /\ pc' = "loop"
    /\ UNCHANGED <<args, elapsed, stopped, turns>>

\* The loop ends, at its condition or at a break.
Finish ==
    /\ \/ pc = "loop" /\ (stopped \/ elapsed >= budget)
       \/ pc = "slept" /\ stopped
    /\ pc' = "done"
    /\ UNCHANGED <<args, order, index, elapsed, stopped, turns>>

\* stop_fuzzer, called by the main thread or by the worker after its loop.
Stop ==
    /\ ~stopped
    /\ stopped' = TRUE
    /\ UNCHANGED loopVars

Next == Sleep \/ Proceed \/ Switch \/ Finish \/ Stop

Spec == Init /\ [][Next]_vars

\* The worker thread runs; nobody has to stop it.
FairSpec == Spec /\ WF_vars(Sleep \/ Proceed \/ Switch \/ Finish)

(***************************************************************************)
(* Properties.                                                             *)
(***************************************************************************)

\* order is a permutation, index points into it, time is never overdrawn.
TypeOK ==
    /\ policy \in Policies /\ budget \in Budgets /\ windowSeconds \in Windows
    /\ order \in Orders
    /\ index \in 0 .. N - 1
    /\ elapsed \in 0 .. budget
    /\ stopped \in BOOLEAN
    /\ turns \in [1 .. N -> 0 .. budget]
    /\ pc \in {"loop", "slept", "switch", "done"}

\* "fixed" and "random" give all drivers the same number of windows, up to the
\* round that is not over yet.
FairShare ==
    policy # "progress" => \A d, e \in 1 .. N : turns[d] - turns[e] \in -1 .. 1

\* Without -w and with a budget of at least twelve seconds per driver, every
\* driver gets at least the twelve windows that the choice of the window means.
TwelveTurns ==
    [][Finish /\ ~stopped /\ policy # "progress" /\ windowSeconds = 0 /\ budget >= 12 * N
          => \A d \in 1 .. N : turns[d] >= 12]_vars

\* The worker thread ends.
Ends == <>(pc = "done")

=============================================================================
