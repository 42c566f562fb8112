---------------------------- MODULE FcovCounters ----------------------------
(***************************************************************************)
(* What the shared coverage map promises: one counter per key.             *)
(*                                                                         *)
(* The instrumented target (honggfuzz/libhfuzz/instrument.c) enters a      *)
(* record while writes are not blocked and then either adds one hit to the *)
(* counter of its key or drops the record.  mfuzz (mfuzz/src/fcov.cpp)     *)
(* reads counters one at a time and toggles block_writes.  FcovTable shows *)
(* that the lock-free hash table implements this.                          *)
(***************************************************************************)
EXTENDS Naturals

CONSTANTS Keys,      \* edge keys or function keys, never 0
          Empty,     \* the key 0
          Writers,   \* threads of instrumented target processes
          CountMod   \* counters are unsigned: 2^32 in the code

VARIABLES hits,      \* hits[k]: the counter of key k
          pending,   \* pending[w]: the key writer w is recording, or Empty
          blocked,   \* func_coverage_t::block_writes
          answer     \* the key and the count of the last completed read

vars == <<hits, pending, blocked, answer>>

Init ==
    /\ hits = [k \in Keys |-> 0]
    /\ pending = [w \in Writers |-> Empty]
    /\ blocked = FALSE
    /\ answer = [key |-> Empty, count |-> 0]

\* A record starts: the gate on block_writes is passed.
Enter(w, k) ==
    /\ ~blocked
    /\ pending[w] = Empty
    /\ pending' = [pending EXCEPT ![w] = k]
    /\ UNCHANGED <<hits, blocked, answer>>

\* The record takes effect, once, on the counter of its own key.
Add(w) ==
    /\ pending[w] # Empty
    /\ hits' = [hits EXCEPT ![pending[w]] = (@ + 1) % CountMod]
    /\ pending' = [pending EXCEPT ![w] = Empty]
    /\ UNCHANGED <<blocked, answer>>

\* The record is lost: no slot within the probe limit, or the target died.
Drop(w) ==
    /\ pending[w] # Empty
    /\ pending' = [pending EXCEPT ![w] = Empty]
    /\ UNCHANGED <<hits, blocked, answer>>

\* A read returns the value the counter has at the instant it returns.
Read(k) ==
    /\ answer' = [key |-> k, count |-> hits[k]]
    /\ UNCHANGED <<hits, pending, blocked>>

SetBlocked(b) ==
    /\ blocked' = b
    /\ UNCHANGED <<hits, pending, answer>>

Next ==
    \/ \E w \in Writers : (\E k \in Keys : Enter(w, k)) \/ Add(w) \/ Drop(w)
    \/ \E k \in Keys : Read(k)
    \/ \E b \in BOOLEAN : SetBlocked(b)

Spec == Init /\ [][Next]_vars

=============================================================================
