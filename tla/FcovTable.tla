----------------------------- MODULE FcovTable ------------------------------
(***************************************************************************)
(* One table of the shared coverage map fcov.map: edge_hits or func_hits,  *)
(* whose code differs only in the width of the key.                        *)
(*                                                                         *)
(* Writers are threads of instrumented target processes; they run          *)
(* fcov_record_edge / fcov_record_func of                                  *)
(* honggfuzz/libhfuzz/instrument.c, one atomic access to shared memory per *)
(* action.  A target may be killed or crash between any two accesses.  The *)
(* reader is the mfuzz scheduler thread (mfuzz/src/fcov.cpp), which also   *)
(* sets and clears block_writes.                                           *)
(***************************************************************************)
EXTENDS Naturals

CONSTANTS Keys,      \* edge keys or function keys, never 0
          Empty,     \* the key 0 of a free slot
          Writers,   \* threads of instrumented target processes
          TabSize,   \* FCOV_EDGE_TAB_SIZE, FCOV_FUNC_TAB_SIZE
          MaxProbe,  \* HASH_PROBE_MAX
          Hash,      \* fcov_hash64(key) & MASK, for every key
          CountMod   \* 2^32: slot counts and the total are uint32_t

Slots == 0 .. TabSize - 1

ASSUME TableAssumption ==
    /\ Empty \notin Keys
    /\ TabSize \in Nat \ {0}
    /\ MaxProbe \in Nat \ {0}
    /\ Hash \in [Keys -> Slots]
    /\ CountMod \in Nat \ {0}

VARIABLES key,       \* slot->key
          count,     \* slot->count
          total,     \* fcov->edge_count, fcov->func_count
          blocked,   \* fcov->block_writes
          pc,        \* where each writer is
          wkey,      \* the key a writer records
          probe,     \* the loop variable i of a writer
          rpc,       \* where the reader is
          rkey,      \* the key the reader looks up
          rprobe,    \* the loop variable i of the reader
          answer     \* what the last lookup returned, and for which key

tabVars == <<key, count, total>>
wVars   == <<pc, wkey, probe>>
rVars   == <<rpc, rkey, rprobe, answer>>
vars    == <<key, count, total, blocked, pc, wkey, probe, rpc, rkey, rprobe, answer>>

\* pos = (idx + i) & MASK
Pos(k, i) == (Hash[k] + i) % TabSize

\* fcov_initBitmap: a fresh, zeroed file with writes allowed.
Init ==
    /\ key = [s \in Slots |-> Empty]
    /\ count = [s \in Slots |-> 0]
    /\ total = 0
    /\ blocked = FALSE
    /\ pc = [w \in Writers |-> "idle"]
    /\ wkey = [w \in Writers |-> Empty]
    /\ probe = [w \in Writers |-> 0]
    /\ rpc = "idle"
    /\ rkey = Empty
    /\ rprobe = 0
    /\ answer = [key |-> Empty, count |-> 0]

(***************************************************************************)
(* The writer.                                                             *)
(***************************************************************************)

\* The function returns: its locals are gone.
RecordReturn(w) ==
    /\ pc' = [pc EXCEPT ![w] = "idle"]
    /\ wkey' = [wkey EXCEPT ![w] = Empty]
    /\ probe' = [probe EXCEPT ![w] = 0]

\* The gate: a record starts only while writes are not blocked.
RecordEnter(w, k) ==
    /\ pc[w] = "idle"
    /\ ~blocked
    /\ pc' = [pc EXCEPT ![w] = "load"]
    /\ wkey' = [wkey EXCEPT ![w] = k]
    /\ probe' = [probe EXCEPT ![w] = 0]
    /\ UNCHANGED <<tabVars, blocked, rVars>>

\* curKey = load(slot->key): free, ours, or another key's (next probe).
RecordLoad(w) ==
    LET cur == key[Pos(wkey[w], probe[w])] IN
    /\ pc[w] = "load"
    /\ probe[w] < MaxProbe
    /\ \/ /\ cur = Empty
          /\ pc' = [pc EXCEPT ![w] = "claim"]
          /\ UNCHANGED probe
       \/ /\ cur = wkey[w]
          /\ pc' = [pc EXCEPT ![w] = "add"]
          /\ UNCHANGED probe
       \/ /\ cur \notin {Empty, wkey[w]}
          /\ probe' = [probe EXCEPT ![w] = @ + 1]
          /\ UNCHANGED pc
    /\ UNCHANGED <<tabVars, blocked, wkey, rVars>>

\* Variant: after a lost race, count on the slot whoever owns it.
RecordClaimUnchecked(w) ==
    LET s == Pos(wkey[w], probe[w]) IN
    /\ pc[w] = "claim"
    /\ key' = [key EXCEPT ![s] = IF @ = Empty THEN wkey[w] ELSE @]
    /\ pc' = [pc EXCEPT ![w] = "add"]
    /\ UNCHANGED <<count, total, blocked, wkey, probe, rVars>>

\* Variant: after a lost race, go to the next slot whoever won
\* ("curKey = expected" is missing).
RecordClaimNext(w) ==
    LET s == Pos(wkey[w], probe[w]) IN
    /\ pc[w] = "claim"
    /\ \/ /\ key[s] = Empty
          /\ key' = [key EXCEPT ![s] = wkey[w]]
          /\ pc' = [pc EXCEPT ![w] = "add"]
          /\ UNCHANGED probe
       \/ /\ key[s] # Empty
          /\ pc' = [pc EXCEPT ![w] = "load"]
          /\ probe' = [probe EXCEPT ![w] = @ + 1]
          /\ UNCHANGED key
    /\ UNCHANGED <<count, total, blocked, wkey, rVars>>

\* compare_exchange(slot->key, 0, key): claim the slot, or go on with the key
\* some other writer has put there.
RecordClaim(w) ==
    LET s == Pos(wkey[w], probe[w]) IN
    /\ pc[w] = "claim"
    /\ \/ /\ key[s] = Empty
          /\ key' = [key EXCEPT ![s] = wkey[w]]
          /\ pc' = [pc EXCEPT ![w] = "add"]
          /\ UNCHANGED probe
       \/ /\ key[s] = wkey[w]
          /\ pc' = [pc EXCEPT ![w] = "add"]
          /\ UNCHANGED <<key, probe>>
       \/ /\ key[s] \notin {Empty, wkey[w]}
          /\ pc' = [pc EXCEPT ![w] = "load"]
          /\ probe' = [probe EXCEPT ![w] = @ + 1]
          /\ UNCHANGED key
    /\ UNCHANGED <<count, total, blocked, wkey, rVars>>

\* add_fetch(slot->count, 1)
RecordAdd(w) ==
    /\ pc[w] = "add"
    /\ count' = [count EXCEPT ![Pos(wkey[w], probe[w])] = (@ + 1) % CountMod]
    /\ pc' = [pc EXCEPT ![w] = "total"]
    /\ UNCHANGED <<key, total, blocked, wkey, probe, rVars>>

\* add_fetch(fcov->edge_count, 1) and return
RecordTotal(w) ==
    /\ pc[w] = "total"
    /\ total' = (total + 1) % CountMod
    /\ RecordReturn(w)
    /\ UNCHANGED <<key, count, blocked, rVars>>

\* The loop ran out of probes: the record is silently dropped.
RecordGiveUp(w) ==
    /\ pc[w] = "load"
    /\ probe[w] = MaxProbe
    /\ RecordReturn(w)
    /\ UNCHANGED <<tabVars, blocked, rVars>>

\* The target crashes or honggfuzz kills it; the next run takes its place.
TargetDies(w) ==
    /\ pc[w] # "idle"
    /\ RecordReturn(w)
    /\ UNCHANGED <<tabVars, blocked, rVars>>

(***************************************************************************)
(* The reader, and the gate it controls.                                   *)
(***************************************************************************)

\* fcov_getEdgeHitNum(k) / fcov_getNodeHitNum(k) is called.
LookupStart(k) ==
    /\ rpc = "idle"
    /\ rpc' = "load"
    /\ rkey' = k
    /\ rprobe' = 0
    /\ UNCHANGED <<tabVars, blocked, wVars, answer>>

LookupReturn(n) ==
    /\ rpc' = "idle"
    /\ rkey' = Empty
    /\ rprobe' = 0
    /\ answer' = [key |-> rkey, count |-> n]

\* One round of the probe loop: an empty slot ends it with 0.
LookupLoad ==
    LET cur == key[Pos(rkey, rprobe)] IN
    /\ rpc = "load"
    /\ rprobe < MaxProbe
    /\ \/ /\ cur = Empty
          /\ LookupReturn(0)
       \/ /\ cur = rkey
          /\ rpc' = "count"
          /\ UNCHANGED <<rkey, rprobe, answer>>
       \/ /\ cur \notin {Empty, rkey}
          /\ rprobe' = rprobe + 1
          /\ UNCHANGED <<rpc, rkey, answer>>
    /\ UNCHANGED <<tabVars, blocked, wVars>>

LookupCount ==
    /\ rpc = "count"
    /\ LookupReturn(count[Pos(rkey, rprobe)])
    /\ UNCHANGED <<tabVars, blocked, wVars>>

\* The loop ran out of probes.
LookupMiss ==
    /\ rpc = "load"
    /\ rprobe = MaxProbe
    /\ LookupReturn(0)
    /\ UNCHANGED <<tabVars, blocked, wVars>>

\* setCovBlock / setCovNonBlock, by the same thread as the lookups.
SetCovBlock(b) ==
    /\ rpc = "idle"
    /\ blocked' = b
    /\ UNCHANGED <<tabVars, wVars, rVars>>

-----------------------------------------------------------------------------

WriterStep(w) ==
    \/ RecordLoad(w) \/ RecordClaim(w) \/ RecordAdd(w)
    \/ RecordTotal(w) \/ RecordGiveUp(w)

ReaderStep == LookupLoad \/ LookupCount \/ LookupMiss

Next ==
    \/ \E w \in Writers : \/ \E k \in Keys : RecordEnter(w, k)
                          \/ WriterStep(w)
                          \/ TargetDies(w)
    \/ \E k \in Keys : LookupStart(k)
    \/ ReaderStep
    \/ \E b \in BOOLEAN : SetCovBlock(b)

Spec == Init /\ [][Next]_vars

(***************************************************************************)
(* Properties.                                                             *)
(***************************************************************************)

MemoryOK ==
    /\ key \in [Slots -> Keys \cup {Empty}]
    /\ count \in [Slots -> 0 .. CountMod - 1]
    /\ total \in 0 .. CountMod - 1
    /\ answer \in [key : Keys \cup {Empty}, count : 0 .. CountMod - 1]

ThreadsOK ==
    /\ pc \in [Writers -> {"idle", "load", "claim", "add", "total"}]
    /\ wkey \in [Writers -> Keys \cup {Empty}]
    /\ probe \in [Writers -> 0 .. MaxProbe]
    /\ rpc \in {"idle", "load", "count"}
    /\ rkey \in Keys \cup {Empty}
    /\ rprobe \in 0 .. MaxProbe

\* Every variable has its C type: 32-bit counts, a boolean gate, loop
\* variables that never exceed HASH_PROBE_MAX.
TypeOK == MemoryOK /\ ThreadsOK /\ blocked \in BOOLEAN

\* In table tab, the first n slots of k's probe sequence all hold other keys.
Passed(tab, k, n) == \A j \in 0 .. n - 1 : tab[Pos(k, j)] \notin {Empty, k}

\* Every stored key is reached by its own probe sequence within the limit, and
\* no slot before it is free or holds the same key: what entitles the lookup
\* of fcov.cpp to stop at the first empty slot ("empty slot: key was never
\* inserted in this probe chain").
ProbeChain ==
    \A s \in Slots : key[s] # Empty =>
        \E i \in 0 .. MaxProbe - 1 : s = Pos(key[s], i) /\ Passed(key, key[s], i)

\* However many writers race to insert it, a key occupies at most one slot, so
\* its hits are never split over two counters.
NoDuplicateKeys ==
    \A s, t \in Slots : key[s] = key[t] /\ key[s] # Empty => s = t

\* A record is dropped only when its whole probe window holds other keys,
\* never because it lost a race for a slot.
GiveUpOnlyWhenFull ==
    \A w \in Writers :
        pc[w] = "load" /\ probe[w] = MaxProbe => Passed(key, wkey[w], MaxProbe)

\* A key once stored is never moved, replaced or removed while targets run.
KeysAreStable ==
    [][\A s \in Slots : key[s] # Empty => key'[s] = key[s]]_key

(***************************************************************************)
(* The table implements one atomic counter per key.  The counter of a key  *)
(* is the count of the slot that holds it, 0 if none does; a record takes  *)
(* effect when it adds to the count.                                       *)
(***************************************************************************)

Hits == [k \in Keys |-> IF \E s \in Slots : key[s] = k
                         THEN count[CHOOSE s \in Slots : key[s] = k]
                         ELSE 0]

Pending == [w \in Writers |-> IF pc[w] \in {"load", "claim", "add"}
                               THEN wkey[w] ELSE Empty]

Counters == INSTANCE FcovCounters WITH hits <- Hits, pending <- Pending

\* Records and lookups of the table are records and reads of atomic counters:
\* a lookup that interleaves with inserts, lost races and dying targets still
\* returns the count its key has at the instant the lookup returns, and a
\* record that starts has passed the gate on block_writes.
ImplementsCounters == Counters!Spec

=============================================================================
