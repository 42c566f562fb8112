-------------------------- MODULE FcovTable_proofs --------------------------
(***************************************************************************)
(* For every table size, probe limit, hash function and number of writers: *)
(* the safety properties of FcovTable, and that the table implements the   *)
(* atomic counters of FcovCounters.                                        *)
(***************************************************************************)
EXTENDS FcovTable, TLAPS

\* What a writer knows of the table while it probes, and once it owns a slot.
WriterSeen ==
    \A w \in Writers :
        /\ pc[w] \in {"load", "claim"} =>
              wkey[w] \in Keys /\ Passed(key, wkey[w], probe[w])
        /\ pc[w] \in {"claim", "add"} => probe[w] < MaxProbe
        /\ pc[w] = "add" =>
              wkey[w] \in Keys /\ key[Pos(wkey[w], probe[w])] = wkey[w]

\* The same for the reader.
ReaderSeen ==
    /\ rpc = "load" => rkey \in Keys /\ Passed(key, rkey, rprobe)
    /\ rpc = "count" => /\ rkey \in Keys
                        /\ rprobe < MaxProbe
                        /\ key[Pos(rkey, rprobe)] = rkey

\* A slot nobody has claimed has not been counted.
FreeIsZero == \A s \in Slots : key[s] = Empty => count[s] = 0

IInv == TypeOK /\ ProbeChain /\ WriterSeen /\ ReaderSeen /\ FreeIsZero

-----------------------------------------------------------------------------

\* pos is a valid index of the table.
LEMMA PosInSlots ==
    ASSUME NEW k \in Keys, NEW i \in Nat
    PROVE  Pos(k, i) \in Slots
  BY TableAssumption DEF Pos, Slots

\* A count stays a uint32_t.
LEMMA CountInRange ==
    ASSUME NEW n \in Nat
    PROVE  n % CountMod \in 0 .. CountMod - 1
  BY TableAssumption

\* Filling a free slot does not disturb what has been passed.
LEMMA PassedStable ==
    ASSUME NEW tab \in [Slots -> Keys \cup {Empty}], NEW new,
           NEW k \in Keys, NEW n \in Nat, Passed(tab, k, n),
           \A t \in Slots : tab[t] # Empty => new[t] = tab[t]
    PROVE  Passed(new, k, n)
  BY PosInSlots DEF Passed

\* fcov_initBitmap establishes the invariant.
LEMMA InitInv == Init => IInv
  <1> SUFFICES ASSUME Init PROVE IInv
    OBVIOUS
  <1> USE TableAssumption DEF Init
  <1>1. TypeOK
    <2>1. MemoryOK
      BY DEF MemoryOK
    <2>2. ThreadsOK
      BY DEF ThreadsOK
    <2>3. blocked \in BOOLEAN
      BY Zenon
    <2> QED
      BY <2>1, <2>2, <2>3 DEF TypeOK
  <1>2. ProbeChain
    BY DEF ProbeChain
  <1>3. WriterSeen
    BY DEF WriterSeen
  <1>4. ReaderSeen
    BY DEF ReaderSeen
  <1>5. FreeIsZero
    BY DEF FreeIsZero
  <1> QED
    BY <1>1, <1>2, <1>3, <1>4, <1>5 DEF IInv

\* Every step keeps block_writes a boolean.
LEMMA GateStep == IInv /\ [Next]_vars => (blocked \in BOOLEAN)'
  BY Zenon DEF IInv, TypeOK, Next, vars, WriterStep, ReaderStep, RecordEnter,
     RecordLoad, RecordClaim, RecordAdd, RecordTotal, RecordGiveUp, TargetDies,
     LookupStart, LookupLoad, LookupCount, LookupMiss, SetCovBlock

\* Every step keeps the table well typed.
LEMMA MemoryStep == IInv /\ [Next]_vars => MemoryOK'
  <1> SUFFICES ASSUME IInv, [Next]_vars PROVE MemoryOK'
    OBVIOUS
  <1> USE TableAssumption, PosInSlots, CountInRange
      DEF IInv, TypeOK, MemoryOK, ThreadsOK, tabVars, wVars, rVars
  <1>1. ASSUME NEW w \in Writers, NEW k \in Keys, RecordEnter(w, k) PROVE MemoryOK'
    BY <1>1 DEF RecordEnter
  <1>2. ASSUME NEW w \in Writers, RecordLoad(w) PROVE MemoryOK'
    BY <1>2 DEF RecordLoad
  <1>3. ASSUME NEW w \in Writers, RecordClaim(w) PROVE MemoryOK'
    BY <1>3, Zenon DEF RecordClaim, WriterSeen
  <1>4. ASSUME NEW w \in Writers, RecordAdd(w) PROVE MemoryOK'
    <2> DEFINE s == Pos(wkey[w], probe[w])
    <2>1. s \in Slots
      BY <1>4 DEF RecordAdd, WriterSeen
    <2>2. (count[s] + 1) % CountMod \in 0 .. CountMod - 1
      BY <2>1
    <2> QED
      BY <1>4, <2>1, <2>2 DEF RecordAdd
  <1>5. ASSUME NEW w \in Writers, RecordTotal(w) PROVE MemoryOK'
    <2>1. total + 1 \in Nat
      OBVIOUS
    <2>2. (total + 1) % CountMod \in 0 .. CountMod - 1
      BY <2>1, CountInRange, Zenon
    <2> QED
      BY <1>5, <2>2 DEF RecordTotal
  <1>6. ASSUME NEW w \in Writers, RecordGiveUp(w) \/ TargetDies(w) PROVE MemoryOK'
    BY <1>6, Zenon DEF RecordGiveUp, TargetDies
  <1>7. ASSUME NEW k \in Keys, LookupStart(k) PROVE MemoryOK'
    BY <1>7 DEF LookupStart
  <1>8. CASE LookupLoad
    BY <1>8 DEF LookupLoad, LookupReturn
  <1>9. CASE LookupCount
    BY <1>9 DEF LookupCount, LookupReturn, ReaderSeen
  <1>10. CASE LookupMiss
    BY <1>10 DEF LookupMiss, LookupReturn
  <1>11. ASSUME NEW b \in BOOLEAN, SetCovBlock(b) PROVE MemoryOK'
    BY <1>11 DEF SetCovBlock
  <1>12. CASE UNCHANGED vars
    BY <1>12 DEF vars
  <1> QED
    BY <1>1, <1>2, <1>3, <1>4, <1>5, <1>6, <1>7, <1>8, <1>9, <1>10, <1>11, <1>12, Zenon
    DEF Next, WriterStep, ReaderStep

\* Every step keeps the locals of writers and reader in range.
LEMMA ThreadsStep == IInv /\ [Next]_vars => ThreadsOK'
  <1> SUFFICES ASSUME IInv, [Next]_vars PROVE ThreadsOK'
    OBVIOUS
  <1> USE TableAssumption
      DEF IInv, TypeOK, ThreadsOK, tabVars, wVars, rVars
  <1>1. ASSUME NEW w \in Writers, NEW k \in Keys, RecordEnter(w, k) PROVE ThreadsOK'
    BY <1>1 DEF RecordEnter
  <1>2. ASSUME NEW w \in Writers, RecordLoad(w) PROVE ThreadsOK'
    BY <1>2 DEF RecordLoad
  <1>3. ASSUME NEW w \in Writers, RecordClaim(w) PROVE ThreadsOK'
    BY <1>3 DEF RecordClaim, WriterSeen
  <1>4. ASSUME NEW w \in Writers, RecordAdd(w) PROVE ThreadsOK'
    BY <1>4 DEF RecordAdd
  <1>5. ASSUME NEW w \in Writers, RecordTotal(w) PROVE ThreadsOK'
    BY <1>5 DEF RecordTotal, RecordReturn
  <1>6. ASSUME NEW w \in Writers, RecordGiveUp(w) \/ TargetDies(w) PROVE ThreadsOK'
    BY <1>6 DEF RecordGiveUp, TargetDies, RecordReturn
  <1>7. ASSUME NEW k \in Keys, LookupStart(k) PROVE ThreadsOK'
    BY <1>7 DEF LookupStart
  <1>8. CASE LookupLoad
    BY <1>8 DEF LookupLoad, LookupReturn
  <1>9. CASE LookupCount \/ LookupMiss
    BY <1>9 DEF LookupCount, LookupMiss, LookupReturn
  <1>10. ASSUME NEW b \in BOOLEAN, SetCovBlock(b) PROVE ThreadsOK'
    BY <1>10 DEF SetCovBlock
  <1>11. CASE UNCHANGED vars
    BY <1>11 DEF vars
  <1> QED
    BY <1>1, <1>2, <1>3, <1>4, <1>5, <1>6, <1>7, <1>8, <1>9, <1>10, <1>11
    DEF Next, WriterStep, ReaderStep

\* Every step preserves the type invariant.
LEMMA TypeStep == IInv /\ [Next]_vars => TypeOK'
  BY GateStep, MemoryStep, ThreadsStep DEF TypeOK

-----------------------------------------------------------------------------

\* Only a successful claim changes the keys, and it fills a free slot.
LEMMA KeyStep ==
    IInv /\ [Next]_vars =>
        \/ UNCHANGED key
        \/ \E w \in Writers :
              /\ pc[w] = "claim"
              /\ key[Pos(wkey[w], probe[w])] = Empty
              /\ key' = [key EXCEPT ![Pos(wkey[w], probe[w])] = wkey[w]]
  BY DEF Next, vars, tabVars, WriterStep, ReaderStep, RecordEnter, RecordLoad,
     RecordClaim, RecordAdd, RecordTotal, RecordGiveUp, TargetDies, LookupStart,
     LookupLoad, LookupCount, LookupMiss, SetCovBlock

\* No step changes a stored key.
LEMMA StableStep ==
    IInv /\ [Next]_vars => \A t \in Slots : key[t] # Empty => key'[t] = key[t]
  BY KeyStep DEF IInv, TypeOK, MemoryOK

\* Every step preserves the probe chains; the claim is the case that matters.
LEMMA ChainStep == IInv /\ [Next]_vars => ProbeChain'
  <1> SUFFICES ASSUME IInv, [Next]_vars,
                      NEW s \in Slots, key'[s] # Empty
               PROVE  \E i \in 0 .. MaxProbe - 1 :
                         s = Pos(key'[s], i) /\ Passed(key', key'[s], i)
    BY DEF ProbeChain
  <1>t. key \in [Slots -> Keys \cup {Empty}]
    BY DEF IInv, TypeOK, MemoryOK
  <1>s. \A t \in Slots : key[t] # Empty => key'[t] = key[t]
    BY StableStep
  <1>1. CASE key[s] # Empty
    <2>1. PICK i \in 0 .. MaxProbe - 1 : s = Pos(key[s], i) /\ Passed(key, key[s], i)
      BY <1>1 DEF IInv, ProbeChain
    <2>2. key'[s] = key[s] /\ key[s] \in Keys
      BY <1>1, <1>s, <1>t
    <2>3. Passed(key', key[s], i)
      BY <1>t, <1>s, <2>1, <2>2, PassedStable, TableAssumption
    <2> QED
      BY <2>1, <2>2, <2>3
  <1>2. CASE key[s] = Empty
    <2>1. PICK w \in Writers :
             /\ pc[w] = "claim"
             /\ key' = [key EXCEPT ![Pos(wkey[w], probe[w])] = wkey[w]]
      BY <1>2, KeyStep
    <2>2. s = Pos(wkey[w], probe[w]) /\ key'[s] = wkey[w]
      BY <1>2, <1>t, <2>1
    <2>3. /\ wkey[w] \in Keys
          /\ Passed(key, wkey[w], probe[w])
          /\ probe[w] \in 0 .. MaxProbe - 1
      BY <2>1, TableAssumption DEF IInv, TypeOK, ThreadsOK, WriterSeen
    <2>4. Passed(key', wkey[w], probe[w])
      BY <1>s, <1>t, <2>3, PassedStable, TableAssumption
    <2> QED
      BY <2>2, <2>3, <2>4
  <1> QED
    BY <1>1, <1>2

\* What one writer knows, in table tab, at location loc with key k and probe i.
Seen(tab, loc, k, i) ==
    /\ loc \in {"load", "claim"} => k \in Keys /\ Passed(tab, k, i)
    /\ loc \in {"claim", "add"} => i < MaxProbe
    /\ loc = "add" => k \in Keys /\ tab[Pos(k, i)] = k

\* What a probe loop has seen stays true while other threads fill free slots.
LEMMA SeenStable ==
    ASSUME NEW tab \in [Slots -> Keys \cup {Empty}], NEW new,
           \A t \in Slots : tab[t] # Empty => new[t] = tab[t],
           NEW loc, NEW k, NEW i \in Nat, Seen(tab, loc, k, i)
    PROVE  Seen(new, loc, k, i)
  BY PassedStable, PosInSlots, TableAssumption DEF Seen

\* One more slot passed.
LEMMA PassedNext ==
    ASSUME NEW tab, NEW k \in Keys, NEW n \in Nat, Passed(tab, k, n),
           tab[Pos(k, n)] \notin {Empty, k}
    PROVE  Passed(tab, k, n + 1)
  BY DEF Passed

\* Every step preserves what each writer knows of the slots it has probed.
LEMMA WriterStepSeen == IInv /\ [Next]_vars => WriterSeen'
  <1> SUFFICES ASSUME IInv, [Next]_vars, NEW v \in Writers
               PROVE  Seen(key', pc'[v], wkey'[v], probe'[v])
    BY DEF WriterSeen, Seen
  <1>t. /\ key \in [Slots -> Keys \cup {Empty}]
        /\ probe[v] \in Nat
        /\ ThreadsOK
    BY TableAssumption DEF IInv, TypeOK, MemoryOK, ThreadsOK
  <1>v. Seen(key, pc[v], wkey[v], probe[v])
    BY DEF IInv, WriterSeen, Seen
  <1>s. \A t \in Slots : key[t] # Empty => key'[t] = key[t]
    BY StableStep
  <1>k. Seen(key', pc[v], wkey[v], probe[v])
    BY <1>t, <1>v, <1>s, SeenStable
  <1>1. CASE UNCHANGED <<pc[v], wkey[v], probe[v]>>
    BY <1>1, <1>k
  <1>2. CASE \E k \in Keys : RecordEnter(v, k)
    BY <1>2, <1>t, TableAssumption DEF RecordEnter, Seen, Passed, ThreadsOK
  <1>3. CASE RecordLoad(v)
    <2>1. CASE probe'[v] = probe[v] /\ UNCHANGED key
      BY <2>1, <1>3, <1>t, <1>v DEF RecordLoad, Seen, ThreadsOK, tabVars
    <2>2. CASE probe'[v] # probe[v]
      <3>1. /\ probe'[v] = probe[v] + 1 /\ pc'[v] = "load" /\ wkey'[v] = wkey[v]
            /\ key' = key
            /\ key[Pos(wkey[v], probe[v])] \notin {Empty, wkey[v]}
        BY <2>2, <1>3, <1>t DEF RecordLoad, ThreadsOK, tabVars
      <3>2. wkey[v] \in Keys /\ Passed(key, wkey[v], probe[v])
        BY <1>3, <1>v DEF RecordLoad, Seen
      <3>3. Passed(key', wkey'[v], probe'[v])
        BY <1>t, <3>1, <3>2, PassedNext
      <3> QED
        BY <3>1, <3>2, <3>3 DEF Seen
    <2> QED
      BY <2>1, <2>2, <1>3 DEF RecordLoad, tabVars
  <1>4. CASE RecordClaim(v)
    <2> DEFINE s == Pos(wkey[v], probe[v])
    <2>1. /\ wkey[v] \in Keys /\ Passed(key, wkey[v], probe[v])
          /\ probe[v] < MaxProbe /\ wkey' = wkey
          /\ s \in Slots
      BY <1>4, <1>v, <1>t, PosInSlots DEF RecordClaim, Seen
    <2>2. CASE key[s] \notin {Empty, wkey[v]}
      <3>1. pc'[v] = "load" /\ probe'[v] = probe[v] + 1 /\ key' = key
        BY <2>2, <1>4, <1>t DEF RecordClaim, ThreadsOK
      <3>2. Passed(key', wkey[v], probe[v] + 1)
        BY <2>1, <2>2, <3>1, <1>t, PassedNext
      <3> QED
        BY <2>1, <3>1, <3>2 DEF Seen
    <2>3. CASE key[s] \in {Empty, wkey[v]}
      BY <2>1, <2>3, <1>4, <1>t DEF RecordClaim, Seen, ThreadsOK
    <2> QED
      BY <2>2, <2>3
  <1>5. CASE RecordAdd(v)
    BY <1>5, <1>t DEF RecordAdd, Seen, ThreadsOK
  <1>6. CASE RecordTotal(v) \/ RecordGiveUp(v) \/ TargetDies(v)
    BY <1>6, <1>t, SMTT(30) DEF RecordTotal, RecordGiveUp, TargetDies, RecordReturn, Seen, ThreadsOK
  <1>7. \/ UNCHANGED <<pc[v], wkey[v], probe[v]>>
        \/ \E k \in Keys : RecordEnter(v, k)
        \/ WriterStep(v) \/ TargetDies(v)
    <2>1. ASSUME NEW w \in Writers, w # v,
                 (\E k \in Keys : RecordEnter(w, k)) \/ WriterStep(w) \/ TargetDies(w)
          PROVE  UNCHANGED <<pc[v], wkey[v], probe[v]>>
      BY <2>1, <1>t, SMTT(30) DEF WriterStep, RecordEnter, RecordLoad, RecordClaim, RecordAdd,
         RecordTotal, RecordGiveUp, TargetDies, RecordReturn, ThreadsOK
    <2>2. CASE \/ \E k \in Keys : LookupStart(k)
               \/ ReaderStep
               \/ \E b \in BOOLEAN : SetCovBlock(b)
               \/ UNCHANGED vars
      BY <2>2 DEF ReaderStep, LookupStart, LookupLoad, LookupCount, LookupMiss,
         SetCovBlock, wVars, vars
    <2> QED
      BY <2>1, <2>2 DEF Next
  <1> QED
    BY <1>1, <1>2, <1>3, <1>4, <1>5, <1>6, <1>7 DEF WriterStep

\* Every step preserves what the reader knows of the slots it has probed.
LEMMA ReaderStepSeen == IInv /\ [Next]_vars => ReaderSeen'
  <1> SUFFICES ASSUME IInv, [Next]_vars PROVE ReaderSeen'
    OBVIOUS
  <1>t. /\ key \in [Slots -> Keys \cup {Empty}]
        /\ rprobe \in Nat
        /\ ReaderSeen
    BY TableAssumption DEF IInv, TypeOK, MemoryOK, ThreadsOK
  <1>s. \A t \in Slots : key[t] # Empty => key'[t] = key[t]
    BY StableStep
  <1>1. CASE UNCHANGED <<rpc, rkey, rprobe>>
    BY <1>1, <1>t, <1>s, PassedStable, PosInSlots, TableAssumption DEF ReaderSeen
  <1>2. CASE \E k \in Keys : LookupStart(k)
    BY <1>2 DEF LookupStart, ReaderSeen, Passed
  <1>3. CASE LookupLoad
    <2>1. rkey \in Keys /\ Passed(key, rkey, rprobe) /\ key' = key
      BY <1>3, <1>t DEF LookupLoad, ReaderSeen, tabVars
    <2>2. CASE rpc' = "load"
      <3>1. rprobe' = rprobe + 1 /\ rkey' = rkey
            /\ key[Pos(rkey, rprobe)] \notin {Empty, rkey}
        BY <1>3, <2>2 DEF LookupLoad, LookupReturn
      <3> QED
        BY <2>1, <2>2, <3>1, <1>t, PassedNext DEF ReaderSeen
    <2>3. CASE rpc' # "load"
      BY <1>3, <2>1, <2>3 DEF LookupLoad, LookupReturn, ReaderSeen
    <2> QED
      BY <2>2, <2>3
  <1>4. CASE LookupCount \/ LookupMiss
    BY <1>4 DEF LookupCount, LookupMiss, LookupReturn, ReaderSeen
  <1>5. \/ UNCHANGED <<rpc, rkey, rprobe>>
        \/ \E k \in Keys : LookupStart(k)
        \/ ReaderStep
    BY DEF Next, WriterStep, RecordEnter, RecordLoad, RecordClaim, RecordAdd,
       RecordTotal, RecordGiveUp, TargetDies, SetCovBlock, rVars, vars
  <1> QED
    BY <1>1, <1>2, <1>3, <1>4, <1>5 DEF ReaderStep

\* Every step keeps the count of a free slot 0.
LEMMA FreeStep == IInv /\ [Next]_vars => FreeIsZero'
  <1> SUFFICES ASSUME IInv, [Next]_vars, NEW s \in Slots, key'[s] = Empty
               PROVE  count'[s] = 0
    BY DEF FreeIsZero
  <1>1. key[s] = Empty /\ count[s] = 0
    BY StableStep DEF IInv, FreeIsZero
  <1>2. CASE UNCHANGED count
    BY <1>1, <1>2
  <1>3. ASSUME NEW w \in Writers, RecordAdd(w) PROVE count'[s] = 0
    <2>1. s # Pos(wkey[w], probe[w])
      BY <1>1, <1>3, TableAssumption DEF RecordAdd, IInv, WriterSeen
    <2> QED
      BY <1>1, <1>3, <2>1 DEF RecordAdd, IInv, TypeOK, MemoryOK
  <1>4. UNCHANGED count \/ \E w \in Writers : RecordAdd(w)
    BY DEF Next, WriterStep, ReaderStep, RecordEnter, RecordLoad, RecordClaim,
       RecordTotal, RecordGiveUp, TargetDies, LookupStart, LookupLoad,
       LookupCount, LookupMiss, SetCovBlock, tabVars, vars
  <1> QED
    BY <1>2, <1>3, <1>4

\* The inductive invariant holds in every state of fcov_record and the lookups,
\* for every table size, probe limit, hash function and number of writers.
THEOREM Invariance == Spec => []IInv
  <1>1. IInv /\ [Next]_vars => IInv'
    BY TypeStep, ChainStep, WriterStepSeen, ReaderStepSeen, FreeStep DEF IInv
  <1> QED
    BY InitInv, <1>1, PTL DEF Spec

\* The variables of the table code always have their C types.
THEOREM TypeCorrect == Spec => []TypeOK
  BY Invariance, PTL DEF IInv

\* Every key in the table is reachable by the probe loop of fcov.cpp.
THEOREM ChainCorrect == Spec => []ProbeChain
  BY Invariance, PTL DEF IInv

\* ProbeChain and NoDuplicateKeys of a table with keys tab.
Chain(tab) ==
    \A s \in Slots : tab[s] # Empty =>
        \E i \in 0 .. MaxProbe - 1 : s = Pos(tab[s], i) /\ Passed(tab, tab[s], i)

Unique(tab) == \A s, t \in Slots : tab[s] = tab[t] /\ tab[s] # Empty => s = t

\* A table with unbroken probe chains holds no key twice.
LEMMA ChainUnique ==
    ASSUME NEW tab, Chain(tab)
    PROVE  Unique(tab)
  <1> SUFFICES ASSUME NEW s \in Slots, NEW t \in Slots,
                      tab[s] = tab[t], tab[s] # Empty
               PROVE  s = t
    BY DEF Unique
  <1> DEFINE k == tab[s]
  <1>1. PICK i \in 0 .. MaxProbe - 1 : s = Pos(k, i) /\ Passed(tab, k, i)
    BY DEF Chain
  <1>2. PICK j \in 0 .. MaxProbe - 1 : t = Pos(k, j) /\ Passed(tab, k, j)
    BY DEF Chain
  <1>3. ~ (i < j) /\ ~ (j < i)
    BY <1>1, <1>2, TableAssumption DEF Passed
  <1> QED
    BY <1>1, <1>2, <1>3, TableAssumption

\* Concurrent fcov_record calls never insert a key twice.
THEOREM KeysUnique == Spec => []NoDuplicateKeys
  <1>1. ProbeChain => NoDuplicateKeys
    BY ChainUnique DEF ProbeChain, NoDuplicateKeys, Chain, Unique
  <1> QED
    BY <1>1, ChainCorrect, PTL

\* fcov_record drops a hit only if its whole probe window holds other keys.
THEOREM DropsJustified == Spec => []GiveUpOnlyWhenFull
  <1>1. IInv => GiveUpOnlyWhenFull
    BY DEF IInv, WriterSeen, GiveUpOnlyWhenFull
  <1> QED
    BY <1>1, Invariance, PTL

\* No step of fcov_record moves, replaces or removes a stored key.
THEOREM KeysStable == Spec => KeysAreStable
  <1>1. IInv /\ [Next]_vars => [\A s \in Slots : key[s] # Empty => key'[s] = key[s]]_key
    BY StableStep
  <1> QED
    BY <1>1, Invariance, PTL DEF Spec, KeysAreStable

-----------------------------------------------------------------------------
(* The refinement.                                                           *)

\* Hits of a table with keys tab and counts cnt.
HitsIn(tab, cnt) ==
    [k \in Keys |-> IF \E s \in Slots : tab[s] = k
                    THEN cnt[CHOOSE s \in Slots : tab[s] = k]
                    ELSE 0]

\* The counter of a stored key is the count of its slot.
LEMMA HitsStored ==
    ASSUME NEW tab, NEW cnt, Unique(tab), NEW s \in Slots, tab[s] \in Keys
    PROVE  HitsIn(tab, cnt)[tab[s]] = cnt[s]
  <1>1. (CHOOSE t \in Slots : tab[t] = tab[s]) = s
    BY TableAssumption DEF Unique
  <1> QED
    BY <1>1 DEF HitsIn

\* The counter of a key that is not stored is 0.
LEMMA HitsAbsent ==
    ASSUME NEW tab, NEW cnt, NEW k \in Keys, \A s \in Slots : tab[s] # k
    PROVE  HitsIn(tab, cnt)[k] = 0
  BY DEF HitsIn

\* A lookup that meets a free slot, or runs out of probes, has not missed k.
LEMMA NotStored ==
    ASSUME ProbeChain, NEW k \in Keys, NEW n \in 0 .. MaxProbe,
           Passed(key, k, n), n = MaxProbe \/ key[Pos(k, n)] = Empty
    PROVE  \A s \in Slots : key[s] # k
  <1> SUFFICES ASSUME NEW s \in Slots, key[s] = k PROVE FALSE
    OBVIOUS
  <1>1. PICK i \in 0 .. MaxProbe - 1 : s = Pos(k, i) /\ Passed(key, k, i)
    BY TableAssumption DEF ProbeChain
  <1>2. ~ (i < n)
    BY <1>1, TableAssumption DEF Passed
  <1>3. i # n
    BY <1>1, TableAssumption
  <1>4. n < i
    BY <1>2, <1>3, TableAssumption
  <1> QED
    BY <1>1, <1>4, TableAssumption DEF Passed

\* A step changes the counters exactly as the abstract actions allow.
LEMMA HitsStep ==
    ASSUME IInv, IInv', [Next]_vars
    PROVE  /\ UNCHANGED count => Hits' = Hits
           /\ \A w \in Writers : RecordAdd(w) =>
                 Hits' = [Hits EXCEPT ![wkey[w]] = (@ + 1) % CountMod]
  <1>u. Unique(key) /\ Unique(key')
    BY ChainUnique DEF IInv, ProbeChain, Chain
  <1>t. /\ key \in [Slots -> Keys \cup {Empty}]
        /\ key' \in [Slots -> Keys \cup {Empty}]
        /\ count \in [Slots -> 0 .. CountMod - 1]
    BY DEF IInv, TypeOK, MemoryOK
  <1>s. \A t \in Slots : key[t] # Empty => key'[t] = key[t]
    BY StableStep
  <1>h. Hits = HitsIn(key, count) /\ Hits' = HitsIn(key', count')
    BY DEF Hits, HitsIn
  \* A key that was stored keeps its slot; a key that was not has count 0 still.
  <1>1. ASSUME NEW k \in Keys, NEW s \in Slots, key[s] = k
        PROVE  Hits[k] = count[s] /\ Hits'[k] = count'[s]
    BY <1>1, <1>u, <1>s, <1>h, HitsStored, TableAssumption
  <1>2. ASSUME NEW k \in Keys, \A s \in Slots : key[s] # k
        PROVE  Hits[k] = 0 /\ (UNCHANGED count => Hits'[k] = 0)
    <2>1. Hits[k] = 0
      BY <1>2, <1>h, HitsAbsent
    <2>2. CASE \A s \in Slots : key'[s] # k
      BY <2>1, <2>2, <1>h, HitsAbsent
    <2>3. ASSUME NEW s \in Slots, key'[s] = k, UNCHANGED count
          PROVE  Hits'[k] = 0
      <3>1. key[s] = Empty /\ count[s] = 0
        BY <1>2, <1>s, <1>t, <2>3 DEF IInv, FreeIsZero
      <3>2. Hits'[k] = count'[s]
        BY <1>u, <1>h, <2>3, HitsStored
      <3> QED
        BY <2>3, <3>1, <3>2
    <2> QED
      BY <2>1, <2>2, <2>3
  <1>3. ASSUME UNCHANGED count PROVE Hits' = Hits
    <2>1. ASSUME NEW k \in Keys PROVE Hits'[k] = Hits[k]
      BY <1>1, <1>2, <1>3
    <2> QED
      BY <2>1, <1>h, SMTT(30) DEF HitsIn
  <1>4. ASSUME NEW w \in Writers, RecordAdd(w)
        PROVE  Hits' = [Hits EXCEPT ![wkey[w]] = (@ + 1) % CountMod]
    <2> DEFINE p == Pos(wkey[w], probe[w])
    <2>1. /\ wkey[w] \in Keys /\ key[p] = wkey[w] /\ p \in Slots
          /\ key' = key
          /\ count' = [count EXCEPT ![p] = (@ + 1) % CountMod]
      <3>1. wkey[w] \in Keys /\ key[p] = wkey[w] /\ p \in Slots
        BY <1>4, PosInSlots, TableAssumption
        DEF RecordAdd, IInv, TypeOK, ThreadsOK, WriterSeen
      <3> QED
        BY <1>4, <3>1 DEF RecordAdd
    <2>2. Hits'[wkey[w]] = (Hits[wkey[w]] + 1) % CountMod
      BY <1>1, <1>t, <2>1
    <2>3. ASSUME NEW k \in Keys, k # wkey[w] PROVE Hits'[k] = Hits[k]
      <3>1. CASE \A s \in Slots : key[s] # k
        BY <2>1, <3>1, <1>h, HitsAbsent
      <3>2. ASSUME NEW s \in Slots, key[s] = k PROVE Hits'[k] = Hits[k]
        BY <1>1, <1>t, <2>1, <2>3, <3>2
      <3> QED
        BY <3>1, <3>2
    <2> HIDE DEF p
    <2> QED
      BY <2>1, <2>2, <2>3, <1>h, SMTT(30) DEF HitsIn
  <1> QED
    BY <1>3, <1>4

\* A fresh map is a set of zero counters.
LEMMA InitSim == Init => Counters!Init
  <1> SUFFICES ASSUME Init PROVE Counters!Init
    OBVIOUS
  <1>1. Hits = [k \in Keys |-> 0]
    BY TableAssumption DEF Init, Hits
  <1>2. Pending = [w \in Writers |-> Empty]
    BY DEF Init, Pending
  <1> QED
    BY <1>1, <1>2 DEF Init, Counters!Init

\* Every step of the table is a step of the counters or leaves them alone.
LEMMA StepSim == IInv /\ IInv' /\ [Next]_vars => [Counters!Next]_(Counters!vars)
  <1> SUFFICES ASSUME IInv, IInv', [Next]_vars
               PROVE  Counters!Next \/ UNCHANGED Counters!vars
    OBVIOUS
  <1>t. ThreadsOK
    BY DEF IInv, TypeOK
  <1>h. UNCHANGED count => Hits' = Hits
    BY HitsStep
  <1>p. UNCHANGED <<pc, wkey>> => Pending' = Pending
    BY DEF Pending
  <1> USE DEF tabVars, wVars, rVars, Counters!vars
  <1>1. ASSUME NEW w \in Writers, NEW k \in Keys, RecordEnter(w, k) PROVE Counters!Next
    <2>1. Pending[w] = Empty /\ Pending' = [Pending EXCEPT ![w] = k]
      BY <1>1, <1>t, Zenon DEF RecordEnter, Pending, ThreadsOK
    <2>2. Counters!Enter(w, k)
      BY <1>1, <1>h, <2>1 DEF RecordEnter, Counters!Enter
    <2> QED
      BY <2>2 DEF Counters!Next
  <1>2. ASSUME NEW w \in Writers, RecordLoad(w) \/ RecordClaim(w) \/ RecordTotal(w)
        PROVE  UNCHANGED Counters!vars
    <2>1. Pending' = Pending
      BY <1>2, <1>t DEF RecordLoad, RecordClaim, RecordTotal, RecordReturn, Pending, ThreadsOK
    <2> QED
      BY <1>2, <1>h, <2>1 DEF RecordLoad, RecordClaim, RecordTotal
  <1>3. ASSUME NEW w \in Writers, RecordAdd(w) PROVE Counters!Next
    <2>1. Pending[w] = wkey[w] /\ Pending' = [Pending EXCEPT ![w] = Empty]
      BY <1>3, <1>t, Zenon DEF RecordAdd, Pending, ThreadsOK
    <2>2. wkey[w] # Empty
      BY <1>3, TableAssumption DEF RecordAdd, IInv, WriterSeen
    <2>3. Counters!Add(w)
      BY <1>3, <2>1, <2>2, HitsStep, Zenon DEF RecordAdd, Counters!Add
    <2> QED
      BY <2>3 DEF Counters!Next
  <1>4. ASSUME NEW w \in Writers, RecordGiveUp(w) \/ TargetDies(w)
        PROVE  Counters!Next \/ UNCHANGED Counters!vars
    <2>1. UNCHANGED <<count, blocked, answer>> /\ Hits' = Hits
      BY <1>4, <1>h DEF RecordGiveUp, TargetDies
    <2>2. Pending' = [Pending EXCEPT ![w] = Empty]
      BY <1>4, <1>t, Zenon DEF RecordGiveUp, TargetDies, RecordReturn, Pending, ThreadsOK
    <2>3. CASE Pending[w] # Empty
      BY <2>1, <2>2, <2>3, Zenon DEF Counters!Next, Counters!Drop
    <2>4. CASE Pending[w] = Empty
      <3>1. Pending' = Pending
        BY <2>2, <2>4, Zenon DEF Pending
      <3> QED
        BY <2>1, <3>1
    <2> QED
      BY <2>3, <2>4
  <1>5. ASSUME NEW n, rpc # "idle", LookupReturn(n), UNCHANGED <<tabVars, blocked, wVars>>,
               n = Hits[rkey]
        PROVE  Counters!Next
    <2>1. rkey \in Keys
      BY <1>5, <1>t DEF IInv, ReaderSeen, ThreadsOK
    <2>2. Counters!Read(rkey)
      BY <1>5, <1>h, <1>p DEF LookupReturn, Counters!Read
    <2> QED
      BY <2>1, <2>2 DEF Counters!Next
  <1>6. ASSUME LookupLoad PROVE Counters!Next \/ UNCHANGED Counters!vars
    <2>1. CASE key[Pos(rkey, rprobe)] = Empty
      <3>1. rkey \in Keys /\ Passed(key, rkey, rprobe) /\ ProbeChain
        BY <1>6 DEF LookupLoad, IInv, ReaderSeen
      <3>2. \A s \in Slots : key[s] # rkey
        BY <2>1, <3>1, <1>t, NotStored DEF ThreadsOK
      <3>3. Hits[rkey] = 0
        BY <3>1, <3>2 DEF Hits
      <3>4. LookupReturn(0)
        BY <1>6, <2>1, <3>1, TableAssumption DEF LookupLoad
      <3> QED
        BY <1>5, <1>6, <3>3, <3>4 DEF LookupLoad
    <2>2. CASE key[Pos(rkey, rprobe)] # Empty
      BY <1>6, <2>2, <1>h, <1>p DEF LookupLoad
    <2> QED
      BY <2>1, <2>2
  <1>7. ASSUME LookupCount PROVE Counters!Next
    <2>1. /\ rkey \in Keys /\ Pos(rkey, rprobe) \in Slots
          /\ key[Pos(rkey, rprobe)] = rkey
      BY <1>7, <1>t, PosInSlots DEF LookupCount, IInv, ReaderSeen, ThreadsOK
    <2>2. Hits[rkey] = count[Pos(rkey, rprobe)]
      <3>1. Unique(key)
        BY ChainUnique DEF IInv, ProbeChain, Chain
      <3>2. Hits = HitsIn(key, count)
        BY DEF Hits, HitsIn
      <3> QED
        BY <2>1, <3>1, <3>2, HitsStored
    <2> QED
      BY <1>5, <1>7, <2>2 DEF LookupCount
  <1>8. ASSUME LookupMiss PROVE Counters!Next
    <2>1. rkey \in Keys /\ Passed(key, rkey, rprobe) /\ ProbeChain
      BY <1>8 DEF LookupMiss, IInv, ReaderSeen
    <2>2. \A s \in Slots : key[s] # rkey
      BY <1>8, <2>1, <1>t, NotStored DEF LookupMiss, ThreadsOK
    <2>3. Hits[rkey] = 0
      BY <2>1, <2>2 DEF Hits
    <2> QED
      BY <1>5, <1>8, <2>3 DEF LookupMiss
  <1>9. ASSUME NEW k \in Keys, LookupStart(k) PROVE UNCHANGED Counters!vars
    BY <1>9, <1>h, <1>p DEF LookupStart
  <1>10. ASSUME NEW b \in BOOLEAN, SetCovBlock(b) PROVE Counters!Next
    <2>1. Counters!SetBlocked(b)
      BY <1>10, <1>h, <1>p DEF SetCovBlock, Counters!SetBlocked
    <2> QED
      BY <2>1 DEF Counters!Next
  <1>11. ASSUME UNCHANGED vars PROVE UNCHANGED Counters!vars
    BY <1>11, <1>h, <1>p DEF vars
  <1> QED
    BY <1>1, <1>2, <1>3, <1>4, <1>6, <1>7, <1>8, <1>9, <1>10, <1>11
    DEF Next, WriterStep, ReaderStep

\* For every table and every interleaving, the table is a set of counters.
THEOREM Refinement == Spec => ImplementsCounters
  BY InitSim, StepSim, Invariance, PTL DEF Spec, ImplementsCounters, Counters!Spec

=============================================================================
