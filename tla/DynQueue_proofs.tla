-------------------------- MODULE DynQueue_proofs --------------------------
(***************************************************************************)
(* Proofs about DynQueue, for every set of drivers and seeds and any       *)
(* number of switches and inputs: the cursor never dangles, indices stay   *)
(* in range, and a switch puts the driver's own inputs first.              *)
(*                                                                         *)
(* The loops over seeds and over the queue are taken an iteration at a     *)
(* time, so what a loop has done so far is part of the invariant.          *)
(***************************************************************************)
EXTENDS DynQueue, FiniteSetTheorems, SequenceTheorems, TLAPS

Entry == [idx : Nat \ {0}, driver : Nat, imported : BOOLEAN, cov : Nat]

QueueType ==
    /\ queue \in Seq(Entry)
    /\ cursor \in Nat /\ dynfileqCnt \in Nat /\ maxCov \in Nat
    /\ IsFiniteSet(hashes)
    /\ run \in [driver : Nat, imported : BOOLEAN]
    /\ seeded \subseteq Drivers
    /\ iter \in Nat

\* Inputs come from static files, the empty input, or a seed of a driver whose
\* seeds were read.
Tags == {StaticTag, EmptyTag} \cup seeded

\* While its seeds are read, a driver has no other entries.
Tagged ==
    /\ run.driver \in Tags
    /\ \A i \in DOMAIN queue :
          queue[i].driver \in Tags \/ (place = "seeds" /\ queue[i].driver = incoming)

\* The driver that is switched to comes first among the first n entries.
OwnUpTo(n) ==
    \A i, j \in 1..n : i < j /\ queue[j].driver = incoming => queue[i].driver = incoming

\* It does so in all of the queue while seeds are put at its head, and up to the
\* iterator while inputs are moved there.
Fronted ==
    /\ place = "seeds" => incoming \in Drivers /\ OwnUpTo(Len(queue))
    /\ place = "prioritize" => iter \in 1..(Len(queue) + 1) /\ OwnUpTo(iter - 1)

QueueInv == QueueType /\ CursorInQueue /\ IndicesInBounds /\ Tagged /\ Fronted

(***************************************************************************)
(* What the operations on the queue return.                                *)
(***************************************************************************)

\* TAILQ_REMOVE closes the gap.
LEMMA Removed ==
    ASSUME NEW S, NEW q \in Seq(S), NEW i \in 1..Len(q)
    PROVE  /\ Remove(q, i) \in Seq(S)
           /\ Len(Remove(q, i)) = Len(q) - 1
           /\ \A j \in 1..(Len(q) - 1) :
                 Remove(q, i)[j] = IF j < i THEN q[j] ELSE q[j + 1]
<1> DEFINE a == SubSeq(q, 1, i - 1)
           b == SubSeq(q, i + 1, Len(q))
<1>1. a \in Seq(S) /\ Len(a) = i - 1 /\ \A j \in 1..(i - 1) : a[j] = q[j]
  BY SubSeqProperties
<1>2. b \in Seq(S) /\ Len(b) = Len(q) - i /\ \A j \in 1..(Len(q) - i) : b[j] = q[i + j]
  BY SubSeqProperties
<1>3. Remove(q, i) = a \o b
  BY DEF Remove
<1>4. /\ a \o b \in Seq(S)
      /\ Len(a \o b) = Len(a) + Len(b)
      /\ \A j \in 1..(Len(a) + Len(b)) :
            (a \o b)[j] = IF j <= Len(a) THEN a[j] ELSE b[j - Len(a)]
  BY <1>1, <1>2, ConcatProperties, Zenon
<1> HIDE DEF a, b
<1> QED
  BY <1>1, <1>2, <1>3, <1>4

\* TAILQ_INSERT_HEAD.
LEMMA Consed ==
    ASSUME NEW S, NEW q \in Seq(S), NEW e \in S
    PROVE  /\ <<e>> \o q \in Seq(S)
           /\ Len(<<e>> \o q) = Len(q) + 1
           /\ (<<e>> \o q)[1] = e
           /\ \A j \in 1..Len(q) : (<<e>> \o q)[j + 1] = q[j]
<1>1. <<e>> \in Seq(S) /\ Len(<<e>>) = 1 /\ <<e>>[1] = e
  OBVIOUS
<1> QED
  BY <1>1, ConcatProperties

\* TAILQ_INSERT_BEFORE and TAILQ_INSERT_TAIL make room.
LEMMA Inserted ==
    ASSUME NEW S, NEW q \in Seq(S), NEW e \in S, NEW i \in 1..(Len(q) + 1)
    PROVE  /\ InsertBefore(q, i, e) \in Seq(S)
           /\ Len(InsertBefore(q, i, e)) = Len(q) + 1
           /\ InsertBefore(q, i, e)[i] = e
           /\ \A j \in 1..Len(q) : InsertBefore(q, i, e)[IF j < i THEN j ELSE j + 1] = q[j]
           /\ \A j \in 1..(Len(q) + 1) :
                 InsertBefore(q, i, e)[j] = IF j < i THEN q[j] ELSE IF j = i THEN e ELSE q[j - 1]
<1> DEFINE a == SubSeq(q, 1, i - 1)
           b == SubSeq(q, i, Len(q))
           c == a \o <<e>>
<1>1. a \in Seq(S) /\ Len(a) = i - 1 /\ \A j \in 1..(i - 1) : a[j] = q[j]
  BY SubSeqProperties
<1>2. b \in Seq(S) /\ Len(b) = Len(q) + 1 - i
      /\ \A j \in 1..(Len(q) + 1 - i) : b[j] = q[i + j - 1]
  BY SubSeqProperties
<1>3. InsertBefore(q, i, e) = c \o b
  BY DEF InsertBefore
<1>4. <<e>> \in Seq(S) /\ Len(<<e>>) = 1 /\ <<e>>[1] = e
  OBVIOUS
<1> HIDE DEF a, b
<1>5. c \in Seq(S) /\ Len(c) = i
      /\ \A j \in 1..i : c[j] = IF j < i THEN q[j] ELSE e
  BY <1>1, <1>4, ConcatProperties
<1> HIDE DEF c
<1> DEFINE r == c \o b
<1>0. /\ Len(q) \in Nat /\ i \in Int /\ 1 <= i /\ i <= Len(q) + 1
      /\ i + (Len(q) + 1 - i) = Len(q) + 1
  BY LenProperties
<1>6. r \in Seq(S) /\ Len(r) = Len(q) + 1
      /\ \A j \in 1..(Len(q) + 1) : r[j] = IF j <= i THEN c[j] ELSE b[j - i]
  <2>1. /\ r \in Seq(S) /\ Len(r) = Len(c) + Len(b)
        /\ \A j \in 1..(Len(c) + Len(b)) :
              r[j] = IF j <= Len(c) THEN c[j] ELSE b[j - Len(c)]
    BY <1>2, <1>5, ConcatProperties, ZenonT(30)
  <2>2. Len(c) = i /\ Len(c) + Len(b) = Len(q) + 1
    BY <1>0, <1>2, <1>5, Zenon
  <2> HIDE DEF r
  <2> QED BY <2>1, <2>2, Zenon
<1> HIDE DEF r
<1>7. ASSUME NEW j \in 1..(Len(q) + 1)
      PROVE  r[j] = IF j < i THEN q[j] ELSE IF j = i THEN e ELSE q[j - 1]
  <2>1. CASE j <= i
    <3>1. j \in 1..i /\ r[j] = c[j]
      BY <1>0, <1>6, <2>1
    <3>2. j < i \/ j = i
      BY <1>0, <2>1
    <3>3. ~(i < i)
      BY <1>0
    <3> QED BY <1>5, <3>1, <3>2, <3>3, Zenon
  <2>2. CASE ~(j <= i)
    <3>1. /\ j - i \in 1..(Len(q) + 1 - i) /\ i + (j - i) - 1 = j - 1
          /\ ~(j < i) /\ j # i
      BY <1>0, <2>2
    <3>2. r[j] = b[j - i] /\ b[j - i] = q[i + (j - i) - 1]
      BY <1>2, <1>6, <2>2, <3>1, Zenon
    <3> QED BY <3>1, <3>2, Zenon
  <2> QED BY <2>1, <2>2
<1>8. ASSUME NEW j \in 1..Len(q) PROVE r[IF j < i THEN j ELSE j + 1] = q[j]
  <2>1. CASE j < i
    <3>1. j \in 1..(Len(q) + 1)
      BY <1>0
    <3> QED BY <1>7, <2>1, <3>1, Zenon
  <2>2. CASE ~(j < i)
    <3>1. j + 1 \in 1..(Len(q) + 1) /\ ~(j + 1 < i) /\ j + 1 # i /\ (j + 1) - 1 = j
      BY <1>0, <2>2
    <3>2. r[j + 1] = q[(j + 1) - 1]
      BY <1>7, <3>1, Zenon
    <3> QED BY <2>2, <3>1, <3>2, Zenon
  <2> QED BY <2>1, <2>2
<1>9. r[i] = e
  <2>1. i \in 1..(Len(q) + 1) /\ ~(i < i)
    BY <1>0
  <2> QED BY <1>7, <2>1, Zenon
<1>10. InsertBefore(q, i, e) = r
  BY <1>3, Zenon DEF r
<1> QED
  BY <1>6, <1>7, <1>8, <1>9, <1>10, Zenon

\* TAILQ_REMOVE and TAILQ_INSERT_HEAD of one entry.
LEMMA Moved ==
    ASSUME NEW S, NEW q \in Seq(S), NEW i \in 1..Len(q)
    PROVE  LET r == <<q[i]>> \o Remove(q, i)
           IN  /\ r \in Seq(S)
               /\ Len(r) = Len(q)
               /\ \A j \in 1..Len(q) :
                     r[j] = IF j = 1 THEN q[i] ELSE IF j <= i THEN q[j - 1] ELSE q[j]
<1> DEFINE r == <<q[i]>> \o Remove(q, i)
<1>1. q[i] \in S
  BY ElementOfSeq
<1>2. /\ Remove(q, i) \in Seq(S)
      /\ Len(Remove(q, i)) = Len(q) - 1
      /\ \A j \in 1..(Len(q) - 1) : Remove(q, i)[j] = IF j < i THEN q[j] ELSE q[j + 1]
  BY Removed
<1>3. r \in Seq(S) /\ Len(r) = Len(q) /\ r[1] = q[i]
      /\ \A j \in 1..(Len(q) - 1) : r[j + 1] = Remove(q, i)[j]
  BY <1>1, <1>2, Consed
<1>4. ASSUME NEW j \in 1..Len(q), j # 1
      PROVE  r[j] = IF j <= i THEN q[j - 1] ELSE q[j]
  <2>1. j - 1 \in 1..(Len(q) - 1) /\ (j - 1) + 1 = j
    BY <1>4
  <2> HIDE DEF r
  <2>2. r[j] = Remove(q, i)[j - 1]
    BY <1>3, <2>1
  <2>3. Remove(q, i)[j - 1] = IF j - 1 < i THEN q[j - 1] ELSE q[(j - 1) + 1]
    BY <1>2, <2>1, Zenon
  <2> QED
    BY <2>1, <2>2, <2>3
<1> HIDE DEF r
<1>5. \A j \in 1..Len(q) :
         r[j] = IF j = 1 THEN q[i] ELSE IF j <= i THEN q[j - 1] ELSE q[j]
  BY <1>3, <1>4
<1> QED
  BY <1>3, <1>5 DEF r

(***************************************************************************)
(* The invariant.                                                          *)
(***************************************************************************)

\* The queue as a function.
LEMMA Indexed ==
    ASSUME QueueType
    PROVE  /\ Len(queue) \in Nat
           /\ DOMAIN queue = 1..Len(queue)
           /\ \A i \in 1..Len(queue) : queue[i] \in Entry
BY LenProperties, ElementOfSeq DEF QueueType

\* TAILQ_FIRST is null or the first entry.
LEMMA FirstIn ==
    ASSUME QueueType, First(queue) # Null
    PROVE  1 \in 1..Len(queue) /\ First(queue) = queue[1].idx
<1>1. queue # <<>>
  BY DEF First
<1>2. Len(queue) # 0
  BY <1>1, EmptySeq DEF QueueType
<1> QED
  BY <1>1, <1>2, Indexed DEF First

\* The cursor goes to the successor of an entry, or to the end.
LEMMA SuccessorIn ==
    ASSUME QueueType, NEW i \in DOMAIN queue
    PROVE  /\ Successor(i) \in Nat
           /\ Successor(i) # Null =>
                 i + 1 \in 1..Len(queue) /\ Successor(i) = queue[i + 1].idx
<1>1. i \in 1..Len(queue) /\ Len(queue) \in Nat
  BY Indexed
<1>2. i < Len(queue) => i + 1 \in 1..Len(queue)
  BY <1>1
<1>3. i < Len(queue) => queue[i + 1].idx \in Nat
  BY <1>2, Indexed DEF Entry
<1> QED
  BY <1>2, <1>3 DEF Successor, Null

\* input_addDynamicInput keeps the cursor on its entry and the indices in range;
\* the tags in the queue are the old ones and that of the input.
LEMMA Added ==
    ASSUME QueueInv, UNCHANGED <<cursor, hashes>>,
           NEW e \in [idx : Nat, driver : Nat, imported : BOOLEAN, cov : Nat],
           AddDynamicInput(e)
    PROVE  /\ queue' \in Seq(Entry) /\ dynfileqCnt' \in Nat /\ maxCov' \in Nat
           /\ CursorInQueue' /\ IndicesInBounds'
           /\ \A j \in DOMAIN queue' :
                 queue'[j].driver = e.driver
                 \/ \E k \in DOMAIN queue : queue'[j].driver = queue[k].driver
<1> DEFINE n == dynfileqCnt + 1
           f == [e EXCEPT !.idx = n]
<1>1. PICK i \in 1..(Len(queue) + 1) : queue' = InsertBefore(queue, i, f)
  BY DEF AddDynamicInput
<1>0. queue \in Seq(Entry) /\ dynfileqCnt \in Nat /\ maxCov \in Nat
  BY DEF QueueInv, QueueType
<1>2. n \in Nat \ {0} /\ f \in Entry /\ f.idx = n /\ f.driver = e.driver /\ f.cov = e.cov
  <2>1. n \in Nat \ {0}
    BY <1>0
  <2> HIDE DEF n
  <2> QED
    BY <2>1 DEF Entry
<1>3. dynfileqCnt' = n /\ maxCov' \in Nat /\ maxCov <= maxCov' /\ e.cov <= maxCov'
  BY <1>0 DEF AddDynamicInput
<1>4. /\ Len(queue) \in Nat
      /\ DOMAIN queue = 1..Len(queue)
      /\ \A j \in 1..Len(queue) :
            queue[j] \in Entry /\ queue[j].idx <= dynfileqCnt /\ queue[j].cov <= maxCov
  BY Indexed DEF QueueInv, IndicesInBounds
<1> HIDE DEF f
<1>5. /\ queue' \in Seq(Entry)
      /\ Len(queue') = Len(queue) + 1
      /\ queue'[i] = f
      /\ \A j \in 1..Len(queue) : queue'[IF j < i THEN j ELSE j + 1] = queue[j]
      /\ \A j \in 1..(Len(queue) + 1) :
            queue'[j] = IF j < i THEN queue[j] ELSE IF j = i THEN f ELSE queue[j - 1]
  <2> DEFINE r == InsertBefore(queue, i, f)
  <2>1. /\ r \in Seq(Entry)
        /\ Len(r) = Len(queue) + 1
        /\ r[i] = f
        /\ \A j \in 1..Len(queue) : r[IF j < i THEN j ELSE j + 1] = queue[j]
        /\ \A j \in 1..(Len(queue) + 1) :
              r[j] = IF j < i THEN queue[j] ELSE IF j = i THEN f ELSE queue[j - 1]
    <3>1. f \in Entry
      BY <1>2
    <3> QED
      BY <1>0, <3>1, Inserted
  <2> QED
    BY <1>1, <2>1, Zenon
<1>6. DOMAIN queue' = 1..(Len(queue) + 1)
  BY <1>5, LenProperties
<1>7. ASSUME NEW j \in DOMAIN queue'
      PROVE  \/ j = i /\ queue'[j] = f
             \/ j < i /\ j \in DOMAIN queue /\ queue'[j] = queue[j]
             \/ j > i /\ j - 1 \in DOMAIN queue /\ queue'[j] = queue[j - 1]
  BY <1>4, <1>5, <1>6
<1>8. \A j, k \in DOMAIN queue' : queue'[j].idx = queue'[k].idx => j = k
  <2> SUFFICES ASSUME NEW j \in DOMAIN queue', NEW k \in DOMAIN queue',
                      queue'[j].idx = queue'[k].idx
               PROVE  j = k
    OBVIOUS
  <2>1. \A x, y \in DOMAIN queue : queue[x].idx = queue[y].idx => x = y
    BY DEF QueueInv, CursorInQueue
  <2>2. \A x \in DOMAIN queue : queue[x].idx # n
    BY <1>4 DEF QueueInv, QueueType, Entry
  <2> HIDE DEF n
  <2>3. CASE j = i \/ k = i
    BY <2>3, <1>2, <1>7, <2>2
  <2>4. CASE j # i /\ k # i
    <3> DEFINE p(x) == IF x < i THEN x ELSE x - 1
    <3>0. ASSUME NEW x \in DOMAIN queue', x # i
          PROVE  p(x) \in DOMAIN queue /\ queue'[x] = queue[p(x)]
      <4>1. x \in Int /\ i \in Int
        BY <1>4, <1>6
      <4>2. CASE x < i
        BY <1>7, <4>1, <4>2
      <4>3. CASE ~(x < i)
        <5>1. x > i
          BY <3>0, <4>1, <4>3
        <5>2. x - 1 \in DOMAIN queue /\ queue'[x] = queue[x - 1]
          BY <1>7, <4>1, <5>1
        <5> QED
          BY <4>3, <5>2, Zenon
      <4> QED
        BY <4>2, <4>3
    <3>1. p(j) \in DOMAIN queue /\ queue'[j] = queue[p(j)]
      BY <2>4, <3>0
    <3>2. p(k) \in DOMAIN queue /\ queue'[k] = queue[p(k)]
      BY <2>4, <3>0
    <3>3. p(j) = p(k)
      <4> HIDE DEF p
      <4> QED
        BY <2>1, <3>1, <3>2
    <3> QED
      BY <1>4, <1>6, <2>4, <3>3
  <2> QED
    BY <2>3, <2>4
<1>9. ASSUME cursor # Null
      PROVE  \E k \in DOMAIN queue' : queue'[k].idx = cursor
  <2>1. PICK j \in DOMAIN queue : queue[j].idx = cursor
    BY <1>9 DEF QueueInv, CursorInQueue, Idxs
  <2>2. (IF j < i THEN j ELSE j + 1) \in DOMAIN queue'
    BY <1>4, <1>6
  <2> QED
    BY <1>4, <1>5, <2>1, <2>2
<1>10. CursorInQueue'
  BY <1>8, <1>9 DEF CursorInQueue, Idxs
<1>11. \A j \in DOMAIN queue' : queue'[j].idx <= n /\ queue'[j].cov <= maxCov'
  <2> SUFFICES ASSUME NEW j \in DOMAIN queue'
               PROVE  queue'[j].idx <= n /\ queue'[j].cov <= maxCov'
    OBVIOUS
  <2>1. f.idx <= n /\ f.cov <= maxCov'
    <3> HIDE DEF n
    <3> QED
      BY <1>2, <1>3
  <2>2. ASSUME NEW k \in DOMAIN queue
        PROVE  queue[k].idx <= n /\ queue[k].cov <= maxCov'
    <3>1. queue[k].idx \in Nat /\ queue[k].cov \in Nat
      BY <1>4, SMTT(30) DEF Entry
    <3>2. queue[k].idx <= dynfileqCnt /\ queue[k].cov <= maxCov
      BY <1>4
    <3> QED
      BY <1>0, <1>3, <3>1, <3>2, SMTT(30)
  <2> QED
    BY <1>7, <2>1, <2>2, Zenon
<1>12. IndicesInBounds'
  BY <1>3, <1>11 DEF IndicesInBounds, QueueInv
<1> QED
  BY <1>2, <1>3, <1>5, <1>7, <1>10, <1>12, SMTT(30)

\* Steps that leave the entries alone.
LEMMA Still ==
    ASSUME QueueInv, UNCHANGED <<queue, dynfileqCnt, maxCov, hashes>>,
           cursor' # Null => \E k \in DOMAIN queue : queue[k].idx = cursor'
    PROVE  CursorInQueue' /\ IndicesInBounds'
<1>1. CursorInQueue'
  BY Zenon DEF QueueInv, CursorInQueue, Idxs
<1>2. IndicesInBounds'
  BY DEF QueueInv, IndicesInBounds
<1> QED
  BY <1>1, <1>2

\* A cursor that is not null is on an entry.
LEMMA CursorAt ==
    ASSUME QueueInv, cursor # Null
    PROVE  \E k \in DOMAIN queue : queue[k].idx = cursor
BY DEF QueueInv, CursorInQueue, Idxs

\* So is the entry the selection loop starts with.
LEMMA HereIn ==
    ASSUME QueueInv
    PROVE  /\ Here \in Nat
           /\ Here # Null => \E k \in DOMAIN queue : queue[k].idx = Here
<1>1. QueueType /\ cursor \in Nat
  BY DEF QueueInv, QueueType
<1>2. CASE cursor # Null
  BY <1>1, <1>2, CursorAt DEF Here
<1>3. CASE cursor = Null /\ First(queue) # Null
  <2>1. 1 \in DOMAIN queue /\ queue[1] \in Entry /\ First(queue) = queue[1].idx
    BY <1>1, <1>3, FirstIn, Indexed
  <2> QED
    BY <1>3, <2>1 DEF Here, Entry
<1>4. CASE cursor = Null /\ First(queue) = Null
  BY <1>4 DEF Here, Null
<1> QED
  BY <1>2, <1>3, <1>4

\* A switch begins: the seeds of a new driver are not in the queue yet.
LEMMA SwitchKeeps ==
    ASSUME QueueInv, NEW d \in Drivers, SwitchDriver(d)
    PROVE  QueueInv'
<1> USE DynQueueAssumption
<1>1. QueueType'
  BY DEF QueueInv, QueueType, SwitchDriver, qvars
<1>2. CursorInQueue' /\ IndicesInBounds'
  BY Still, CursorAt DEF SwitchDriver, qvars
<1>3. Tagged'
  BY DEF QueueInv, Tagged, Tags, SwitchDriver, qvars
<1>4. Fronted'
  <2>1. queue' = queue /\ incoming' = d /\ Len(queue) \in Nat /\ DOMAIN queue = 1..Len(queue)
    BY Indexed DEF QueueInv, SwitchDriver, qvars
  <2>2. CASE place' = "seeds"
    <3>1. d \notin seeded
      BY <2>2 DEF SwitchDriver
    <3>2. d \notin Tags
      BY <3>1 DEF Tags, StaticTag, EmptyTag
    <3>3. \A i \in DOMAIN queue : queue[i].driver # d
      BY <3>2 DEF QueueInv, Tagged, SwitchDriver
    <3> QED
      BY <2>1, <2>2, <3>3 DEF Fronted, OwnUpTo
  <2>3. CASE place' = "prioritize"
    <3>1. iter' = 1
      BY <2>3 DEF SwitchDriver
    <3> QED
      BY <2>1, <2>3, <3>1 DEF Fronted, OwnUpTo
  <2> QED
    BY <2>2, <2>3 DEF Fronted
<1> QED
  BY <1>1, <1>2, <1>3, <1>4 DEF QueueInv

\* A driver's seed at the head of the queue.
LEMMA SeedKeeps ==
    ASSUME QueueInv, NEW c \in Contents, AddDriverSeed(c)
    PROVE  QueueInv'
<1> USE DynQueueAssumption
<1>0. /\ queue \in Seq(Entry) /\ dynfileqCnt \in Nat /\ maxCov \in Nat /\ IsFiniteSet(hashes)
      /\ QueueType
  BY DEF QueueInv, QueueType
<1>1. place = "seeds" /\ place' = "seeds" /\ incoming' = incoming /\ incoming \in Drivers
      /\ incoming \in Nat
      /\ UNCHANGED <<maxCov, seeded, run, iter>>
  BY DEF AddDriverSeed, QueueInv, Fronted
<1>2. CASE c \in hashes
  <2>1. UNCHANGED <<queue, cursor, dynfileqCnt, hashes>>
    BY <1>2 DEF AddDriverSeed, qvars
  <2>2. QueueType' /\ Tagged' /\ Fronted'
    BY <1>1, <2>1 DEF QueueInv, QueueType, Tagged, Tags, Fronted, OwnUpTo
  <2>3. CursorInQueue' /\ IndicesInBounds'
    BY <1>1, <2>1, Still, CursorAt
  <2> QED
    BY <2>2, <2>3 DEF QueueInv
<1>3. CASE c \notin hashes
  <2> DEFINE n == dynfileqCnt + 1
             f == [idx |-> n, driver |-> incoming, imported |-> TRUE, cov |-> 0]
  <2>1. /\ queue' = <<f>> \o queue /\ cursor' = n /\ dynfileqCnt' = n
        /\ hashes' = IF Cardinality(hashes) < MaxHashes THEN hashes \cup {c} ELSE hashes
    BY <1>3, Zenon DEF AddDriverSeed
  <2>2. n \in Nat \ {0} /\ n > dynfileqCnt
    BY <1>0
  <2>3. f \in Entry /\ f.idx = n /\ f.driver = incoming /\ f.cov = 0
    <3> HIDE DEF n
    <3> QED
      BY <1>1, <2>2 DEF Entry
  <2>4. /\ Len(queue) \in Nat
        /\ DOMAIN queue = 1..Len(queue)
        /\ \A j \in 1..Len(queue) : queue[j] \in Entry
    BY <1>0, Indexed
  <2> HIDE DEF f
  <2>5. /\ queue' \in Seq(Entry) /\ Len(queue') = Len(queue) + 1
        /\ queue'[1] = f
        /\ \A j \in 1..Len(queue) : queue'[j + 1] = queue[j]
    BY <1>0, <2>1, <2>3, Consed
  <2>6. DOMAIN queue' = 1..(Len(queue) + 1)
    BY <2>5, LenProperties
  <2>7. ASSUME NEW j \in DOMAIN queue'
        PROVE  \/ j = 1 /\ queue'[j] = f
               \/ j > 1 /\ j - 1 \in DOMAIN queue /\ queue'[j] = queue[j - 1]
    <3>1. j \in 1..(Len(queue) + 1)
      BY <2>6
    <3>2. CASE j # 1
      <4>1. j > 1 /\ j - 1 \in 1..Len(queue) /\ (j - 1) + 1 = j
        BY <2>4, <3>1, <3>2
      <4> QED
        BY <2>4, <2>5, <4>1
    <3> QED
      BY <2>5, <3>2
  <2>8. \A k \in DOMAIN queue : queue[k].idx \in Nat /\ queue[k].idx <= dynfileqCnt
                                /\ queue[k].cov \in Nat /\ queue[k].cov <= maxCov
    BY <2>4 DEF QueueInv, IndicesInBounds, Entry
  <2>9. \A k \in DOMAIN queue : queue[k].idx # n
    BY <1>0, <2>8
  <2>10. \A j, k \in DOMAIN queue' : queue'[j].idx = queue'[k].idx => j = k
    <3> SUFFICES ASSUME NEW j \in DOMAIN queue', NEW k \in DOMAIN queue',
                        queue'[j].idx = queue'[k].idx
                 PROVE  j = k
      OBVIOUS
    <3> HIDE DEF n
    <3>1. CASE j = 1 \/ k = 1
      BY <2>3, <2>7, <2>9, <3>1
    <3>2. CASE j # 1 /\ k # 1
      <4>1. j - 1 \in DOMAIN queue /\ k - 1 \in DOMAIN queue
            /\ queue[j - 1].idx = queue[k - 1].idx
        BY <2>7, <3>2
      <4>2. j - 1 = k - 1
        BY <4>1 DEF QueueInv, CursorInQueue
      <4> QED
        BY <2>4, <2>6, <4>2
    <3> QED
      BY <3>1, <3>2
  <2>11. CursorInQueue'
    <3>1. 1 \in DOMAIN queue' /\ queue'[1].idx = cursor'
      BY <2>1, <2>3, <2>4, <2>5, <2>6, SMTT(30)
    <3> QED
      BY <2>10, <3>1 DEF CursorInQueue, Idxs
  <2>12. IsFiniteSet(hashes') /\ Cardinality(hashes') <= MaxHashes
    <3>1. Cardinality(hashes) \in Nat /\ Cardinality(hashes) <= MaxHashes
      BY <1>0, FS_CardinalityType DEF QueueInv, IndicesInBounds
    <3>2. IsFiniteSet(hashes \cup {c}) /\ Cardinality(hashes \cup {c}) = Cardinality(hashes) + 1
      BY <1>0, <1>3, FS_AddElement
    <3>3. MaxHashes \in Nat
      OBVIOUS
    <3> QED
      BY <1>0, <2>1, <3>1, <3>2, <3>3
  <2>13. IndicesInBounds'
    <3>1. ASSUME NEW j \in DOMAIN queue'
          PROVE  queue'[j].idx <= n /\ queue'[j].cov <= maxCov
      <4>1. f.idx <= n /\ f.cov <= maxCov
        BY <1>0, <2>2, <2>3
      <4>2. \A k \in DOMAIN queue : queue[k].idx <= n /\ queue[k].cov <= maxCov
        BY <1>0, <2>8, SMTT(30)
      <4> QED
        BY <2>7, <4>1, <4>2, Zenon
    <3> QED
      BY <1>1, <2>1, <2>12, <3>1 DEF IndicesInBounds
  <2>14. QueueType'
    BY <1>1, <2>1, <2>2, <2>5, <2>12 DEF QueueInv, QueueType
  <2>15. Tagged'
    BY <1>1, <2>3, <2>7 DEF QueueInv, Tagged, Tags
  <2>16. Fronted'
    <3> SUFFICES ASSUME NEW i \in 1..(Len(queue) + 1), NEW j \in 1..(Len(queue) + 1),
                        i < j, queue'[j].driver = incoming
                 PROVE  queue'[i].driver = incoming
      BY <1>1, <2>5 DEF Fronted, OwnUpTo
    <3>1. j - 1 \in 1..Len(queue) /\ queue'[j] = queue[j - 1]
      BY <2>4, <2>6, <2>7
    <3>2. CASE i = 1
      BY <2>3, <2>5, <3>2
    <3>3. CASE i # 1
      <4>1. i - 1 \in 1..Len(queue) /\ queue'[i] = queue[i - 1] /\ i - 1 < j - 1
        BY <2>4, <2>6, <2>7, <3>3, SMTT(30)
      <4> QED
        BY <1>1, <3>1, <4>1 DEF QueueInv, Fronted, OwnUpTo
    <3> QED
      BY <3>2, <3>3
  <2> QED
    BY <2>11, <2>13, <2>14, <2>15, <2>16 DEF QueueInv
<1> QED
  BY <1>2, <1>3

\* All seeds are read.
LEMMA SeedsAddedKeeps ==
    ASSUME QueueInv, SeedsAdded
    PROVE  QueueInv'
<1>0. UNCHANGED <<queue, cursor, dynfileqCnt, maxCov, hashes, run, iter>>
      /\ place = "seeds" /\ place' = "fetch"
      /\ seeded' = seeded \cup {incoming} /\ incoming \in Drivers
  BY DEF SeedsAdded, qvars, QueueInv, Fronted
<1>1. QueueType'
  BY <1>0 DEF QueueInv, QueueType
<1>2. CursorInQueue' /\ IndicesInBounds'
  BY <1>0, Still, CursorAt
<1>3. Tagged' /\ Fronted'
  BY <1>0 DEF QueueInv, Tagged, Tags, Fronted
<1> QED
  BY <1>1, <1>2, <1>3 DEF QueueInv

\* An entry that goes to the head.
LEMMA PrioritizeKeeps ==
    ASSUME QueueInv, PrioritizeSeed
    PROVE  QueueInv'
<1>0. /\ place = "prioritize" /\ place' = "prioritize"
      /\ UNCHANGED <<cursor, dynfileqCnt, maxCov, hashes, run, seeded, incoming>>
      /\ iter <= Len(queue) /\ iter' = iter + 1
      /\ iter \in 1..(Len(queue) + 1) /\ OwnUpTo(iter - 1)
      /\ queue \in Seq(Entry) /\ QueueType
  BY DEF PrioritizeSeed, QueueInv, QueueType, Fronted
<1>1. /\ Len(queue) \in Nat
      /\ DOMAIN queue = 1..Len(queue)
      /\ \A j \in 1..Len(queue) : queue[j] \in Entry
  BY <1>0, Indexed
<1>2. iter \in 1..Len(queue) /\ iter' \in 1..(Len(queue) + 1) /\ iter' - 1 = iter
  BY <1>0, <1>1
<1>3. CASE queue[iter].driver # incoming
  <2>1. queue' = queue
    BY <1>3 DEF PrioritizeSeed
  <2>2. QueueType' /\ Tagged'
    BY <1>0, <1>2, <2>1 DEF QueueInv, QueueType, Tagged, Tags
  <2>3. CursorInQueue' /\ IndicesInBounds'
    BY <1>0, <2>1, Still, CursorAt
  <2>4. ASSUME NEW i \in 1..iter, NEW j \in 1..iter, i < j, queue[j].driver = incoming
        PROVE  queue[i].driver = incoming
    <3>1. j # iter
      BY <1>3, <2>4
    <3>2. i \in 1..(iter - 1) /\ j \in 1..(iter - 1)
      BY <1>2, <2>4, <3>1
    <3> QED
      BY <1>0, <2>4, <3>2 DEF OwnUpTo
  <2>5. Fronted'
    BY <1>0, <1>2, <2>1, <2>4 DEF Fronted, OwnUpTo
  <2> QED
    BY <2>2, <2>3, <2>5 DEF QueueInv
<1>4. CASE queue[iter].driver = incoming
  <2> DEFINE r == <<queue[iter]>> \o Remove(queue, iter)
  <2>1. queue' = r
    BY <1>4 DEF PrioritizeSeed
  <2>2. /\ r \in Seq(Entry)
        /\ Len(r) = Len(queue)
        /\ \A j \in 1..Len(queue) :
              r[j] = IF j = 1 THEN queue[iter] ELSE IF j <= iter THEN queue[j - 1] ELSE queue[j]
    <3>1. queue \in Seq(Entry) /\ iter \in 1..Len(queue)
      BY <1>0, <1>2
    <3> HIDE DEF r
    <3> QED BY <3>1, Moved, ZenonT(30) DEF r
  <2> HIDE DEF r
  <2>3. DOMAIN queue' = DOMAIN queue
    BY <1>1, <2>1, <2>2, LenProperties
  <2>4. ASSUME NEW j \in DOMAIN queue'
        PROVE  \/ j = 1 /\ queue'[j] = queue[iter]
               \/ j > 1 /\ j <= iter /\ j - 1 \in DOMAIN queue /\ queue'[j] = queue[j - 1]
               \/ j > iter /\ queue'[j] = queue[j]
    BY <1>1, <1>2, <2>1, <2>2, <2>3, SMTT(30)
  <2>5. ASSUME NEW k \in DOMAIN queue
        PROVE  \E j \in DOMAIN queue' : queue'[j] = queue[k]
    <3>1. CASE k = iter
      <4>1. 1 \in 1..Len(queue)
        BY <1>1, <1>2
      <4> QED
        BY <1>1, <2>1, <2>2, <2>3, <3>1, <4>1
    <3>2. CASE k < iter
      <4>1. k + 1 \in 1..Len(queue) /\ k + 1 # 1 /\ k + 1 <= iter /\ (k + 1) - 1 = k
        BY <1>1, <1>2, <3>2
      <4>2. r[k + 1] = queue[k]
        BY <2>2, <4>1
      <4> QED
        BY <1>1, <2>1, <2>3, <4>1, <4>2
    <3>3. CASE k > iter
      <4>1. k \in 1..Len(queue) /\ k # 1 /\ ~(k <= iter)
        BY <1>1, <1>2, <3>3
      <4>2. r[k] = queue[k]
        BY <2>2, <4>1
      <4> QED
        BY <2>1, <2>3, <4>2
    <3> QED
      BY <1>1, <1>2, <3>1, <3>2, <3>3
  <2>6. \A j, k \in DOMAIN queue' : queue'[j].idx = queue'[k].idx => j = k
    <3> SUFFICES ASSUME NEW j \in DOMAIN queue', NEW k \in DOMAIN queue',
                        queue'[j].idx = queue'[k].idx
                 PROVE  j = k
      OBVIOUS
    <3>1. \A x, y \in DOMAIN queue : queue[x].idx = queue[y].idx => x = y
      BY DEF QueueInv, CursorInQueue
    <3> DEFINE p(x) == IF x = 1 THEN iter ELSE IF x <= iter THEN x - 1 ELSE x
    <3>2. p(j) \in DOMAIN queue /\ p(k) \in DOMAIN queue
      BY <1>1, <1>2, <2>3
    <3>3. queue'[j] = queue[p(j)] /\ queue'[k] = queue[p(k)]
      BY <2>4, <1>1, <1>2, <2>3
    <3>4. p(j) = p(k)
      <4> HIDE DEF p
      <4> QED
        BY <3>1, <3>2, <3>3
    <3> QED
      BY <1>1, <1>2, <2>3, <3>4
  <2>7. CursorInQueue'
    <3>1. ASSUME cursor # Null
          PROVE  \E j \in DOMAIN queue' : queue'[j].idx = cursor
      BY <2>5, <3>1, CursorAt
    <3> QED
      BY <1>0, <2>6, <3>1 DEF CursorInQueue, Idxs
  <2>8. ASSUME NEW j \in DOMAIN queue'
        PROVE  \E k \in DOMAIN queue : queue'[j] = queue[k]
    BY <1>1, <1>2, <2>3, <2>4
  <2>9. IndicesInBounds'
    BY <1>0, <2>8 DEF QueueInv, IndicesInBounds
  <2>10. QueueType'
    BY <1>0, <1>2, <2>1, <2>2 DEF QueueType
  <2>11. Tagged'
    BY <1>0, <2>8 DEF QueueInv, Tagged, Tags
  <2>12. ASSUME NEW i \in 1..iter, NEW j \in 1..iter, i < j, queue'[j].driver = incoming
         PROVE  queue'[i].driver = incoming
    <3>1. i \in DOMAIN queue' /\ j \in DOMAIN queue'
      BY <1>1, <1>2, <2>3
    <3>2. j - 1 \in 1..(iter - 1) /\ queue'[j] = queue[j - 1]
      BY <1>2, <2>4, <2>12, <3>1
    <3>3. CASE i = 1
      BY <1>2, <1>4, <2>4, <3>1, <3>3
    <3>4. CASE i # 1
      <4>1. i - 1 \in 1..(iter - 1) /\ i - 1 < j - 1 /\ queue'[i] = queue[i - 1]
        BY <1>2, <2>4, <2>12, <3>1, <3>4, SMTT(30)
      <4> QED
        BY <1>0, <2>12, <3>2, <4>1, SMTT(30) DEF OwnUpTo
    <3> QED
      BY <3>3, <3>4
  <2>13. Fronted'
    BY <1>0, <1>2, <2>1, <2>2, <2>12 DEF Fronted, OwnUpTo
  <2> QED
    BY <2>7, <2>9, <2>10, <2>11, <2>13 DEF QueueInv
<1> QED
  BY <1>3, <1>4

\* All entries are visited; the cursor goes to the head.
LEMMA SeedsPrioritizedKeeps ==
    ASSUME QueueInv, SeedsPrioritized
    PROVE  QueueInv'
<1>0. UNCHANGED <<queue, dynfileqCnt, maxCov, hashes, run, seeded, incoming>>
      /\ place = "prioritize" /\ place' = "fetch"
      /\ cursor' = First(queue) /\ iter' = 0 /\ QueueType
  BY DEF SeedsPrioritized, QueueInv
<1>1. First(queue) \in Nat
      /\ (First(queue) # Null => \E k \in DOMAIN queue : queue[k].idx = First(queue))
  <2>1. CASE First(queue) # Null
    BY <1>0, <2>1, FirstIn, Indexed DEF Entry
  <2> QED
    BY <2>1 DEF Null
<1>2. QueueType'
  BY <1>0, <1>1 DEF QueueType
<1>3. CursorInQueue' /\ IndicesInBounds'
  BY <1>0, <1>1, Still
<1>4. Tagged' /\ Fronted'
  BY <1>0 DEF QueueInv, Tagged, Tags, Fronted
<1> QED
  BY <1>2, <1>3, <1>4 DEF QueueInv

\* Steps that only move the thread, its input and the cursor.
LEMMA MoveKeeps ==
    ASSUME QueueInv,
           UNCHANGED <<queue, dynfileqCnt, maxCov, hashes, seeded, iter, incoming>>,
           cursor' \in Nat,
           cursor' # Null => \E k \in DOMAIN queue : queue[k].idx = cursor',
           run' \in [driver : Nat, imported : BOOLEAN], run'.driver \in Tags,
           place \notin {"seeds", "prioritize"}, place' \notin {"seeds", "prioritize"}
    PROVE  QueueInv'
<1>1. QueueType'
  BY DEF QueueInv, QueueType
<1>2. CursorInQueue' /\ IndicesInBounds'
  BY Still
<1>3. Tagged' /\ Fronted'
  BY DEF QueueInv, Tagged, Tags, Fronted
<1> QED
  BY <1>1, <1>2, <1>3 DEF QueueInv

\* The input in hand has a known tag.
LEMMA RunTyped ==
    ASSUME QueueInv
    PROVE  run \in [driver : Nat, imported : BOOLEAN] /\ run.driver \in Tags /\ cursor \in Nat
BY DEF QueueInv, QueueType, Tagged

\* So has one that is taken from the queue.
LEMMA InputTyped ==
    ASSUME QueueInv, place = "select", NEW i \in DOMAIN queue
    PROVE  Input(queue[i]) \in [driver : Nat, imported : BOOLEAN]
           /\ Input(queue[i]).driver \in Tags
<1>1. queue[i] \in Entry
  BY Indexed DEF QueueInv
<1>2. queue[i].driver \in Tags
  BY DEF QueueInv, Tagged
<1> QED
  BY <1>1, <1>2 DEF Input, Entry

\* The steps of MoveKeeps.
LEMMA WalkKeeps ==
    ASSUME QueueInv,
           \/ KeepDriver \/ PrepareStaticFile \/ PrepareDynamicInput
           \/ TryAgain \/ SelectNone \/ SkipForeign \/ SelectMeasured \/ Useless
    PROVE  QueueInv'
<1>1. cursor \in Nat /\ (cursor # Null => \E k \in DOMAIN queue : queue[k].idx = cursor)
  BY RunTyped, CursorAt
<1>2. QueueType
  BY DEF QueueInv
<1>3. ASSUME NEW i \in DOMAIN queue
      PROVE  /\ Successor(i) \in Nat
             /\ Successor(i) # Null => \E k \in DOMAIN queue : queue[k].idx = Successor(i)
  BY <1>2, SuccessorIn, Indexed
<1>4. CASE KeepDriver \/ PrepareStaticFile \/ PrepareDynamicInput \/ SelectNone \/ Useless
  <2>1. /\ UNCHANGED <<queue, cursor, dynfileqCnt, maxCov, hashes, seeded, iter, incoming, run>>
        /\ place \notin {"seeds", "prioritize"} /\ place' \notin {"seeds", "prioritize"}
    BY <1>4 DEF KeepDriver, PrepareStaticFile, PrepareDynamicInput, SelectNone, Useless,
                qvars, drvvars
  <2> QED
    BY <1>1, <2>1, RunTyped, MoveKeeps, SMTT(30)
<1>5. CASE TryAgain
  <2>1. /\ UNCHANGED <<queue, dynfileqCnt, maxCov, hashes, seeded, iter, incoming, run>>
        /\ place \notin {"seeds", "prioritize"} /\ place' \notin {"seeds", "prioritize"}
        /\ cursor' = Here
    BY <1>5, SMTT(30) DEF TryAgain, drvvars
  <2> QED
    BY <2>1, HereIn, RunTyped, MoveKeeps, SMTT(30)
<1>6. CASE SkipForeign
  <2>1. /\ UNCHANGED <<queue, dynfileqCnt, maxCov, hashes, seeded, iter, incoming, run>>
        /\ place \notin {"seeds", "prioritize"} /\ place' \notin {"seeds", "prioritize"}
        /\ \E i \in DOMAIN queue : cursor' = Successor(i)
    BY <1>6, SMTT(30) DEF SkipForeign, Chosen, drvvars
  <2> QED
    BY <1>3, <2>1, RunTyped, MoveKeeps, SMTT(30)
<1>7. CASE SelectMeasured
  <2>1. PICK i \in DOMAIN queue :
          /\ cursor' = Successor(i)
          /\ run' = Input(queue[i]) \/ run' = run
          /\ place = "select" /\ place' \in {"select", "run"}
    BY <1>7 DEF SelectMeasured, Chosen
  <2>2. UNCHANGED <<queue, dynfileqCnt, maxCov, hashes, seeded, iter, incoming>>
    BY <1>7 DEF SelectMeasured, drvvars
  <2>3. run' \in [driver : Nat, imported : BOOLEAN] /\ run'.driver \in Tags
    BY <2>1, RunTyped, InputTyped
  <2> QED
    BY <1>3, <2>1, <2>2, <2>3, MoveKeeps, SMTT(30)
<1> QED
  BY <1>4, <1>5, <1>6, <1>7

\* A seed that leaves the queue under the cursor, which has gone on before.
LEMMA ImportedKeeps ==
    ASSUME QueueInv, SelectImported
    PROVE  QueueInv'
<1>0. /\ queue \in Seq(Entry) /\ QueueType
      /\ Len(queue) \in Nat
      /\ DOMAIN queue = 1..Len(queue)
      /\ \A j \in 1..Len(queue) : queue[j] \in Entry
  BY Indexed DEF QueueInv, QueueType
<1>1. PICK i \in DOMAIN queue :
        cursor' = Successor(i) /\ queue' = Remove(queue, i) /\ run' = Input(queue[i])
  BY DEF SelectImported, Chosen
<1>2. /\ UNCHANGED <<dynfileqCnt, maxCov, hashes, seeded, iter, incoming>>
      /\ place = "select" /\ place' = "run"
  BY DEF SelectImported, drvvars
<1>3. /\ queue' \in Seq(Entry) /\ Len(queue') = Len(queue) - 1
      /\ \A j \in 1..(Len(queue) - 1) : queue'[j] = IF j < i THEN queue[j] ELSE queue[j + 1]
  BY <1>0, <1>1, Removed, Zenon
<1>4. DOMAIN queue' = 1..(Len(queue) - 1)
  BY <1>3, LenProperties
<1>5. ASSUME NEW j \in DOMAIN queue'
      PROVE  \/ j < i /\ j \in DOMAIN queue /\ queue'[j] = queue[j]
             \/ j >= i /\ j + 1 \in DOMAIN queue /\ queue'[j] = queue[j + 1]
  BY <1>0, <1>3, <1>4
<1>6. \A j, k \in DOMAIN queue' : queue'[j].idx = queue'[k].idx => j = k
  <2>1. \A x, y \in DOMAIN queue : queue[x].idx = queue[y].idx => x = y
    BY DEF QueueInv, CursorInQueue
  <2> QED
    BY <1>0, <1>4, <1>5, <2>1, SMTT(30)
<1>7. cursor' \in Nat /\ (cursor' # Null => \E k \in DOMAIN queue' : queue'[k].idx = cursor')
  <2>1. /\ cursor' \in Nat
        /\ cursor' # Null => i + 1 \in 1..Len(queue) /\ cursor' = queue[i + 1].idx
    BY <1>0, <1>1, SuccessorIn
  <2>2. ASSUME cursor' # Null
        PROVE  i \in DOMAIN queue' /\ queue'[i] = queue[i + 1]
    <3>1. i \in 1..(Len(queue) - 1)
      BY <1>0, <2>1, <2>2
    <3> QED
      BY <1>3, <1>4, <3>1
  <2> QED
    BY <2>1, <2>2
<1>8. CursorInQueue'
  BY <1>6, <1>7 DEF CursorInQueue, Idxs
<1>9. IndicesInBounds'
  BY <1>2, <1>5 DEF QueueInv, IndicesInBounds
<1>10. run' \in [driver : Nat, imported : BOOLEAN] /\ run'.driver \in Tags
  BY <1>1, <1>2, InputTyped, SMTT(30)
<1>11. QueueType'
  BY <1>2, <1>3, <1>7, <1>10, SMTT(30) DEF QueueInv, QueueType
<1>12. Tagged'
  BY <1>2, <1>5, <1>10 DEF QueueInv, Tagged, Tags
<1>13. Fronted'
  BY <1>2 DEF Fronted
<1> QED
  BY <1>8, <1>9, <1>11, <1>12, <1>13 DEF QueueInv

\* An input joins the corpus.
LEMMA AddKeeps ==
    ASSUME QueueInv,
           SetDynamicMainState \/ \E c \in 1..MaxCov : Useful(c)
    PROVE  QueueInv'
<1> USE DynQueueAssumption
<1>0. run \in [driver : Nat, imported : BOOLEAN] /\ run.driver \in Tags
  BY RunTyped
<1>1. /\ UNCHANGED <<cursor, hashes, seeded, iter, incoming>>
      /\ place \in {"fetch", "run"} /\ place' \in {"fetch", "switch"}
      /\ run' \in [driver : Nat, imported : BOOLEAN] /\ run'.driver = run.driver
  BY <1>0, ZenonT(30) DEF SetDynamicMainState, Useful, drvvars
<1>2. CASE UNCHANGED <<queue, dynfileqCnt, maxCov>>
  BY <1>0, <1>1, <1>2, RunTyped, CursorAt, MoveKeeps, SMTT(30)
<1>3. CASE \E d \in Tags, c \in Nat :
              d \in Nat /\ AddDynamicInput([idx |-> 0, driver |-> d, imported |-> FALSE, cov |-> c])
  <2>1. PICK d \in Tags, c \in Nat :
              d \in Nat /\ AddDynamicInput([idx |-> 0, driver |-> d, imported |-> FALSE, cov |-> c])
    BY <1>3, ZenonT(30)
  <2> DEFINE e == [idx |-> 0, driver |-> d, imported |-> FALSE, cov |-> c]
  <2>2. e \in [idx : Nat, driver : Nat, imported : BOOLEAN, cov : Nat] /\ e.driver = d
    BY <2>1
  <2> HIDE DEF e
  <2>3. AddDynamicInput(e)
    BY <2>1 DEF e
  <2>4. /\ queue' \in Seq(Entry) /\ dynfileqCnt' \in Nat /\ maxCov' \in Nat
        /\ CursorInQueue' /\ IndicesInBounds'
        /\ \A j \in DOMAIN queue' :
              queue'[j].driver = d
              \/ \E k \in DOMAIN queue : queue'[j].driver = queue[k].driver
    BY <1>1, <2>2, <2>3, Added, SMTT(30)
  <2>5. QueueType'
    BY <1>1, <2>4, SMTT(30) DEF QueueInv, QueueType
  <2>6. Tagged'
    BY <1>0, <1>1, <2>4 DEF QueueInv, Tagged, Tags
  <2>7. Fronted'
    BY <1>1 DEF Fronted
  <2> QED
    BY <2>4, <2>5, <2>6, <2>7 DEF QueueInv
<1>4. CASE SetDynamicMainState
  <2>1. EmptyTag \in Tags /\ EmptyTag \in Nat
    BY DEF Tags, EmptyTag
  <2> QED
    BY <1>2, <1>3, <1>4, <2>1, Zenon DEF SetDynamicMainState
<1>5. CASE \E c \in 1..MaxCov : Useful(c)
  <2>1. PICK c \in 1..MaxCov : Useful(c)
    BY <1>5
  <2>2. c \in Nat /\ run.driver \in Tags /\ run.driver \in Nat
    BY <1>0
  <2> QED
    BY <1>3, <2>1, <2>2, ZenonT(30) DEF Useful
<1> QED
  BY <1>4, <1>5

\* Every step keeps the invariant.
LEMMA QueueInductive == QueueInv /\ [QueueNext]_dynVars => QueueInv'
<1> SUFFICES ASSUME QueueInv, [QueueNext]_dynVars
             PROVE  QueueInv'
  OBVIOUS
<1>1. CASE SwitchStep
  BY <1>1, SwitchKeeps, SeedKeeps, SeedsAddedKeeps, PrioritizeKeeps, SeedsPrioritizedKeeps,
     WalkKeeps DEF SwitchStep
<1>2. CASE Fetch
  BY <1>2, WalkKeeps, AddKeeps, SMTT(30) DEF Fetch
<1>3. CASE Select
  BY <1>3, WalkKeeps, ImportedKeeps DEF Select
<1>4. CASE \E c \in 1..MaxCov : Useful(c)
  BY <1>4, AddKeeps
<1>5. CASE Useless
  BY <1>5, WalkKeeps, SMTT(30)
<1>6. CASE UNCHANGED dynVars
  BY <1>6 DEF dynVars, qvars, drvvars, QueueInv, QueueType, CursorInQueue, Idxs,
              IndicesInBounds, Tagged, Tags, Fronted, OwnUpTo
<1> QED
  BY <1>1, <1>2, <1>3, <1>4, <1>5, <1>6, SMTT(30) DEF QueueNext

\* It holds when honggfuzz starts.
LEMMA QueueInitial == QueueInit => QueueInv
<1> SUFFICES ASSUME QueueInit PROVE QueueInv
  OBVIOUS
<1> USE DynQueueAssumption
<1>1. Cardinality(hashes) = 0 /\ IsFiniteSet(hashes)
  BY FS_EmptySet, SMTT(30) DEF QueueInit
<1>2. queue = <<>> /\ queue \in Seq(Entry) /\ DOMAIN queue = {}
  BY DEF QueueInit
<1>3. QueueType
  BY <1>1, <1>2, SMTT(30) DEF QueueInit, QueueType, Null, StaticTag
<1>4. CursorInQueue /\ Tagged /\ Fronted
  BY <1>2 DEF QueueInit, CursorInQueue, Idxs, Tagged, Tags, Fronted
<1>5. IndicesInBounds
  BY <1>1, <1>2 DEF IndicesInBounds
<1> QED
  BY <1>3, <1>4, <1>5 DEF QueueInv

\* It holds always.
LEMMA QueueInvariance == QueueSpec => []QueueInv
BY QueueInitial, QueueInductive, PTL DEF QueueSpec

\* dynfileqCurrent is null or points at an entry of dynfileq, whatever is inserted,
\* taken out, moved and added again around it, and no two entries share an idx.
THEOREM CursorCorrect == QueueSpec => []CursorInQueue
<1>1. QueueInv => CursorInQueue
  BY DEF QueueInv
<1> QED
  BY <1>1, QueueInvariance, PTL

\* The seed hashes fit their array, and no entry is newer than dynfileqCnt or better
\* than maxCov: the percentiles of input_skipFactor stay within scaleMap.
THEOREM IndicesCorrect == QueueSpec => []IndicesInBounds
<1>1. QueueInv => IndicesInBounds
  BY DEF QueueInv
<1> QED
  BY <1>1, QueueInvariance, PTL

\* When driver_switchDriver makes another driver active, its own inputs precede
\* all others, after the loop over its seeds as after driver_prioritizeSeeds.
THEOREM OwnFirstCorrect == QueueSpec => OwnInputsFirst
<1> DEFINE A == activeDrv' # activeDrv =>
                  \A i, j \in DOMAIN queue' :
                     i < j /\ queue'[j].driver = activeDrv' => queue'[i].driver = activeDrv'
<1>1. QueueInv /\ [QueueNext]_dynVars => [A]_dynVars
  <2> SUFFICES ASSUME QueueInv, QueueNext, activeDrv' # activeDrv
               PROVE  \A i, j \in DOMAIN queue' :
                         i < j /\ queue'[j].driver = activeDrv' => queue'[i].driver = activeDrv'
    OBVIOUS
  <2>1. SeedsAdded \/ SeedsPrioritized
    BY Zenon DEF QueueNext, SwitchStep, Fetch, Select, SwitchDriver, AddDriverSeed, PrioritizeSeed,
           KeepDriver, PrepareStaticFile, SetDynamicMainState, PrepareDynamicInput, TryAgain,
           SelectNone, SkipForeign, SelectImported, SelectMeasured, Useful, Useless, drvvars
  <2>2. queue' = queue /\ activeDrv' = incoming
    BY <2>1 DEF SeedsAdded, SeedsPrioritized, qvars
  <2>3. Len(queue) \in Nat /\ DOMAIN queue = 1..Len(queue)
    BY Indexed DEF QueueInv
  <2>4. OwnUpTo(Len(queue))
    <3>1. CASE SeedsAdded
      BY <3>1 DEF SeedsAdded, QueueInv, Fronted
    <3>2. CASE SeedsPrioritized
      <4>1. iter > Len(queue) /\ iter \in 1..(Len(queue) + 1) /\ OwnUpTo(iter - 1)
        BY <3>2 DEF SeedsPrioritized, QueueInv, Fronted
      <4>2. iter - 1 = Len(queue)
        BY <2>3, <4>1
      <4> QED
        BY <4>1, <4>2
    <3> QED
      BY <2>1, <3>1, <3>2
  <2> QED
    BY <2>2, <2>3, <2>4 DEF OwnUpTo
<1> QED
  BY <1>1, QueueInvariance, PTL DEF QueueSpec, OwnInputsFirst
=============================================================================
