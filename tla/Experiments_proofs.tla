------------------------- MODULE Experiments_proofs -------------------------
(***************************************************************************)
(* Proofs about the worker pool of Experiments, for any matrix, number of  *)
(* workers, interrupts and killed invocations.                             *)
(*                                                                         *)
(* The locks of Campaign do not keep two mfuzz processes out of one        *)
(* benchmark directory, as they are taken for a run and not for a          *)
(* directory; the argument is that the runs of a directory are one future, *)
(* and a future is with one worker (Separate).  Down says who may still    *)
(* come to a directory after Ctrl-C.  InTurn says that the runs of a       *)
(* subject are taken up one after the other, so that of the campaigns in a *)
(* directory only one is begun and not complete; Begun says that saved     *)
(* progress is of at least one segment.  Attended, from Campaign_proofs,   *)
(* ties a segment at work, mfuzz or surviving honggfuzz, to its worker.    *)
(***************************************************************************)
EXTENDS Experiments, Campaign_proofs

\* No run of s and run of t use the same directory.
Apart(s, t) ==
    \A k \in 1 .. Len(s), l \in 1 .. Len(t) : Benchmark[s[k]] # Benchmark[t[l]]

\* The futures and what the workers have taken of them are pairwise apart.
Separate ==
    /\ futures \in Seq(Seq(Campaigns))
    /\ todo \in [Runners -> Seq(Campaigns)]
    /\ \A i, j \in 1 .. Len(futures) : i # j => Apart(futures[i], futures[j])
    /\ \A w \in Runners, i \in 1 .. Len(futures) : Apart(todo[w], futures[i])
    /\ \A w, x \in Runners : w # x => Apart(todo[w], todo[x])
    /\ proc = "off" => \A w \in Runners : todo[w] = <<>>

\* A worker in run_one executes the first of its remaining runs.
OnItsRun ==
    \A w \in Runners : pc[w] # "idle" => todo[w] # <<>> /\ camp[w] = Head(todo[w])

\* The mfuzz process a worker waits for, or has registered, exists.
Registered ==
    /\ \A p \in active : \E f \in fuzzers : f.id = p
    /\ \A w \in Runners : pc[w] = "wait" => \E f \in fuzzers : f.id = child[w]

PoolInv == Shape /\ Waiting /\ Separate /\ OnItsRun /\ Attended /\ Registered

-----------------------------------------------------------------------------

\* Being apart is symmetric, and a subject done with, or the rest of one, is
\* as far apart as the whole.
LEMMA ApartRest ==
    ASSUME NEW s \in Seq(Campaigns), NEW t \in Seq(Campaigns), Apart(s, t)
    PROVE  /\ Apart(t, s) /\ Apart(<<>>, t) /\ Apart(t, <<>>)
           /\ s # <<>> => Tail(s) \in Seq(Campaigns) /\ Apart(Tail(s), t) /\ Apart(t, Tail(s))
<1>1. Apart(t, s) /\ Apart(<<>>, t) /\ Apart(t, <<>>)
  BY DEF Apart
<1>2. ASSUME s # <<>>
      PROVE  Tail(s) \in Seq(Campaigns) /\ Apart(Tail(s), t) /\ Apart(t, Tail(s))
  <2>1. /\ Tail(s) \in Seq(Campaigns) /\ Len(s) \in Nat /\ Len(Tail(s)) = Len(s) - 1
        /\ \A k \in 1 .. Len(Tail(s)) : Tail(s)[k] = s[k + 1]
    BY <1>2
  <2>2. \A k \in 1 .. Len(Tail(s)) : k + 1 \in 1 .. Len(s)
    BY <2>1
  <2>. QED
    BY <2>1, <2>2 DEF Apart
<1>. QED
  BY <1>1, <1>2, Zenon

\* Two segments that are attended to are so by two workers, on campaigns of two
\* subjects.
LEMMA AttendedApart == PoolInv => OneFuzzerPerDirectory
<1> SUFFICES ASSUME PoolInv, NEW p \in AtWork, NEW q \in AtWork, p # q, p \notin orphans, q \notin orphans
             PROVE  Directory(p) # Directory(q)
  BY Zenon DEF OneFuzzerPerDirectory, AtWork
<1>0. p \in Processes /\ q \in Processes /\ None \notin Processes
  <2>1. fuzzers \subseteq Fuzzers /\ strays \subseteq Processes
    BY Zenon DEF PoolInv, Shape
  <2>2. \A f \in Fuzzers : f.id \in Processes
    BY DEF Fuzzers
  <2>. QED
    BY <2>1, <2>2, CampaignAssumption, ZenonT(30) DEF AtWork, CampaignAssumption
<1>1. PICK w \in Runners : child[w] = p /\ pc[w] \in Attending
  BY Zenon DEF PoolInv, Attended
<1>2. PICK x \in Runners : child[x] = q /\ pc[x] \in Attending
  BY Zenon DEF PoolInv, Attended
<1>3. Apart(todo[w], todo[x])
  BY <1>1, <1>2, Zenon DEF PoolInv, Separate
<1>4. pc[w] # "idle" /\ pc[x] # "idle" /\ p[1] = camp[w] /\ q[1] = camp[x]
  BY <1>0, <1>1, <1>2, Zenon DEF PoolInv, Waiting, Attending
<1>5. /\ todo[w] \in Seq(Campaigns) /\ todo[w] # <<>> /\ p[1] = Head(todo[w])
      /\ todo[x] \in Seq(Campaigns) /\ todo[x] # <<>> /\ q[1] = Head(todo[x])
  BY <1>4, Zenon DEF PoolInv, Separate, OnItsRun
<1>6. /\ 1 \in 1 .. Len(todo[w]) /\ p[1] = todo[w][1]
      /\ 1 \in 1 .. Len(todo[x]) /\ q[1] = todo[x][1]
  BY <1>5
<1>. QED
  BY <1>3, <1>6, Zenon DEF Apart, Directory

\* No process, no future and no mfuzz before the first invocation.
LEMMA PoolInitInv == PoolInit => PoolInv
<1> SUFFICES ASSUME PoolInit PROVE PoolInv
  OBVIOUS
<1>1. Shape /\ Waiting
  BY InitLockInv, Zenon DEF PoolInit, LockInv
<1>2. Separate
  BY DEF PoolInit, Separate, Apart
<1>3. OnItsRun /\ Attended /\ Registered
  BY Zenon DEF PoolInit, Init, OnItsRun, Attended, AtWork, Registered
<1>. QED
  BY <1>1, <1>2, <1>3, Zenon DEF PoolInv

-----------------------------------------------------------------------------

\* A step of run_one in thread r leaves the other threads alone and keeps r on
\* its campaign until it returns; an mfuzz process it waits for exists.
Frame(r) ==
    /\ pc[r] \notin {"idle", "wait"}
    /\ \A x \in Runners \ {r} : pc'[x] = pc[x] /\ camp'[x] = camp[x] /\ child'[x] = child[x]
    /\ pc'[r] # "idle" => camp'[r] = camp[r]
    /\ fuzzers \subseteq fuzzers'
    /\ pc'[r] = "wait" => \E f \in fuzzers' : child'[r] = f.id

\* Every step of run_one is of that form.
LEMMA RunnerFrame ==
    ASSUME Shape, NEW r \in Runners, RunnerStep(r)
    PROVE  Frame(r)
<1> USE DEF runVars, lockVars, logVars, busyVars, fuzzVars, bounds
<1>1. ASSUME NEW locks, Exit(r, locks), fuzzers' = fuzzers, pc[r] \notin {"idle", "wait"}
      PROVE  Frame(r)
  BY <1>1, Zenon DEF Exit, Goto, Frame, Shape
<1>2. CASE CheckStatus(r) \/ LockJudge(r) \/ LockCreate(r) \/ LoadProgress(r)
  <2>1. CASE Exit(r, lock)
    BY <1>1, <1>2, <2>1, Zenon DEF CheckStatus, LockJudge, LockCreate, LoadProgress
  <2>2. CASE ~Exit(r, lock)
    BY <1>2, <2>2, ZenonT(30) DEF CheckStatus, LockJudge, LockCreate, LoadProgress, Goto, Frame, Shape
  <2>. QED
    BY <2>1, <2>2, Zenon
<1>3. CASE \/ LockTest(r) \/ LockRead(r) \/ LockUnlink(r) \/ LockWrite(r) \/ CleanRuntime(r)
           \/ MarkRunning(r) \/ JoinOutput(r) \/ AppendCoverage(r) \/ SaveProgress(r) \/ Finish(r)
  BY <1>3, ZenonT(30) DEF LockTest, LockRead, LockUnlink, LockWrite, CleanRuntime, MarkRunning,
     JoinOutput, AppendCoverage, SaveProgress, Finish, Goto, Frame, Shape
<1>4. CASE LaunchSegment(r)
  <2>1. PICK n : n.id = <<camp[r], launched[camp[r]] + 1>> /\ fuzzers' = fuzzers \cup {n}
    BY <1>4, Zenon DEF LaunchSegment
  <2>2. child'[r] = n.id /\ pc'[r] = "wait" /\ camp' = camp /\ pc[r] = "loop"
        /\ \A x \in Runners \ {r} : child'[x] = child[x] /\ pc'[x] = pc[x]
    BY <1>4, <2>1, Zenon DEF LaunchSegment, Shape, Goto
  <2>. QED
    BY <2>1, <2>2, Zenon DEF Frame
<1>5. CASE ReleaseLock(r)
  BY <1>1, <1>5, Zenon DEF ReleaseLock
<1>. QED
  BY <1>2, <1>3, <1>4, <1>5, Zenon DEF RunnerStep

\* A step of the campaign runner keeps files, locals and processes in order.
LEMMA CampaignStep ==
    Shape /\ Waiting /\ Attended /\ [Next]_vars => Shape' /\ Waiting' /\ Attended'
  BY StepShape, StepWaiting, StepAttended, Zenon

\* A worker takes a future and leaves the others apart from it.
LEMMA TakeInv == ASSUME PoolInv, NEW w \in Runners, TakeFuture(w) PROVE PoolInv'
<1> USE DEF PoolInv
<1>1. /\ futures \in Seq(Seq(Campaigns)) /\ futures # <<>>
      /\ futures' = Tail(futures) /\ todo' = [todo EXCEPT ![w] = Head(futures)]
      /\ UNCHANGED <<vars, proc, active, hit>>
  BY Zenon DEF TakeFuture, Separate
<1>2. /\ futures' \in Seq(Seq(Campaigns)) /\ Len(futures) \in Nat /\ Len(futures') = Len(futures) - 1
      /\ 1 \in 1 .. Len(futures) /\ Head(futures) = futures[1] /\ futures[1] \in Seq(Campaigns)
      /\ \A i \in 1 .. Len(futures') : futures'[i] = futures[i + 1]
  BY <1>1
<1>3. \A i \in 1 .. Len(futures') : i + 1 \in 1 .. Len(futures) /\ i + 1 # 1
                                     /\ futures[i + 1] \in Seq(Campaigns)
  BY <1>1, <1>2
<1>4. /\ todo' \in [Runners -> Seq(Campaigns)] /\ todo'[w] = futures[1]
      /\ \A x \in Runners \ {w} : todo'[x] = todo[x]
  BY <1>1, <1>2, Zenon DEF Separate
<1>5. \A i, j \in 1 .. Len(futures') : i # j => Apart(futures'[i], futures'[j])
  <2> TAKE i, j \in 1 .. Len(futures')
  <2> HAVE i # j
  <2>1. i + 1 \in 1 .. Len(futures) /\ j + 1 \in 1 .. Len(futures) /\ i + 1 # j + 1
    BY <1>2, <1>3
  <2>2. Apart(futures[i + 1], futures[j + 1])
    BY <2>1, Zenon DEF Separate
  <2>. QED
    BY <1>2, <2>2, Zenon
<1>6. \A x \in Runners, i \in 1 .. Len(futures') : Apart(todo'[x], futures'[i])
  <2> TAKE x \in Runners, i \in 1 .. Len(futures')
  <2>1. futures'[i] = futures[i + 1] /\ i + 1 \in 1 .. Len(futures) /\ i + 1 # 1
    BY <1>2, <1>3, Zenon
  <2>2. Apart(futures[1], futures[i + 1]) /\ Apart(todo[x], futures[i + 1])
    BY <1>2, <2>1, Zenon DEF Separate
  <2>3. todo'[x] = futures[1] \/ todo'[x] = todo[x]
    BY <1>4, Zenon
  <2>. QED
    BY <2>1, <2>2, <2>3, Zenon
<1>7. \A x, y \in Runners : x # y => Apart(todo'[x], todo'[y])
  <2>1. \A x \in Runners : Apart(todo[x], futures[1]) /\ Apart(futures[1], todo[x])
    BY <1>2, ApartRest, Zenon DEF Separate
  <2>. QED
    BY <1>4, <2>1, Zenon DEF Separate
<1>8. Separate'
  <2>1. proc' # "off"
    BY Zenon DEF TakeFuture
  <2>. QED
    BY <1>2, <1>4, <1>5, <1>6, <1>7, <2>1, Zenon DEF Separate
<1>9. OnItsRun'
  BY <1>1, <1>4, Zenon DEF TakeFuture, OnItsRun, vars
<1>10. Shape' /\ Waiting' /\ Attended'
  BY <1>1, CampaignStep, Zenon
<1>11. Registered'
  BY <1>1, Zenon DEF Registered, vars, fuzzVars, busyVars
<1>. QED
  BY <1>8, <1>9, <1>10, <1>11, Zenon

\* run_one is called on the first of the remaining runs.
LEMMA CallInv == ASSUME PoolInv, NEW w \in Runners, CallRunOne(w) PROVE PoolInv'
<1> USE DEF PoolInv
<1>1. /\ Invoke(w, Head(todo[w]), FALSE) /\ Head(todo[w]) \in Campaigns /\ todo[w] # <<>>
      /\ UNCHANGED poolVars
  <2>1. todo[w] \in Seq(Campaigns) /\ todo[w] # <<>>
    BY Zenon DEF CallRunOne, Separate
  <2>2. Head(todo[w]) \in Campaigns
    BY <2>1
  <2>. QED
    BY <2>1, <2>2, Zenon DEF CallRunOne
<1>2. Shape' /\ Waiting' /\ Attended'
  BY <1>1, CampaignStep, Zenon DEF Next
<1>3. Separate'
  BY <1>1, Zenon DEF Separate, poolVars
<1>4. /\ pc'[w] = "status" /\ camp'[w] = Head(todo[w]) /\ pc[w] = "idle"
      /\ \A x \in Runners \ {w} : pc'[x] = pc[x] /\ camp'[x] = camp[x]
      /\ UNCHANGED <<fuzzers, child>>
  BY <1>1, Zenon DEF Invoke, Goto, Shape, fuzzVars, busyVars
<1>5. OnItsRun'
  BY <1>1, <1>4, Zenon DEF OnItsRun, poolVars
<1>6. Registered'
  BY <1>1, <1>4 DEF Registered, poolVars
<1>. QED
  BY <1>2, <1>3, <1>5, <1>6, Zenon

\* A step of run_one, and the return to run_subject.
LEMMA RunOneInv == ASSUME PoolInv, NEW w \in Runners, RunOneStep(w) PROVE PoolInv'
<1> USE DEF PoolInv
<1>1. /\ RunnerStep(w) /\ Frame(w)
      /\ todo' = IF pc'[w] = "idle" THEN [todo EXCEPT ![w] = Remaining(w)] ELSE todo
      /\ UNCHANGED <<proc, futures, active, hit>>
  BY RunnerFrame, Zenon DEF RunOneStep
<1>2. Shape' /\ Waiting' /\ Attended'
  BY <1>1, CampaignStep, Zenon DEF Next
<1>3. todo[w] \in Seq(Campaigns) /\ todo[w] # <<>>
  BY <1>1, Zenon DEF Separate, OnItsRun, Frame
<1>4. /\ todo' \in [Runners -> Seq(Campaigns)]
      /\ \A x \in Runners \ {w} : todo'[x] = todo[x]
      /\ todo'[w] \in {todo[w], Tail(todo[w]), <<>>}
      /\ pc'[w] # "idle" => todo'[w] = todo[w]
  <2>1. Tail(todo[w]) \in Seq(Campaigns) /\ <<>> \in Seq(Campaigns)
    BY <1>3
  <2>2. Remaining(w) \in {Tail(todo[w]), <<>>}
    BY Zenon DEF Remaining
  <2>. QED
    BY <1>1, <2>1, <2>2, Zenon DEF Separate
<1>5. ASSUME NEW t \in Seq(Campaigns), Apart(todo[w], t)
      PROVE  Apart(todo'[w], t) /\ Apart(t, todo'[w])
  BY <1>3, <1>4, <1>5, ApartRest, Zenon
<1>6. Separate'
  <2>1. \A i \in 1 .. Len(futures) : futures[i] \in Seq(Campaigns)
    BY DEF Separate
  <2>2. \A x \in Runners, i \in 1 .. Len(futures) : Apart(todo'[x], futures[i])
    BY <1>4, <1>5, <2>1, Zenon DEF Separate
  <2>3. \A x, y \in Runners : x # y => Apart(todo'[x], todo'[y])
    BY <1>4, <1>5, Zenon DEF Separate
  <2>4. proc # "off"
    BY <1>3, Zenon DEF Separate
  <2>. QED
    BY <1>1, <1>4, <2>2, <2>3, <2>4, Zenon DEF Separate
<1>7. OnItsRun'
  BY <1>1, <1>3, <1>4, Zenon DEF OnItsRun, Frame
<1>9. Registered'
  <2>1. \A p \in active' : \E f \in fuzzers' : f.id = p
    BY <1>1, Zenon DEF Registered, Frame
  <2>2. ASSUME NEW x \in Runners \ {w}, pc'[x] = "wait"
        PROVE  \E f \in fuzzers' : f.id = child'[x]
    <3>1. pc[x] = "wait" /\ child'[x] = child[x] /\ fuzzers \subseteq fuzzers'
      BY <1>1, <2>2, Zenon DEF Frame
    <3>. QED
      BY <3>1, Zenon DEF Registered
  <2>3. pc'[w] = "wait" => \E f \in fuzzers' : f.id = child'[w]
    BY <1>1, Zenon DEF Frame
  <2>. QED
    BY <2>1, <2>2, <2>3, Zenon DEF Registered
<1>. QED
  BY <1>2, <1>6, <1>7, <1>9, Zenon

\* An mfuzz process logs, commits or exits: the others are still waited for.
LEMMA SegmentInv == ASSUME PoolInv, NEW f \in fuzzers, SegmentStep(f) PROVE PoolInv'
<1> USE DEF PoolInv
<1>1. Shape' /\ Waiting' /\ Attended'
  <2>1. FuzzerLogs(f) \/ FuzzerCommits(f) \/ \E ok \in BOOLEAN : FuzzerExits(f, ok)
    BY Zenon DEF SegmentStep
  <2>. QED
    BY <2>1, CampaignStep, Zenon DEF Next, FuzzerStep
<1>2. Separate'
  BY Zenon DEF SegmentStep, Separate
<1>3. CASE (FuzzerLogs(f) \/ FuzzerCommits(f)) /\ UNCHANGED active
  <2>1. UNCHANGED <<pc, camp, child, todo>>
    BY <1>3, Zenon DEF FuzzerLogs, FuzzerCommits, SegmentStep
  <2>2. OnItsRun'
    BY <2>1, Zenon DEF OnItsRun
  <2>3. ASSUME NEW h \in fuzzers PROVE \E g \in fuzzers' : h.id = g.id
    <3>1. [f EXCEPT !.committed = TRUE].id = f.id /\ [f EXCEPT !.logged = TRUE].id = f.id
      BY Zenon DEF Shape, Fuzzers
    <3>. QED
      BY <1>3, <2>3, <3>1, Zenon DEF FuzzerLogs, FuzzerCommits
  <2>4. Registered'
    BY <1>3, <2>1, <2>3 DEF Registered
  <2>. QED
    BY <1>1, <1>2, <2>2, <2>4, Zenon
<1>4. ASSUME NEW ok \in BOOLEAN, FuzzerExits(f, ok), active' = active \ {f.id}
      PROVE  PoolInv'
  <2>1. UNCHANGED <<camp, child, todo>> /\ fuzzers' = fuzzers \ {f}
    BY <1>4, Zenon DEF FuzzerExits, SegmentStep
  <2>2. \A x \in Runners : IF child[x] = f.id THEN pc[x] = "wait" ELSE pc'[x] = pc[x]
    BY <1>4, Zenon DEF FuzzerExits, Waiting
  <2>3. OnItsRun'
    BY <2>1, <2>2, Zenon DEF OnItsRun
  <2>4. Registered'
    <3>1. \A h \in fuzzers : h.id # f.id => h \in fuzzers'
      BY <2>1, Zenon
    <3>2. \A x \in Runners : pc'[x] = "wait" => child[x] # f.id /\ pc[x] = "wait"
      BY <1>4, Zenon DEF FuzzerExits
    <3>. QED
      BY <1>4, <2>1, <3>1, <3>2, Zenon DEF Registered
  <2>. QED
    BY <1>1, <1>2, <2>3, <2>4, Zenon
<1>. QED
  BY <1>3, <1>4, Zenon DEF SegmentStep

\* A honggfuzz that nobody counts on ends.
LEMMA StrayInv == ASSUME PoolInv, HonggfuzzEnds PROVE PoolInv'
<1>1. Shape' /\ Waiting' /\ Attended'
  BY CampaignStep, Zenon DEF PoolInv, HonggfuzzEnds, Next, FuzzerStep
<1>2. UNCHANGED <<fuzzers, pc, camp, child>> /\ UNCHANGED poolVars
  BY Zenon DEF HonggfuzzEnds, StrayEnds
<1>3. Separate' /\ OnItsRun' /\ Registered'
  BY <1>2, Zenon DEF PoolInv, Separate, OnItsRun, Registered, poolVars
<1>. QED
  BY <1>1, <1>3, Zenon DEF PoolInv

\* Popen's process enters _ACTIVE_PIDS.
LEMMA RegisterInv == ASSUME PoolInv, NEW w \in Runners, Register(w) PROVE PoolInv'
<1> USE DEF PoolInv
<1>1. UNCHANGED <<vars, proc, futures, todo>>
  BY Zenon DEF Register
<1>2. Shape' /\ Waiting' /\ Attended'
  BY <1>1, CampaignStep, Zenon
<1>3. Separate'
  BY <1>1, Zenon DEF Separate
<1>4. OnItsRun'
  BY <1>1, Zenon DEF OnItsRun, vars
<1>5. Registered'
  BY <1>1, Zenon DEF Register, Registered, vars, fuzzVars, busyVars
<1>. QED
  BY <1>2, <1>3, <1>4, <1>5, Zenon

\* The main thread submits the subjects, shuts the pool down or returns.
LEMMA MainInv == ASSUME PoolInv, Submit \/ Shutdown \/ PoolEnds PROVE PoolInv'
<1> USE DEF PoolInv
<1>1. UNCHANGED <<vars, todo, active>>
  BY Zenon DEF Submit, Shutdown, PoolEnds
<1>2. Shape' /\ Waiting' /\ Attended'
  BY <1>1, CampaignStep, Zenon
<1>3. OnItsRun' /\ Registered'
  BY <1>1, Zenon DEF OnItsRun, Registered, vars, fuzzVars, busyVars
<1>4. Separate'
  <2>1. CASE Submit
    <3>1. \A i, j \in 1 .. Len(BySubject) : i # j => Apart(BySubject[i], BySubject[j])
      BY BySubjectAssumption, Zenon DEF BySubjectAssumption, Apart
    <3>2. /\ BySubject \in Seq(Seq(Campaigns)) /\ futures' = BySubject /\ todo' = todo
          /\ proc' = "pool" /\ \A w \in Runners : todo[w] = <<>>
      BY <2>1, BySubjectAssumption, Zenon DEF BySubjectAssumption, Submit, Separate
    <3>3. \A w \in Runners : \A t : Apart(todo[w], t)
      BY <3>2 DEF Apart
    <3>. QED
      BY <3>1, <3>2, <3>3, Zenon DEF Separate
  <2>2. CASE Shutdown
    BY <2>2 DEF Shutdown, Separate
  <2>3. CASE PoolEnds
    BY <2>3 DEF PoolEnds, Separate
  <2>. QED
    BY <2>1, <2>2, <2>3, Zenon
<1>. QED
  BY <1>2, <1>3, <1>4, Zenon

\* Ctrl-C: the registered processes are gone, and their workers know, who attend
\* to what honggfuzz is left of them.
LEMMA TerminateInv == ASSUME PoolInv, Terminate PROVE PoolInv'
<1>0. Shape /\ Waiting /\ Separate /\ OnItsRun /\ Attended /\ Registered
  BY Zenon DEF PoolInv
<1>1. /\ fuzzers' = {f \in fuzzers : f.id \notin active}
      /\ pc' = [w \in Runners |-> IF child[w] \in active THEN "join" ELSE pc[w]]
      /\ active' = {} /\ trouble' = trouble + 1
      /\ UNCHANGED <<runVars, lockVars, orphans, child, launched, camp, force, prog, forced, commits,
                     futures, todo>>
      /\ proc' = "terminated"
  BY Zenon DEF Terminate
<1>2. /\ \A w \in Runners : child[w] \in active => pc[w] = "wait"
      /\ \A p \in active : \E f \in fuzzers : f.id = p
      /\ \A p \in strays' : p \in strays \/ p \in active
  BY <1>0, Zenon DEF Registered, Waiting, Terminate
<1>3. /\ fuzzers' \subseteq fuzzers /\ \A f \in fuzzers' : f.id \notin active
      /\ \A w \in Runners : IF child[w] \in active THEN pc'[w] = "join" ELSE pc'[w] = pc[w]
  BY <1>1, Zenon
<1>4. \A p \in active : p \in Processes /\ p \in AtWork /\ p[2] <= launched[p[1]]
  <2>1. \A f \in fuzzers : f.id \in Processes
    BY <1>0 DEF Shape, Fuzzers
  <2>2. \A f \in fuzzers : f.id[2] <= launched[f.id[1]]
    BY <1>0, Zenon DEF Waiting
  <2>. QED
    BY <1>2, <2>1, <2>2, Zenon DEF AtWork
<1>5. Shape'
  <2>1. pc' \in [Runners -> Labels] /\ \A w \in Runners : pc'[w] # "idle" => pc[w] # "idle"
    BY <1>0, <1>1, <1>2, Zenon DEF Shape, Labels
  <2>2. fuzzers' \subseteq Fuzzers /\ strays' \subseteq Processes
    BY <1>0, <1>2, <1>3, <1>4, Zenon DEF Shape
  <2>3. trouble' \in Nat
    BY <1>0, <1>1 DEF Shape
  <2>. QED
    BY <1>0, <1>1, <2>1, <2>2, <2>3, Zenon DEF Shape, runVars, lockVars
<1>6. Waiting'
  <2>1. \A w \in Runners : pc'[w] \in AfterLaunch => pc[w] \in AfterLaunch
    BY <1>2, <1>3, Zenon DEF AfterLaunch
  <2>2. \A w \in Runners : pc'[w] \in AfterLaunch \ {"failed", "release"} =>
                             pc[w] \in AfterLaunch \ {"failed", "release"}
    BY <1>2, <1>3, Zenon DEF AfterLaunch
  <2>3. \A w \in Runners : pc[w] \in AfterLaunch => pc'[w] \in AfterLaunch
    BY <1>3, Zenon DEF AfterLaunch
  <2>. QED
    BY <1>0, <1>1, <1>3, <2>2, <2>3, Zenon DEF Waiting
<1>7. Separate' /\ OnItsRun' /\ Registered'
  <2>1. \A w \in Runners : pc'[w] = "wait" => pc[w] = "wait" /\ child[w] \notin active
    BY <1>3, Zenon
  <2>2. Registered'
    BY <1>0, <1>1, <2>1, Zenon DEF Registered
  <2>. QED
    BY <1>0, <1>1, <1>2, <2>2, Zenon DEF Separate, OnItsRun
<1>8. Attended'
  <2>1. \A p \in strays' : p[2] <= launched'[p[1]] /\ \A f \in fuzzers' : f.id # p
    BY <1>0, <1>1, <1>2, <1>3, <1>4, Zenon DEF Attended
  <2>2. ASSUME NEW p \in AtWork' \ orphans' PROVE \E x \in Runners : child'[x] = p /\ pc'[x] \in Attending
    <3>1. p \in AtWork \ orphans
      BY <1>1, <1>2, <1>3, <1>4, <2>2, Zenon DEF AtWork
    <3>2. PICK x \in Runners : child[x] = p /\ pc[x] \in Attending
      BY <1>0, <3>1, Zenon DEF Attended
    <3>3. "join" \in Attending
      BY DEF Attending
    <3>. QED
      BY <1>1, <1>3, <3>2, <3>3, Zenon
  <2>. QED
    BY <2>1, <2>2, Zenon DEF Attended
<1>. QED
  BY <1>5, <1>6, <1>7, <1>8, Zenon DEF PoolInv

\* The process dies: what it leaves at work are orphans.
LEMMA DiesInv == ASSUME PoolInv, ProcessDies PROVE PoolInv'
<1> USE DEF PoolInv
<1>1. /\ fuzzers' \subseteq fuzzers /\ strays' \subseteq strays /\ orphans' = AtWork'
      /\ pc' = [w \in Runners |-> "idle"] /\ camp' = [w \in Runners |-> None]
      /\ child' = [w \in Runners |-> None] /\ prog' = [w \in Runners |-> NewRun]
      /\ futures' = <<>> /\ todo' = [w \in Runners |-> <<>>] /\ active' = {}
      /\ trouble' = trouble + 1
      /\ UNCHANGED <<runVars, reclaimed, overlapped, launched, force, forced, commits>>
  BY Zenon DEF ProcessDies, AtWork
<1>2. Shape'
  <2>1. lock' \in [Campaigns -> Locks]
    <3>1. lock \in [Campaigns -> Locks]
      BY Zenon DEF Shape
    <3>2. lock' = [c \in Campaigns |->
                     IF lock[c].st = "live" THEN [lock[c] EXCEPT !.st = "dead"] ELSE lock[c]]
      BY Zenon DEF ProcessDies
    <3>3. \A l \in Locks : [l EXCEPT !.st = "dead"] \in Locks
      BY Zenon DEF Locks
    <3>. HIDE DEF PoolInv
    <3>4. ASSUME NEW c \in Campaigns PROVE lock'[c] \in Locks
      BY <3>1, <3>2, <3>3, Zenon
    <3>. QED
      BY <3>2, <3>4, Zenon
  <2>2. /\ pc' \in [Runners -> Labels] /\ prog' \in [Runners -> Progresses]
        /\ child' \in [Runners -> Processes \cup {None}]
        /\ camp' \in [Runners -> Campaigns \cup {None}] /\ \A w \in Runners : pc'[w] = "idle"
    BY <1>1, NewRunType, Zenon DEF Labels
  <2>3. fuzzers' \subseteq Fuzzers /\ strays' \subseteq Processes /\ trouble' \in Nat
    BY <1>1 DEF Shape
  <2>. QED
    BY <1>1, <2>1, <2>2, <2>3, Zenon DEF Shape, runVars
<1>3. Waiting'
  <2>1. \A f \in fuzzers' : f.id \in Processes /\ f.id # None
    <3>1. fuzzers' \subseteq Fuzzers
      BY <1>1, Zenon DEF Shape
    <3>2. None \notin Processes
      BY CampaignAssumption, Zenon DEF CampaignAssumption
    <3>. HIDE DEF PoolInv
    <3>. QED
      BY <3>1, <3>2, Zenon DEF Fuzzers
  <2>2. /\ fuzzers' \subseteq fuzzers /\ launched' = launched
        /\ \A w \in Runners : child'[w] = None /\ pc'[w] = "idle"
    BY <1>1, Zenon
  <2>3. Waiting
    OBVIOUS
  <2>. HIDE DEF PoolInv
  <2>. QED
    BY <2>1, <2>2, <2>3, Zenon DEF Waiting, AfterLaunch
<1>4. Separate'
  BY <1>1 DEF Separate, Apart
<1>5. OnItsRun' /\ Attended' /\ Registered'
  BY <1>1, Zenon DEF OnItsRun, Attended, Registered
<1>. QED
  BY <1>2, <1>3, <1>4, <1>5, Zenon

\* The invariant is inductive.
LEMMA PoolInvariance == PoolSpec => []PoolInv
<1>1. PoolInv /\ [PoolNext]_allVars => PoolInv'
  <2> SUFFICES ASSUME PoolInv, [PoolNext]_allVars PROVE PoolInv'
    OBVIOUS
  <2>1. CASE UNCHANGED allVars
    <3>1. UNCHANGED vars /\ UNCHANGED poolVars
      BY <2>1, Zenon DEF allVars
    <3>2. Shape' /\ Waiting' /\ Attended'
      BY <3>1, CampaignStep, Zenon DEF PoolInv
    <3>. QED
      BY <3>1, <3>2, Zenon DEF PoolInv, Separate, OnItsRun, Registered, poolVars, vars, fuzzVars, busyVars
  <2>2. CASE PoolNext
    BY <2>2, MainInv, TerminateInv, DiesInv, TakeInv, CallInv, RunOneInv, RegisterInv, SegmentInv, StrayInv, Zenon
       DEF PoolNext, WorkerStep
  <2>. QED
    BY <2>1, <2>2, Zenon
<1>. QED
  BY <1>1, PoolInitInv, PTL DEF PoolSpec

\* "one worker per executable": for any matrix and any number of workers,
\* interrupts and killed invocations, no two segments are at work in a benchmark
\* directory unless one outlived its invocation (run_experiments.py).
THEOREM DirectoryCorrect == PoolSpec => []OneFuzzerPerDirectory
  BY PoolInvariance, AttendedApart, PTL

-----------------------------------------------------------------------------

\* Nothing of a worker's subject is executed after a failed run.
Ended(w) == pc[w] \in {"join", "failed"} \/ (pc[w] = "release" /\ status[camp[w]] = "failed")

\* What run_subject has to do with the directory of a terminated campaign: no
\* future and no worker has a run in it, but one that is about to stop.
Down ==
    \A c \in hit :
        /\ c \in Campaigns
        /\ \A i \in 1 .. Len(futures) : Apart(<<c>>, futures[i])
        /\ \A w \in Runners : Apart(<<c>>, todo[w]) \/ Ended(w)

\* A worker past the check of status.json has found its run incomplete.
Incomplete ==
    \A w \in Runners : /\ force[w] = FALSE
                       /\ pc[w] \notin {"idle", "status", "release"} => status[camp[w]] # "complete"

\* What a step of run_one does to status.json.
StatusFrame(r) ==
    /\ \A c \in Campaigns : c # camp[r] => status'[c] = status[c]
    /\ status[camp[r]] = "complete" => status'[camp[r]] = "complete"
    /\ force'[r] = FALSE /\ \A x \in Runners \ {r} : force'[x] = force[x]
    /\ pc'[r] \notin {"idle", "status", "release"} => status'[camp[r]] # "complete"
    /\ pc[r] = "join" => pc'[r] = "failed"
    /\ pc[r] = "failed" => pc'[r] = "release" /\ status'[camp[r]] = "failed"
    /\ pc[r] = "release" => pc'[r] = "idle" /\ status' = status
    /\ pc'[r] = "idle" /\ Remaining(r) # <<>> => status[camp[r]] = "complete"

\* Every step of run_one treats status.json so.
LEMMA RunnerStatus ==
    ASSUME Shape, Incomplete, NEW r \in Runners, RunnerStep(r)
    PROVE  StatusFrame(r)
<1> USE DEF runVars, lockVars, logVars, busyVars, fuzzVars, bounds
<1>0. /\ pc \in [Runners -> Labels] /\ force \in [Runners -> BOOLEAN] /\ force[r] = FALSE
      /\ status \in [Campaigns -> {"none", "running", "failed", "complete"}]
      /\ pc[r] # "idle" => camp[r] \in Campaigns
      /\ pc[r] \notin {"idle", "status", "release"} => status[camp[r]] # "complete"
  BY Zenon DEF Shape, Incomplete
<1>1. ASSUME NEW locks, Exit(r, locks), status' = status, pc[r] \notin {"join", "failed"},
             pc[r] = "status" => status[camp[r]] = "complete"
      PROVE  StatusFrame(r)
  <2>1. pc'[r] = "idle" /\ force'[r] = FALSE /\ \A x \in Runners \ {r} : force'[x] = force[x]
    BY <1>0, <1>1, Zenon DEF Exit, Goto
  <2>. QED
    BY <1>1, <2>1, Zenon DEF StatusFrame, Remaining
<1>2. ASSUME NEW l, pc' = [pc EXCEPT ![r] = l], l # "idle", status' = status, force' = force,
             pc[r] \notin {"idle", "failed", "release"}, status[camp[r]] # "complete",
             pc[r] = "join" => l = "failed"
      PROVE  StatusFrame(r)
  <2>1. pc'[r] = l
    BY <1>0, <1>2, Zenon
  <2>. QED
    BY <1>0, <1>2, <2>1, Zenon DEF StatusFrame
<1>3. CASE CheckStatus(r) \/ LockJudge(r) \/ LockCreate(r) \/ LoadProgress(r)
  <2>1. CASE Exit(r, lock)
    <3>1. status' = status /\ pc[r] \notin {"join", "failed"}
      BY <1>3, Zenon DEF CheckStatus, LockJudge, LockCreate, LoadProgress
    <3>2. pc[r] = "status" => status[camp[r]] = "complete"
      <4>1. pc'[r] = "idle"
        BY <1>0, <2>1, Zenon DEF Exit, Goto
      <4>. QED
        BY <1>0, <1>3, <4>1, Zenon DEF CheckStatus, LockJudge, LockCreate, LoadProgress, Goto
    <3>. QED
      BY <1>1, <2>1, <3>1, <3>2, Zenon
  <2>2. CASE ~Exit(r, lock)
    <3>1. status[camp[r]] # "complete"
      BY <1>0, <1>3, <2>2, Zenon DEF CheckStatus, LockJudge, LockCreate, LoadProgress
    <3>. QED
      BY <1>2, <1>3, <2>2, <3>1, Zenon DEF CheckStatus, LockJudge, LockCreate, LoadProgress, Goto
  <2>. QED
    BY <2>1, <2>2, Zenon
<1>4. CASE LockTest(r) \/ LockRead(r) \/ LockUnlink(r) \/ LockWrite(r)
  BY <1>0, <1>2, <1>4, Zenon DEF LockTest, LockRead, LockUnlink, LockWrite, Goto
<1>5. CASE CleanRuntime(r) \/ LaunchSegment(r) \/ JoinOutput(r) \/ AppendCoverage(r) \/ SaveProgress(r)
  BY <1>0, <1>2, <1>5, ZenonT(30)
     DEF CleanRuntime, LaunchSegment, JoinOutput, AppendCoverage, SaveProgress, Goto
<1>6. CASE MarkRunning(r) \/ Finish(r)
  <2>1. PICK s : /\ status' = [status EXCEPT ![camp[r]] = s] /\ force' = force
                 /\ pc[r] = "failed" => s = "failed" /\ pc' = [pc EXCEPT ![r] = "release"]
                 /\ \/ pc' = [pc EXCEPT ![r] = "loop"] /\ pc[r] = "running" /\ s = "running"
                    \/ pc' = [pc EXCEPT ![r] = "release"] /\ pc[r] \in {"loop", "failed"}
    BY <1>6, Zenon DEF MarkRunning, Finish, Goto
  <2>2. camp[r] \in Campaigns /\ status[camp[r]] # "complete"
    BY <1>0, <2>1, Zenon
  <2>3. status'[camp[r]] = s /\ \A c \in Campaigns : c # camp[r] => status'[c] = status[c]
    BY <1>0, <2>1, <2>2, Zenon
  <2>4. pc'[r] \in {"loop", "release"} /\ (pc'[r] = "loop" => s = "running" /\ pc[r] = "running")
    BY <1>0, <2>1, Zenon
  <2>. QED
    BY <1>0, <2>1, <2>2, <2>3, <2>4, Zenon DEF StatusFrame
<1>7. CASE ReleaseLock(r)
  BY <1>1, <1>7, Zenon DEF ReleaseLock
<1>. QED
  BY <1>3, <1>4, <1>5, <1>6, <1>7, Zenon DEF RunnerStep

\* Two workers in run_one are in two directories.
LEMMA SoleWorker ==
    ASSUME PoolInv, NEW w \in Runners, NEW x \in Runners, w # x, pc[w] # "idle", pc[x] # "idle"
    PROVE  Benchmark[camp[w]] # Benchmark[camp[x]] /\ camp[w] # camp[x]
<1>1. Apart(todo[w], todo[x])
  BY Zenon DEF PoolInv, Separate
<1>2. /\ todo[w] \in Seq(Campaigns) /\ todo[w] # <<>> /\ camp[w] = Head(todo[w])
      /\ todo[x] \in Seq(Campaigns) /\ todo[x] # <<>> /\ camp[x] = Head(todo[x])
  BY Zenon DEF PoolInv, Separate, OnItsRun
<1>3. /\ 1 \in 1 .. Len(todo[w]) /\ camp[w] = todo[w][1]
      /\ 1 \in 1 .. Len(todo[x]) /\ camp[x] = todo[x][1]
  BY <1>2
<1>. QED
  BY <1>1, <1>3, Zenon DEF Apart

\* A step in which no thread executes run_one: at most it ends a segment, or
\* the process with all its threads.
Still ==
    /\ UNCHANGED <<status, progress, force>>
    /\ \A w \in Runners : pc'[w] # "idle" =>
          /\ UNCHANGED <<camp[w], prog[w], child[w]>>
          /\ pc'[w] # pc[w] => pc[w] = "wait" /\ pc'[w] \in {"append", "join"}

\* Only threads in run_one touch status.json and progress.json.
LEMMA PoolStepKinds ==
    ASSUME PoolInv, [PoolNext]_allVars
    PROVE  Still \/ \E w \in Runners : CallRunOne(w) \/ RunOneStep(w)
<1> USE DEF runVars, lockVars, logVars, busyVars, fuzzVars, bounds
<1>1. ASSUME UNCHANGED vars PROVE Still
  BY <1>1, Zenon DEF vars, Still
<1>2. CASE Terminate
  <2>1. \A w \in Runners : child[w] \in active => pc[w] = "wait"
    BY Zenon DEF PoolInv, Registered, Waiting
  <2>2. /\ UNCHANGED <<status, progress, force, camp, prog, child>>
        /\ \A w \in Runners : pc'[w] = IF child[w] \in active THEN "join" ELSE pc[w]
    BY <1>2, Zenon DEF Terminate
  <2>. QED
    BY <2>1, <2>2, Zenon DEF Still
<1>3. CASE ProcessDies
  BY <1>3, Zenon DEF ProcessDies, Still
<1>4. ASSUME NEW f \in fuzzers, SegmentStep(f) PROVE Still
  <2>1. CASE FuzzerLogs(f) \/ FuzzerCommits(f)
    BY <2>1, Zenon DEF FuzzerLogs, FuzzerCommits, Still
  <2>2. ASSUME NEW ok \in BOOLEAN, FuzzerExits(f, ok) PROVE Still
    <3>1. \A w \in Runners : child[w] = f.id => pc[w] = "wait"
      BY Zenon DEF PoolInv, Waiting
    <3>2. /\ UNCHANGED <<status, progress, force, camp, prog, child>>
          /\ \A w \in Runners :
                pc'[w] = IF child[w] = f.id THEN IF ok THEN "append" ELSE "join" ELSE pc[w]
      BY <2>2, Zenon DEF FuzzerExits
    <3>. QED
      BY <3>1, <3>2, Zenon DEF Still
  <2>. QED
    BY <1>4, <2>1, <2>2, Zenon DEF SegmentStep
<1>5. CASE Submit \/ Shutdown \/ PoolEnds
  BY <1>1, <1>5, Zenon DEF Submit, Shutdown, PoolEnds
<1>6. ASSUME NEW w \in Runners, TakeFuture(w) \/ Register(w) PROVE Still
  BY <1>1, <1>6, Zenon DEF TakeFuture, Register
<1>7. CASE UNCHANGED allVars
  BY <1>1, <1>7, Zenon DEF allVars
<1>8. CASE HonggfuzzEnds
  BY <1>8, Zenon DEF HonggfuzzEnds, StrayEnds, Still
<1>. QED
  BY <1>2, <1>3, <1>4, <1>5, <1>6, <1>7, <1>8, Zenon DEF PoolNext, WorkerStep

\* A campaign that is complete is never taken up again.
LEMMA StepIncomplete == PoolInv /\ Incomplete /\ [PoolNext]_allVars => Incomplete'
<1> SUFFICES ASSUME PoolInv, Incomplete, [PoolNext]_allVars PROVE Incomplete'
  OBVIOUS
<1>0. Shape
  BY Zenon DEF PoolInv
<1>1. CASE Still
  BY <1>1 DEF Still, Incomplete
<1>2. ASSUME NEW w \in Runners, CallRunOne(w) PROVE Incomplete'
  <2>1. /\ pc'[w] = "status" /\ force'[w] = FALSE /\ status' = status
        /\ \A x \in Runners \ {w} : pc'[x] = pc[x] /\ camp'[x] = camp[x] /\ force'[x] = force[x]
    BY <1>0, <1>2, Zenon DEF CallRunOne, Invoke, Goto, Shape, runVars
  <2>. QED
    BY <2>1, Zenon DEF Incomplete
<1>3. ASSUME NEW w \in Runners, RunOneStep(w) PROVE Incomplete'
  <2>1. Frame(w) /\ StatusFrame(w)
    BY <1>0, <1>3, RunnerFrame, RunnerStatus, Zenon DEF RunOneStep
  <2>2. ASSUME NEW x \in Runners \ {w}, pc'[x] \notin {"idle", "status", "release"}
        PROVE  status'[camp'[x]] # "complete"
    <3>1. pc[x] = pc'[x] /\ camp'[x] = camp[x] /\ pc[w] # "idle"
      BY <2>1, Zenon DEF Frame
    <3>2. camp[x] \in Campaigns /\ camp[x] # camp[w]
      BY <1>0, <2>2, <3>1, SoleWorker, Zenon DEF Shape
    <3>. QED
      BY <2>1, <2>2, <3>1, <3>2, Zenon DEF StatusFrame, Incomplete
  <2>3. pc'[w] \notin {"idle", "status", "release"} => status'[camp'[w]] # "complete"
    BY <2>1, Zenon DEF Frame, StatusFrame
  <2>4. \A x \in Runners : force'[x] = FALSE
    BY <2>1, Zenon DEF StatusFrame, Incomplete
  <2>. QED
    BY <2>2, <2>3, <2>4, Zenon DEF Incomplete
<1>. QED
  BY <1>1, <1>2, <1>3, PoolStepKinds, Zenon

\* Terminate marks the runs of workers that are about to fail, and nobody else
\* comes to their directories.
LEMMA StepDown == PoolInv /\ Incomplete /\ Down /\ [PoolNext]_allVars => Down'
<1> SUFFICES ASSUME PoolInv, Incomplete, Down, [PoolNext]_allVars PROVE Down'
  OBVIOUS
<1> USE DEF runVars, lockVars, logVars, busyVars, fuzzVars, bounds
<1>0. Shape /\ Waiting /\ Separate /\ OnItsRun /\ Registered
  BY Zenon DEF PoolInv
<1>1. ASSUME UNCHANGED <<hit, futures, todo>>, \A w \in Runners : Ended(w) => Ended(w)' PROVE Down'
  BY <1>1, Zenon DEF Down
<1>2. CASE Submit \/ ProcessDies
  BY <1>2, Zenon DEF Submit, ProcessDies, Down
<1>3. CASE Terminate
  <2>1. /\ hit' = {camp[w] : w \in {x \in Runners : child[x] \in active}}
        /\ UNCHANGED <<futures, todo>>
        /\ pc' = [w \in Runners |-> IF child[w] \in active THEN "join" ELSE pc[w]]
    BY <1>3, Zenon DEF Terminate
  <2> SUFFICES ASSUME NEW x \in Runners, child[x] \in active
               PROVE  /\ camp[x] \in Campaigns
                      /\ \A i \in 1 .. Len(futures) : Apart(<<camp[x]>>, futures[i])
                      /\ \A w \in Runners : Apart(<<camp[x]>>, todo[w]) \/ Ended(w)'
    BY <2>1, Zenon DEF Down
  <2>2. pc[x] = "wait"
    BY <1>0, Zenon DEF Registered, Waiting
  <2>3. todo[x] \in Seq(Campaigns) /\ todo[x] # <<>> /\ camp[x] = Head(todo[x])
    BY <1>0, <2>2, Zenon DEF Separate, OnItsRun
  <2>4. camp[x] \in Campaigns /\ 1 \in 1 .. Len(todo[x]) /\ camp[x] = todo[x][1]
    BY <2>3
  <2>5. ASSUME NEW t, Apart(todo[x], t) PROVE Apart(<<camp[x]>>, t)
    BY <2>4, <2>5 DEF Apart
  <2>6. Ended(x)'
    BY <2>1, Zenon DEF Ended
  <2>. QED
    BY <1>0, <2>4, <2>5, <2>6, Zenon DEF Separate
<1>4. CASE Shutdown \/ PoolEnds
  <2>1. UNCHANGED <<vars, hit, todo>> /\ (futures' = <<>> \/ futures' = futures)
    BY <1>4, Zenon DEF Shutdown, PoolEnds
  <2>2. \A w \in Runners : Ended(w)' <=> Ended(w)
    BY <2>1, Zenon DEF vars, Ended
  <2>3. CASE futures' = futures
    BY <2>1, <2>2, <2>3, Zenon DEF Down
  <2>4. CASE futures' = <<>>
    <3>1. \A i \in 1 .. Len(futures') : FALSE
      BY <2>4
    <3>. QED
      BY <2>1, <2>2, <3>1, Zenon DEF Down
  <2>. QED
    BY <2>1, <2>3, <2>4, Zenon
<1>5. ASSUME NEW w \in Runners, TakeFuture(w) PROVE Down'
  <2>1. /\ futures \in Seq(Seq(Campaigns)) /\ futures # <<>>
        /\ futures' = Tail(futures) /\ todo' = [todo EXCEPT ![w] = Head(futures)]
        /\ UNCHANGED <<vars, hit>>
    BY <1>0, <1>5, Zenon DEF TakeFuture, Separate
  <2>2. /\ 1 \in 1 .. Len(futures) /\ Head(futures) = futures[1]
        /\ \A i \in 1 .. Len(futures') : futures'[i] = futures[i + 1] /\ i + 1 \in 1 .. Len(futures)
    BY <2>1
  <2>3. \A x \in Runners : todo'[x] = futures[1] \/ todo'[x] = todo[x]
    BY <1>0, <2>1, <2>2, Zenon DEF Separate
  <2>4. \A x \in Runners : Ended(x)' <=> Ended(x)
    BY <2>1, Zenon DEF vars, Ended
  <2> SUFFICES ASSUME NEW c \in hit
               PROVE  /\ c \in Campaigns
                      /\ \A i \in 1 .. Len(futures') : Apart(<<c>>, futures'[i])
                      /\ \A x \in Runners : Apart(<<c>>, todo'[x]) \/ Ended(x)'
    BY <2>1, Zenon DEF Down
  <2>5. \A i \in 1 .. Len(futures) : Apart(<<c>>, futures[i])
    BY Zenon DEF Down
  <2>. QED
    BY <2>2, <2>3, <2>4, <2>5, Zenon DEF Down
<1>6. ASSUME NEW w \in Runners, CallRunOne(w) PROVE Down'
  <2>1. /\ UNCHANGED <<hit, futures, todo>> /\ pc[w] = "idle" /\ status' = status
        /\ \A x \in Runners \ {w} : pc'[x] = pc[x] /\ camp'[x] = camp[x]
    BY <1>0, <1>6, Zenon DEF CallRunOne, Invoke, Goto, Shape, poolVars
  <2>. QED
    BY <1>1, <2>1, Zenon DEF Ended
<1>7. ASSUME NEW w \in Runners, Register(w) PROVE Down'
  BY <1>1, <1>7, Zenon DEF Register, vars, Ended
<1>8. ASSUME NEW f \in fuzzers, SegmentStep(f) PROVE Down'
  <2>1. UNCHANGED <<hit, futures, todo>>
    BY <1>8, Zenon DEF SegmentStep
  <2>2. CASE FuzzerLogs(f) \/ FuzzerCommits(f)
    BY <1>1, <2>1, <2>2, Zenon DEF FuzzerLogs, FuzzerCommits, Ended
  <2>3. ASSUME NEW ok \in BOOLEAN, FuzzerExits(f, ok) PROVE Down'
    <3>1. \A w \in Runners : pc'[w] # pc[w] => pc[w] = "wait"
      BY <1>0, <2>3, Zenon DEF FuzzerExits, Waiting
    <3>2. UNCHANGED <<status, camp>>
      BY <2>3, Zenon DEF FuzzerExits
    <3>. QED
      BY <1>1, <2>1, <3>1, <3>2, Zenon DEF Ended
  <2>. QED
    BY <1>8, <2>2, <2>3, Zenon DEF SegmentStep
<1>9. ASSUME NEW w \in Runners, RunOneStep(w) PROVE Down'
  <2>1. /\ Frame(w) /\ StatusFrame(w) /\ UNCHANGED <<hit, futures>>
        /\ todo' = IF pc'[w] = "idle" THEN [todo EXCEPT ![w] = Remaining(w)] ELSE todo
    BY <1>0, <1>9, RunnerFrame, RunnerStatus, Zenon DEF RunOneStep
  <2>2. todo[w] \in Seq(Campaigns) /\ todo[w] # <<>> /\ Tail(todo[w]) \in Seq(Campaigns)
    <3>1. todo[w] \in Seq(Campaigns) /\ todo[w] # <<>>
      BY <1>0, <2>1, Zenon DEF Frame, Separate, OnItsRun
    <3>. QED
      BY <3>1
  <2>3. \A x \in Runners \ {w} : todo'[x] = todo[x] /\ (Ended(x) => Ended(x)')
    <3> SUFFICES ASSUME NEW x \in Runners \ {w} PROVE todo'[x] = todo[x] /\ (Ended(x) => Ended(x)')
      BY Zenon
    <3>1. todo'[x] = todo[x]
      BY <1>0, <2>1, Zenon DEF Separate
    <3>2. pc'[x] = pc[x] /\ camp'[x] = camp[x] /\ pc[w] # "idle"
      BY <2>1, Zenon DEF Frame
    <3>3. ASSUME Ended(x) PROVE camp[x] \in Campaigns /\ camp[x] # camp[w]
      BY <1>0, <3>2, <3>3, SoleWorker, Zenon DEF Ended, Shape
    <3>. QED
      BY <2>1, <3>1, <3>2, <3>3, Zenon DEF StatusFrame, Ended
  <2> SUFFICES ASSUME NEW c \in hit PROVE c \in Campaigns /\ (Apart(<<c>>, todo'[w]) \/ Ended(w)')
    BY <2>1, <2>3, Zenon DEF Down
  <2>4. c \in Campaigns /\ <<c>> \in Seq(Campaigns)
    <3>1. c \in Campaigns
      BY Zenon DEF Down
    <3>. QED
      BY <3>1
  <2>5. CASE Apart(<<c>>, todo[w])
    <3>1. Apart(<<c>>, Tail(todo[w])) /\ Apart(<<c>>, <<>>)
      <4>1. Apart(todo[w], <<c>>)
        BY <2>2, <2>4, <2>5, ApartRest, Zenon
      <4>. QED
        BY <2>2, <2>4, <2>5, <4>1, ApartRest, Zenon
    <3>2. todo'[w] \in {todo[w], Tail(todo[w]), <<>>}
      BY <1>0, <2>1, Zenon DEF Remaining, Separate
    <3>. QED
      BY <2>4, <2>5, <3>1, <3>2, Zenon
  <2>6. CASE Ended(w)
    <3>1. CASE pc[w] \in {"join", "failed"}
      BY <2>1, <2>4, <3>1, Zenon DEF Frame, StatusFrame, Ended
    <3>2. CASE pc[w] = "release" /\ status[camp[w]] = "failed"
      <4>1. pc'[w] = "idle" /\ Remaining(w) = <<>>
        BY <2>1, <3>2, Zenon DEF StatusFrame, Remaining
      <4>2. todo'[w] = <<>>
        BY <1>0, <2>1, <4>1, Zenon DEF Separate
      <4>. QED
        BY <2>4, <4>2 DEF Apart
    <3>. QED
      BY <2>6, <3>1, <3>2, Zenon DEF Ended
  <2>. QED
    BY <2>5, <2>6, Zenon DEF Down
<1>10. CASE UNCHANGED allVars
  BY <1>1, <1>10, Zenon DEF allVars, vars, poolVars, Ended
<1>11. CASE HonggfuzzEnds
  BY <1>1, <1>11, Zenon DEF HonggfuzzEnds, StrayEnds, poolVars, Ended
<1>. QED
  BY <1>2, <1>3, <1>4, <1>5, <1>6, <1>7, <1>8, <1>9, <1>10, <1>11, Zenon DEF PoolNext, WorkerStep

\* Ctrl-C: an invocation never runs mfuzz again in the directory of a campaign
\* it has terminated, for any matrix and any number of workers
\* (terminate_active_processes, run_subject).
THEOREM TerminateCorrect == PoolSpec => []TerminatedStaysDown
<1>1. PoolInit => Incomplete /\ Down
  BY Zenon DEF PoolInit, Init, Incomplete, Down
<1>2. PoolInv /\ Down => TerminatedStaysDown
  <2> SUFFICES ASSUME PoolInv, Down, NEW w \in Runners, NEW c \in hit, pc[w] = "wait"
               PROVE  Benchmark[camp[w]] # Benchmark[c]
    BY Zenon DEF TerminatedStaysDown
  <2>1. Apart(<<c>>, todo[w])
    BY Zenon DEF Down, Ended
  <2>2. todo[w] \in Seq(Campaigns) /\ todo[w] # <<>> /\ camp[w] = Head(todo[w])
    BY Zenon DEF PoolInv, Separate, OnItsRun
  <2>3. 1 \in 1 .. Len(todo[w]) /\ camp[w] = todo[w][1]
    BY <2>2
  <2>. QED
    BY <2>1, <2>3 DEF Apart
<1>. QED
  BY <1>1, <1>2, PoolInvariance, StepIncomplete, StepDown, PTL DEF PoolSpec

-----------------------------------------------------------------------------

\* Saved progress is of at least one segment, and a worker that goes on from none
\* has found none.
Begun ==
    /\ \A c \in Campaigns : progress[c] # None => progress[c].done > 0
    /\ \A w \in Runners : pc[w] = "save" => prog[w].done > 0
    /\ \A w \in Runners : pc[w] = "clean" => progress[camp[w]] = None \/ prog[w].done > 0

\* What a step of run_one does to progress.json.
FilesFrame(r) ==
    /\ \A c \in Campaigns : c # camp[r] => progress'[c] = progress[c]
    /\ \A x \in Runners \ {r} : prog'[x] = prog[x]
    /\ progress' = progress \/ progress'[camp[r]].done > 0
    /\ pc'[r] = "save" => prog'[r].done > 0
    /\ pc'[r] = "clean" => progress'[camp[r]] = None \/ prog'[r].done > 0

\* Every step of run_one treats the file so.
LEMMA RunnerFiles ==
    ASSUME Shape, Begun, NEW r \in Runners, RunnerStep(r), force[r] = FALSE
    PROVE  FilesFrame(r)
<1> USE DEF runVars, lockVars, logVars, busyVars, fuzzVars, bounds
<1>0. /\ pc \in [Runners -> Labels] /\ prog \in [Runners -> Progresses]
      /\ progress \in [Campaigns -> Progresses \cup {None}]
      /\ checkpoint \in [Campaigns -> Nat \cup {None}]
      /\ pc[r] # "idle" => camp[r] \in Campaigns
  BY Zenon DEF Shape
<1>1. ASSUME NEW locks, Exit(r, locks), UNCHANGED progress PROVE FilesFrame(r)
  <2>1. pc'[r] = "idle" /\ \A x \in Runners \ {r} : prog'[x] = prog[x]
    BY <1>0, <1>1, Zenon DEF Exit, Goto
  <2>. QED
    BY <1>1, <2>1, Zenon DEF FilesFrame
<1>2. ASSUME NEW l, pc' = [pc EXCEPT ![r] = l], UNCHANGED <<progress, prog>>, l \notin {"save", "clean"}
      PROVE  FilesFrame(r)
  <2>1. pc'[r] = l
    BY <1>0, <1>2, Zenon
  <2>. QED
    BY <1>2, <2>1, Zenon DEF FilesFrame
<1>3. CASE CheckStatus(r) \/ LockJudge(r) \/ LockCreate(r)
  <2>1. CASE Exit(r, lock)
    BY <1>1, <1>3, <2>1, Zenon DEF CheckStatus, LockJudge, LockCreate
  <2>2. CASE ~Exit(r, lock)
    BY <1>2, <1>3, <2>2, Zenon DEF CheckStatus, LockJudge, LockCreate, Goto
  <2>. QED
    BY <2>1, <2>2, Zenon
<1>4. CASE LockTest(r) \/ LockRead(r) \/ LockUnlink(r) \/ LockWrite(r)
  BY <1>2, <1>4, Zenon DEF LockTest, LockRead, LockUnlink, LockWrite, Goto
<1>5. CASE CleanRuntime(r) \/ MarkRunning(r) \/ Finish(r)
  BY <1>2, <1>5, Zenon DEF CleanRuntime, MarkRunning, Finish, Goto
<1>6. CASE LaunchSegment(r) \/ JoinOutput(r)
  BY <1>2, <1>6, Zenon DEF LaunchSegment, JoinOutput, Goto
<1>7. CASE ReleaseLock(r)
  BY <1>1, <1>7, Zenon DEF ReleaseLock
<1>8. CASE LoadProgress(r)
  <2>1. CASE Exit(r, lock) /\ UNCHANGED progress
    BY <1>1, <2>1, Zenon
  <2>2. CASE ~(Exit(r, lock) /\ UNCHANGED progress)
    <3> DEFINE c == camp[r]
               p == [Loaded(r) EXCEPT !.done = Committed(r)]
    <3>1. /\ pc[r] = "load" /\ pc' = [pc EXCEPT ![r] = "clean"] /\ CheckpointValid(r)
          /\ prog' = [prog EXCEPT ![r] = p] /\ progress' = RecoveredProgress(r)
      BY <1>8, <2>2, Zenon DEF LoadProgress, Goto
    <3>2. c \in Campaigns
      BY <1>0, <3>1, Zenon
    <3>3. /\ Loaded(r) \in Progresses
          /\ progress[c] = None => Loaded(r) = NewRun
          /\ progress[c] # None => Loaded(r) = progress[c] /\ progress[c].done > 0
      BY <1>0, <3>2, NewRunType, Zenon DEF Loaded, Begun
    <3>4. /\ Loaded(r).done \in Nat /\ Committed(r) \in Nat /\ Loaded(r).done <= Committed(r)
          /\ p.done = Committed(r) /\ NewRun.done = 0
      <4>1. Loaded(r).done \in Nat /\ NewRun.done = 0
        BY <3>3 DEF Progresses, NewRun
      <4>2. p.done = Committed(r)
        BY <3>3, Zenon DEF Progresses
      <4>3. Committed(r) \in Nat
        BY <1>0, <3>2, <4>1, Zenon DEF Committed
      <4>4. Committed(r) \in Loaded(r).done .. Duration
        BY <3>1, Zenon DEF CheckpointValid
      <4>. HIDE DEF p
      <4>. QED
        BY <4>1, <4>2, <4>3, <4>4, CampaignAssumption DEF CampaignAssumption
    <3>5. /\ prog'[r] = p /\ \A x \in Runners \ {r} : prog'[x] = prog[x]
          /\ pc'[r] = "clean"
      BY <1>0, <3>1, Zenon
    <3>6. /\ \A d \in Campaigns : d # c => progress'[d] = progress[d]
          /\ IF Committed(r) > Loaded(r).done THEN progress'[c] = p ELSE progress' = progress
      BY <1>0, <3>1, <3>2, Zenon DEF RecoveredProgress
    <3> HIDE DEF p
    <3>7. Committed(r) > Loaded(r).done => p.done > 0
      BY <3>4
    <3>8. progress[c] # None => p.done > 0
      BY <3>3, <3>4
    <3>. QED
      BY <3>5, <3>6, <3>7, <3>8, Zenon DEF FilesFrame
  <2>. QED
    BY <2>1, <2>2, Zenon
<1>9. CASE AppendCoverage(r)
  <2> DEFINE t == prog[r].done + SegmentDuration(prog[r].done)
  <2>1. PICK s : /\ pc' = [pc EXCEPT ![r] = "save"] /\ UNCHANGED progress
                 /\ prog' = [prog EXCEPT ![r] = [done |-> t, segs |-> s]]
    BY <1>9, Zenon DEF AppendCoverage, Goto
  <2>2. prog[r].done \in Nat
    BY <1>0 DEF Progresses
  <2>3. t > 0
    BY <2>2, CampaignAssumption DEF CampaignAssumption, SegmentDuration
  <2> HIDE DEF t
  <2>4. pc'[r] = "save" /\ prog'[r].done = t /\ \A x \in Runners \ {r} : prog'[x] = prog[x]
    BY <1>0, <2>1
  <2>. QED
    BY <2>1, <2>3, <2>4, Zenon DEF FilesFrame
<1>10. CASE SaveProgress(r)
  <2>1. /\ pc[r] = "save" /\ pc' = [pc EXCEPT ![r] = "loop"] /\ UNCHANGED prog
        /\ progress' = [progress EXCEPT ![camp[r]] = prog[r]]
    BY <1>10, Zenon DEF SaveProgress, Goto
  <2>2. camp[r] \in Campaigns /\ prog[r].done > 0
    BY <1>0, <2>1, Zenon DEF Begun
  <2>3. /\ pc'[r] = "loop" /\ progress'[camp[r]] = prog[r]
        /\ \A c \in Campaigns : c # camp[r] => progress'[c] = progress[c]
    BY <1>0, <2>1, <2>2, Zenon
  <2>. QED
    BY <2>1, <2>2, <2>3, Zenon DEF FilesFrame
<1>. QED
  BY <1>3, <1>4, <1>5, <1>6, <1>7, <1>8, <1>9, <1>10, Zenon DEF RunnerStep

\* The first m - 1 runs of subject i are complete.
Behind(i, m) == \A k \in 1 .. m - 1 : status[BySubject[i][k]] = "complete"

\* t is what is left of subject i from its m-th run on.
Rest(t, i, m) ==
    /\ Len(t) = Len(BySubject[i]) - m + 1
    /\ \A k \in 1 .. Len(t) : t[k] = BySubject[i][m + k - 1]

\* All runs before c in its subject are complete.
Reached(c) ==
    \E i \in 1 .. Len(BySubject) : \E m \in 1 .. Len(BySubject[i]) :
        BySubject[i][m] = c /\ Behind(i, m)

\* The runs of a subject are taken up in turn: a worker, and a campaign that has
\* completed a segment, is behind complete ones only.
InTurn ==
    /\ \A i \in 1 .. Len(futures) : \E j \in 1 .. Len(BySubject) : futures[i] = BySubject[j]
    /\ \A w \in Runners : todo[w] # <<>> =>
          \E i \in 1 .. Len(BySubject) : \E m \in 1 .. Len(BySubject[i]) :
              Rest(todo[w], i, m) /\ Behind(i, m)
    /\ \A c \in Campaigns : progress[c] # None /\ status[c] # "complete" => Reached(c)

\* A subject is a sequence of campaigns.
LEMMA SubjectFacts ==
    ASSUME NEW i \in 1 .. Len(BySubject)
    PROVE  /\ BySubject[i] \in Seq(Campaigns) /\ Len(BySubject[i]) \in Nat
           /\ \A k \in 1 .. Len(BySubject[i]) : BySubject[i][k] \in Campaigns
<1>1. BySubject \in Seq(Seq(Campaigns))
  BY BySubjectAssumption, Zenon DEF BySubjectAssumption
<1>2. BySubject[i] \in Seq(Campaigns)
  BY <1>1
<1>. QED
  BY <1>2

\* A subject, its first run, and what is left after it.
LEMMA RestFacts ==
    ASSUME NEW i \in 1 .. Len(BySubject)
    PROVE  /\ Rest(BySubject[i], i, 1)
           /\ \A t \in Seq(Campaigns), m \in 1 .. Len(BySubject[i]) :
                 t # <<>> /\ Rest(t, i, m) =>
                    /\ BySubject[i][m] = Head(t)
                    /\ Tail(t) # <<>> => m + 1 \in 1 .. Len(BySubject[i]) /\ Rest(Tail(t), i, m + 1)
<1>1. Rest(BySubject[i], i, 1)
  BY SubjectFacts DEF Rest
<1>2. ASSUME NEW t \in Seq(Campaigns), NEW m \in 1 .. Len(BySubject[i]), t # <<>>, Rest(t, i, m)
      PROVE  /\ BySubject[i][m] = Head(t)
             /\ Tail(t) # <<>> => m + 1 \in 1 .. Len(BySubject[i]) /\ Rest(Tail(t), i, m + 1)
  <2>1. /\ Len(t) \in Nat /\ 1 \in 1 .. Len(t) /\ Head(t) = t[1] /\ Len(Tail(t)) = Len(t) - 1
        /\ \A k \in 1 .. Len(t) - 1 : Tail(t)[k] = t[k + 1]
        /\ Tail(t) # <<>> => Len(t) - 1 >= 1
    BY <1>2
  <2>2. Len(BySubject[i]) \in Nat
    BY SubjectFacts, Zenon
  <2>3. BySubject[i][m] = Head(t)
    <3>1. t[1] = BySubject[i][m + 1 - 1] /\ m + 1 - 1 = m
      BY <1>2, <2>1 DEF Rest
    <3>. QED
      BY <2>1, <3>1, Zenon
  <2>4. Len(t) = Len(BySubject[i]) - m + 1
    BY <1>2, Zenon DEF Rest
  <2>5. ASSUME NEW k \in 1 .. Len(t) - 1 PROVE Tail(t)[k] = BySubject[i][m + 1 + k - 1]
    <3>1. k + 1 \in 1 .. Len(t) /\ m + (k + 1) - 1 = m + 1 + k - 1
      BY <2>1, <2>2
    <3>2. t[k + 1] = BySubject[i][m + (k + 1) - 1]
      BY <1>2, <3>1, Zenon DEF Rest
    <3>. QED
      BY <2>1, <3>1, <3>2, Zenon
  <2>6. Rest(Tail(t), i, m + 1)
    <3>1. Len(Tail(t)) = Len(BySubject[i]) - (m + 1) + 1
      BY <2>1, <2>2, <2>4
    <3>2. \A k \in 1 .. Len(Tail(t)) : Tail(t)[k] = BySubject[i][m + 1 + k - 1]
      BY <2>1, <2>5, Zenon
    <3>. QED
      BY <3>1, <3>2, Zenon DEF Rest
  <2>7. Tail(t) # <<>> => m + 1 \in 1 .. Len(BySubject[i])
    BY <2>1, <2>2, <2>4
  <2>. QED
    BY <2>3, <2>6, <2>7, Zenon
<1>. QED
  BY <1>1, <1>2, Zenon

\* Of the campaigns in one directory, only one is reached and not complete.
LEMMA OneReached ==
    ASSUME NEW c, NEW d, Reached(c), Reached(d), Benchmark[c] = Benchmark[d],
           status[c] # "complete", status[d] # "complete"
    PROVE  c = d
<1>1. PICK i \in 1 .. Len(BySubject) : \E m \in 1 .. Len(BySubject[i]) :
               BySubject[i][m] = c /\ Behind(i, m)
  BY Zenon DEF Reached
<1>2. PICK m \in 1 .. Len(BySubject[i]) : BySubject[i][m] = c /\ Behind(i, m)
  BY <1>1, Zenon
<1>3. PICK j \in 1 .. Len(BySubject) : \E l \in 1 .. Len(BySubject[j]) :
               BySubject[j][l] = d /\ Behind(j, l)
  BY Zenon DEF Reached
<1>4. PICK l \in 1 .. Len(BySubject[j]) : BySubject[j][l] = d /\ Behind(j, l)
  BY <1>3, Zenon
<1>5. i = j
  BY <1>2, <1>4, BySubjectAssumption, Zenon DEF BySubjectAssumption
<1>6. m \notin 1 .. l - 1 /\ l \notin 1 .. m - 1
  BY <1>2, <1>4, <1>5, Zenon DEF Behind
<1>7. m \in Nat /\ l \in Nat /\ 1 <= m /\ 1 <= l
  BY SubjectFacts
<1>8. m = l
  BY <1>6, <1>7
<1>. QED
  BY <1>2, <1>4, <1>5, <1>8, Zenon

\* "complete" is for good.
LEMMA CompleteStays ==
    ASSUME PoolInv, Incomplete, [PoolNext]_allVars
    PROVE  /\ \A c \in Campaigns : status[c] = "complete" => status'[c] = "complete"
           /\ \A i \in 1 .. Len(BySubject) : \A m \in 1 .. Len(BySubject[i]) :
                 Behind(i, m) => Behind(i, m)'
           /\ \A c \in Campaigns : Reached(c) => Reached(c)'
<1>1. \A c \in Campaigns : status[c] = "complete" => status'[c] = "complete"
  <2>1. CASE Still
    BY <2>1, Zenon DEF Still
  <2>2. ASSUME NEW w \in Runners, CallRunOne(w) PROVE status' = status
    BY <2>2, Zenon DEF CallRunOne, Invoke, runVars
  <2>3. ASSUME NEW w \in Runners, RunOneStep(w) PROVE StatusFrame(w)
    BY <2>3, RunnerStatus, Zenon DEF RunOneStep, PoolInv
  <2>. QED
    BY <2>1, <2>2, <2>3, PoolStepKinds, Zenon DEF StatusFrame
<1>2. ASSUME NEW i \in 1 .. Len(BySubject), NEW m \in 1 .. Len(BySubject[i]), Behind(i, m)
      PROVE  Behind(i, m)'
  <2>1. \A k \in 1 .. m - 1 : BySubject[i][k] \in Campaigns
    BY SubjectFacts
  <2>. QED
    BY <1>1, <1>2, <2>1, Zenon DEF Behind
<1>3. \A c \in Campaigns : Reached(c) => Reached(c)'
  BY <1>2, Zenon DEF Reached
<1>. QED
  BY <1>1, <1>2, <1>3, Zenon

\* A worker in run_one is on a campaign that has been reached.
LEMMA WorkerReached ==
    ASSUME PoolInv, InTurn, NEW w \in Runners, pc[w] # "idle"
    PROVE  Reached(camp[w])
<1>1. todo[w] \in Seq(Campaigns) /\ todo[w] # <<>> /\ camp[w] = Head(todo[w])
  BY Zenon DEF PoolInv, Separate, OnItsRun
<1>2. PICK i \in 1 .. Len(BySubject) : \E m \in 1 .. Len(BySubject[i]) :
               Rest(todo[w], i, m) /\ Behind(i, m)
  BY <1>1, Zenon DEF InTurn
<1>3. PICK m \in 1 .. Len(BySubject[i]) : Rest(todo[w], i, m) /\ Behind(i, m)
  BY <1>2, Zenon
<1>4. BySubject[i][m] = camp[w]
  BY <1>1, <1>3, RestFacts, Zenon
<1>. QED
  BY <1>3, <1>4, Zenon DEF Reached

\* All three frames of a step of run_one.
LEMMA RunOneFrames ==
    ASSUME PoolInv, Incomplete, Begun, NEW w \in Runners, RunOneStep(w)
    PROVE  Frame(w) /\ StatusFrame(w) /\ FilesFrame(w)
<1>1. RunnerStep(w) /\ Shape /\ Waiting /\ force[w] = FALSE
  BY Zenon DEF RunOneStep, PoolInv, Incomplete
<1>. QED
  BY <1>1, RunnerFrame, RunnerStatus, RunnerFiles, Zenon

\* Every step of the pool keeps the runs of a subject in turn.
LEMMA StepInTurn == PoolInv /\ Incomplete /\ InTurn /\ Begun /\ [PoolNext]_allVars => InTurn'
<1> SUFFICES ASSUME PoolInv, Incomplete, InTurn, Begun, [PoolNext]_allVars PROVE InTurn'
  OBVIOUS
<1>0. Shape /\ Separate /\ OnItsRun
  BY Zenon DEF PoolInv
<1> DEFINE Fut == \A i \in 1 .. Len(futures) : \E j \in 1 .. Len(BySubject) : futures[i] = BySubject[j]
           Sub(w) == todo[w] # <<>> =>
                        \E i \in 1 .. Len(BySubject) : \E m \in 1 .. Len(BySubject[i]) :
                            Rest(todo[w], i, m) /\ Behind(i, m)
<1>f. Fut
  BY Zenon DEF InTurn
<1>1. \A w \in Runners : Sub(w)
  BY Zenon DEF InTurn
<1>2. ASSUME NEW w \in Runners, todo'[w] = todo[w] PROVE Sub(w)'
  BY <1>1, <1>2, CompleteStays, Zenon
<1>3. ASSUME NEW w \in Runners, todo'[w] = <<>> PROVE Sub(w)'
  BY <1>3, Zenon
<1>4. Fut' /\ \A w \in Runners : Sub(w)'
  <2>1. CASE UNCHANGED <<futures, todo>>
    BY <1>f, <1>2, <2>1, Zenon
  <2>2. CASE Submit
    <3>1. futures' = BySubject /\ todo' = todo
      BY <2>2, Zenon DEF Submit
    <3>. QED
      BY <1>2, <3>1, Zenon
  <2>3. CASE Shutdown \/ ProcessDies
    <3>1. futures' = <<>> /\ \A w \in Runners : todo'[w] = todo[w] \/ todo'[w] = <<>>
      BY <2>3, Zenon DEF Shutdown, ProcessDies
    <3>2. \A i \in 1 .. Len(futures') : FALSE
      BY <3>1
    <3>. QED
      BY <1>2, <1>3, <3>1, <3>2, Zenon
  <2>4. ASSUME NEW w \in Runners, TakeFuture(w) PROVE Fut' /\ \A x \in Runners : Sub(x)'
    <3>1. /\ futures \in Seq(Seq(Campaigns)) /\ futures # <<>>
          /\ futures' = Tail(futures) /\ todo' = [todo EXCEPT ![w] = Head(futures)]
      BY <1>0, <2>4, Zenon DEF TakeFuture, Separate
    <3>2. /\ 1 \in 1 .. Len(futures) /\ Head(futures) = futures[1]
          /\ \A i \in 1 .. Len(futures') : futures'[i] = futures[i + 1] /\ i + 1 \in 1 .. Len(futures)
      BY <3>1
    <3>3. todo'[w] = futures[1] /\ \A x \in Runners \ {w} : todo'[x] = todo[x]
      BY <1>0, <3>1, <3>2, Zenon DEF Separate
    <3>4. Sub(w)'
      <4>1. PICK j \in 1 .. Len(BySubject) : todo'[w] = BySubject[j]
        BY <1>f, <3>2, <3>3, Zenon
      <4>2. Rest(todo'[w], j, 1) /\ Behind(j, 1)'
        <5>1. \A k \in 1 .. 1 - 1 : FALSE
          OBVIOUS
        <5>2. Behind(j, 1)'
          BY <5>1, Zenon DEF Behind
        <5>. QED
          BY <4>1, <5>2, RestFacts, Zenon
      <4>3. todo'[w] # <<>> => 1 \in 1 .. Len(BySubject[j])
        <5>1. BySubject[j] \in Seq(Campaigns)
          BY SubjectFacts, Zenon
        <5>. QED
          BY <4>1, <5>1
      <4>. QED
        BY <4>2, <4>3, Zenon DEF Rest
    <3>5. ASSUME NEW i \in 1 .. Len(futures')
          PROVE  \E j \in 1 .. Len(BySubject) : futures'[i] = BySubject[j]
      <4>1. futures'[i] = futures[i + 1] /\ i + 1 \in 1 .. Len(futures)
        BY <3>2, Zenon
      <4>. QED
        BY <1>f, <4>1, Zenon
    <3>6. Fut'
      BY <3>5, Zenon
    <3> HIDE DEF Fut, Sub
    <3>. QED
      BY <1>2, <3>3, <3>4, <3>6, Zenon
  <2>5. ASSUME NEW w \in Runners, RunOneStep(w) PROVE Fut' /\ \A x \in Runners : Sub(x)'
    <3>1. /\ Frame(w) /\ StatusFrame(w) /\ futures' = futures
          /\ todo' = IF pc'[w] = "idle" THEN [todo EXCEPT ![w] = Remaining(w)] ELSE todo
      BY <2>5, RunOneFrames, Zenon DEF RunOneStep
    <3>2. todo[w] \in Seq(Campaigns) /\ todo[w] # <<>> /\ camp[w] = Head(todo[w])
      BY <1>0, <3>1, Zenon DEF Frame, Separate, OnItsRun
    <3>3. /\ \A x \in Runners \ {w} : todo'[x] = todo[x]
          /\ \/ todo'[w] = todo[w] \/ todo'[w] = <<>>
             \/ todo'[w] = Tail(todo[w]) /\ todo'[w] = Remaining(w) /\ pc'[w] = "idle"
      BY <1>0, <3>1, Zenon DEF Remaining, Separate
    <3>4. ASSUME todo'[w] = Tail(todo[w]), todo'[w] = Remaining(w), pc'[w] = "idle", todo'[w] # <<>>
          PROVE  Sub(w)'
      <4>1. status[camp[w]] = "complete" /\ camp[w] \in Campaigns
        BY <1>0, <3>1, <3>4, Zenon DEF StatusFrame, Frame, Shape
      <4>2. status'[camp[w]] = "complete"
        BY <4>1, CompleteStays, Zenon
      <4>3. PICK i \in 1 .. Len(BySubject) : \E m \in 1 .. Len(BySubject[i]) :
                     Rest(todo[w], i, m) /\ Behind(i, m)
        BY <1>1, <3>2, Zenon
      <4>4. PICK m \in 1 .. Len(BySubject[i]) : Rest(todo[w], i, m) /\ Behind(i, m)
        BY <4>3, Zenon
      <4>5. /\ BySubject[i][m] = camp[w] /\ m + 1 \in 1 .. Len(BySubject[i])
            /\ Rest(todo'[w], i, m + 1)
        <5>1. Tail(todo[w]) # <<>>
          BY <3>4, Zenon
        <5>2. /\ BySubject[i][m] = Head(todo[w]) /\ m + 1 \in 1 .. Len(BySubject[i])
              /\ Rest(Tail(todo[w]), i, m + 1)
          BY <3>2, <4>4, <5>1, RestFacts, Zenon
        <5>. QED
          BY <3>2, <3>4, <5>2, Zenon
      <4>6. Behind(i, m)'
        BY <4>4, CompleteStays, Zenon
      <4>7. \A k \in 1 .. (m + 1) - 1 : k \in 1 .. m - 1 \/ k = m
        BY SubjectFacts
      <4>8. Behind(i, m + 1)'
        BY <4>2, <4>5, <4>6, <4>7, Zenon DEF Behind
      <4>. QED
        BY <4>5, <4>8, Zenon DEF Rest
    <3>. QED
      BY <1>f, <1>2, <1>3, <3>1, <3>3, <3>4, Zenon
  <2>6. CASE Terminate \/ PoolEnds
    BY <2>1, <2>6, Zenon DEF Terminate, PoolEnds
  <2>7. ASSUME NEW w \in Runners, CallRunOne(w) \/ Register(w) PROVE UNCHANGED <<futures, todo>>
    BY <2>7, Zenon DEF CallRunOne, Register, poolVars
  <2>8. ASSUME NEW f \in fuzzers, SegmentStep(f) PROVE UNCHANGED <<futures, todo>>
    BY <2>8, Zenon DEF SegmentStep
  <2>9. CASE UNCHANGED allVars
    BY <2>1, <2>9, Zenon DEF allVars, poolVars
  <2>10. CASE HonggfuzzEnds
    BY <2>1, <2>10, Zenon DEF HonggfuzzEnds, poolVars
  <2> HIDE DEF Fut, Sub
  <2>. QED
    BY <2>1, <2>2, <2>3, <2>4, <2>5, <2>6, <2>7, <2>8, <2>9, <2>10, Zenon DEF PoolNext, WorkerStep
<1>5. ASSUME NEW c \in Campaigns, progress'[c] # None, status'[c] # "complete" PROVE Reached(c)'
  <2>1. status[c] # "complete"
    BY <1>5, CompleteStays, Zenon
  <2>2. ASSUME progress[c] # None PROVE Reached(c)'
    BY <2>1, <2>2, CompleteStays, Zenon DEF InTurn
  <2>3. CASE Still
    BY <1>5, <2>2, <2>3, Zenon DEF Still
  <2>4. ASSUME NEW w \in Runners, CallRunOne(w) PROVE progress' = progress
    BY <2>4, Zenon DEF CallRunOne, Invoke, runVars
  <2>5. ASSUME NEW w \in Runners, RunOneStep(w) PROVE progress[c] # None \/ Reached(c)
    <3>1. Frame(w) /\ FilesFrame(w)
      BY <2>5, RunOneFrames, Zenon
    <3>2. Reached(camp[w])
      BY <3>1, WorkerReached, Zenon DEF Frame
    <3>3. CASE c # camp[w]
      BY <1>5, <3>1, <3>3, Zenon DEF FilesFrame
    <3>4. CASE c = camp[w]
      BY <3>2, <3>4, Zenon
    <3>. QED
      BY <3>3, <3>4, Zenon
  <2>. QED
    BY <1>5, <2>2, <2>3, <2>4, <2>5, PoolStepKinds, CompleteStays, Zenon
<1> HIDE DEF Fut, Sub
<1>. QED
  BY <1>4, <1>5, Zenon DEF InTurn, Fut, Sub

\* Every step of the pool keeps saved progress to begun campaigns.
LEMMA StepBegun == PoolInv /\ Incomplete /\ Begun /\ [PoolNext]_allVars => Begun'
<1> SUFFICES ASSUME PoolInv, Incomplete, Begun, [PoolNext]_allVars PROVE Begun'
  OBVIOUS
<1>0. Shape
  BY Zenon DEF PoolInv
<1>1. CASE Still
  <2>1. progress' = progress
    BY <1>1, Zenon DEF Still
  <2>2. ASSUME NEW w \in Runners, pc'[w] \in {"save", "clean"}
        PROVE  UNCHANGED <<camp[w], prog[w]>> /\ pc'[w] = pc[w]
    BY <1>1, <2>2, Zenon DEF Still
  <2>. QED
    BY <2>1, <2>2, Zenon DEF Begun
<1>2. ASSUME NEW w \in Runners, CallRunOne(w) PROVE Begun'
  <2>1. /\ pc'[w] = "status" /\ UNCHANGED <<progress, prog>>
        /\ \A x \in Runners \ {w} : pc'[x] = pc[x] /\ camp'[x] = camp[x]
    BY <1>0, <1>2, Zenon DEF CallRunOne, Invoke, Goto, Shape, runVars
  <2>. QED
    BY <2>1, Zenon DEF Begun
<1>3. ASSUME NEW w \in Runners, RunOneStep(w) PROVE Begun'
  <2>1. Frame(w) /\ FilesFrame(w)
    BY <1>3, RunOneFrames, Zenon
  <2>2. pc[w] # "idle" /\ camp[w] \in Campaigns
    BY <1>0, <2>1, Zenon DEF Frame, Shape
  <2>3. ASSUME NEW c \in Campaigns, progress'[c] # None PROVE progress'[c].done > 0
    <3>1. progress'[c] = progress[c] \/ progress'[c].done > 0
      BY <2>1, Zenon DEF FilesFrame
    <3>. QED
      BY <2>3, <3>1, Zenon DEF Begun
  <2>4. ASSUME NEW x \in Runners \ {w}, pc'[x] \in {"save", "clean"}
        PROVE  /\ UNCHANGED <<pc[x], camp[x], prog[x]>>
               /\ progress'[camp[x]] = progress[camp[x]]
    <3>1. UNCHANGED <<pc[x], camp[x], prog[x]>> /\ pc[x] # "idle"
      BY <2>1, <2>4, Zenon DEF Frame, FilesFrame
    <3>2. camp[x] \in Campaigns /\ camp[x] # camp[w]
      BY <1>0, <2>2, <3>1, SoleWorker, Zenon DEF Shape
    <3>. QED
      BY <2>1, <3>1, <3>2, Zenon DEF FilesFrame
  <2>5. pc'[w] # "idle" => camp'[w] = camp[w]
    BY <2>1, Zenon DEF Frame
  <2>6. ASSUME NEW x \in Runners
        PROVE  /\ pc'[x] = "save" => prog'[x].done > 0
               /\ pc'[x] = "clean" => progress'[camp'[x]] = None \/ prog'[x].done > 0
    <3>1. CASE x = w
      BY <2>1, <2>5, <3>1, Zenon DEF FilesFrame
    <3>2. CASE x # w
      BY <2>4, <3>2, Zenon DEF Begun
    <3>. QED
      BY <3>1, <3>2, Zenon
  <2>. QED
    BY <2>3, <2>6, Zenon DEF Begun
<1>. QED
  BY <1>1, <1>2, <1>3, PoolStepKinds, Zenon

\* clean_runtime never empties the directory of a campaign that has completed a
\* segment and is to be resumed, whatever other campaigns of the executable share
\* it, for any matrix, number of workers, interrupts and killed invocations
\* (run_subject, clean_runtime).
THEOREM CleanCorrect == PoolSpec => []CleansNothingUnfinished
<1>1. PoolInit => Incomplete /\ InTurn /\ Begun
  <2> SUFFICES ASSUME PoolInit PROVE Incomplete /\ InTurn /\ Begun
    OBVIOUS
  <2>1. \A c \in Campaigns : progress[c] = None
    BY Zenon DEF PoolInit, Init
  <2>2. \A i \in 1 .. Len(futures) : FALSE
    BY DEF PoolInit
  <2>3. \A w \in Runners : pc[w] = "idle" /\ force[w] = FALSE /\ todo[w] = <<>>
    BY Zenon DEF PoolInit, Init
  <2>. QED
    BY <2>1, <2>2, <2>3, Zenon DEF Incomplete, InTurn, Begun
<1>2. PoolInv /\ Incomplete /\ InTurn /\ Begun => CleansNothingUnfinished
  <2> SUFFICES ASSUME PoolInv, Incomplete, InTurn, Begun,
                      NEW w \in Runners, pc[w] = "clean", prog[w] = NewRun,
                      NEW c \in Campaigns, Benchmark[c] = Benchmark[camp[w]],
                      status[c] # "complete", progress[c] # None
               PROVE  FALSE
    BY Zenon DEF CleansNothingUnfinished
  <2>1. Reached(c) /\ Reached(camp[w]) /\ status[camp[w]] # "complete"
    BY WorkerReached, Zenon DEF InTurn, Incomplete
  <2>2. c = camp[w]
    BY <2>1, OneReached, Zenon
  <2>3. prog[w].done > 0
    BY <2>2, Zenon DEF Begun
  <2>. QED
    BY <2>3 DEF NewRun
<1>. QED
  BY <1>1, <1>2, PoolInvariance, StepIncomplete, StepInTurn, StepBegun, PTL DEF PoolSpec

=============================================================================
