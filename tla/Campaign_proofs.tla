-------------------------- MODULE Campaign_proofs --------------------------
(***************************************************************************)
(* Proofs about Campaign, for any number of runners and campaigns, any     *)
(* duration and segment, any number of crashes, interrupts and failures.   *)
(*                                                                         *)
(* Held and Exclusive describe the lock; Waiting ties a runner to the one  *)
(* mfuzz process it waits for; Faithful relates what a runner has in       *)
(* memory to what status.json and progress.json say while it works;        *)
(* Attended says who looks after a segment that is still at work.          *)
(***************************************************************************)
EXTENDS Campaign, TLAPS

Labels == {"idle", "status", "lock", "read", "judge", "unlink", "create", "write", "load",
           "clean", "running", "loop", "wait", "join", "raise", "append", "save", "failed",
           "release"}

Locks == [st : {"none", "blank", "live", "dead"}, by : Runners \cup {None}]

Fuzzers == [id : Processes, camp : Campaigns, from : Nat, until : Nat,
            logged : BOOLEAN, committed : BOOLEAN]

Shape ==
    /\ status \in [Campaigns -> {"none", "running", "failed", "complete"}]
    /\ progress \in [Campaigns -> Progresses \cup {None}]
    /\ checkpoint \in [Campaigns -> Nat \cup {None}]
    /\ lock \in [Campaigns -> Locks]
    /\ reclaimed \subseteq Campaigns /\ overlapped \subseteq Campaigns
    /\ fuzzers \subseteq Fuzzers /\ strays \subseteq Processes
    /\ child \in [Runners -> Processes \cup {None}]
    /\ launched \in [Campaigns -> Nat]
    /\ pc \in [Runners -> Labels]
    /\ camp \in [Runners -> Campaigns \cup {None}]
    /\ \A r \in Runners : pc[r] # "idle" => camp[r] \in Campaigns
    /\ force \in [Runners -> BOOLEAN]
    /\ prog \in [Runners -> Progresses]
    /\ trouble \in Nat /\ forced \in Nat /\ commits \in BOOLEAN

\* A runner that works on a campaign has its lock, until somebody reclaims it.
Held ==
    \A c \in Campaigns \ reclaimed, r \in Runners : Working(r, c) => lock[c] # NoLock

\* Only one runner works on a campaign that is not recorded as overlapped.
Exclusive ==
    \A c \in Campaigns \ overlapped, r, x \in Runners : Working(r, c) /\ Working(x, c) => r = x

\* The runner has launched its child, and the child may still be at work.
AfterLaunch == {"wait", "join", "raise", "append", "save", "failed", "release"}

\* An mfuzz process has a name of its own, and who waits for it is waiting.
Waiting ==
    /\ \A f, g \in fuzzers : f.id = g.id => f = g
    /\ \A f \in fuzzers : f.id[2] <= launched[f.id[1]]
    /\ \A r \in Runners : child[r] # None => child[r][2] <= launched[child[r][1]]
    /\ \A r \in Runners : pc[r] \in AfterLaunch \ {"failed", "release"} => child[r] \in Processes
    /\ \A r \in Runners : child[r] # None => pc[r] \in AfterLaunch /\ child[r][1] = camp[r]
    /\ \A f \in fuzzers, r \in Runners : child[r] = f.id => pc[r] = "wait"

LockInv == Shape /\ Waiting /\ Held /\ Exclusive /\ OverlapNeedsReclaim

-----------------------------------------------------------------------------

\* A lock whose owner has gone is still a lock.
LEMMA BuriedLock ==
    ASSUME NEW l \in Locks, NEW r
    PROVE  Buried(l, r) \in Locks /\ (Buried(l, r) = NoLock <=> l = NoLock)
  BY DEF Buried, Locks, NoLock

\* new_progress is a progress record.
LEMMA NewRunType == NewRun \in Progresses
  BY DEF NewRun, Progresses

\* Nothing exists before the first invocation.
LEMMA InitLockInv == Init => LockInv
<1> SUFFICES ASSUME Init PROVE LockInv
  OBVIOUS
<1> USE CampaignAssumption DEF CampaignAssumption, Init
<1>1. Shape
  <2>1. commits \in BOOLEAN /\ force \in [Runners -> BOOLEAN]
    BY Zenon
  <2>2. lock \in [Campaigns -> Locks]
    BY Zenon DEF Locks, NoLock
  <2>. QED
    BY <2>1, <2>2, NewRunType, Zenon DEF Shape, Labels
<1>2. Waiting
  <2>1. /\ fuzzers = {} /\ \A r \in Runners : child[r] = None /\ pc[r] = "idle"
    BY Zenon
  <2>. QED
    BY <2>1 DEF Waiting, AfterLaunch
<1>3. Held /\ Exclusive /\ OverlapNeedsReclaim
  BY Zenon DEF Held, Exclusive, Working, OverlapNeedsReclaim
<1>. QED
  BY <1>1, <1>2, <1>3, Zenon DEF LockInv

\* What the end of a runner leaves behind.
LEMMA ExitShape ==
    ASSUME Shape, NEW r \in Runners, NEW locks \in [Campaigns -> Locks], Exit(r, locks)
    PROVE  /\ lock' \in [Campaigns -> Locks]
           /\ \A c \in Campaigns : lock'[c] = NoLock <=> locks[c] = NoLock
           /\ pc' \in [Runners -> Labels] /\ pc'[r] = "idle"
           /\ \A x \in Runners \ {r} : pc'[x] = pc[x] /\ camp'[x] = camp[x] /\ child'[x] = child[x]
                                       /\ prog'[x] = prog[x]
           /\ child' \in [Runners -> Processes \cup {None}] /\ child'[r] = None
           /\ camp' \in [Runners -> Campaigns \cup {None}]
           /\ \A x \in Runners : pc'[x] # "idle" => camp'[x] \in Campaigns
           /\ force' \in [Runners -> BOOLEAN]
           /\ prog' \in [Runners -> Progresses]
           /\ reclaimed' = reclaimed /\ overlapped' = overlapped
<1>1. /\ lock' \in [Campaigns -> Locks]
      /\ \A c \in Campaigns : lock'[c] = NoLock <=> locks[c] = NoLock
  BY BuriedLock, Zenon DEF Exit
<1>2. force' \in [Runners -> BOOLEAN]
  BY Zenon DEF Exit, Shape
<1>. QED
  BY <1>1, <1>2, NewRunType, Zenon DEF Exit, Goto, Shape, Labels

\* Every step keeps the shape of the files and of the locals.
LEMMA StepShape == Shape /\ Waiting /\ [Next]_vars => Shape'
<1> SUFFICES ASSUME Shape, Waiting, [Next]_vars PROVE Shape'
  OBVIOUS
<1> USE DEF runVars, lockVars, logVars, busyVars, fuzzVars, bounds
<1>0. ASSUME NEW c \in Campaigns PROVE [lock EXCEPT ![c] = NoLock] \in [Campaigns -> Locks]
  BY CampaignAssumption, Zenon DEF Shape, Locks, NoLock
<1>1. ASSUME NEW r \in Runners, NEW c \in Campaigns, NEW f \in BOOLEAN, Invoke(r, c, f) PROVE Shape'
  <2>1. force' \in [Runners -> BOOLEAN]
    BY <1>1, Zenon DEF Invoke, Shape
  <2>. QED
    BY <1>1, <2>1 DEF Invoke, Shape, Goto, Labels
<1>2. ASSUME NEW r \in Runners, CheckStatus(r) PROVE Shape'
  <2>1. CASE Exit(r, lock)
    BY <1>2, <2>1, ExitShape, Zenon DEF CheckStatus, Shape
  <2>2. CASE ~Exit(r, lock)
    BY <1>2, <2>2, Zenon DEF CheckStatus, Shape, Goto, Labels
  <2>. QED
    BY <2>1, <2>2, Zenon
<1>3. ASSUME NEW r \in Runners, LockTest(r) PROVE Shape'
  BY <1>3, Zenon DEF LockTest, Shape, Goto, Labels
<1>4. ASSUME NEW r \in Runners, LockRead(r) PROVE Shape'
  BY <1>4, Zenon DEF LockRead, Shape, Goto, Labels
<1>5. ASSUME NEW r \in Runners, LockJudge(r) PROVE Shape'
  <2>1. CASE Exit(r, lock)
    BY <1>5, <2>1, ExitShape, Zenon DEF LockJudge, Shape
  <2>2. CASE ~Exit(r, lock)
    BY <1>5, <2>2, Zenon DEF LockJudge, Shape, Goto, Labels
  <2>. QED
    BY <2>1, <2>2, Zenon
<1>6. ASSUME NEW r \in Runners, LockUnlink(r) PROVE Shape'
  BY <1>6, <1>0, Zenon DEF LockUnlink, Shape, Goto, Labels
<1>7. ASSUME NEW r \in Runners, LockCreate(r) PROVE Shape'
  <2>1. CASE Exit(r, lock)
    BY <1>7, <2>1, ExitShape, Zenon DEF LockCreate, Shape
  <2>2. CASE ~Exit(r, lock)
    <3>1. lock' \in [Campaigns -> Locks]
      BY <1>7, <2>2 DEF LockCreate, Shape, Locks
    <3>2. overlapped' \subseteq Campaigns
      BY <1>7, <2>2, Zenon DEF LockCreate, Shape
    <3>. QED
      BY <1>7, <2>2, <3>1, <3>2 DEF LockCreate, Shape, Goto, Labels
  <2>. QED
    BY <2>1, <2>2, Zenon
<1>8. ASSUME NEW r \in Runners, LockWrite(r) PROVE Shape'
  BY <1>8, Zenon DEF LockWrite, Shape, Goto, Labels, Locks
<1>9. ASSUME NEW r \in Runners, LoadProgress(r) PROVE Shape'
  <2>1. camp[r] \in Campaigns /\ Loaded(r) \in Progresses
    BY <1>9, NewRunType, Zenon DEF LoadProgress, Shape, Loaded
  <2>2. CheckpointValid(r) => [Loaded(r) EXCEPT !.done = Committed(r)] \in Progresses
    <3>1. Duration \in Nat
      BY CampaignAssumption, Zenon DEF CampaignAssumption
    <3>2. Loaded(r).done \in Nat
      BY <2>1 DEF Progresses
    <3>3. CheckpointValid(r) => Committed(r) \in Nat
      BY <3>1, <3>2 DEF CheckpointValid
    <3>. QED
      BY <2>1, <3>3, Zenon DEF Progresses
  <2>3. CASE Exit(r, lock) /\ UNCHANGED progress
    BY <1>9, <2>3, ExitShape, Zenon DEF LoadProgress, Shape
  <2>4. CASE ~(Exit(r, lock) /\ UNCHANGED progress)
    <3>1. CheckpointValid(r)
      BY <1>9, <2>4, Zenon DEF LoadProgress
    <3>2. progress' \in [Campaigns -> Progresses \cup {None}]
      BY <1>9, <2>1, <2>2, <3>1, <2>4 DEF LoadProgress, RecoveredProgress, Shape
    <3>. QED
      BY <1>9, <2>2, <3>1, <3>2, <2>4 DEF LoadProgress, Shape, Goto, Labels
  <2>. QED
    BY <2>3, <2>4, Zenon
<1>10. ASSUME NEW r \in Runners, CleanRuntime(r) PROVE Shape'
  BY <1>10, Zenon DEF CleanRuntime, Shape, Goto, Labels
<1>11. ASSUME NEW r \in Runners, MarkRunning(r) PROVE Shape'
  BY <1>11, Zenon DEF MarkRunning, Shape, Goto, Labels
<1>12. ASSUME NEW r \in Runners, LaunchSegment(r) PROVE Shape'
  <2>1. camp[r] \in Campaigns /\ prog[r].done \in Nat /\ launched[camp[r]] + 1 \in Nat
    BY <1>12 DEF LaunchSegment, Shape, Progresses
  <2>2. prog[r].done + SegmentDuration(prog[r].done) \in Nat
    BY <1>12, <2>1, CampaignAssumption DEF LaunchSegment, SegmentDuration, CampaignAssumption
  <2>3. <<camp[r], launched[camp[r]] + 1>> \in Processes
    BY <2>1, Zenon DEF Processes
  <2>4. fuzzers' \subseteq Fuzzers
    <3> DEFINE new == [id |-> <<camp[r], launched[camp[r]] + 1>>, camp |-> camp[r],
                       from |-> prog[r].done,
                       until |-> prog[r].done + SegmentDuration(prog[r].done),
                       logged |-> FALSE, committed |-> FALSE]
    <3>1. new \in Fuzzers
      BY <2>1, <2>2, <2>3, Zenon DEF Fuzzers
    <3>2. fuzzers' = fuzzers \cup {new}
      BY <1>12, Zenon DEF LaunchSegment
    <3> HIDE DEF new
    <3>. QED
      BY <3>1, <3>2, Zenon DEF Shape
  <2>5. /\ launched' = [launched EXCEPT ![camp[r]] = @ + 1] /\ pc' = [pc EXCEPT ![r] = "wait"]
        /\ child' = [child EXCEPT ![r] = <<camp[r], launched[camp[r]] + 1>>] /\ pc[r] = "loop"
        /\ UNCHANGED <<runVars, lockVars, strays, camp, force, prog, bounds>>
    BY <1>12, Zenon DEF LaunchSegment, Goto
  <2>6. /\ launched' \in [Campaigns -> Nat] /\ child' \in [Runners -> Processes \cup {None}]
        /\ pc' \in [Runners -> Labels]
    BY <2>1, <2>3, <2>5, Zenon DEF Shape, Labels
  <2>7. \A x \in Runners : pc'[x] # "idle" => camp'[x] \in Campaigns
    BY <2>1, <2>5, Zenon DEF Shape
  <2>. QED
    BY <2>4, <2>5, <2>6, <2>7, Zenon DEF Shape
<1>13. ASSUME NEW r \in Runners, AppendCoverage(r) PROVE Shape'
  <2>1. prog[r] \in Progresses /\ child[r] \in Processes
    BY <1>13, ZenonT(30) DEF AppendCoverage, Shape, Waiting, AfterLaunch
  <2> DEFINE done == prog[r].done + SegmentDuration(prog[r].done)
  <2>2. prog'[r] \in Progresses
    <3>1. done \in Nat
      BY <1>13, <2>1, CampaignAssumption DEF SegmentDuration, CampaignAssumption, Progresses
    <3>. QED
      BY <1>13, <2>1, <3>1 DEF AppendCoverage, Progresses, Shape
  <2>. QED
    BY <1>13, <2>2, Zenon DEF AppendCoverage, Shape, Goto, Labels
<1>14. ASSUME NEW r \in Runners, SaveProgress(r) PROVE Shape'
  BY <1>14, Zenon DEF SaveProgress, Shape, Goto, Labels
<1>15. ASSUME NEW r \in Runners, Finish(r) PROVE Shape'
  BY <1>15 DEF Finish, Shape, Goto, Labels
<1>16. ASSUME NEW r \in Runners, ReleaseLock(r) PROVE Shape'
  <2>1. [lock EXCEPT ![camp[r]] = NoLock] \in [Campaigns -> Locks]
    BY <1>16, <1>0, Zenon DEF ReleaseLock, Shape
  <2>. QED
    BY <1>16, <2>1, ExitShape, Zenon DEF ReleaseLock, Shape
<1>17. ASSUME NEW r \in Runners, Interrupt(r) PROVE Shape'
  <2>1. child[r] \in Processes /\ trouble' \in Nat
    BY <1>17 DEF Interrupt, Waiting, AfterLaunch, Shape
  <2>2. strays' \subseteq Processes /\ fuzzers' \subseteq Fuzzers
    BY <1>17, <2>1, Zenon DEF Interrupt, Shape
  <2>. QED
    BY <1>17, <2>1, <2>2, Zenon DEF Interrupt, Shape, Goto, Labels
<1>18. ASSUME NEW r \in Runners, Crash(r) PROVE Shape'
  <2>1. fuzzers' \subseteq fuzzers /\ strays' \subseteq strays
    BY <1>18, Zenon DEF Crash
  <2>. QED
    BY <1>18, <2>1, ExitShape DEF Crash, Shape
<1>19. ASSUME NEW f \in fuzzers, FuzzerCommits(f) PROVE Shape'
  <2>1. f \in Fuzzers /\ [f EXCEPT !.committed = TRUE] \in Fuzzers
    BY <1>19, Zenon DEF Shape, Fuzzers
  <2>2. f.until \in Nat
    BY <2>1, Zenon DEF Fuzzers
  <2>. QED
    BY <1>19, <2>1, <2>2, Zenon DEF FuzzerCommits, Shape
<1>20. ASSUME NEW f \in fuzzers, NEW ok \in BOOLEAN, FuzzerExits(f, ok) PROVE Shape'
  <2>1. pc' \in [Runners -> Labels]
    BY <1>20, Zenon DEF FuzzerExits, Shape, Labels
  <2>2. trouble' \in Nat /\ forced' = forced /\ commits' = commits
    BY <1>20 DEF FuzzerExits, Shape
  <2>4. strays' \subseteq Processes
    BY <1>20, Zenon DEF FuzzerExits, Shape, Fuzzers
  <2>3. \A r \in Runners : pc'[r] # "idle" => camp[r] \in Campaigns
    <3> TAKE r \in Runners
    <3>1. CASE child[r] = f.id
      <4>1. pc[r] = "wait"
        BY <3>1, Zenon DEF Waiting
      <4>. QED
        BY <4>1, Zenon DEF Shape
    <3>2. CASE child[r] # f.id
      BY <1>20, <3>2, Zenon DEF FuzzerExits, Shape
    <3>. QED
      BY <3>1, <3>2, Zenon
  <2>. QED
    BY <1>20, <2>1, <2>2, <2>3, <2>4, Zenon DEF FuzzerExits, Shape
<1>22. ASSUME NEW r \in Runners, JoinOutput(r) PROVE Shape'
  BY <1>22, Zenon DEF JoinOutput, Shape, Goto, Labels
<1>23. ASSUME NEW r \in Runners, InterruptElsewhere(r) PROVE Shape'
  <2>1. trouble' \in Nat
    BY <1>23 DEF InterruptElsewhere, Shape
  <2>. QED
    BY <1>23, <2>1, Zenon DEF InterruptElsewhere, Shape, Goto, Labels
<1>24. ASSUME NEW f \in fuzzers, FuzzerLogs(f) PROVE Shape'
  <2>1. f \in Fuzzers /\ [f EXCEPT !.logged = TRUE] \in Fuzzers
    BY <1>24, Zenon DEF Shape, Fuzzers
  <2>. QED
    BY <1>24, <2>1, Zenon DEF FuzzerLogs, Shape
<1>25. ASSUME StrayEnds PROVE Shape'
  BY <1>25, Zenon DEF StrayEnds, Shape
<1>21. CASE UNCHANGED vars
  BY <1>21, Zenon DEF vars, Shape
<1>. QED
  BY <1>1, <1>2, <1>3, <1>4, <1>5, <1>6, <1>7, <1>8, <1>9, <1>10, <1>11, <1>12, <1>13, <1>14,
     <1>15, <1>16, <1>17, <1>18, <1>19, <1>20, <1>21, <1>22, <1>23, <1>24, <1>25
  DEF Next, RunnerStep, FuzzerStep

\* A step of runner r that leaves mfuzz processes alone and neither begins nor
\* ends to wait.
Elsewhere(r) ==
    /\ UNCHANGED <<fuzzers, child, launched>>
    /\ pc[r] \notin AfterLaunch \ {"failed", "release"}
    /\ pc'[r] \notin AfterLaunch \ {"failed", "release"}
    /\ pc[r] \in {"failed", "release"} => pc'[r] = "release" /\ camp'[r] = camp[r]
    /\ \A x \in Runners \ {r} : pc'[x] = pc[x] /\ camp'[x] = camp[x]

\* Every step keeps runners and mfuzz processes paired.
LEMMA StepWaiting == Shape /\ Waiting /\ [Next]_vars => Waiting'
<1> SUFFICES ASSUME Shape, Waiting, [Next]_vars PROVE Waiting'
  OBVIOUS
<1> USE DEF runVars, lockVars, logVars, busyVars, fuzzVars, bounds
<1>0. None \notin Processes /\ \A f \in fuzzers : f.id \in Processes
  BY CampaignAssumption, Zenon DEF CampaignAssumption, Shape, Fuzzers
<1>1. ASSUME NEW r \in Runners, Elsewhere(r) PROVE Waiting'
  BY <1>1 DEF Elsewhere, Waiting, Shape, AfterLaunch
<1>2. ASSUME NEW r \in Runners, NEW locks \in [Campaigns -> Locks], Exit(r, locks),
             fuzzers' \subseteq fuzzers, launched' = launched
      PROVE  Waiting'
  <2>1. /\ pc'[r] = "idle" /\ child'[r] = None
        /\ \A x \in Runners \ {r} : pc'[x] = pc[x] /\ child'[x] = child[x] /\ camp'[x] = camp[x]
    BY <1>2, ExitShape, Zenon
  <2>2. \A x \in Runners :
           \/ child'[x] = None /\ pc'[x] = "idle"
           \/ child'[x] = child[x] /\ pc'[x] = pc[x] /\ camp'[x] = camp[x]
    BY <2>1
  <2>3. /\ \A f, g \in fuzzers' : f.id = g.id => f = g
        /\ \A f \in fuzzers' : f.id[2] <= launched'[f.id[1]]
    BY <1>2, Zenon DEF Waiting
  <2>4. ASSUME NEW x \in Runners, child'[x] # None
        PROVE  /\ child'[x][2] <= launched'[child'[x][1]]
               /\ pc'[x] \in AfterLaunch /\ child'[x][1] = camp'[x]
    <3>1. child'[x] = child[x] /\ pc'[x] = pc[x] /\ camp'[x] = camp[x] /\ launched' = launched
      BY <1>2, <2>2, <2>4
    <3>2. child[x] # None
      BY <2>4, <3>1, Zenon
    <3>3. /\ child[x][2] <= launched[child[x][1]]
          /\ pc[x] \in AfterLaunch /\ child[x][1] = camp[x]
      BY <3>2, Zenon DEF Waiting
    <3>. QED
      BY <3>1, <3>3
  <2>5. ASSUME NEW x \in Runners, pc'[x] \in AfterLaunch \ {"failed", "release"}
        PROVE  child'[x] \in Processes
    <3>1. pc'[x] # "idle"
      BY <2>5 DEF AfterLaunch
    <3>2. child'[x] = child[x] /\ pc[x] \in AfterLaunch \ {"failed", "release"}
      BY <2>2, <2>5, <3>1
    <3>. QED
      BY <3>2, Zenon DEF Waiting
  <2>6. ASSUME NEW f \in fuzzers', NEW x \in Runners, child'[x] = f.id
        PROVE  pc'[x] = "wait"
    <3>1. f \in fuzzers /\ child'[x] # None
      BY <1>0, <1>2, <2>6, Zenon
    <3>2. child'[x] = child[x] /\ pc'[x] = pc[x]
      BY <2>2, <3>1
    <3>. QED
      BY <2>6, <3>1, <3>2, Zenon DEF Waiting
  <2>. QED
    BY <2>3, <2>4, <2>5, <2>6, Zenon DEF Waiting
<1>3. ASSUME NEW r \in Runners,
             \/ \E c \in Campaigns, f \in BOOLEAN : Invoke(r, c, f)
             \/ LockTest(r) \/ LockRead(r) \/ LockUnlink(r) \/ LockWrite(r) \/ CleanRuntime(r)
             \/ MarkRunning(r) \/ Finish(r)
      PROVE  Elsewhere(r)
  BY <1>3 DEF Invoke, LockTest, LockRead, LockUnlink, LockWrite, CleanRuntime, MarkRunning, Finish,
     Goto, Elsewhere, Shape, AfterLaunch
<1>4. ASSUME NEW r \in Runners, CheckStatus(r) \/ LockJudge(r) \/ LockCreate(r) \/ LoadProgress(r)
      PROVE  Elsewhere(r) \/ (Exit(r, lock) /\ fuzzers' = fuzzers /\ launched' = launched)
  <2>1. CASE Exit(r, lock)
    BY <1>4, <2>1, Zenon DEF CheckStatus, LockJudge, LockCreate, LoadProgress
  <2>2. CASE ~Exit(r, lock)
    BY <1>4, <2>2, ZenonT(30) DEF CheckStatus, LockJudge, LockCreate, LoadProgress, Goto, Elsewhere, Shape,
       AfterLaunch
  <2>. QED
    BY <2>1, <2>2, Zenon
<1>5. ASSUME NEW r \in Runners, LaunchSegment(r) PROVE Waiting'
  <2> DEFINE c == camp[r]
             id == <<c, launched[c] + 1>>
  <2>1. /\ c \in Campaigns /\ launched[c] \in Nat /\ id \in Processes
        /\ id[1] = c /\ id[2] = launched[c] + 1
    BY <1>5 DEF LaunchSegment, Shape, Processes
  <2>2. \E n \in fuzzers' : n.id = id /\ fuzzers' = fuzzers \cup {n}
    BY <1>5, Zenon DEF LaunchSegment
  <2>3. PICK n : n.id = id /\ fuzzers' = fuzzers \cup {n}
    BY <2>2, Zenon
  <2>4. launched' \in [Campaigns -> Nat] /\ launched'[c] = launched[c] + 1
        /\ \A d \in Campaigns \ {c} : launched'[d] = launched[d]
    BY <1>5, <2>1 DEF LaunchSegment, Shape
  <2>5. child'[r] = id /\ pc'[r] = "wait" /\ camp' = camp
        /\ \A x \in Runners \ {r} : child'[x] = child[x] /\ pc'[x] = pc[x]
    BY <1>5, Zenon DEF LaunchSegment, Shape, Goto
  <2>6. \A p \in Processes : p[2] <= launched[p[1]] => p # id /\ p[2] <= launched'[p[1]]
    BY <2>1, <2>4 DEF Processes, Shape
  <2> HIDE DEF id, c
  <2>7. \A f \in fuzzers : f.id # id /\ f.id[2] <= launched'[f.id[1]]
    BY <1>0, <2>6, Zenon DEF Waiting
  <2>8. \A x \in Runners : child[x] # None => child[x] # id /\ child[x][2] <= launched'[child[x][1]]
    BY <2>6, ZenonT(30) DEF Waiting, Shape
  <2>9. id[2] <= launched'[id[1]]
    BY <2>1, <2>4
  <2>10. id # None
    BY <1>0, <2>1, Zenon
  <2>11. \A f, g \in fuzzers' : f.id = g.id => f = g
    BY <2>3, <2>7, Zenon DEF Waiting
  <2>12. \A f \in fuzzers' : f.id[2] <= launched'[f.id[1]]
    BY <2>3, <2>7, <2>9, Zenon
  <2>13. \A x \in Runners : child'[x] # None => child'[x][2] <= launched'[child'[x][1]]
    BY <2>5, <2>8, <2>9, Zenon
  <2>14. /\ \A x \in Runners : pc'[x] \in AfterLaunch \ {"failed", "release"} => child'[x] \in Processes
         /\ \A x \in Runners : child'[x] # None => pc'[x] \in AfterLaunch /\ child'[x][1] = camp'[x]
    <3>1. "wait" \in AfterLaunch /\ id[1] = camp[r]
      BY <2>1 DEF AfterLaunch, c
    <3>. QED
      BY <2>1, <2>5, <3>1, Zenon DEF Waiting
  <2>15. \A f \in fuzzers', x \in Runners : child'[x] = f.id => pc'[x] = "wait"
    BY <1>0, <2>3, <2>5, <2>7, <2>8, <2>10 DEF Waiting
  <2>. QED
    BY <2>11, <2>12, <2>13, <2>14, <2>15, Zenon DEF Waiting
<1>6. ASSUME NEW r \in Runners, AppendCoverage(r) PROVE Waiting'
  BY <1>6, Zenon DEF AppendCoverage, Waiting, Shape, Goto, AfterLaunch
<1>7. ASSUME NEW r \in Runners, SaveProgress(r) PROVE Waiting'
  BY <1>7, <1>0, Zenon DEF SaveProgress, Waiting, Shape, Goto, AfterLaunch
<1>8. ASSUME NEW r \in Runners, ReleaseLock(r) PROVE Waiting'
  <2>1. [lock EXCEPT ![camp[r]] = NoLock] \in [Campaigns -> Locks]
    BY <1>8, CampaignAssumption, Zenon DEF ReleaseLock, Shape, Locks, NoLock
  <2>. QED
    BY <1>8, <1>2, <2>1, Zenon DEF ReleaseLock
<1>9. ASSUME NEW r \in Runners, Interrupt(r) PROVE Waiting'
  BY <1>9, Zenon DEF Interrupt, Waiting, Shape, Goto, AfterLaunch
<1>15. ASSUME NEW r \in Runners, JoinOutput(r) PROVE Waiting'
  BY <1>15, Zenon DEF JoinOutput, Waiting, Shape, Goto, AfterLaunch
<1>16. ASSUME NEW r \in Runners, InterruptElsewhere(r) PROVE Waiting'
  BY <1>0, <1>16, Zenon DEF InterruptElsewhere, Waiting, Shape, Goto, AfterLaunch
<1>17. ASSUME StrayEnds PROVE Waiting'
  BY <1>17, Zenon DEF StrayEnds, Waiting
<1>10. ASSUME NEW r \in Runners, Crash(r) PROVE Waiting'
  <2>1. fuzzers' \subseteq fuzzers
    BY <1>10, Zenon DEF Crash
  <2>. QED
    BY <1>10, <1>2, <2>1, Zenon DEF Crash, Shape
<1>11. ASSUME NEW f \in fuzzers, FuzzerCommits(f) \/ FuzzerLogs(f) PROVE Waiting'
  <2>0. /\ [f EXCEPT !.committed = TRUE].id = f.id /\ [f EXCEPT !.logged = TRUE].id = f.id
        /\ UNCHANGED <<child, launched, pc, camp>>
    BY <1>11, Zenon DEF Shape, Fuzzers, FuzzerCommits, FuzzerLogs
  <2>1. PICK n : n.id = f.id /\ fuzzers' = (fuzzers \ {f}) \cup {n}
    BY <1>11, <2>0, Zenon DEF FuzzerCommits, FuzzerLogs
  <2>2. fuzzers' = (fuzzers \ {f}) \cup {n} /\ UNCHANGED <<child, launched, pc, camp>>
    BY <2>0, <2>1, Zenon
  <2>3. \A g, h \in fuzzers' : g.id = h.id => g = h
    BY <2>1, <2>2 DEF Waiting
  <2>4. \A g \in fuzzers' : \E h \in fuzzers : g.id = h.id
    BY <2>1, <2>2, Zenon
  <2>5. /\ \A g \in fuzzers' : g.id[2] <= launched[g.id[1]]
        /\ \A g \in fuzzers', r \in Runners : child[r] = g.id => pc[r] = "wait"
    BY <2>4 DEF Waiting
  <2>. QED
    BY <2>2, <2>3, <2>5, Zenon DEF Waiting
<1>12. ASSUME NEW f \in fuzzers, NEW ok \in BOOLEAN, FuzzerExits(f, ok) PROVE Waiting'
  <2>1. \A g \in fuzzers' : g \in fuzzers /\ g.id # f.id
    BY <1>12, Zenon DEF FuzzerExits, Waiting
  <2>2. \A r \in Runners : IF child[r] = f.id THEN pc'[r] \in {"append", "join"} ELSE pc'[r] = pc[r]
    BY <1>12, Zenon DEF FuzzerExits
  <2>3. fuzzers' \subseteq fuzzers /\ child' = child /\ launched' = launched /\ camp' = camp
    BY <1>12, Zenon DEF FuzzerExits
  <2>4. "append" \in AfterLaunch /\ "join" \in AfterLaunch
    BY DEF AfterLaunch
  <2>. QED
    BY <1>0, <2>1, <2>2, <2>3, <2>4, Zenon DEF Waiting
<1>13. CASE UNCHANGED vars
  BY <1>13, Zenon DEF vars, Waiting
<1>14. ASSUME NEW r \in Runners, CheckStatus(r) \/ LockJudge(r) \/ LockCreate(r) \/ LoadProgress(r)
       PROVE  Waiting'
  BY <1>14, <1>4, <1>1, <1>2, Zenon DEF Shape
<1>. QED
  BY <1>1, <1>3, <1>5, <1>6, <1>7, <1>8, <1>9, <1>10, <1>11, <1>12, <1>13, <1>14,
     <1>15, <1>16, <1>17, Zenon
  DEF Next, RunnerStep, FuzzerStep

\* A step after which nobody works on a campaign who did not before, and which
\* removes no lock of a campaign somebody works on without recording it.
NoNewWorker ==
    /\ \A x \in Runners, c \in Campaigns : Working(x, c)' => Working(x, c)
    /\ reclaimed \subseteq reclaimed' /\ overlapped' = overlapped
    /\ \A x \in Runners, c \in Campaigns \ reclaimed' :
          Working(x, c)' /\ lock[c] # NoLock => lock'[c] # NoLock

\* Every step keeps locks exclusive up to reclaiming.
LEMMA StepLock == LockInv /\ [Next]_vars => Held' /\ Exclusive' /\ OverlapNeedsReclaim'
<1> SUFFICES ASSUME LockInv, [Next]_vars PROVE Held' /\ Exclusive' /\ OverlapNeedsReclaim'
  OBVIOUS
<1> USE DEF runVars, lockVars, logVars, busyVars, fuzzVars, bounds
<1>0. Shape /\ Waiting
  BY Zenon DEF LockInv
<1>1. ASSUME NoNewWorker PROVE Held' /\ Exclusive' /\ OverlapNeedsReclaim'
  BY <1>1, Zenon DEF LockInv, NoNewWorker, Held, Exclusive, OverlapNeedsReclaim
<1>2. ASSUME NEW r \in Runners, Exit(r, lock) PROVE NoNewWorker
  <2>1. /\ \A c \in Campaigns : lock'[c] = NoLock <=> lock[c] = NoLock
        /\ pc'[r] = "idle" /\ \A x \in Runners \ {r} : pc'[x] = pc[x] /\ camp'[x] = camp[x]
        /\ reclaimed' = reclaimed /\ overlapped' = overlapped
    BY <1>0, <1>2, ExitShape, Zenon DEF Shape
  <2>. QED
    BY <2>1, Zenon DEF NoNewWorker, Working
<1>3. ASSUME NEW r \in Runners,
             \/ \E c \in Campaigns, f \in BOOLEAN : Invoke(r, c, f)
             \/ LockTest(r) \/ LockRead(r) \/ CleanRuntime(r) \/ MarkRunning(r)
             \/ LaunchSegment(r) \/ AppendCoverage(r) \/ SaveProgress(r) \/ Finish(r) \/ Interrupt(r)
             \/ JoinOutput(r) \/ InterruptElsewhere(r)
      PROVE  NoNewWorker
  <2>1. CASE \/ \E c \in Campaigns, f \in BOOLEAN : Invoke(r, c, f)
             \/ LockTest(r) \/ LockRead(r)
    BY <1>0, <2>1 DEF Invoke, LockTest, LockRead, Goto, NoNewWorker, Working, Shape
  <2>2. CASE CleanRuntime(r) \/ MarkRunning(r) \/ LaunchSegment(r) \/ AppendCoverage(r)
    BY <1>0, <2>2, Zenon DEF CleanRuntime, MarkRunning, LaunchSegment, AppendCoverage, Goto,
       NoNewWorker, Working, Shape
  <2>3. CASE SaveProgress(r) \/ Finish(r) \/ Interrupt(r)
    BY <1>0, <2>3, Zenon DEF SaveProgress, Finish, Interrupt, Goto, NoNewWorker, Working, Shape
  <2>4. CASE JoinOutput(r) \/ InterruptElsewhere(r)
    BY <1>0, <2>4, Zenon DEF JoinOutput, InterruptElsewhere, Goto, NoNewWorker, Working, Shape
  <2>. QED
    BY <1>3, <2>1, <2>2, <2>3, <2>4, Zenon
<1>4. ASSUME NEW r \in Runners, CheckStatus(r) \/ LockJudge(r) \/ LoadProgress(r) \/ Crash(r)
      PROVE  NoNewWorker
  <2>1. CASE Exit(r, lock)
    BY <1>2, <2>1, Zenon
  <2>2. CASE ~Exit(r, lock)
    BY <1>0, <1>4, <2>2 DEF CheckStatus, LockJudge, LoadProgress, Crash, Goto, NoNewWorker, Working,
       Shape
  <2>. QED
    BY <2>1, <2>2, Zenon
<1>5. ASSUME NEW r \in Runners, LockUnlink(r) PROVE NoNewWorker
  <2>1. \A c \in Campaigns \ reclaimed' : lock'[c] = lock[c]
    BY <1>0, <1>5, Zenon DEF LockUnlink, Shape
  <2>. QED
    BY <1>0, <1>5, <2>1, Zenon DEF LockUnlink, Goto, NoNewWorker, Working, Shape
<1>6. ASSUME NEW r \in Runners, LockWrite(r) PROVE NoNewWorker
  <2>1. \A c \in Campaigns : lock[c] # NoLock => lock'[c] # NoLock
    BY <1>0, <1>6, Zenon DEF LockWrite, Shape, NoLock, Locks
  <2>. QED
    BY <1>0, <1>6, <2>1, Zenon DEF LockWrite, Goto, NoNewWorker, Working, Shape
<1>7. ASSUME NEW r \in Runners, ReleaseLock(r) PROVE NoNewWorker
  <2> DEFINE locks == [lock EXCEPT ![camp[r]] = NoLock]
  <2>1. locks \in [Campaigns -> Locks] /\ \A c \in Campaigns \ {camp[r]} : locks[c] = lock[c]
    BY <1>0, <1>7, CampaignAssumption, Zenon DEF ReleaseLock, Shape, Locks, NoLock
  <2>2. Exit(r, locks)
    BY <1>7, Zenon DEF ReleaseLock
  <2>3. /\ \A c \in Campaigns : lock'[c] = NoLock <=> locks[c] = NoLock
        /\ pc'[r] = "idle" /\ \A x \in Runners \ {r} : pc'[x] = pc[x] /\ camp'[x] = camp[x]
        /\ reclaimed' = reclaimed /\ overlapped' = overlapped
    BY <1>0, <2>1, <2>2, ExitShape, Zenon
  <2>4. Working(r, camp[r]) /\ camp[r] \in Campaigns
    BY <1>0, <1>7, Zenon DEF ReleaseLock, Working, Shape
  <2>5. \A x \in Runners \ {r}, c \in Campaigns \ reclaimed : Working(x, c) => c # camp[r]
    BY <2>4, Zenon DEF LockInv, OverlapNeedsReclaim, Exclusive
  <2>. QED
    BY <2>1, <2>3, <2>5 DEF NoNewWorker, Working
<1>8. ASSUME FuzzerStep PROVE NoNewWorker
  <2>1. UNCHANGED <<camp, lock, reclaimed, overlapped>>
    BY <1>8, Zenon DEF FuzzerStep, FuzzerLogs, FuzzerCommits, FuzzerExits, StrayEnds
  <2>2. \A x \in Runners : pc'[x] = pc[x] \/ pc[x] = "wait"
    BY <1>0, <1>8, Zenon DEF FuzzerStep, FuzzerLogs, FuzzerCommits, FuzzerExits, StrayEnds, Waiting
  <2>. QED
    BY <2>1, <2>2, Zenon DEF NoNewWorker, Working
<1>9. ASSUME NEW r \in Runners, LockCreate(r) PROVE Held' /\ Exclusive' /\ OverlapNeedsReclaim'
  <2>1. CASE Exit(r, lock)
    BY <1>1, <1>2, <2>1, Zenon
  <2>2. CASE ~Exit(r, lock)
    <3> DEFINE c == camp[r]
    <3>1. /\ c \in Campaigns /\ lock[c] = NoLock /\ pc[r] = "create"
          /\ lock' = [lock EXCEPT ![c] = [st |-> "blank", by |-> r]]
          /\ overlapped' = overlapped \cup {k \in {c} : \E x \in Runners : Working(x, k)}
          /\ reclaimed' = reclaimed /\ camp' = camp /\ pc' = [pc EXCEPT ![r] = "write"]
      BY <1>0, <1>9, <2>2, Zenon DEF LockCreate, Goto, Shape
    <3>2. c \notin reclaimed => \A x \in Runners : ~Working(x, c)
      BY <3>1, Zenon DEF LockInv, Held
    <3>3. OverlapNeedsReclaim'
      BY <3>1, <3>2, Zenon DEF LockInv, OverlapNeedsReclaim
    <3>4. \A x \in Runners, k \in Campaigns : Working(x, k)' => Working(x, k) \/ (x = r /\ k = c)
      BY <1>0, <3>1, Zenon DEF Working, Shape
    <3>5. lock'[c] # NoLock /\ \A k \in Campaigns \ {c} : lock'[k] = lock[k]
      BY <1>0, <3>1, Zenon DEF Shape, NoLock
    <3>6. Held'
      BY <3>1, <3>4, <3>5, Zenon DEF LockInv, Held
    <3>7. Exclusive'
      <4> SUFFICES ASSUME NEW k \in Campaigns \ overlapped', NEW x \in Runners, NEW y \in Runners,
                          Working(x, k)', Working(y, k)'
                   PROVE  x = y
        BY Zenon DEF Exclusive
      <4>1. k = c => \A z \in Runners : ~Working(z, c)
        BY <3>1, Zenon
      <4>. QED
        BY <3>1, <3>4, <4>1, Zenon DEF LockInv, Exclusive
    <3>. QED
      BY <3>3, <3>6, <3>7, Zenon
  <2>. QED
    BY <2>1, <2>2, Zenon
<1>10. CASE UNCHANGED vars
  BY <1>1, <1>10, Zenon DEF vars, NoNewWorker, Working
<1>. QED
  BY <1>1, <1>3, <1>4, <1>5, <1>6, <1>7, <1>8, <1>9, <1>10, Zenon DEF Next, RunnerStep

\* The invariant of the lock holds in every reachable state.
THEOREM LockInvariance == Spec => []LockInv
<1>1. LockInv /\ [Next]_vars => LockInv'
  BY StepShape, StepWaiting, StepLock, Zenon DEF LockInv
<1>. QED
  BY InitLockInv, <1>1, PTL DEF Spec

\* acquire_lock: whatever crashes, two runners work on one campaign only after
\* one of them, or a third, has removed a lock of it.
THEOREM OverlapCorrect == Spec => []OverlapNeedsReclaim
  BY LockInvariance, PTL DEF LockInv

-----------------------------------------------------------------------------

\* Segments of which mfuzz or honggfuzz is running, and where a runner minds its own.
AtWork    == {f.id : f \in fuzzers} \cup strays
Attending == {"wait", "join", "raise"}

\* A segment at work has its runner, or is an orphan; a stray has no mfuzz.
Attended ==
    /\ \A p \in AtWork \ orphans : \E r \in Runners : child[r] = p /\ pc[r] \in Attending
    /\ \A p \in strays : p[2] <= launched[p[1]] /\ \A f \in fuzzers : f.id # p

\* A step of r, which attends to no segment before, starts and ends none.
Unattending(r) ==
    /\ pc[r] \notin Attending
    /\ UNCHANGED <<fuzzers, strays, orphans, launched>>
    /\ \A x \in Runners \ {r} : pc'[x] = pc[x] /\ child'[x] = child[x]

\* Every step leaves segments at work attended, or makes them orphans.
LEMMA StepAttended == Shape /\ Waiting /\ Attended /\ [Next]_vars => Attended'
<1> SUFFICES ASSUME Shape, Waiting, Attended, [Next]_vars PROVE Attended'
  OBVIOUS
<1> USE DEF runVars, lockVars, logVars, busyVars, fuzzVars, bounds
<1>0. None \notin Processes /\ \A f \in fuzzers : f.id \in Processes
  BY CampaignAssumption, Zenon DEF CampaignAssumption, Shape, Fuzzers
<1>a. ASSUME \A p \in strays' : p[2] <= launched'[p[1]] /\ \A f \in fuzzers' : f.id # p,
             AtWork' \ orphans' \subseteq AtWork \ orphans,
             \A p \in AtWork' \ orphans', x \in Runners :
                 child[x] = p /\ pc[x] \in Attending => child'[x] = p /\ pc'[x] \in Attending
      PROVE  Attended'
  BY <1>a, Zenon DEF Attended
<1>1. ASSUME NEW r \in Runners, Unattending(r) PROVE Attended'
  BY <1>1, Zenon DEF Unattending, Attended, AtWork
<1>2. ASSUME NEW r \in Runners,
             \/ \E c \in Campaigns, f \in BOOLEAN : Invoke(r, c, f)
             \/ LockTest(r) \/ LockRead(r) \/ LockUnlink(r) \/ LockWrite(r) \/ CleanRuntime(r)
             \/ MarkRunning(r) \/ AppendCoverage(r) \/ SaveProgress(r) \/ Finish(r)
      PROVE  Unattending(r)
  <2>1. CASE \/ \E c \in Campaigns, f \in BOOLEAN : Invoke(r, c, f)
             \/ LockTest(r) \/ LockRead(r) \/ LockUnlink(r) \/ LockWrite(r)
    BY <2>1 DEF Invoke, LockTest, LockRead, LockUnlink, LockWrite, Goto, Unattending, Attending, Shape
  <2>2. CASE CleanRuntime(r) \/ MarkRunning(r) \/ AppendCoverage(r) \/ SaveProgress(r) \/ Finish(r)
    BY <2>2 DEF CleanRuntime, MarkRunning, AppendCoverage, SaveProgress, Finish, Goto, Unattending,
       Attending, Shape
  <2>. QED
    BY <1>2, <2>1, <2>2, Zenon
<1>3. ASSUME NEW r \in Runners, NEW locks, Exit(r, locks), pc[r] \notin Attending,
             UNCHANGED <<fuzzers, strays, orphans, launched>>
      PROVE  Unattending(r)
  BY <1>3, Zenon DEF Exit, Goto, Unattending, Shape
<1>4. ASSUME NEW r \in Runners, CheckStatus(r) \/ LockJudge(r) \/ LockCreate(r) \/ LoadProgress(r)
                                \/ ReleaseLock(r)
      PROVE  Unattending(r)
  <2>1. pc[r] \notin Attending /\ UNCHANGED <<fuzzers, strays, orphans, launched>>
    BY <1>4 DEF CheckStatus, LockJudge, LockCreate, LoadProgress, ReleaseLock, Attending
  <2>2. CASE \E locks : Exit(r, locks)
    BY <1>3, <2>1, <2>2, Zenon
  <2>3. CASE ~\E locks : Exit(r, locks)
    BY <1>4, <2>1, <2>3, ZenonT(30) DEF CheckStatus, LockJudge, LockCreate, LoadProgress, ReleaseLock,
       Goto, Unattending, Shape
  <2>. QED
    BY <2>2, <2>3, Zenon
<1>5. ASSUME NEW r \in Runners, LaunchSegment(r) PROVE Attended'
  <2> DEFINE c  == camp[r]
             id == <<c, launched[c] + 1>>
  <2>1. /\ c \in Campaigns /\ launched[c] \in Nat /\ id \in Processes
        /\ id[1] = c /\ id[2] = launched[c] + 1
    BY <1>5 DEF LaunchSegment, Shape, Processes
  <2>2. PICK n : n.id = id /\ fuzzers' = fuzzers \cup {n}
    BY <1>5, Zenon DEF LaunchSegment
  <2>3. launched'[c] = launched[c] + 1 /\ \A d \in Campaigns \ {c} : launched'[d] = launched[d]
    BY <1>5, <2>1 DEF LaunchSegment, Shape
  <2>4. /\ child'[r] = id /\ pc[r] = "loop" /\ pc'[r] = "wait" /\ UNCHANGED <<strays, orphans>>
        /\ \A x \in Runners \ {r} : child'[x] = child[x] /\ pc'[x] = pc[x]
    BY <1>5, Zenon DEF LaunchSegment, Shape, Goto
  <2>5. \A p \in Processes : p[2] <= launched[p[1]] => p # id /\ p[2] <= launched'[p[1]]
    BY <2>1, <2>3 DEF Processes, Shape
  <2> HIDE DEF id, c
  <2>6. \A p \in strays' : p[2] <= launched'[p[1]] /\ \A f \in fuzzers' : f.id # p
    BY <2>2, <2>4, <2>5, Zenon DEF Attended, Shape
  <2>7. "wait" \in Attending /\ "loop" \notin Attending
    BY DEF Attending
  <2>8. ASSUME NEW p \in AtWork' \ orphans' PROVE \E x \in Runners : child'[x] = p /\ pc'[x] \in Attending
    <3>1. CASE p = id
      BY <2>4, <2>7, <3>1, Zenon
    <3>2. CASE p # id
      <4>1. p \in AtWork \ orphans
        BY <2>2, <2>4, <2>8, <3>2, Zenon DEF AtWork
      <4>2. PICK x \in Runners : child[x] = p /\ pc[x] \in Attending
        BY <4>1, Zenon DEF Attended
      <4>. QED
        BY <2>4, <2>7, <4>2, Zenon
    <3>. QED
      BY <3>1, <3>2, Zenon
  <2>. QED
    BY <2>6, <2>8, Zenon DEF Attended
<1>6. ASSUME NEW r \in Runners, JoinOutput(r) PROVE Attended'
  <2>1. /\ UNCHANGED <<fuzzers, strays, orphans, launched, child>> /\ child[r] \notin strays
        /\ pc[r] # "wait" /\ \A x \in Runners \ {r} : pc'[x] = pc[x]
    BY <1>6 DEF JoinOutput, Goto, Shape
  <2>2. child[r] \notin AtWork
    BY <2>1, Zenon DEF Waiting, AtWork
  <2>3. AtWork' = AtWork /\ \A p \in strays' : p[2] <= launched'[p[1]] /\ \A f \in fuzzers' : f.id # p
    BY <2>1, Zenon DEF AtWork, Attended
  <2>. QED
    BY <1>a, <2>1, <2>2, <2>3, Zenon
<1>7. ASSUME NEW r \in Runners, Interrupt(r) PROVE Attended'
  <2>1. /\ fuzzers' = {f \in fuzzers : f.id # child[r]} /\ strays' \subseteq strays \cup {child[r]}
        /\ UNCHANGED <<orphans, launched, child>> /\ pc'[r] = "raise" /\ pc[r] = "wait"
        /\ \A x \in Runners \ {r} : pc'[x] = pc[x]
    BY <1>7, Zenon DEF Interrupt, Goto, Shape
  <2>2. "raise" \in Attending
    BY DEF Attending
  <2>3. child[r] # None
    BY <1>0, <2>1, ZenonT(30) DEF Waiting, AfterLaunch
  <2>4. child[r][2] <= launched[child[r][1]]
    BY <2>3, Zenon DEF Waiting
  <2>5. \A p \in strays' : p[2] <= launched'[p[1]] /\ \A f \in fuzzers' : f.id # p
    BY <2>1, <2>4, Zenon DEF Attended
  <2>6. \A p \in AtWork' : p \in AtWork \/ p = child[r]
    BY <2>1, Zenon DEF AtWork
  <2>7. ASSUME NEW p \in AtWork' \ orphans' PROVE \E x \in Runners : child'[x] = p /\ pc'[x] \in Attending
    <3>1. CASE p = child[r]
      BY <2>1, <2>2, <3>1, Zenon
    <3>2. CASE p # child[r]
      <4>1. PICK x \in Runners : child[x] = p /\ pc[x] \in Attending
        BY <2>1, <2>6, <2>7, <3>2, Zenon DEF Attended
      <4>. QED
        BY <2>1, <3>2, <4>1, Zenon
    <3>. QED
      BY <3>1, <3>2, Zenon
  <2>. QED
    BY <2>5, <2>7, Zenon DEF Attended
<1>8. ASSUME NEW r \in Runners, NEW left, left = (IF child[r] \in AtWork THEN {child[r]} ELSE {}),
             \/ orphans' = orphans \cup left /\ UNCHANGED <<fuzzers, strays>>
             \/ /\ fuzzers' = {f \in fuzzers : f.id # child[r]} /\ strays' = strays \ {child[r]}
                /\ orphans' = orphans,
             \A x \in Runners \ {r} : pc'[x] = pc[x] /\ child'[x] = child[x], launched' = launched
      PROVE  Attended'
  <2>1. \A p \in strays' : p[2] <= launched'[p[1]] /\ \A f \in fuzzers' : f.id # p
    BY <1>8, Zenon DEF Attended
  <2>2. \A p \in AtWork' \ orphans' : p \in AtWork \ orphans /\ p # child[r]
    BY <1>8, Zenon DEF AtWork
  <2>3. \A p \in AtWork' \ orphans', x \in Runners :
           child[x] = p /\ pc[x] \in Attending => child'[x] = p /\ pc'[x] \in Attending
    BY <1>8, <2>2, Zenon
  <2>. QED
    BY <1>a, <2>1, <2>2, <2>3, Zenon
<1>9. \A r \in Runners : Left(r) = IF child[r] \in AtWork THEN {child[r]} ELSE {}
  BY DEF Left, AtWork
<1>10. ASSUME NEW r \in Runners, InterruptElsewhere(r) \/ Crash(r) PROVE Attended'
  <2>1. \A x \in Runners \ {r} : pc'[x] = pc[x] /\ child'[x] = child[x]
    BY <1>10, Zenon DEF InterruptElsewhere, Crash, Exit, Goto, Shape
  <2>. QED
    BY <1>8, <1>9, <1>10, <2>1, Zenon DEF InterruptElsewhere, Crash
<1>11. ASSUME NEW f \in fuzzers, FuzzerCommits(f) \/ FuzzerLogs(f) PROVE Attended'
  <2>1. /\ [f EXCEPT !.committed = TRUE].id = f.id /\ [f EXCEPT !.logged = TRUE].id = f.id
        /\ UNCHANGED <<child, launched, pc, strays, orphans>>
    BY <1>11, Zenon DEF Shape, Fuzzers, FuzzerCommits, FuzzerLogs
  <2>2. PICK n : n.id = f.id /\ fuzzers' = (fuzzers \ {f}) \cup {n}
    BY <1>11, <2>1, Zenon DEF FuzzerCommits, FuzzerLogs
  <2>3. \A g \in fuzzers' : \E h \in fuzzers : g.id = h.id
    BY <2>2, Zenon
  <2>4. AtWork' \subseteq AtWork
    BY <2>1, <2>3, Zenon DEF AtWork
  <2>5. \A p \in strays' : p[2] <= launched'[p[1]] /\ \A g \in fuzzers' : g.id # p
    BY <2>1, <2>3, Zenon DEF Attended
  <2>. QED
    BY <1>a, <2>1, <2>4, <2>5, Zenon
<1>12. ASSUME NEW f \in fuzzers, NEW ok \in BOOLEAN, FuzzerExits(f, ok) PROVE Attended'
  <2>1. /\ fuzzers' = fuzzers \ {f} /\ strays' \in IF ok THEN {strays} ELSE {strays, strays \cup {f.id}}
        /\ orphans' = IF f.id \in strays' THEN orphans ELSE orphans \ {f.id}
        /\ UNCHANGED <<child, launched>>
        /\ \A r \in Runners : IF child[r] = f.id THEN pc'[r] = IF ok THEN "append" ELSE "join"
                                                 ELSE pc'[r] = pc[r]
    BY <1>12, Zenon DEF FuzzerExits
  <2>2. \A g \in fuzzers' : g \in fuzzers /\ g.id # f.id
    BY <2>1, Zenon DEF Waiting
  <2>3. f.id \notin strays /\ f.id[2] <= launched[f.id[1]]
    BY Zenon DEF Attended, Waiting
  <2>7. \A p \in strays' : p \in strays \/ p = f.id
    BY <2>1, Zenon
  <2>4. \A p \in strays' : p[2] <= launched'[p[1]] /\ \A g \in fuzzers' : g.id # p
    BY <2>1, <2>2, <2>3, <2>7, Zenon DEF Attended
  <2>5. "join" \in Attending
    BY DEF Attending
  <2>6. ASSUME NEW p \in AtWork' \ orphans' PROVE \E x \in Runners : child'[x] = p /\ pc'[x] \in Attending
    <3>1. p \in AtWork \ orphans
      BY <2>1, <2>2, <2>6, Zenon DEF AtWork
    <3>2. PICK x \in Runners : child[x] = p /\ pc[x] \in Attending
      BY <3>1, Zenon DEF Attended
    <3>3. p = f.id => ~ok
      BY <2>1, <2>2, <2>3, <2>6, Zenon DEF AtWork
    <3>. QED
      BY <2>1, <2>5, <3>2, <3>3, Zenon
  <2>. QED
    BY <2>4, <2>6, Zenon DEF Attended
<1>13. ASSUME StrayEnds PROVE Attended'
  <2>1. PICK q \in strays : strays' = strays \ {q} /\ orphans' = orphans \ {q}
    BY <1>13, Zenon DEF StrayEnds
  <2>2. UNCHANGED <<fuzzers, child, launched, pc>>
    BY <1>13, Zenon DEF StrayEnds
  <2>3. AtWork' \ orphans' \subseteq AtWork \ orphans
    BY <2>1, <2>2, Zenon DEF AtWork, Attended
  <2>. QED
    BY <2>1, <2>2, <2>3, Zenon DEF Attended
<1>14. CASE UNCHANGED vars
  BY <1>14, Zenon DEF vars, Attended, AtWork
<1>. QED
  BY <1>1, <1>2, <1>4, <1>5, <1>6, <1>7, <1>10, <1>11, <1>12, <1>13, <1>14, Zenon
  DEF Next, RunnerStep, FuzzerStep

\* The join of the output threads keeps the lock over what a segment leaves at
\* work: for any number of runners, campaigns, failures and interrupts, a
\* campaign's next segment starts only after mfuzz and honggfuzz of the one before
\* it have ended, unless a runner has abandoned them.
THEOREM LeftoversCorrect == Spec => []NothingLeftBehind
<1>1. Init => Attended
  BY Zenon DEF Init, Attended, AtWork
<1>2. LockInv /\ Attended /\ [Next]_vars => Attended'
  BY StepAttended, Zenon DEF LockInv
<1>3. LockInv /\ Attended => NothingLeftBehind
  <2> SUFFICES ASSUME LockInv, Attended, NEW r \in Runners, pc[r] = "wait", camp[r] \notin overlapped,
                      NEW p \in AtWork \ orphans, p[1] = camp[r]
               PROVE  p = child[r]
    BY Zenon DEF NothingLeftBehind, AtWork
  <2>1. PICK x \in Runners : child[x] = p /\ pc[x] \in Attending
    BY Zenon DEF Attended
  <2>2. p # None
    <3>1. None \notin Processes
      BY CampaignAssumption, Zenon DEF CampaignAssumption
    <3>2. \A f \in fuzzers : f.id \in Processes
      BY Zenon DEF LockInv, Shape, Fuzzers
    <3>3. strays \subseteq Processes
      BY Zenon DEF LockInv, Shape
    <3>. QED
      BY <3>1, <3>2, <3>3, Zenon DEF AtWork
  <2>3. camp[x] = camp[r] /\ camp[r] \in Campaigns
    BY <2>1, <2>2, Zenon DEF LockInv, Waiting, Shape
  <2>4. Working(x, camp[r]) /\ Working(r, camp[r])
    BY <2>1, <2>3, Zenon DEF Working, Attending
  <2>. QED
    BY <2>1, <2>3, <2>4, Zenon DEF LockInv, Exclusive
<1>. QED
  BY LockInvariance, <1>1, <1>2, <1>3, PTL DEF Spec

-----------------------------------------------------------------------------

\* --force has been used, checkpoints exist and times are in range.
Bookkeeping ==
    /\ \A r \in Runners : force[r] => forced > 0
    /\ \A c \in Campaigns : checkpoint[c] # None => commits
    /\ \A r \in Runners : prog[r].done <= Duration
    /\ \A c \in Campaigns : progress[c] # None => progress[c].done <= Duration

\* The saved progress of c covers t seconds.
Saved(c, t) == progress[c] # None /\ progress[c].done = t

\* What a runner that works on c knows of its files.
Knows(r, c) ==
    /\ pc[r] \in {"loop", "wait", "join", "append", "save", "failed"} => status[c] = "running"
    /\ pc[r] \in {"clean", "running", "loop", "wait", "join", "append", "failed"} /\ prog[r].done > 0
          => Saved(c, prog[r].done)

Faithful ==
    ~(commits /\ forced > 0) => \A c \in Campaigns \ overlapped :
        /\ status[c] = "complete" => Saved(c, Duration)
        /\ \A r \in Runners : Working(r, c) => Knows(r, c)

IInv == LockInv /\ Bookkeeping /\ Faithful

\* Nothing exists before the first invocation.
LEMMA InitIInv == Init => IInv
<1> SUFFICES ASSUME Init PROVE IInv
  OBVIOUS
<1>1. Bookkeeping
  BY CampaignAssumption DEF CampaignAssumption, Init, Bookkeeping, NewRun
<1>2. Faithful
  BY Zenon DEF Init, Faithful, Working
<1>. QED
  BY <1>1, <1>2, InitLockInv, Zenon DEF IInv

\* The last segment is cut to the duration.
LEMMA SegmentFits ==
    ASSUME NEW t \in Nat, t <= Duration
    PROVE  t + SegmentDuration(t) \in Nat /\ t + SegmentDuration(t) <= Duration
  BY CampaignAssumption DEF CampaignAssumption, SegmentDuration

\* Every step keeps times in range.
LEMMA StepBookkeeping == IInv /\ [Next]_vars => Bookkeeping'
<1> SUFFICES ASSUME IInv, [Next]_vars PROVE Bookkeeping'
  OBVIOUS
<1> USE DEF runVars, lockVars, logVars, busyVars, fuzzVars, bounds
<1>0. Shape /\ Waiting /\ Bookkeeping /\ 0 <= Duration
  BY CampaignAssumption DEF IInv, LockInv, CampaignAssumption
<1>1. ASSUME UNCHANGED <<checkpoint, progress, forced, commits>>, NEW r \in Runners, NEW locks, Exit(r, locks)
      PROVE  Bookkeeping'
  BY <1>0, <1>1, Zenon DEF Exit, Bookkeeping, Shape, NewRun
<1>2. ASSUME UNCHANGED <<force, forced, checkpoint, commits, prog, progress>> PROVE Bookkeeping'
  BY <1>0, <1>2, Zenon DEF Bookkeeping
<1>3. ASSUME NEW r \in Runners, NEW c \in Campaigns, NEW f \in BOOLEAN, Invoke(r, c, f) PROVE Bookkeeping'
  <2>1. forced' > 0 \/ (~f /\ forced' = forced)
    BY <1>0, <1>3 DEF Invoke, Shape
  <2>2. \A x \in Runners : force'[x] => forced' > 0
    BY <1>0, <1>3, <2>1, Zenon DEF Invoke, Shape, Bookkeeping
  <2>. QED
    BY <1>0, <1>3, <2>2, Zenon DEF Invoke, Bookkeeping
<1>4. ASSUME NEW r \in Runners,
             LockTest(r) \/ LockRead(r) \/ LockUnlink(r) \/ LockWrite(r) \/ CleanRuntime(r)
             \/ MarkRunning(r) \/ LaunchSegment(r) \/ Finish(r) \/ Interrupt(r)
             \/ JoinOutput(r) \/ InterruptElsewhere(r)
      PROVE  Bookkeeping'
  BY <1>2, <1>4, Zenon DEF LockTest, LockRead, LockUnlink, LockWrite, CleanRuntime, MarkRunning,
     LaunchSegment, Finish, Interrupt, JoinOutput, InterruptElsewhere
<1>5. ASSUME NEW r \in Runners,
             CheckStatus(r) \/ LockJudge(r) \/ LockCreate(r) \/ ReleaseLock(r) \/ Crash(r)
      PROVE  Bookkeeping'
  BY <1>1, <1>2, <1>5, Zenon DEF CheckStatus, LockJudge, LockCreate, ReleaseLock, Crash
<1>6. ASSUME NEW r \in Runners, LoadProgress(r) PROVE Bookkeeping'
  <2>1. CASE Exit(r, lock) /\ UNCHANGED progress
    BY <1>1, <1>6, <2>1, Zenon DEF LoadProgress
  <2>2. CASE ~(Exit(r, lock) /\ UNCHANGED progress)
    <3> DEFINE p == [Loaded(r) EXCEPT !.done = Committed(r)]
    <3>1. camp[r] \in Campaigns /\ Loaded(r) \in Progresses /\ Committed(r) <= Duration
      BY <1>0, <1>6, <2>2, NewRunType DEF LoadProgress, CheckpointValid, Shape, Loaded
    <3>2. p.done = Committed(r)
      BY <3>1, Zenon DEF Progresses
    <3>3. prog' = [prog EXCEPT ![r] = p] /\ (progress' = [progress EXCEPT ![camp[r]] = p] \/ progress' = progress)
      BY <1>6, <2>2, Zenon DEF LoadProgress, RecoveredProgress
    <3> HIDE DEF p
    <3>. QED
      BY <1>0, <1>6, <2>2, <3>1, <3>2, <3>3 DEF LoadProgress, Bookkeeping, Shape
  <2>. QED
    BY <2>1, <2>2, Zenon
<1>7. ASSUME NEW r \in Runners, AppendCoverage(r) PROVE Bookkeeping'
  <2>1. prog[r].done \in Nat /\ prog[r].done <= Duration
    BY <1>0, Zenon DEF Shape, Progresses, Bookkeeping
  <2>2. prog'[r].done <= Duration /\ \A x \in Runners \ {r} : prog'[x] = prog[x]
    BY <1>0, <1>7, <2>1, SegmentFits, Zenon DEF AppendCoverage, Shape
  <2>. QED
    BY <1>0, <1>7, <2>2, Zenon DEF AppendCoverage, Bookkeeping
<1>8. ASSUME NEW r \in Runners, SaveProgress(r) PROVE Bookkeeping'
  BY <1>0, <1>8, Zenon DEF SaveProgress, Bookkeeping, Shape
<1>9. ASSUME NEW f \in fuzzers, FuzzerCommits(f) PROVE Bookkeeping'
  BY <1>0, <1>9, Zenon DEF FuzzerCommits, Bookkeeping, Shape
<1>10. ASSUME \/ \E f \in fuzzers : FuzzerLogs(f) \/ \E ok \in BOOLEAN : FuzzerExits(f, ok)
              \/ StrayEnds
       PROVE  Bookkeeping'
  BY <1>2, <1>10, Zenon DEF FuzzerLogs, FuzzerExits, StrayEnds
<1>11. CASE UNCHANGED vars
  BY <1>2, <1>11, Zenon DEF vars
<1>. QED
  BY <1>3, <1>4, <1>5, <1>6, <1>7, <1>8, <1>9, <1>10, <1>11, Zenon DEF Next, RunnerStep, FuzzerStep

\* A step that writes neither file, and after which a runner that works on a
\* campaign either knows what it knew or is where it needs to know nothing.
FilesKept ==
    /\ UNCHANGED <<status, progress>>
    /\ overlapped \subseteq overlapped'
    /\ ~(commits' /\ forced' > 0) => ~(commits /\ forced > 0)
    /\ \A x \in Runners, c \in Campaigns : Working(x, c)' =>
          \/ pc'[x] \in {"write", "load", "raise", "release"}
          \/ Working(x, c) /\ pc'[x] = pc[x] /\ prog'[x] = prog[x]
          \/ Working(x, c) /\ pc[x] = "wait" /\ pc'[x] \in {"append", "join"} /\ prog'[x] = prog[x]
          \/ Working(x, c) /\ pc[x] = "join" /\ pc'[x] = "failed" /\ prog'[x] = prog[x]
          \/ Working(x, c) /\ pc[x] = "loop" /\ pc'[x] = "wait" /\ prog'[x] = prog[x]
          \/ Working(x, c) /\ pc[x] = "clean" /\ pc'[x] = "running" /\ prog'[x] = prog[x]
          \/ Working(x, c) /\ pc[x] = "append" /\ pc'[x] = "save"

\* Every step keeps what runners know of their files true.
LEMMA StepFaithful == IInv /\ [Next]_vars => Faithful'
<1> SUFFICES ASSUME IInv, [Next]_vars PROVE Faithful'
  OBVIOUS
<1> USE DEF runVars, lockVars, logVars, busyVars, fuzzVars, bounds
<1>0. /\ Shape /\ Waiting /\ Exclusive /\ Bookkeeping /\ Faithful
      /\ Duration \in Nat \ {0} /\ None \notin Progresses
  BY CampaignAssumption, Zenon DEF IInv, LockInv, CampaignAssumption
<1>1. ASSUME FilesKept PROVE Faithful'
  <2> SUFFICES ASSUME ~(commits' /\ forced' > 0), NEW c \in Campaigns \ overlapped'
               PROVE  /\ status'[c] = "complete" => Saved(c, Duration)'
                      /\ \A r \in Runners : Working(r, c)' => Knows(r, c)'
    BY Zenon DEF Faithful
  <2>1. /\ status[c] = "complete" => Saved(c, Duration)
        /\ \A r \in Runners : Working(r, c) => Knows(r, c)
    BY <1>0, <1>1, Zenon DEF FilesKept, Faithful
  <2>. QED
    BY <1>1, <2>1, SMTT(30) DEF FilesKept, Knows, Saved
<1>2. ASSUME NEW r \in Runners, NEW locks \in [Campaigns -> Locks], Exit(r, locks),
             UNCHANGED <<status, progress, forced, commits>>
      PROVE  FilesKept
  <2>1. /\ pc'[r] = "idle" /\ overlapped' = overlapped
        /\ \A x \in Runners \ {r} : pc'[x] = pc[x] /\ camp'[x] = camp[x] /\ prog'[x] = prog[x]
    BY <1>0, <1>2, ExitShape, Zenon
  <2>. QED
    BY <1>2, <2>1, Zenon DEF FilesKept, Working
<1>3. ASSUME NEW r \in Runners,
             LockTest(r) \/ LockRead(r) \/ LockUnlink(r) \/ LockWrite(r) \/ CleanRuntime(r)
             \/ LaunchSegment(r) \/ AppendCoverage(r) \/ Interrupt(r)
             \/ JoinOutput(r) \/ InterruptElsewhere(r)
      PROVE  FilesKept
  <2>1. CASE LockTest(r)
    BY <1>0, <2>1, Zenon DEF LockTest, Goto, FilesKept, Working, Shape
  <2>7. CASE LockRead(r)
    BY <1>0, <2>7, ZenonT(30) DEF LockRead, Goto, FilesKept, Working, Shape
  <2>6. CASE LockUnlink(r)
    BY <1>0, <2>6, Zenon DEF LockUnlink, Goto, FilesKept, Working, Shape
  <2>2. CASE LockWrite(r) \/ CleanRuntime(r)
    BY <1>0, <2>2 DEF LockWrite, CleanRuntime, Goto, FilesKept, Working, Shape
  <2>3. CASE LaunchSegment(r)
    BY <1>0, <2>3, ZenonT(30) DEF LaunchSegment, Goto, FilesKept, Working, Shape
  <2>4. CASE AppendCoverage(r)
    <3>1. /\ UNCHANGED <<status, progress, overlapped, camp, forced, commits>>
          /\ pc[r] = "append" /\ pc'[r] = "save"
      BY <1>0, <2>4, Zenon DEF AppendCoverage, Goto, Shape
    <3>2. \A x \in Runners \ {r} : pc'[x] = pc[x] /\ prog'[x] = prog[x]
      BY <1>0, <2>4, Zenon DEF AppendCoverage, Goto, Shape
    <3>. QED
      BY <3>1, <3>2, Zenon DEF FilesKept, Working
  <2>5. CASE Interrupt(r)
    BY <1>0, <2>5, ZenonT(30) DEF Interrupt, Goto, FilesKept, Working, Shape
  <2>8. CASE JoinOutput(r)
    BY <1>0, <2>8, ZenonT(30) DEF JoinOutput, Goto, FilesKept, Working, Shape
  <2>9. CASE InterruptElsewhere(r)
    BY <1>0, <2>9, ZenonT(30) DEF InterruptElsewhere, Goto, FilesKept, Working, Shape
  <2>. QED
    BY <1>3, <2>1, <2>2, <2>3, <2>4, <2>5, <2>6, <2>7, <2>8, <2>9, Zenon
<1>4. ASSUME NEW r \in Runners, NEW c \in Campaigns, NEW f \in BOOLEAN, Invoke(r, c, f) PROVE FilesKept
  <2>1. /\ pc'[r] = "status" /\ prog' = prog
        /\ \A x \in Runners \ {r} : pc'[x] = pc[x] /\ camp'[x] = camp[x]
    BY <1>0, <1>4, Zenon DEF Invoke, Goto, Shape
  <2>2. UNCHANGED <<status, progress, overlapped, commits>> /\ (forced > 0 => forced' > 0)
    BY <1>0, <1>4 DEF Invoke, Shape
  <2>. QED
    BY <2>1, <2>2, Zenon DEF FilesKept, Working
<1>5. ASSUME NEW r \in Runners, CheckStatus(r) \/ LockJudge(r) \/ LockCreate(r) \/ Crash(r)
      PROVE  FilesKept
  <2>1. CASE Exit(r, lock)
    BY <1>0, <1>2, <1>5, <2>1, Zenon DEF CheckStatus, LockJudge, LockCreate, Crash, Shape
  <2>2. CASE ~Exit(r, lock)
    <3>0. pc \in [Runners -> Labels]
      BY <1>0, Zenon DEF Shape
    <3>1. CASE CheckStatus(r)
      BY <2>2, <3>0, <3>1, Zenon DEF CheckStatus, Goto, FilesKept, Working
    <3>2. CASE LockJudge(r)
      BY <2>2, <3>0, <3>2, ZenonT(30) DEF LockJudge, Goto, FilesKept, Working
    <3>3. CASE LockCreate(r)
      BY <1>0, <2>2, <3>3 DEF LockCreate, Goto, FilesKept, Working, Shape
    <3>. QED
      BY <1>5, <2>2, <3>1, <3>2, <3>3, Zenon DEF Crash
  <2>. QED
    BY <2>1, <2>2, Zenon
<1>6. ASSUME NEW r \in Runners, ReleaseLock(r) PROVE FilesKept
  <2>1. [lock EXCEPT ![camp[r]] = NoLock] \in [Campaigns -> Locks]
    BY <1>0, <1>6, CampaignAssumption, Zenon DEF ReleaseLock, Shape, Locks, NoLock
  <2>. QED
    BY <1>2, <1>6, <2>1, Zenon DEF ReleaseLock
<1>7. ASSUME FuzzerStep PROVE FilesKept
  <2>1. UNCHANGED <<status, progress, overlapped, camp, prog, forced, commits>>
    BY <1>7, Zenon DEF FuzzerStep, FuzzerLogs, FuzzerCommits, FuzzerExits, StrayEnds
  <2>2. \A x \in Runners : pc'[x] = pc[x] \/ (pc[x] = "wait" /\ pc'[x] \in {"append", "join"})
    BY <1>0, <1>7, ZenonT(30) DEF FuzzerStep, FuzzerLogs, FuzzerCommits, FuzzerExits, StrayEnds, Waiting
  <2>. QED
    BY <2>1, <2>2, ZenonT(30) DEF FilesKept, Working
<1>8. ASSUME NEW r \in Runners,
             pc[r] \in {"load", "running", "loop", "save", "failed"},
             pc' = [pc EXCEPT ![r] = pc'[r]],
             UNCHANGED <<overlapped, camp, forced, commits>>,
             \A c \in Campaigns \ {camp[r]} : status'[c] = status[c] /\ progress'[c] = progress[c],
             \A x \in Runners \ {r} : prog'[x] = prog[x],
             ~(commits /\ forced > 0) /\ camp[r] \notin overlapped =>
                 /\ status'[camp[r]] = "complete" => Saved(camp[r], Duration)'
                 /\ Knows(r, camp[r])'
      PROVE  Faithful'
  <2> SUFFICES ASSUME ~(commits /\ forced > 0), NEW c \in Campaigns \ overlapped
               PROVE  /\ status'[c] = "complete" => Saved(c, Duration)'
                      /\ \A x \in Runners : Working(x, c)' => Knows(x, c)'
    BY <1>8, Zenon DEF Faithful
  <2>1. \A x \in Runners \ {r} : pc'[x] = pc[x] /\ camp'[x] = camp[x] /\ prog'[x] = prog[x]
    BY <1>0, <1>8, Zenon DEF Shape
  <2>2. /\ status[c] = "complete" => Saved(c, Duration)
        /\ \A x \in Runners : Working(x, c) => Knows(x, c)
    BY <1>0, Zenon DEF Faithful
  <2>3. CASE c = camp[r]
    <3>1. Working(r, c)
      BY <1>8, <2>3, Zenon DEF Working
    <3>2. \A x \in Runners \ {r} : ~Working(x, c)'
      BY <1>0, <2>1, <3>1, ZenonT(30) DEF Exclusive, Working
    <3>. QED
      BY <1>8, <2>3, <3>2, Zenon
  <2>4. CASE c # camp[r]
    <3>1. ~Working(r, c)'
      BY <1>8, <2>4, Zenon DEF Working
    <3>2. status'[c] = status[c] /\ progress'[c] = progress[c]
      BY <1>8, <2>4, Zenon
    <3>. QED
      BY <2>1, <2>2, <3>1, <3>2, ZenonT(30) DEF Working, Knows, Saved
  <2>. QED
    BY <2>3, <2>4, Zenon
<1>9. ASSUME NEW r \in Runners, MarkRunning(r) PROVE Faithful'
  <2>1. camp[r] \in Campaigns /\ Working(r, camp[r])
    BY <1>0, <1>9, Zenon DEF MarkRunning, Shape, Working
  <2>2. ~(commits /\ forced > 0) /\ camp[r] \notin overlapped => Knows(r, camp[r])
    BY <1>0, <2>1, Zenon DEF Faithful
  <2>3. status'[camp[r]] = "running" /\ pc'[r] = "loop" /\ prog' = prog /\ progress' = progress
    BY <1>0, <1>9, <2>1, Zenon DEF MarkRunning, Goto, Shape
  <2>4. ~(commits /\ forced > 0) /\ camp[r] \notin overlapped => Knows(r, camp[r])'
    BY <1>9, <2>2, <2>3, Zenon DEF Knows, Saved, MarkRunning
  <2>5. /\ pc[r] \in {"running", "loop", "save", "failed"} /\ pc' = [pc EXCEPT ![r] = pc'[r]]
        /\ UNCHANGED <<overlapped, camp, forced, commits>>
        /\ \A c \in Campaigns \ {camp[r]} : status'[c] = status[c] /\ progress'[c] = progress[c]
    BY <1>0, <1>9, Zenon DEF MarkRunning, Goto, Shape
  <2>. QED
    BY <1>8, <2>1, <2>3, <2>4, <2>5, Zenon
<1>10. ASSUME NEW r \in Runners, SaveProgress(r) PROVE Faithful'
  <2>1. camp[r] \in Campaigns /\ Working(r, camp[r]) /\ prog[r] \in Progresses
    BY <1>0, <1>10, Zenon DEF SaveProgress, Shape, Working
  <2>2. ~(commits /\ forced > 0) /\ camp[r] \notin overlapped => status[camp[r]] = "running"
    BY <1>0, <1>10, <2>1, Zenon DEF Faithful, Knows, SaveProgress
  <2>3. progress'[camp[r]] = prog[r] /\ pc'[r] = "loop" /\ prog' = prog /\ status' = status
    BY <1>0, <1>10, <2>1, Zenon DEF SaveProgress, Goto, Shape
  <2>4. ~(commits /\ forced > 0) /\ camp[r] \notin overlapped => Knows(r, camp[r])'
    BY <1>0, <1>10, <2>1, <2>2, <2>3, Zenon DEF Knows, Saved, SaveProgress
  <2>5. /\ pc[r] \in {"running", "loop", "save", "failed"} /\ pc' = [pc EXCEPT ![r] = pc'[r]]
        /\ UNCHANGED <<overlapped, camp, forced, commits>>
        /\ \A c \in Campaigns \ {camp[r]} : status'[c] = status[c] /\ progress'[c] = progress[c]
    BY <1>0, <1>10, Zenon DEF SaveProgress, Goto, Shape
  <2>. QED
    BY <1>8, <2>1, <2>2, <2>3, <2>4, <2>5, Zenon
<1>11. ASSUME NEW r \in Runners, Finish(r) PROVE Faithful'
  <2>1. camp[r] \in Campaigns /\ Working(r, camp[r]) /\ prog[r].done \in Nat /\ prog[r].done <= Duration
    BY <1>0, <1>11, Zenon DEF Finish, Shape, Working, Progresses, Bookkeeping
  <2>2. ~(commits /\ forced > 0) /\ camp[r] \notin overlapped => Knows(r, camp[r])
    BY <1>0, <2>1, Zenon DEF Faithful
  <2>3. pc'[r] = "release" /\ prog' = prog /\ progress' = progress
    <3>1. pc \in [Runners -> Labels]
      BY <1>0, Zenon DEF Shape
    <3>. QED
      BY <1>11, <3>1, Zenon DEF Finish, Goto
  <2>4. status'[camp[r]] = "complete" => pc[r] = "loop" /\ prog[r].done = Duration
    <3>1. camp[r] \in DOMAIN status
      BY <1>0, <2>1, Zenon DEF Shape
    <3>2. status'[camp[r]] = "complete" => pc[r] = "loop" /\ prog[r].done >= Duration
      BY <1>11, <3>1, Zenon DEF Finish
    <3>3. \A n \in Nat : n <= Duration /\ n >= Duration => n = Duration
      BY <1>0
    <3>. QED
      BY <2>1, <3>2, <3>3, Zenon
  <2>5. ~(commits /\ forced > 0) /\ camp[r] \notin overlapped =>
           (status'[camp[r]] = "complete" => Saved(camp[r], Duration)')
    <3>1. Duration > 0
      BY CampaignAssumption DEF CampaignAssumption
    <3>3. camp' = camp
      BY <1>11, Zenon DEF Finish
    <3>2. pc[r] = "loop" /\ prog[r].done = Duration /\ Knows(r, camp[r]) => Saved(camp[r], Duration)
      BY <3>1, Zenon DEF Knows
    <3>. QED
      BY <2>2, <2>3, <2>4, <3>2, <3>3, Zenon DEF Saved
  <2>6. Knows(r, camp[r])'
    BY <2>3, Zenon DEF Knows
  <2>7. /\ pc[r] \in {"running", "loop", "save", "failed"} /\ pc' = [pc EXCEPT ![r] = pc'[r]]
        /\ UNCHANGED <<overlapped, camp, forced, commits>>
        /\ \A c \in Campaigns \ {camp[r]} : status'[c] = status[c] /\ progress'[c] = progress[c]
    BY <1>0, <1>11, Zenon DEF Finish, Goto, Shape
  <2>. QED
    BY <1>8, <2>1, <2>3, <2>5, <2>6, <2>7, Zenon
<1>12. ASSUME NEW r \in Runners, LoadProgress(r) PROVE Faithful'
  <2>1. CASE Exit(r, lock) /\ UNCHANGED progress
    BY <1>0, <1>1, <1>2, <1>12, <2>1, Zenon DEF LoadProgress, Shape
  <2>2. CASE ~(Exit(r, lock) /\ UNCHANGED progress)
    <3> DEFINE c == camp[r]
               t == Committed(r)
    <3>1. /\ c \in Campaigns /\ Loaded(r) \in Progresses /\ t \in Loaded(r).done .. Duration
          /\ Working(r, c)
      BY <1>0, <1>12, <2>2, NewRunType, Zenon DEF LoadProgress, CheckpointValid, Shape, Loaded, Working
    <3>2. Loaded(r).done \in Nat /\ t \in Nat
      BY <1>0, <3>1 DEF Progresses
    <3>3. /\ [Loaded(r) EXCEPT !.done = t] \in Progresses
          /\ [Loaded(r) EXCEPT !.done = t].done = t
      BY <3>1, <3>2, Zenon DEF Progresses
    <3>4. /\ prog'[r].done = t /\ pc'[r] = "clean" /\ status' = status
          /\ IF t > Loaded(r).done THEN progress'[c] # None /\ progress'[c].done = t
                                   ELSE progress' = progress
      BY <1>0, <1>12, <2>2, <3>1, <3>3, Zenon DEF LoadProgress, RecoveredProgress, Goto, Shape
    <3>5. Loaded(r).done > 0 => progress[c] # None /\ Loaded(r) = progress[c]
      BY DEF Loaded, NewRun
    <3>6. ASSUME ~(commits /\ forced > 0), c \notin overlapped, status[c] = "complete", t > Loaded(r).done
          PROVE  FALSE
      <4>1. checkpoint[c] # None
        BY <3>2, <3>6 DEF Committed
      <4>2. ~force[r]
        BY <1>0, <3>1, <3>6, <4>1, Zenon DEF Bookkeeping
      <4>3. Saved(c, Duration)
        BY <1>0, <3>1, <3>6, Zenon DEF Faithful
      <4>4. Loaded(r) = progress[c]
        BY <4>2, <4>3, Zenon DEF Loaded, Saved
      <4>. QED
        BY <1>0, <3>1, <3>6, <4>3, <4>4 DEF Saved
    <3>7. ~(commits /\ forced > 0) /\ c \notin overlapped =>
             (status'[c] = "complete" => Saved(c, Duration)')
      <4> SUFFICES ASSUME ~(commits /\ forced > 0), c \notin overlapped, status[c] = "complete"
                   PROVE  Saved(c, Duration)'
        BY <3>4, Zenon
      <4>1. Saved(c, Duration)
        BY <1>0, <3>1, Zenon DEF Faithful
      <4>2. progress' = progress
        BY <3>4, <3>6, Zenon
      <4>. QED
        BY <1>12, <2>2, <4>1, <4>2, Zenon DEF Saved, LoadProgress
    <3>8. Knows(r, c)'
      <4>1. t > 0 => progress'[c] # None /\ progress'[c].done = t
        <5>1. CASE t > Loaded(r).done
          BY <3>4, <5>1, Zenon
        <5>2. CASE t = Loaded(r).done
          BY <3>2, <3>4, <3>5, <5>2, Zenon
        <5>3. t > Loaded(r).done \/ t = Loaded(r).done
          BY <3>1, <3>2
        <5>. QED
          BY <5>1, <5>2, <5>3, Zenon
      <4>2. camp' = camp
        BY <1>12, <2>2, Zenon DEF LoadProgress
      <4>. QED
        BY <3>4, <4>1, <4>2, Zenon DEF Knows, Saved
    <3>9. /\ \A k \in Campaigns \ {c} : status'[k] = status[k] /\ progress'[k] = progress[k]
          /\ \A x \in Runners \ {r} : prog'[x] = prog[x]
          /\ pc' = [pc EXCEPT ![r] = pc'[r]] /\ pc[r] = "load"
          /\ UNCHANGED <<overlapped, camp, forced, commits>>
      BY <1>0, <1>12, <2>2, <3>1, Zenon DEF LoadProgress, RecoveredProgress, Goto, Shape
    <3>. QED
      BY <1>8, <3>7, <3>8, <3>9, Zenon
  <2>. QED
    BY <2>1, <2>2, Zenon
<1>13. CASE UNCHANGED vars
  <2>1. FilesKept
    BY <1>13, Zenon DEF vars, FilesKept, Working
  <2>. QED
    BY <1>1, <2>1, Zenon
<1>. QED
  BY <1>1, <1>3, <1>4, <1>5, <1>6, <1>7, <1>9, <1>10, <1>11, <1>12, <1>13, Zenon
  DEF Next, RunnerStep

\* The whole invariant holds in every reachable state.
THEOREM Invariance == Spec => []IInv
<1>1. IInv /\ [Next]_vars => IInv'
  BY StepShape, StepWaiting, StepLock, StepBookkeeping, StepFaithful, Zenon DEF IInv, LockInv
<1>. QED
  BY InitIInv, <1>1, PTL DEF Spec

\* run_one writes "complete" only when the saved progress covers the whole
\* duration, and nothing afterwards takes the progress away: for any duration
\* and segment, any number of runners, crashes, interrupts and failures.
THEOREM CompleteCorrect == Spec => []CompleteMeansDone
<1>1. IInv => CompleteMeansDone
  BY Zenon DEF IInv, Faithful, Saved, CompleteMeansDone
<1>. QED
  BY <1>1, Invariance, PTL

=============================================================================
