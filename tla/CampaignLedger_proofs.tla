----------------------- MODULE CampaignLedger_proofs -----------------------
(***************************************************************************)
(* Proofs about the ledger that run_campaigns.py keeps of a campaign:      *)
(* progress.json, coverage.csv and the log of mfuzz.                       *)
(*                                                                         *)
(* Tiled follows the segments of progress.json from save to load.  Ledger  *)
(* says how the three files and what a runner holds in memory hang         *)
(* together between the launch of a segment and the save that commits it.  *)
(* Logged says whose line a runner finds in the log.  Loss counts the      *)
(* segments that a campaign has lost.                                      *)
(***************************************************************************)
EXTENDS Campaign_proofs, FiniteSetTheorems

-----------------------------------------------------------------------------

\* r is between loading the progress of c and giving c up.
Active(r, c) ==
    camp[r] = c /\ pc[r] \in {"clean", "running", "loop", "wait", "join", "append", "save", "failed"}

\* r has launched a segment of c that has not failed and is not saved yet.
InFlight(r, c) == camp[r] = c /\ pc[r] \in {"wait", "append", "save"}

\* The mfuzz processes whose row may be missing.
Excused == silent \cup disturbed

\* A step that writes no progress and no row and launches nothing, and after which
\* a segment in flight is still in flight, or has been counted as trouble.
Quiet ==
    /\ UNCHANGED <<progress, rows, launched, commits>>
    /\ Excused \subseteq Excused'
    /\ forced' = 0 => forced = 0
    /\ overlapped \subseteq overlapped'
    /\ \A x \in Runners, c \in Campaigns : Active(x, c)' =>
          /\ Active(x, c)
          /\ prog'[x] = prog[x] /\ child'[x] = child[x]
          /\ pc'[x] = "save" <=> pc[x] = "save"
          /\ pc'[x] \in {"wait", "append"} => pc[x] \in {"wait", "append"}
    /\ \/ trouble' = trouble + 1
       \/ /\ trouble' = trouble
          /\ \A x \in Runners, c \in Campaigns : InFlight(x, c) => InFlight(x, c)'

\* A runner that reads the log has launched the process it reads about.
LEMMA AppendingChild ==
    ASSUME Waiting, NEW r \in Runners, pc[r] = "append"
    PROVE  child[r] \in Processes /\ child[r] # None /\ child[r][1] = camp[r]
<1>1. child[r] \in Processes
  BY DEF Waiting, AfterLaunch
<1>2. child[r] # None
  BY <1>1, CampaignAssumption, Zenon DEF CampaignAssumption
<1>. QED
  BY <1>1, <1>2, Zenon DEF Waiting

\* LoadProgress, when it succeeds.
Loads(r) ==
    /\ LoadProgress(r)
    /\ CheckpointValid(r)
    /\ prog' = [prog EXCEPT ![r] = [Loaded(r) EXCEPT !.done = Committed(r)]]
    /\ progress' = RecoveredProgress(r)
    /\ pc' = [pc EXCEPT ![r] = "clean"]
    /\ UNCHANGED <<camp, child, overlapped>>

\* All steps but those four are quiet.
LEMMA StepKinds ==
    ASSUME LockInv, [Next]_vars
    PROVE  \/ Quiet
           \/ \E r \in Runners : Loads(r) \/ LaunchSegment(r)
                                 \/ AppendCoverage(r) \/ SaveProgress(r)
<1> USE DEF runVars, lockVars, logVars, busyVars, fuzzVars, bounds
<1>0. Shape /\ Waiting
  BY Zenon DEF LockInv
<1>1. ASSUME NEW r \in Runners, NEW locks \in [Campaigns -> Locks], Exit(r, locks),
             UNCHANGED <<progress, rows, silent, disturbed, launched, commits, forced>>,
             trouble' = trouble + 1 \/ (trouble' = trouble /\ pc[r] \notin {"wait", "append", "save"})
      PROVE  Quiet
  <2>1. /\ pc'[r] = "idle" /\ overlapped' = overlapped
        /\ \A x \in Runners \ {r} : pc'[x] = pc[x] /\ camp'[x] = camp[x] /\ child'[x] = child[x]
                                    /\ prog'[x] = prog[x]
    BY <1>0, <1>1, ExitShape, Zenon
  <2>. QED
    BY <1>1, <2>1, Zenon DEF Quiet, Active, InFlight, Excused
<1>2. ASSUME NEW r \in Runners, NEW c \in Campaigns, NEW f \in BOOLEAN, Invoke(r, c, f) PROVE Quiet
  <2>1. forced' = 0 => forced = 0
    BY <1>0, <1>2 DEF Invoke, Shape
  <2>2. pc[r] = "idle" /\ pc'[r] = "status" /\ \A x \in Runners \ {r} : pc'[x] = pc[x] /\ camp'[x] = camp[x]
    BY <1>0, <1>2, Zenon DEF Invoke, Shape, Goto
  <2>. QED
    BY <1>2, <2>1, <2>2, Zenon DEF Invoke, Quiet, Active, InFlight, Excused
<1>3. ASSUME NEW r \in Runners, NEW l,
             pc' = [pc EXCEPT ![r] = l], overlapped \subseteq overlapped',
             UNCHANGED <<camp, prog, child, progress, rows, launched, commits, forced, trouble>>,
             silent' = silent, disturbed \subseteq disturbed',
             pc[r] \notin {"wait", "append", "save"},
             \/ l \in {"lock", "create", "read", "judge", "unlink", "write", "load", "release"}
             \/ <<pc[r], l>> \in {<<"running", "loop">>, <<"clean", "running">>, <<"join", "failed">>}
      PROVE  Quiet
  <2>1. pc'[r] = l /\ \A x \in Runners \ {r} : pc'[x] = pc[x]
    BY <1>0, <1>3, Zenon DEF Shape
  <2>2. CASE l \in {"lock", "create", "read", "judge", "unlink", "write", "load", "release"}
    BY <1>3, <2>1, <2>2, Zenon DEF Quiet, Active, InFlight, Excused
  <2>3. CASE <<pc[r], l>> \in {<<"running", "loop">>, <<"clean", "running">>, <<"join", "failed">>}
    BY <1>3, <2>1, <2>3 DEF Quiet, Active, InFlight, Excused
  <2>. QED
    BY <1>3, <2>2, <2>3, Zenon
<1>4. ASSUME NEW r \in Runners, LockTest(r) \/ LockRead(r) \/ LockUnlink(r) \/ LockWrite(r) PROVE Quiet
  BY <1>3, <1>4, Zenon DEF LockTest, LockRead, LockUnlink, LockWrite, Goto
<1>5. ASSUME NEW r \in Runners, MarkRunning(r) \/ Finish(r) \/ CleanRuntime(r) \/ JoinOutput(r) PROVE Quiet
  <2>1. CASE MarkRunning(r) \/ Finish(r)
    BY <1>3, <2>1, Zenon DEF MarkRunning, Finish, Goto
  <2>2. CASE CleanRuntime(r)
    <3>1. disturbed \subseteq disturbed'
      BY <2>2, Zenon DEF CleanRuntime
    <3>. QED
      BY <1>3, <2>2, <3>1, Zenon DEF CleanRuntime, Goto
  <2>3. CASE JoinOutput(r)
    BY <1>3, <2>3, Zenon DEF JoinOutput, Goto
  <2>. QED
    BY <1>5, <2>1, <2>2, <2>3, Zenon
<1>6. ASSUME NEW r \in Runners, CheckStatus(r) \/ LockJudge(r) \/ LockCreate(r) PROVE Quiet
  <2>1. CASE Exit(r, lock)
    BY <1>0, <1>1, <1>6, <2>1, Zenon DEF CheckStatus, LockJudge, LockCreate, Shape
  <2>2. CASE ~Exit(r, lock)
    BY <1>3, <1>6, <2>2, Zenon DEF CheckStatus, LockJudge, LockCreate, Goto
  <2>. QED
    BY <2>1, <2>2, Zenon
<1>7. ASSUME NEW r \in Runners, LoadProgress(r) PROVE Quiet \/ Loads(r)
  <2>1. CASE Exit(r, lock) /\ UNCHANGED progress
    BY <1>0, <1>1, <1>7, <2>1, Zenon DEF LoadProgress, Shape
  <2>2. CASE ~(Exit(r, lock) /\ UNCHANGED progress)
    BY <1>7, <2>2, Zenon DEF LoadProgress, Loads, Goto
  <2>. QED
    BY <2>1, <2>2, Zenon
<1>8. ASSUME NEW r \in Runners, ReleaseLock(r) PROVE Quiet
  <2>1. [lock EXCEPT ![camp[r]] = NoLock] \in [Campaigns -> Locks]
    BY <1>0, <1>8, CampaignAssumption, Zenon DEF ReleaseLock, Shape, Locks, NoLock
  <2>. QED
    BY <1>1, <1>8, <2>1, Zenon DEF ReleaseLock
<1>9. ASSUME NEW r \in Runners, Interrupt(r) \/ InterruptElsewhere(r) PROVE Quiet
  <2>1. pc'[r] \in {"raise", "release"} /\ \A x \in Runners \ {r} : pc'[x] = pc[x] /\ child'[x] = child[x]
    BY <1>0, <1>9, Zenon DEF Interrupt, InterruptElsewhere, Shape, Goto
  <2>2. /\ UNCHANGED <<progress, rows, silent, disturbed, launched, commits, forced, overlapped, camp, prog>>
        /\ trouble' = trouble + 1
    BY <1>9, Zenon DEF Interrupt, InterruptElsewhere
  <2>. QED
    BY <2>1, <2>2, Zenon DEF Quiet, Active, Excused
<1>10. ASSUME NEW r \in Runners, Crash(r) PROVE Quiet
  BY <1>0, <1>1, <1>10, Zenon DEF Crash, Shape
<1>11. ASSUME (\E f \in fuzzers : FuzzerCommits(f) \/ FuzzerLogs(f)) \/ StrayEnds PROVE Quiet
  BY <1>11, Zenon DEF FuzzerCommits, FuzzerLogs, StrayEnds, Quiet, Active, InFlight, Excused
<1>12. ASSUME NEW f \in fuzzers, NEW ok \in BOOLEAN, FuzzerExits(f, ok) PROVE Quiet
  <2>1. \A x \in Runners : \/ pc[x] = "wait" /\ pc'[x] = IF ok THEN "append" ELSE "join"
                           \/ pc'[x] = pc[x]
    BY <1>0, <1>12, Zenon DEF FuzzerExits, Waiting
  <2>2. \/ trouble' = trouble + 1
        \/ trouble' = trouble /\ (ok \/ pc' = pc)
    <3>1. (\A r \in Runners : child[r] # f.id) => pc' = pc
      BY <1>0, <1>12, Zenon DEF FuzzerExits, Shape
    <3>. QED
      BY <1>12, <3>1, Zenon DEF FuzzerExits
  <2>3. /\ UNCHANGED <<progress, rows, launched, commits, forced, overlapped, camp, prog, child>>
        /\ Excused \subseteq Excused'
    BY <1>12, Zenon DEF FuzzerExits, Excused
  <2>. QED
    BY <2>1, <2>2, <2>3, Zenon DEF Quiet, Active, InFlight
<1>13. CASE UNCHANGED vars
  BY <1>13, Zenon DEF vars, Quiet, Active, InFlight, Excused
<1>. QED
  BY <1>2, <1>4, <1>5, <1>6, <1>7, <1>8, <1>9, <1>10, <1>11, <1>12, <1>13, ZenonT(30)
  DEF Next, RunnerStep, FuzzerStep

\* The progress records in files, and in the memory of active runners, are tiled.
Tiled ==
    /\ SegmentsTile
    /\ \A r \in Runners, c \in Campaigns : Active(r, c) => Tiles(prog[r], commits)

\* Append, on indices.
LEMMA AppendFacts ==
    ASSUME NEW S, NEW s \in Seq(S), NEW e \in S
    PROVE  /\ Len(s) \in Nat /\ Len(Append(s, e)) = Len(s) + 1 /\ Append(s, e) # <<>>
           /\ Append(s, e)[Len(s) + 1] = e
           /\ \A i \in 1 .. Len(s) : Append(s, e)[i] = s[i]
  OBVIOUS

\* A sequence, on indices.
LEMMA SeqFacts ==
    ASSUME NEW S, NEW s \in Seq(S)
    PROVE  Len(s) \in Nat /\ (\A i \in 1 .. Len(s) : s[i] \in S) /\ (s # <<>> => Len(s) \in 1 .. Len(s))
  OBVIOUS

\* One more segment, from where the others end.
LEMMA TilesAppend ==
    ASSUME NEW p \in Progresses, NEW gaps, Tiles(p, gaps), NEW id \in Processes,
           NEW t \in Nat, t = p.done + SegmentDuration(p.done)
    PROVE  Tiles([done |-> t, segs |-> Append(p.segs, [from |-> p.done, until |-> t, by |-> id])], gaps)
<1> DEFINE g == [from |-> p.done, until |-> t, by |-> id]
           q == Append(p.segs, g)
<1>1. /\ p.done \in Nat /\ p.segs \in Seq([from : Nat, until : Nat, by : Processes])
      /\ g \in [from : Nat, until : Nat, by : Processes]
  BY Zenon DEF Progresses
<1>3. g.from = p.done /\ g.until = t
  OBVIOUS
<1> HIDE DEF g
<1>2. /\ Len(p.segs) \in Nat /\ Len(q) = Len(p.segs) + 1 /\ q[Len(q)] = g /\ q # <<>>
      /\ \A i \in 1 .. Len(p.segs) : q[i] = p.segs[i]
  <2>1. /\ Len(p.segs) \in Nat /\ Len(q) = Len(p.segs) + 1 /\ q[Len(p.segs) + 1] = g /\ q # <<>>
        /\ \A i \in 1 .. Len(p.segs) : q[i] = p.segs[i]
    BY <1>1, AppendFacts
  <2>. QED
    BY <2>1, Zenon
<1>4. Meet(q[Len(q)].until, t, gaps)
  BY <1>2, <1>3, Zenon DEF Meet
<1>5. ASSUME NEW i \in 1 .. Len(q)
      PROVE  /\ Meet(IF i = 1 THEN 0 ELSE q[i - 1].until, q[i].from, gaps)
             /\ q[i].until = q[i].from + SegmentDuration(q[i].from)
  <2>1. CASE i \in 1 .. Len(p.segs)
    <3>1. i = 1 \/ i - 1 \in 1 .. Len(p.segs)
      BY <1>2, <2>1
    <3>. QED
      BY <1>2, <2>1, <3>1, Zenon DEF Tiles
  <2>2. CASE i = Len(p.segs) + 1
    <3>1. q[i] = g
      BY <1>2, <2>2, Zenon
    <3>2. CASE p.segs = <<>>
      <4>1. i = 1
        BY <1>1, <2>2, <3>2
      <4>. QED
        BY <3>1, <3>2, <4>1, <1>3, Zenon DEF Tiles
    <3>3. CASE p.segs # <<>>
      <4>1. i # 1 /\ i - 1 = Len(p.segs) /\ i - 1 \in 1 .. Len(p.segs)
        BY <1>1, <2>2, <3>3
      <4>2. q[i - 1] = p.segs[Len(p.segs)]
        BY <1>2, <4>1, Zenon
      <4>. QED
        BY <3>1, <3>3, <4>1, <4>2, <1>3, Zenon DEF Tiles
    <3>. QED
      BY <3>2, <3>3, Zenon
  <2>3. Len(p.segs) \in Nat /\ i \in 1 .. Len(p.segs) + 1
    BY <1>2, Zenon
  <2>4. i \in 1 .. Len(p.segs) \/ i = Len(p.segs) + 1
    BY <2>3
  <2>. QED
    BY <2>1, <2>2, <2>4, Zenon
<1> HIDE DEF q
<1>6. [done |-> t, segs |-> q].done = t /\ [done |-> t, segs |-> q].segs = q
  OBVIOUS
<1>7. Tiles([done |-> t, segs |-> q], gaps)
  BY <1>2, <1>4, <1>5, <1>6, Zenon DEF Tiles
<1>. QED
  BY <1>7, Zenon DEF q, g

\* A run that has completed nothing, and one whose time mfuzz has committed.
LEMMA TilesLoaded ==
    ASSUME NEW gaps
    PROVE  /\ Tiles(NewRun, gaps)
           /\ \A p \in Progresses, t \in Nat :
                 Tiles(p, gaps) /\ (t = p.done \/ (gaps /\ t > p.done))
                    => Tiles([p EXCEPT !.done = t], gaps)
<1>1. Tiles(NewRun, gaps)
  BY DEF Tiles, Meet, NewRun
<1>2. ASSUME NEW p \in Progresses, NEW t \in Nat, Tiles(p, gaps), t = p.done \/ (gaps /\ t > p.done)
      PROVE  Tiles([p EXCEPT !.done = t], gaps)
  <2> DEFINE q == [p EXCEPT !.done = t]
  <2>1. q.done = t /\ q.segs = p.segs
    BY Zenon DEF Progresses
  <2>2. p.done \in Nat /\ p.segs \in Seq([from : Nat, until : Nat, by : Processes])
    BY Zenon DEF Progresses
  <2>3. p.segs # <<>> => p.segs[Len(p.segs)].until \in Nat
    <3>1. p.segs # <<>> => p.segs[Len(p.segs)] \in [from : Nat, until : Nat, by : Processes]
      BY <2>2, SeqFacts, Zenon
    <3>. QED
      BY <3>1, Zenon
  <2>4. ASSUME NEW u \in Nat, Meet(u, p.done, gaps) PROVE Meet(u, t, gaps)
    BY <1>2, <2>2, <2>4 DEF Meet
  <2> HIDE DEF q
  <2>5. Meet(IF q.segs = <<>> THEN 0 ELSE q.segs[Len(q.segs)].until, q.done, gaps)
    BY <1>2, <2>1, <2>3, <2>4, Zenon DEF Tiles
  <2>6. Tiles(q, gaps)
    BY <1>2, <2>1, <2>5, Zenon DEF Tiles
  <2>. QED
    BY <2>6, Zenon DEF q
<1>. QED
  BY <1>1, <1>2, Zenon

\* Every step keeps the segments tiled.
LEMMA StepTiled == IInv /\ Tiled /\ [Next]_vars => Tiled'
<1> SUFFICES ASSUME IInv, Tiled, [Next]_vars PROVE Tiled'
  OBVIOUS
<1> USE DEF runVars, lockVars, logVars, busyVars, fuzzVars, bounds
<1>0. /\ Shape /\ Waiting /\ Bookkeeping /\ LockInv
      /\ None \notin Progresses
  BY CampaignAssumption, Zenon DEF IInv, LockInv, CampaignAssumption
<1>1. CASE Quiet
  BY <1>1, Zenon DEF Quiet, Tiled, SegmentsTile
<1>2. ASSUME NEW r \in Runners, LaunchSegment(r) PROVE Tiled'
  <2>1. UNCHANGED <<progress, prog, camp, commits>> /\ pc[r] = "loop"
        /\ \A x \in Runners \ {r} : pc'[x] = pc[x]
    BY <1>0, <1>2, Zenon DEF LaunchSegment, Shape, Goto
  <2>. QED
    BY <2>1, Zenon DEF Tiled, SegmentsTile, Active
<1>3. ASSUME NEW r \in Runners, Loads(r) PROVE Tiled'
  <2> DEFINE p == [Loaded(r) EXCEPT !.done = Committed(r)]
  <2>1. camp[r] \in Campaigns /\ Loaded(r) \in Progresses /\ Tiles(Loaded(r), commits)
    BY <1>0, <1>3, NewRunType, TilesLoaded, Zenon DEF Loads, LoadProgress, Shape, Loaded, Tiled, SegmentsTile
  <2>2. Committed(r) \in Nat /\ (Committed(r) = Loaded(r).done \/ (commits /\ Committed(r) > Loaded(r).done))
    BY <1>0, <1>3, <2>1 DEF Loads, CheckpointValid, Committed, Bookkeeping, Shape, Progresses
  <2>3. Tiles(p, commits)
    BY <2>1, <2>2, TilesLoaded, Zenon
  <2>4. /\ prog'[r] = p /\ \A x \in Runners \ {r} : prog'[x] = prog[x] /\ pc'[x] = pc[x]
        /\ \A c \in Campaigns : progress'[c] \in {p, progress[c]}
        /\ camp' = camp /\ commits' = commits
    BY <1>0, <1>3, <2>1, Zenon DEF Loads, LoadProgress, RecoveredProgress, Shape
  <2> HIDE DEF p
  <2>. QED
    BY <2>3, <2>4, Zenon DEF Tiled, SegmentsTile, Active
<1>4. ASSUME NEW r \in Runners, AppendCoverage(r) PROVE Tiled'
  <2> DEFINE t == prog[r].done + SegmentDuration(prog[r].done)
             p == [done |-> t, segs |-> Append(prog[r].segs,
                                    [from |-> prog[r].done, until |-> t, by |-> child[r]])]
  <2>1. /\ prog[r] \in Progresses /\ child[r] \in Processes /\ camp[r] \in Campaigns
        /\ Active(r, camp[r]) /\ prog[r].done \in Nat /\ prog[r].done <= Duration
    BY <1>0, <1>4, AppendingChild, Zenon DEF AppendCoverage, Shape, Active, Bookkeeping, Progresses
  <2>2. t \in Nat
    BY <2>1, SegmentFits, Zenon
  <2>3. Tiles(p, commits)
    BY <2>1, <2>2, TilesAppend, Zenon DEF Tiled
  <2>4. /\ prog'[r] = p /\ \A x \in Runners \ {r} : prog'[x] = prog[x] /\ pc'[x] = pc[x]
        /\ UNCHANGED <<camp, commits, progress>>
    BY <1>0, <1>4, <2>1, ZenonT(30) DEF AppendCoverage, Goto, Shape
  <2> HIDE DEF p
  <2>. QED
    BY <2>3, <2>4, Zenon DEF Tiled, SegmentsTile, Active
<1>5. ASSUME NEW r \in Runners, SaveProgress(r) PROVE Tiled'
  <2>1. /\ camp[r] \in Campaigns /\ Tiles(prog[r], commits)
        /\ UNCHANGED <<prog, camp, commits>> /\ \A x \in Runners \ {r} : pc'[x] = pc[x]
        /\ \A c \in Campaigns : progress'[c] \in {prog[r], progress[c]}
    BY <1>0, <1>5, Zenon DEF SaveProgress, Goto, Shape, Active, Tiled
  <2>. QED
    BY <2>1, Zenon DEF Tiled, SegmentsTile, Active
<1>. QED
  BY <1>0, <1>1, <1>2, <1>3, <1>4, <1>5, StepKinds, Zenon

\* The completed segments tile the completed seconds, for any duration, segment
\* length and number of runners, crashes and forced restarts, and also if several
\* runners work on one campaign: every record is extended from where it ends.
THEOREM TileCorrect == Spec => []SegmentsTile
<1>1. Init => Tiled
  BY Zenon DEF Init, Tiled, SegmentsTile, Active
<1>2. Tiled => SegmentsTile
  BY Zenon DEF Tiled
<1>. QED
  BY <1>1, <1>2, Invariance, StepTiled, PTL DEF Spec

-----------------------------------------------------------------------------

Segments == [from : Nat, until : Nat, by : Processes]
Rows == [at : Nat, by : Processes]

\* The completed segments of c that progress.json names.
Segs(c) == IF progress[c] = None THEN <<>> ELSE progress[c].segs

\* The last row at the end of segment g is the one that g has appended.
LastRowBy(rs, g) ==
    \E j \in 1 .. Len(rs) : /\ rs[j].at = g.until /\ rs[j].by = g.by
                            /\ \A k \in 1 .. Len(rs) : rs[k].at = g.until => k <= j

\* Every segment of p ends in time, and has its row in rs unless it is in S.
Recorded(p, rs, S) ==
    \A i \in 1 .. Len(p.segs) :
        p.segs[i].until <= p.done /\ (p.segs[i].by \in S \/ LastRowBy(rs, p.segs[i]))

\* What an active runner has in memory agrees with the files.
InStep(r, c) ==
    /\ IF pc[r] = "save" THEN Len(prog[r].segs) = Len(Segs(c)) + 1 ELSE prog[r].segs = Segs(c)
    /\ Recorded(prog[r], rows[c], Excused)
    /\ pc[r] \in {"wait", "append"} => prog[r].done < Duration

\* A process that is not disturbed has the log of its directory to itself, while it
\* runs and, unless it is silent, until its last line is read.
Logged ==
    /\ log \in [Benchmarks -> Processes \cup {None}]
    /\ \A f \in fuzzers :
          /\ \A g \in fuzzers : f.id # g.id /\ Directory(f.id) = Directory(g.id) => f.id \in disturbed
          /\ f.logged /\ f.id \notin disturbed => log[Directory(f.id)] = f.id
    /\ \A r \in Runners : pc[r] = "append" =>
          /\ \A f \in fuzzers : Directory(f.id) = Benchmark[camp[r]] => child[r] \in disturbed
          /\ child[r] \notin Excused => log[Benchmark[camp[r]]] = child[r]

Ledger ==
    forced = 0 => \A c \in Campaigns \ overlapped :
        /\ progress[c] # None => Recorded(progress[c], rows[c], Excused)
        /\ \A r \in Runners : Active(r, c) => InStep(r, c)

LedgerInv ==
    /\ IInv
    /\ Logged
    /\ rows \in [Campaigns -> Seq(Rows)]
    /\ Ledger

\* The rows ss hide no row of rs but for time t, and are right about process id at t.
KeepsRows(rs, ss, t) == \A g \in Segments : LastRowBy(rs, g) /\ g.until # t => LastRowBy(ss, g)
HasRow(ss, id, t) == \A g \in Segments : g.until = t /\ g.by = id => LastRowBy(ss, g)

\* A new row hides no row of another time, and is the last of its own.
LEMMA RowAppended ==
    ASSUME NEW rs \in Seq(Rows), NEW e \in Rows
    PROVE  KeepsRows(rs, Append(rs, e), e.at) /\ HasRow(Append(rs, e), e.by, e.at)
<1> DEFINE q == Append(rs, e)
           n == Len(rs)
<1>1. n \in Nat /\ Len(q) = n + 1 /\ q[n + 1] = e /\ \A i \in 1 .. n : q[i] = rs[i]
  BY AppendFacts
<1> HIDE DEF q, n
<1>2. \A i \in 1 .. Len(q) : i \in 1 .. n \/ i = n + 1
  BY <1>1
<1>3. 1 .. n \subseteq 1 .. Len(q) /\ n + 1 \in 1 .. Len(q) /\ \A k \in 1 .. Len(q) : k <= n + 1
  BY <1>1
<1>4. ASSUME NEW g \in Segments, LastRowBy(rs, g), g.until # e.at PROVE LastRowBy(q, g)
  <2>1. PICK j \in 1 .. n : /\ rs[j].at = g.until /\ rs[j].by = g.by
                            /\ \A k \in 1 .. n : rs[k].at = g.until => k <= j
    BY <1>4, Zenon DEF LastRowBy, n
  <2>2. j \in 1 .. Len(q) /\ q[j] = rs[j]
    BY <1>1, <1>3, Zenon
  <2>3. \A k \in 1 .. Len(q) : q[k].at = g.until => k <= j
    BY <1>1, <1>2, <1>4, <2>1, Zenon
  <2>. QED
    BY <2>1, <2>2, <2>3, Zenon DEF LastRowBy
<1>5. ASSUME NEW g \in Segments, g.until = e.at, g.by = e.by PROVE LastRowBy(q, g)
  BY <1>1, <1>3, <1>5, Zenon DEF LastRowBy
<1>. QED
  BY <1>4, <1>5, Zenon DEF q, KeepsRows, HasRow

\* The segments stay recorded, with a new one and without, if the rows do: those
\* of an earlier time, and the one of the new segment unless it is excused.
LEMMA RecordedAppend ==
    ASSUME NEW p \in Progresses, NEW rs, NEW ss, NEW S, NEW id \in Processes, NEW t \in Nat,
           Recorded(p, rs, S), p.done < t,
           KeepsRows(rs, ss, t), id \in S \/ HasRow(ss, id, t)
    PROVE  /\ Recorded(p, ss, S)
           /\ Recorded([done |-> t, segs |-> Append(p.segs, [from |-> p.done, until |-> t, by |-> id])],
                       ss, S)
<1> DEFINE g == [from |-> p.done, until |-> t, by |-> id]
           segs == Append(p.segs, g)
           n == Len(p.segs)
<1>1. /\ p.done \in Nat /\ p.segs \in Seq(Segments)
      /\ g \in Segments /\ g.until = t /\ g.by = id
  BY Zenon DEF Progresses, Segments
<1> HIDE DEF g
<1>2. n \in Nat /\ Len(segs) = n + 1 /\ segs[n + 1] = g /\ \A i \in 1 .. n : segs[i] = p.segs[i]
  BY <1>1, AppendFacts
<1>3. \A i \in 1 .. n : p.segs[i] \in Segments
  BY <1>1, SeqFacts, Zenon
<1> HIDE DEF segs, n
<1>4. ASSUME NEW i \in 1 .. n
      PROVE  /\ p.segs[i].until <= t /\ p.segs[i].until <= p.done
             /\ p.segs[i].by \in S \/ LastRowBy(ss, p.segs[i])
  <2>1. p.segs[i].until <= p.done /\ (p.segs[i].by \in S \/ LastRowBy(rs, p.segs[i]))
    BY Zenon DEF Recorded, n
  <2>2. p.segs[i].until \in Nat
    BY <1>3, Zenon DEF Segments
  <2>3. p.segs[i].until <= t /\ p.segs[i].until # t
    BY <1>1, <2>1, <2>2
  <2>. QED
    BY <1>3, <2>1, <2>3, Zenon DEF KeepsRows
<1>5. Recorded(p, ss, S)
  BY <1>4, Zenon DEF Recorded, n
<1>6. ASSUME NEW i \in 1 .. Len(segs)
      PROVE  segs[i].until <= t /\ (segs[i].by \in S \/ LastRowBy(ss, segs[i]))
  <2>1. CASE i \in 1 .. n
    BY <1>2, <1>4, <2>1, Zenon
  <2>2. CASE i = n + 1
    <3>1. t <= t /\ segs[i] = g
      BY <1>2, <2>2
    <3>2. g.by \in S \/ LastRowBy(ss, g)
      BY <1>1, Zenon DEF HasRow
    <3>. QED
      BY <1>1, <3>1, <3>2, ZenonT(30)
  <2>. QED
    BY <1>2, <2>1, <2>2
<1>7. Recorded([done |-> t, segs |-> segs], ss, S)
  BY <1>6, Zenon DEF Recorded
<1>. QED
  BY <1>5, <1>7, Zenon DEF segs, g

\* More excuses do no harm.
LEMMA RecordedMore ==
    ASSUME NEW p, NEW rs, NEW S, NEW T, S \subseteq T, Recorded(p, rs, S)
    PROVE  Recorded(p, rs, T)
  BY Zenon DEF Recorded

\* append_coverage appends a row of the process that wrote the last line of the
\* log, or none.
LEMMA RowsAfter ==
    ASSUME LedgerInv, NEW r \in Runners, AppendCoverage(r)
    PROVE  LET c == camp[r]
               t == prog[r].done + SegmentDuration(prog[r].done)
           IN  /\ c \in Campaigns /\ t \in Nat
               /\ \A d \in Campaigns \ {c} : rows'[d] = rows[d]
               /\ \/ log[Benchmark[c]] = None /\ rows' = rows
                  \/ /\ log[Benchmark[c]] \in Processes
                     /\ rows' = [rows EXCEPT ![c] = Append(@, [at |-> t, by |-> log[Benchmark[c]]])]
                     /\ [at |-> t, by |-> log[Benchmark[c]]] \in Rows
<1> DEFINE c == camp[r]
           t == prog[r].done + SegmentDuration(prog[r].done)
           b == log[Benchmark[c]]
<1>1. Shape /\ Waiting /\ Bookkeeping /\ Logged /\ rows \in [Campaigns -> Seq(Rows)]
  BY Zenon DEF LedgerInv, IInv, LockInv
<1>2. c \in Campaigns /\ prog[r].done \in Nat /\ prog[r].done <= Duration
  BY <1>1, Zenon DEF AppendCoverage, Shape, Bookkeeping, Progresses
<1>3. t \in Nat
  BY <1>2, SegmentFits, Zenon
<1>4. b \in Processes \/ b = None
  BY <1>1, <1>2, Zenon DEF Logged, Benchmarks
<1>5. b \in Processes => [at |-> t, by |-> b] \in Rows
  BY <1>3, Zenon DEF Rows
<1>6. rows' = IF b = None THEN rows ELSE [rows EXCEPT ![c] = Append(@, [at |-> t, by |-> b])]
  BY Zenon DEF AppendCoverage, WithRow
<1> HIDE DEF c, t, b
<1>7. \A d \in Campaigns \ {c} : rows'[d] = rows[d]
  BY <1>1, <1>6, Zenon
<1>. QED
  BY <1>2, <1>3, <1>4, <1>5, <1>6, <1>7, Zenon DEF c, t, b

\* Every step keeps the log to whom it belongs.
LEMMA StepLogged == Shape /\ Waiting /\ Logged /\ [Next]_vars => Logged'
<1> SUFFICES ASSUME Shape, Waiting, Logged, [Next]_vars PROVE Logged'
  OBVIOUS
<1> USE DEF runVars, lockVars, logVars, busyVars, fuzzVars, bounds
<1>0. /\ \A f \in fuzzers : f.id \in Processes /\ Directory(f.id) \in Benchmarks
      /\ \A f, g \in fuzzers : f.id = g.id => f = g
  BY Zenon DEF Shape, Waiting, Fuzzers, Processes, Directory, Benchmarks
\* A step that leaves the log alone.
<1>1. ASSUME UNCHANGED <<log, disturbed>>, silent \subseteq silent', fuzzers' \subseteq fuzzers,
             \A r \in Runners : pc'[r] = "append" =>
                 pc[r] = "append" /\ child'[r] = child[r] /\ camp'[r] = camp[r]
      PROVE  Logged'
  BY <1>1, ZenonT(30) DEF Logged, Excused
<1>2. ASSUME NEW r \in Runners, NEW l, l # "append", UNCHANGED <<logVars, fuzzers>>, pc' = [pc EXCEPT ![r] = l],
             \A x \in Runners \ {r} : child'[x] = child[x] /\ camp'[x] = camp[x]
      PROVE  Logged'
  <2>1. pc'[r] = l /\ \A x \in Runners \ {r} : pc'[x] = pc[x]
    BY <1>2, Zenon DEF Shape
  <2>. QED
    BY <1>1, <1>2, <2>1, Zenon
<1>3. ASSUME NEW r \in Runners, NEW locks, Exit(r, locks), logVars' = logVars, fuzzers' \subseteq fuzzers
      PROVE  Logged'
  <2>1. /\ pc'[r] = "idle"
        /\ \A x \in Runners \ {r} : pc'[x] = pc[x] /\ child'[x] = child[x] /\ camp'[x] = camp[x]
    BY <1>3, Zenon DEF Exit, Goto, Shape
  <2>. QED
    BY <1>1, <1>3, <2>1, Zenon
<1>4. ASSUME NEW r \in Runners, NEW c \in Campaigns, NEW f \in BOOLEAN, Invoke(r, c, f) PROVE Logged'
  <2>1. \A x \in Runners \ {r} : camp'[x] = camp[x]
    BY <1>4, Zenon DEF Invoke, Shape
  <2>. QED
    BY <1>2, <1>4, <2>1, Zenon DEF Invoke, Goto
<1>5. ASSUME NEW r \in Runners, LockTest(r) \/ LockRead(r) \/ LockUnlink(r) \/ LockWrite(r) \/ MarkRunning(r)
                                \/ JoinOutput(r) \/ AppendCoverage(r) \/ Finish(r)
      PROVE  Logged'
  <2>1. CASE LockTest(r) \/ LockRead(r) \/ LockUnlink(r) \/ LockWrite(r)
    BY <1>2, <2>1, ZenonT(30) DEF LockTest, LockRead, LockUnlink, LockWrite, Goto
  <2>2. CASE MarkRunning(r) \/ JoinOutput(r) \/ AppendCoverage(r) \/ Finish(r)
    BY <1>2, <2>2, ZenonT(30) DEF MarkRunning, JoinOutput, AppendCoverage, Finish, Goto
  <2>. QED
    BY <1>5, <2>1, <2>2, Zenon
<1>6. ASSUME NEW r \in Runners, CheckStatus(r) \/ LockJudge(r) \/ LockCreate(r) \/ LoadProgress(r)
                                \/ ReleaseLock(r)
      PROVE  Logged'
  <2>1. UNCHANGED <<logVars, fuzzers>>
    BY <1>6, Zenon DEF CheckStatus, LockJudge, LockCreate, LoadProgress, ReleaseLock
  <2>2. CASE \E locks : Exit(r, locks)
    BY <1>3, <2>1, <2>2, Zenon
  <2>3. CASE ~\E locks : Exit(r, locks)
    <3>1. PICK l \in {"lock", "unlink", "write", "clean"} : Goto(r, l) /\ UNCHANGED <<camp, child>>
      BY <1>6, <2>3, ZenonT(30) DEF CheckStatus, LockJudge, LockCreate, LoadProgress, ReleaseLock
    <3>. QED
      BY <1>2, <2>1, <3>1, ZenonT(30) DEF Goto
  <2>. QED
    BY <2>2, <2>3, Zenon
<1>7. ASSUME NEW r \in Runners, SaveProgress(r) \/ Interrupt(r) \/ InterruptElsewhere(r) PROVE Logged'
  <2>1. /\ logVars' = logVars /\ fuzzers' \subseteq fuzzers /\ camp' = camp /\ pc'[r] # "append"
        /\ \A x \in Runners \ {r} : pc'[x] = pc[x] /\ child'[x] = child[x]
    BY <1>7, ZenonT(30) DEF SaveProgress, Interrupt, InterruptElsewhere, Goto, Shape
  <2>. QED
    BY <1>1, <2>1, Zenon
<1>8. ASSUME NEW r \in Runners, Crash(r) PROVE Logged'
  BY <1>3, <1>8, Zenon DEF Crash
<1>9. CASE StrayEnds \/ UNCHANGED vars
  BY <1>1, <1>9, Zenon DEF StrayEnds, vars
\* A step that removes the log of directory b, and disturbs who uses it.
<1>10. ASSUME NEW b \in Benchmarks, log' = [log EXCEPT ![b] = None], silent' = silent,
              disturbed \cup Fuzzing(b) \cup Reading(b) \subseteq disturbed', camp' = camp,
              \A r \in Runners : pc'[r] = "append" => pc[r] = "append" /\ child'[r] = child[r],
              \A f \in fuzzers' \ fuzzers :
                 /\ ~f.logged /\ Directory(f.id) = b
                 /\ \A g \in fuzzers' : f # g /\ Directory(g.id) = b => f.id \in disturbed' /\ g \in fuzzers
       PROVE  Logged'
  <2>1. /\ log' \in [Benchmarks -> Processes \cup {None}]
        /\ \A d \in Benchmarks \ {b} : log'[d] = log[d]
    BY <1>10, Zenon DEF Logged
  <2>2. \A f \in fuzzers : Directory(f.id) = b => f.id \in disturbed'
    BY <1>10, Zenon DEF Fuzzing
  <2>3. \A r \in Runners : pc[r] = "append" /\ Benchmark[camp[r]] = b => child[r] \in disturbed'
    BY <1>10, Zenon DEF Reading
  <2>4. \A r \in Runners : pc[r] = "append" => Benchmark[camp[r]] \in Benchmarks
    BY Zenon DEF Shape, Benchmarks
  <2>5. ASSUME NEW f \in fuzzers', NEW g \in fuzzers', f.id # g.id, Directory(f.id) = Directory(g.id)
        PROVE  f.id \in disturbed'
    <3>1. CASE f \in fuzzers /\ g \in fuzzers
      BY <1>10, <2>5, <3>1, Zenon DEF Logged
    <3>2. CASE f \notin fuzzers
      BY <1>10, <2>5, <3>2, Zenon
    <3>3. CASE f \in fuzzers /\ g \notin fuzzers
      BY <1>10, <2>2, <2>5, <3>3, Zenon
    <3>. QED
      BY <3>1, <3>2, <3>3, Zenon
  <2>6. ASSUME NEW f \in fuzzers', f.logged, f.id \notin disturbed' PROVE log'[Directory(f.id)] = f.id
    BY <1>0, <1>10, <2>1, <2>2, <2>6, Zenon DEF Logged
  <2>7. ASSUME NEW r \in Runners, pc'[r] = "append", NEW f \in fuzzers', Directory(f.id) = Benchmark[camp[r]]
        PROVE  child[r] \in disturbed'
    BY <1>10, <2>3, <2>7, Zenon DEF Logged
  <2>8. ASSUME NEW r \in Runners, pc'[r] = "append", child[r] \notin Excused'
        PROVE  log'[Benchmark[camp[r]]] = child[r]
    BY <1>10, <2>1, <2>3, <2>4, <2>8, Zenon DEF Logged, Excused
  <2>. QED
    BY <1>10, <2>1, <2>5, <2>6, <2>7, <2>8, ZenonT(30) DEF Logged
<1>11. ASSUME NEW r \in Runners, CleanRuntime(r) PROVE Logged'
  <2>1. Benchmark[camp[r]] \in Benchmarks
    BY <1>11, Zenon DEF CleanRuntime, Shape, Benchmarks
  <2>2. /\ UNCHANGED <<silent, fuzzers, child, camp>> /\ pc'[r] = "running"
        /\ \A x \in Runners \ {r} : pc'[x] = pc[x]
    BY <1>11, Zenon DEF CleanRuntime, Goto, Shape
  <2>3. CASE UNCHANGED <<log, disturbed>>
    BY <1>1, <2>2, <2>3, Zenon
  <2>4. CASE ~UNCHANGED <<log, disturbed>>
    BY <1>10, <1>11, <2>1, <2>2, <2>4, ZenonT(30) DEF CleanRuntime
  <2>. QED
    BY <2>3, <2>4, Zenon
<1>12. ASSUME NEW r \in Runners, LaunchSegment(r) PROVE Logged'
  <2> PICK c \in Campaigns : c = camp[r]
    BY <1>12, Zenon DEF LaunchSegment, Shape
  <2> DEFINE id == <<c, launched[c] + 1>>
             b  == Benchmark[c]
  <2>1. b \in Benchmarks /\ Directory(id) = b
    BY DEF Benchmarks, Directory
  <2>2. PICK n : n.id = id /\ n.logged = FALSE /\ fuzzers' = fuzzers \cup {n}
    BY <1>12, Zenon DEF LaunchSegment
  <2>3. /\ log' = [log EXCEPT ![b] = None] /\ silent' = silent /\ camp' = camp
        /\ disturbed' = disturbed \cup Fuzzing(b) \cup Reading(b)
                                  \cup (IF Fuzzing(b) = {} THEN {} ELSE {id})
        /\ pc'[r] = "wait" /\ \A x \in Runners \ {r} : pc'[x] = pc[x] /\ child'[x] = child[x]
    BY <1>12, Zenon DEF LaunchSegment, Goto, Shape
  <2> HIDE DEF id, b
  <2>4. ASSUME NEW g \in fuzzers, Directory(g.id) = b PROVE id \in disturbed'
    <3>1. g.id \in Fuzzing(b)
      BY <2>4, Zenon DEF Fuzzing
    <3>. QED
      BY <2>3, <3>1, Zenon
  <2>. QED
    BY <1>10, <2>1, <2>2, <2>3, <2>4, ZenonT(30)
\* A process writes a line to the log, or checkpoint.json.
<1>13. ASSUME NEW f \in fuzzers, NEW n, n.id = f.id, fuzzers' = (fuzzers \ {f}) \cup {n},
              UNCHANGED <<silent, disturbed, child, pc, camp>>,
              \/ log' = log /\ n.logged = f.logged
              \/ log' = [log EXCEPT ![Directory(f.id)] = f.id]
       PROVE  Logged'
  <2>1. /\ \A d \in Benchmarks : log'[d] = log[d] \/ (d = Directory(f.id) /\ log'[d] = f.id)
        /\ log' \in [Benchmarks -> Processes \cup {None}]
    BY <1>0, <1>13, Zenon DEF Logged
  <2>2. \A g \in fuzzers' : \E h \in fuzzers : h.id = g.id /\ (g = h \/ (h = f /\ g = n))
    BY <1>13, Zenon
  <2>3. \A r \in Runners : pc[r] = "append" => Benchmark[camp[r]] \in Benchmarks
    BY Zenon DEF Shape, Benchmarks
  <2>4. ASSUME NEW g \in fuzzers', NEW h \in fuzzers', h.id # g.id, Directory(g.id) = Directory(h.id)
        PROVE  g.id \in disturbed'
    <3>1. PICK g0 \in fuzzers : g0.id = g.id
      BY <2>2, Zenon
    <3>2. PICK h0 \in fuzzers : h0.id = h.id
      BY <2>2, Zenon
    <3>. QED
      BY <1>13, <2>4, <3>1, <3>2, ZenonT(30) DEF Logged
  <2>5. ASSUME NEW g \in fuzzers', g.logged, g.id \notin disturbed' PROVE log'[Directory(g.id)] = g.id
    <3>1. CASE g.id = f.id
      <4>1. g = n
        BY <1>0, <1>13, <2>2, <3>1, Zenon
      <4>2. CASE log' = log /\ n.logged = f.logged
        BY <1>13, <2>5, <3>1, <4>1, <4>2, Zenon DEF Logged
      <4>3. CASE log' = [log EXCEPT ![Directory(f.id)] = f.id]
        BY <1>0, <3>1, <4>3, Zenon DEF Logged
      <4>. QED
        BY <1>13, <4>2, <4>3, Zenon
    <3>2. CASE g.id # f.id
      <4>1. g \in fuzzers /\ log[Directory(g.id)] = g.id /\ Directory(g.id) # Directory(f.id)
        BY <1>13, <2>2, <2>5, <3>2, Zenon DEF Logged
      <4>. QED
        BY <1>0, <2>1, <4>1, Zenon
    <3>. QED
      BY <3>1, <3>2, Zenon
  <2>6. ASSUME NEW r \in Runners, pc[r] = "append"
        PROVE  /\ \A g \in fuzzers' : Directory(g.id) = Benchmark[camp[r]] => child[r] \in disturbed
               /\ child[r] \notin Excused' => log'[Benchmark[camp[r]]] = child[r]
    <3>1. \A g \in fuzzers' : Directory(g.id) = Benchmark[camp[r]] => child[r] \in disturbed
      BY <2>2, <2>6, Zenon DEF Logged
    <3>2. ASSUME child[r] \notin Excused' PROVE log'[Benchmark[camp[r]]] = child[r]
      <4>1. child[r] \notin Excused /\ Directory(f.id) # Benchmark[camp[r]]
        BY <1>13, <2>6, <3>2, Zenon DEF Logged, Excused
      <4>. QED
        BY <2>1, <2>3, <2>6, <4>1, Zenon DEF Logged
    <3>. QED
      BY <3>1, <3>2, Zenon
  <2>. QED
    BY <1>13, <2>1, <2>4, <2>5, <2>6, ZenonT(30) DEF Logged
<1>14. ASSUME NEW f \in fuzzers, FuzzerLogs(f) \/ FuzzerCommits(f) PROVE Logged'
  <2>1. f = [id |-> f.id, camp |-> f.camp, from |-> f.from, until |-> f.until,
             logged |-> f.logged, committed |-> f.committed]
    BY DEF Shape, Fuzzers
  <2>2. /\ [f EXCEPT !.logged = TRUE].id = f.id /\ [f EXCEPT !.committed = TRUE].id = f.id
        /\ [f EXCEPT !.committed = TRUE].logged = f.logged
    BY <2>1
  <2>. QED
    BY <1>13, <1>14, <2>2, ZenonT(30) DEF FuzzerLogs, FuzzerCommits
<1>15. ASSUME NEW f \in fuzzers, NEW ok \in BOOLEAN, FuzzerExits(f, ok) PROVE Logged'
  <2>1. /\ UNCHANGED <<log, disturbed, camp, child>> /\ fuzzers' = fuzzers \ {f} /\ silent \subseteq silent'
        /\ ok /\ ~f.logged => f.id \in silent'
        /\ \A r \in Runners : pc'[r] = "append" => pc[r] = "append" \/ (ok /\ child[r] = f.id)
    BY <1>15, Zenon DEF FuzzerExits
  <2>2. ASSUME NEW r \in Runners, pc'[r] = "append"
        PROVE  /\ \A g \in fuzzers' : Directory(g.id) = Benchmark[camp[r]] => child[r] \in disturbed
               /\ child[r] \notin Excused' => log[Benchmark[camp[r]]] = child[r]
    <3>1. CASE pc[r] = "append"
      BY <2>1, <3>1, Zenon DEF Logged, Excused
    <3>2. CASE ok /\ child[r] = f.id
      <4>1. Directory(f.id) = Benchmark[camp[r]]
        <5>1. child[r] # None
          BY <1>0, <3>2, CampaignAssumption, Zenon DEF CampaignAssumption
        <5>. QED
          BY <3>2, <5>1, Zenon DEF Waiting, Directory
      <4>2. \A g \in fuzzers' : g.id # f.id
        BY <1>0, <2>1, Zenon
      <4>. QED
        BY <2>1, <3>2, <4>1, <4>2, Zenon DEF Logged, Excused
    <3>. QED
      BY <2>1, <2>2, <3>1, <3>2, Zenon
  <2>. QED
    BY <2>1, <2>2, ZenonT(30) DEF Logged
<1>. QED
  BY <1>4, <1>5, <1>6, <1>7, <1>8, <1>9, <1>11, <1>12, <1>14, <1>15, ZenonT(30) DEF Next, RunnerStep, FuzzerStep

\* Rows are rows.
LEMMA StepRowsType == LedgerInv /\ [Next]_vars => rows' \in [Campaigns -> Seq(Rows)]
<1> SUFFICES ASSUME LedgerInv, [Next]_vars
             PROVE  rows' \in [Campaigns -> Seq(Rows)]
  BY Zenon
<1>0. /\ Shape /\ Waiting /\ Bookkeeping /\ LockInv
      /\ rows \in [Campaigns -> Seq(Rows)]
  BY Zenon DEF LedgerInv, IInv, LockInv
<1>1. CASE Quiet
  BY <1>0, <1>1, Zenon DEF Quiet
<1>2. ASSUME NEW r \in Runners, LaunchSegment(r) \/ Loads(r) \/ SaveProgress(r)
      PROVE  rows' = rows
  BY <1>0, <1>2, Zenon DEF LaunchSegment, Loads, LoadProgress, SaveProgress, runVars
<1>3. ASSUME NEW r \in Runners, AppendCoverage(r)
      PROVE  rows' \in [Campaigns -> Seq(Rows)]
  <2>1. CASE rows' = rows
    BY <1>0, <2>1, Zenon
  <2>2. ASSUME NEW e \in Rows, rows' = [rows EXCEPT ![camp[r]] = Append(@, e)]
        PROVE  rows' \in [Campaigns -> Seq(Rows)]
    <3>1. \A s \in Seq(Rows) : Append(s, e) \in Seq(Rows)
      OBVIOUS
    <3>. QED
      BY <1>0, <2>2, <3>1, Zenon
  <2>. QED
    BY <1>3, <2>1, <2>2, RowsAfter, Zenon
<1>. QED
  BY <1>0, <1>1, <1>2, <1>3, StepKinds, Zenon

\* Every step keeps the ledger of a campaign that has one runner at a time.
LEMMA StepLedger == LedgerInv /\ [Next]_vars => Ledger'
<1> SUFFICES ASSUME LedgerInv, [Next]_vars PROVE Ledger'
  OBVIOUS
<1> USE DEF runVars, lockVars, logVars, busyVars, fuzzVars, bounds
<1>0. /\ Shape /\ Waiting /\ Exclusive /\ Bookkeeping /\ Ledger /\ LockInv /\ Logged
      /\ None \notin Progresses /\ None \notin Processes
      /\ rows \in [Campaigns -> Seq(Rows)]
  BY CampaignAssumption, Zenon DEF LedgerInv, IInv, LockInv, CampaignAssumption
<1>1. CASE Quiet
  <2>1. Excused \subseteq Excused' /\ \A c \in Campaigns : Segs(c)' = Segs(c)
    BY <1>1, Zenon DEF Quiet, Segs
  <2> SUFFICES ASSUME forced = 0, NEW c \in Campaigns \ overlapped, c \notin overlapped'
               PROVE  /\ progress'[c] # None => Recorded(progress'[c], rows'[c], Excused')
                      /\ \A r \in Runners : Active(r, c)' => InStep(r, c)'
    BY <1>1, Zenon DEF Ledger, Quiet
  <2>2. progress[c] # None => Recorded(progress[c], rows[c], Excused')
    BY <1>0, <2>1, RecordedMore, Zenon DEF Ledger
  <2>3. ASSUME NEW r \in Runners, Active(r, c)' PROVE InStep(r, c)'
    <3>1. InStep(r, c)
      BY <1>0, <1>1, <2>3, Zenon DEF Ledger, Quiet
    <3>2. /\ prog'[r] = prog[r] /\ child'[r] = child[r] /\ rows' = rows
          /\ pc'[r] = "save" <=> pc[r] = "save"
          /\ pc'[r] \in {"wait", "append"} => pc[r] \in {"wait", "append"}
      BY <1>1, <2>3, Zenon DEF Quiet
    <3>3. Recorded(prog[r], rows[c], Excused')
      BY <2>1, <3>1, RecordedMore, Zenon DEF InStep
    <3>. QED
      BY <2>1, <3>1, <3>2, <3>3, Zenon DEF InStep
  <2>. QED
    BY <1>1, <2>1, <2>2, <2>3, Zenon DEF Quiet
<1>2. ASSUME NEW r \in Runners, NEW c \in Campaigns, Working(r, c),
             UNCHANGED <<camp, overlapped, forced>>,
             \A x \in Runners \ {r} : pc'[x] = pc[x] /\ prog'[x] = prog[x] /\ child'[x] = child[x],
             Excused \subseteq Excused',
             \A d \in Campaigns \ {c} : progress'[d] = progress[d] /\ rows'[d] = rows[d],
             forced = 0 /\ c \notin overlapped =>
                /\ progress'[c] # None => Recorded(progress'[c], rows'[c], Excused')
                /\ InStep(r, c)'
      PROVE  Ledger'
  <2> SUFFICES ASSUME forced = 0, NEW d \in Campaigns \ overlapped
               PROVE  /\ progress'[d] # None => Recorded(progress'[d], rows'[d], Excused')
                      /\ \A x \in Runners : Active(x, d)' => InStep(x, d)'
    BY <1>2, Zenon DEF Ledger
  <2>1. CASE d = c
    <3>1. \A x \in Runners : Active(x, d)' => x = r
      <4> SUFFICES ASSUME NEW x \in Runners, Active(x, d)', x # r PROVE FALSE
        BY Zenon
      <4>1. Working(x, d)
        BY <1>2, Zenon DEF Active, Working
      <4>. QED
        BY <1>0, <1>2, <2>1, <4>1, Zenon DEF Exclusive
    <3>. QED
      BY <1>2, <2>1, <3>1, Zenon
  <2>2. CASE d # c
    <3>1. /\ progress[d] # None => Recorded(progress[d], rows[d], Excused)
          /\ progress'[d] = progress[d] /\ rows'[d] = rows[d] /\ Excused \subseteq Excused'
      BY <1>0, <1>2, <2>2, Zenon DEF Ledger
    <3>2. ASSUME NEW x \in Runners, Active(x, d)' PROVE InStep(x, d)'
      <4>1. x # r /\ Active(x, d)
        BY <1>2, <2>2, <3>2, ZenonT(30) DEF Active, Working
      <4>2. InStep(x, d) /\ pc'[x] = pc[x] /\ prog'[x] = prog[x] /\ child'[x] = child[x]
        BY <1>0, <1>2, <4>1, Zenon DEF Ledger
      <4>3. Recorded(prog[x], rows[d], Excused')
        BY <3>1, <4>2, RecordedMore, Zenon DEF InStep
      <4>. QED
        BY <3>1, <4>2, <4>3, ZenonT(30) DEF InStep, Segs
    <3>3. progress[d] # None => Recorded(progress[d], rows[d], Excused')
      BY <3>1, RecordedMore, Zenon
    <3>. QED
      BY <3>1, <3>2, <3>3, Zenon
  <2>. QED
    BY <2>1, <2>2, Zenon
<1>3. ASSUME NEW r \in Runners, Loads(r) PROVE Ledger'
  <2> PICK c \in Campaigns : c = camp[r]
    BY <1>0, <1>3, Zenon DEF Loads, LoadProgress, Shape
  <2> DEFINE p == [Loaded(r) EXCEPT !.done = Committed(r)]
  <2>1. c \in Campaigns /\ Working(r, c) /\ Loaded(r) \in Progresses /\ r \in Runners
    BY <1>0, <1>3, NewRunType, Zenon DEF Loads, LoadProgress, Shape, Loaded, Working
  <2>2. p.segs = Loaded(r).segs /\ p.done = Committed(r) /\ p \in Progresses
    <3>1. Committed(r) \in Nat
      BY <1>3, <2>1 DEF Progresses, Loads, CheckpointValid
    <3>. QED
      BY <2>1, <3>1, Zenon DEF Progresses
  <2>3. Loaded(r).done <= p.done /\ Loaded(r).done \in Nat /\ p.done \in Nat
    BY <1>3, <2>1, <2>2 DEF Loads, CheckpointValid, Progresses
  <2>4. /\ UNCHANGED <<camp, overlapped, forced, rows, silent, disturbed, child>> /\ pc[r] = "load"
        /\ prog'[r] = p /\ pc'[r] = "clean" /\ \A x \in Runners \ {r} : prog'[x] = prog[x] /\ pc'[x] = pc[x]
        /\ \A d \in Campaigns \ {c} : progress'[d] = progress[d]
        /\ progress'[c] = p \/ progress' = progress
    BY <1>0, <1>3, <2>1, Zenon DEF Loads, LoadProgress, RecoveredProgress, Shape
  <2> HIDE DEF p
  <2>5. Excused' = Excused
    BY <2>4, Zenon DEF Excused
  <2>6. ASSUME forced = 0, c \notin overlapped
        PROVE  /\ progress'[c] # None => Recorded(progress'[c], rows'[c], Excused')
               /\ InStep(r, c)'
    <3>1. ~force[r]
      BY <1>0, <2>6 DEF Bookkeeping
    <3>2. Loaded(r).segs = Segs(c) /\ (progress[c] # None => Loaded(r) = progress[c])
          /\ (progress[c] = None => Loaded(r).segs = <<>>)
      BY <3>1, Zenon DEF Loaded, Segs, NewRun
    <3>3. Recorded(p, rows[c], Excused)
      <4>1. CASE progress[c] = None
        BY <2>2, <3>2, <4>1 DEF Recorded
      <4>2. CASE progress[c] # None
        <5>1. Recorded(Loaded(r), rows[c], Excused)
          BY <1>0, <2>1, <2>6, <3>2, <4>2, ZenonT(30) DEF Ledger
        <5>2. ASSUME NEW i \in 1 .. Len(p.segs) PROVE p.segs[i].until <= p.done
          <6>1. p.segs \in Seq(Segments)
            BY <2>2, Zenon DEF Progresses, Segments
          <6>2. p.segs[i].until \in Nat
            <7>1. p.segs[i] \in Segments
              BY <6>1, SeqFacts, Zenon
            <7>. QED
              BY <7>1, Zenon DEF Segments
          <6>3. p.segs[i].until <= Loaded(r).done
            BY <2>2, <5>1, Zenon DEF Recorded
          <6>. QED
            BY <2>3, <6>2, <6>3
        <5>. QED
          BY <2>2, <5>1, <5>2, Zenon DEF Recorded
      <4>. QED
        BY <4>1, <4>2, Zenon
    <3>4. Segs(c)' = Segs(c)
      BY <1>0, <2>2, <2>4, <3>2, Zenon DEF Segs
    <3>5. InStep(r, c)'
      BY <2>2, <2>4, <2>5, <2>1, <3>2, <3>3, <3>4, ZenonT(30) DEF InStep
    <3>. QED
      <4>1. progress[c] # None => Recorded(progress[c], rows[c], Excused)
        BY <1>0, <2>6, Zenon DEF Ledger
      <4>. QED
        BY <2>4, <2>5, <3>3, <3>5, <4>1, ZenonT(30)
  <2>. QED
    BY <1>2, <2>1, <2>4, <2>5, <2>6, ZenonT(30)
<1>5. ASSUME NEW r \in Runners, LaunchSegment(r) PROVE Ledger'
  <2> PICK c \in Campaigns : c = camp[r]
    BY <1>0, <1>5, Zenon DEF LaunchSegment, Shape
  <2> PICK id : id = <<c, launched[c] + 1>>
    BY Zenon
  <2>1. c \in Campaigns /\ Working(r, c) /\ Active(r, c) /\ Benchmark[c] \in Benchmarks
    BY <1>0, <1>5, Zenon DEF LaunchSegment, Shape, Working, Active, Benchmarks
  <2>2. /\ UNCHANGED <<camp, overlapped, forced, rows, progress, prog>> /\ pc[r] = "loop"
        /\ pc'[r] = "wait" /\ child'[r] = id /\ prog[r].done < Duration
        /\ \A x \in Runners \ {r} : pc'[x] = pc[x] /\ child'[x] = child[x]
        /\ Excused \subseteq Excused'
    BY <1>0, <1>5, Zenon DEF LaunchSegment, Goto, Shape, Excused
  <2>6. ASSUME forced = 0, c \notin overlapped
        PROVE  /\ progress'[c] # None => Recorded(progress'[c], rows'[c], Excused')
               /\ InStep(r, c)'
    <3>1. InStep(r, c) /\ (progress[c] # None => Recorded(progress[c], rows[c], Excused))
      BY <1>0, <2>1, <2>6, Zenon DEF Ledger
    <3>2. /\ Recorded(prog[r], rows[c], Excused')
          /\ progress[c] # None => Recorded(progress[c], rows[c], Excused')
      BY <2>1, <2>2, <3>1, RecordedMore, Zenon DEF InStep
    <3>. QED
      BY <2>2, <3>1, <3>2, Zenon DEF InStep, Segs
  <2>. QED
    BY <1>2, <2>1, <2>2, <2>6, Zenon
<1>6. ASSUME NEW r \in Runners, AppendCoverage(r) PROVE Ledger'
  <2> PICK c \in Campaigns : c = camp[r]
    BY <1>0, <1>6, Zenon DEF AppendCoverage, Shape
  <2> DEFINE t == prog[r].done + SegmentDuration(prog[r].done)
             p == [done |-> t, segs |-> Append(prog[r].segs,
                                    [from |-> prog[r].done, until |-> t, by |-> child[r]])]
  <2>1. /\ c \in Campaigns /\ Working(r, c) /\ Active(r, c) /\ prog[r] \in Progresses
        /\ child[r] \in Processes /\ prog[r].done \in Nat /\ prog[r].done <= Duration
    BY <1>0, <1>6, AppendingChild, Zenon DEF AppendCoverage, Shape, Working, Active, Bookkeeping, Progresses
  <2>2. t \in Nat /\ (prog[r].done < Duration => prog[r].done < t)
    BY <2>1, CampaignAssumption DEF CampaignAssumption, SegmentDuration
  <2>3. /\ UNCHANGED <<camp, overlapped, forced, progress, child, silent, disturbed>> /\ pc[r] = "append"
        /\ pc'[r] = "save" /\ prog'[r] = p
        /\ \A x \in Runners \ {r} : pc'[x] = pc[x] /\ prog'[x] = prog[x]
        /\ \A d \in Campaigns \ {c} : rows'[d] = rows[d]
    BY <1>0, <1>6, <2>1, RowsAfter, Zenon DEF AppendCoverage, Goto, Shape
  <2>4. Excused' = Excused
    BY <2>3, Zenon DEF Excused
  <2>7. KeepsRows(rows[c], rows'[c], t) /\ (child[r] \in Excused \/ HasRow(rows'[c], child[r], t))
    <3>1. child[r] \in Excused \/ log[Benchmark[c]] = child[r]
      BY <1>0, <2>3, Zenon DEF Logged
    <3>2. CASE log[Benchmark[c]] = None /\ rows' = rows
      BY <1>0, <2>1, <3>1, <3>2, Zenon DEF KeepsRows
    <3>3. CASE /\ rows' = [rows EXCEPT ![c] = Append(@, [at |-> t, by |-> log[Benchmark[c]]])]
               /\ [at |-> t, by |-> log[Benchmark[c]]] \in Rows
      <4> DEFINE e == [at |-> t, by |-> log[Benchmark[c]]]
      <4>1. e \in Rows /\ e.at = t /\ e.by = log[Benchmark[c]] /\ rows'[c] = Append(rows[c], e)
            /\ rows[c] \in Seq(Rows)
        BY <1>0, <3>3, Zenon
      <4> HIDE DEF e, t
      <4>2. KeepsRows(rows[c], Append(rows[c], e), e.at) /\ HasRow(Append(rows[c], e), e.by, e.at)
        BY <4>1, RowAppended, Zenon
      <4>. QED
        BY <3>1, <4>1, <4>2, Zenon
    <3>. QED
      BY <1>6, <3>2, <3>3, RowsAfter, Zenon
  <2>5. ASSUME forced = 0, c \notin overlapped
        PROVE  /\ progress'[c] # None => Recorded(progress'[c], rows'[c], Excused')
               /\ InStep(r, c)'
    <3>1. InStep(r, c) /\ (progress[c] # None => Recorded(progress[c], rows[c], Excused))
      BY <1>0, <2>1, <2>5, Zenon DEF Ledger
    <3>2. /\ prog[r].segs = Segs(c) /\ prog[r].done < Duration
          /\ Recorded(prog[r], rows[c], Excused)
      BY <1>0, <2>1, <2>3, <3>1, Zenon DEF InStep
    <3>3. Recorded(prog[r], rows'[c], Excused) /\ Recorded(p, rows'[c], Excused)
      <4> HIDE DEF t
      <4>. QED
        BY <2>1, <2>2, <2>7, <3>2, RecordedAppend, ZenonT(30)
    <3>4. p.segs = Append(prog[r].segs, [from |-> prog[r].done, until |-> t, by |-> child[r]])
      BY Zenon
    <3>5. Len(p.segs) = Len(Segs(c)) + 1
      <4>1. /\ prog[r].segs \in Seq(Segments)
            /\ [from |-> prog[r].done, until |-> t, by |-> child[r]] \in Segments
        BY <2>1, <2>2, Zenon DEF Progresses, Segments
      <4>. QED
        BY <3>2, <3>4, <4>1, AppendFacts
    <3>6. ASSUME progress[c] # None PROVE Recorded(progress[c], rows'[c], Excused)
      <4>1. progress[c].segs = prog[r].segs /\ Recorded(progress[c], rows[c], Excused)
        BY <3>1, <3>2, <3>6, Zenon DEF Segs
      <4>. QED
        BY <3>3, <4>1, Zenon DEF Recorded
    <3> HIDE DEF p
    <3>. QED
      BY <2>1, <2>3, <2>4, <3>3, <3>5, <3>6, ZenonT(30) DEF InStep, Segs
  <2> HIDE DEF p
  <2>. QED
    BY <1>2, <2>1, <2>3, <2>4, <2>5, Zenon
<1>7. ASSUME NEW r \in Runners, SaveProgress(r) PROVE Ledger'
  <2> PICK c \in Campaigns : c = camp[r]
    BY <1>0, <1>7, Zenon DEF SaveProgress, Shape
  <2>1. c \in Campaigns /\ Working(r, c) /\ Active(r, c) /\ prog[r] \in Progresses
    BY <1>0, <1>7, Zenon DEF SaveProgress, Shape, Working, Active
  <2>2. /\ UNCHANGED <<camp, overlapped, forced, rows, prog, silent, disturbed>> /\ pc[r] = "save"
        /\ pc'[r] = "loop" /\ progress'[c] = prog[r]
        /\ \A x \in Runners \ {r} : pc'[x] = pc[x] /\ child'[x] = child[x]
        /\ \A d \in Campaigns \ {c} : progress'[d] = progress[d]
    BY <1>0, <1>7, <2>1, Zenon DEF SaveProgress, Goto, Shape
  <2>3. Excused' = Excused
    BY <2>2, Zenon DEF Excused
  <2>4. ASSUME forced = 0, c \notin overlapped
        PROVE  /\ progress'[c] # None => Recorded(progress'[c], rows'[c], Excused')
               /\ InStep(r, c)'
    <3>1. InStep(r, c)
      BY <1>0, <2>1, <2>4, Zenon DEF Ledger
    <3>. QED
      BY <1>0, <2>1, <2>2, <2>3, <3>1, Zenon DEF InStep, Segs
  <2>. QED
    BY <1>2, <2>1, <2>2, <2>3, <2>4, Zenon
<1>. QED
  BY <1>0, <1>1, <1>3, <1>5, <1>6, <1>7, StepKinds, ZenonT(30)

\* Nothing is recorded, and nothing has to be, before the first invocation.
LEMMA InitLedger == Init => LedgerInv
<1> SUFFICES ASSUME Init PROVE LedgerInv
  OBVIOUS
<1>1. Ledger
  BY Zenon DEF Init, Ledger, Active
<1>2. rows \in [Campaigns -> Seq(Rows)]
  BY DEF Init
<1>3. Logged
  BY Zenon DEF Init, Logged
<1>. QED
  BY <1>1, <1>2, <1>3, InitIInv, Zenon DEF LedgerInv

\* The ledger holds in every reachable state.
THEOREM LedgerInvariance == Spec => []LedgerInv
<1>1. IInv /\ [Next]_vars => IInv'
  BY StepShape, StepWaiting, StepLock, StepBookkeeping, StepFaithful, Zenon DEF IInv, LockInv
<1>2. LedgerInv /\ [Next]_vars => LedgerInv'
  BY <1>1, StepLogged, StepRowsType, StepLedger, Zenon DEF LedgerInv, IInv, LockInv
<1>. QED
  BY <1>2, InitLedger, PTL DEF Spec

\* summarize_coverage.py reads the rows of the segments that count, whatever rows
\* crashed attempts have left in coverage.csv, without --force, and unless mfuzz
\* has logged nothing or its log was shared with another one.
THEOREM SummaryCorrect == Spec => []SummaryReadsCommitted
<1>1. LedgerInv => SummaryReadsCommitted
  <2> SUFFICES ASSUME LedgerInv, NEW c \in Campaigns \ overlapped, status[c] = "complete", forced = 0,
                      NEW i \in 1 .. Len(progress[c].segs),
                      progress[c].segs[i].by \notin silent \cup disturbed
               PROVE  LET g  == progress[c].segs[i]
                          at == {j \in 1 .. Len(rows[c]) : rows[c][j].at = g.until}
                      IN  \E j \in at : rows[c][j].by = g.by /\ \A k \in at : k <= j
    BY Zenon DEF SummaryReadsCommitted
  <2>1. ~(forced > 0)
    OBVIOUS
  <2>2. progress[c] # None
    BY <2>1, Zenon DEF LedgerInv, IInv, Faithful, Saved
  <2>3. LastRowBy(rows[c], progress[c].segs[i])
    BY <2>2, Zenon DEF LedgerInv, Ledger, Recorded, Excused
  <2>. QED
    BY <2>3, Zenon DEF LastRowBy
<1>. QED
  BY <1>1, LedgerInvariance, PTL

-----------------------------------------------------------------------------

\* Every mfuzz process of c is saved, has been counted as trouble, or is in flight.
Loss ==
    forced = 0 => \A c \in Campaigns \ overlapped :
        launched[c] <= Len(Segs(c)) + trouble + IF \E r \in Runners : InFlight(r, c) THEN 1 ELSE 0

\* The saved segments of c, with and without a progress.json.
LEMMA SegsType ==
    ASSUME Shape, NEW c \in Campaigns
    PROVE  /\ Len(Segs(c)) \in Nat
           /\ progress[c] = None => Len(Segs(c)) = 0
           /\ progress[c] # None => Segs(c) = progress[c].segs
<1>1. CASE progress[c] = None
  BY <1>1, Zenon DEF Segs
<1>2. CASE progress[c] # None
  <2>1. Segs(c) = progress[c].segs /\ progress[c].segs \in Seq(Segments)
    BY <1>2, Zenon DEF Segs, Shape, Progresses, Segments
  <2>. QED
    BY <1>2, <2>1, SeqFacts, Zenon
<1>. QED
  BY <1>1, <1>2, Zenon

\* Without --force, loading changes the seconds but not the segments.
LEMMA LoadKeepsSegs ==
    ASSUME Shape, Bookkeeping, NEW r \in Runners, Loads(r), forced = 0, NEW c \in Campaigns
    PROVE  Segs(c)' = Segs(c)
<1>1. camp[r] \in Campaigns /\ ~force[r] /\ None \notin Progresses
  BY CampaignAssumption DEF CampaignAssumption, Loads, LoadProgress, Shape, Bookkeeping
<1>2. Loaded(r) \in Progresses /\ Loaded(r).segs = Segs(camp[r])
  BY <1>1, NewRunType, Zenon DEF Loaded, Segs, NewRun, Shape
<1> DEFINE p == [Loaded(r) EXCEPT !.done = Committed(r)]
<1>3. p \in Progresses /\ p.segs = Loaded(r).segs
  <2>1. Committed(r) \in Nat
    BY <1>2 DEF Progresses, Loads, CheckpointValid
  <2>. QED
    BY <1>2, <2>1, Zenon DEF Progresses
<1>4. progress' = progress \/ progress' = [progress EXCEPT ![camp[r]] = p]
  BY Zenon DEF Loads, RecoveredProgress
<1> HIDE DEF p
<1>. QED
  BY <1>1, <1>2, <1>3, <1>4, Zenon DEF Segs, Shape

\* Every step keeps the count.
LEMMA StepLoss == LedgerInv /\ Loss /\ [Next]_vars => Loss'
<1> SUFFICES ASSUME LedgerInv, Loss, [Next]_vars, forced' = 0, NEW c \in Campaigns \ overlapped'
             PROVE  launched'[c] <= Len(Segs(c)') + trouble'
                                    + IF \E r \in Runners : InFlight(r, c)' THEN 1 ELSE 0
  BY Zenon DEF Loss
<1> USE DEF runVars, lockVars, logVars, busyVars, fuzzVars, bounds
<1>0. /\ Shape /\ Waiting /\ Exclusive /\ Bookkeeping /\ Ledger /\ LockInv
      /\ launched[c] \in Nat /\ trouble \in Nat
  BY Zenon DEF LedgerInv, IInv, LockInv, Shape
<1>1. Len(Segs(c)) \in Nat
  BY <1>0, SegsType, Zenon
<1>2. CASE Quiet
  <2>1. /\ Segs(c)' = Segs(c) /\ launched' = launched /\ forced = 0 /\ c \in Campaigns \ overlapped
        /\ \/ trouble' = trouble + 1
           \/ trouble' = trouble /\ \A r \in Runners : InFlight(r, c) => InFlight(r, c)'
    BY <1>2, Zenon DEF Quiet, Segs
  <2>2. launched[c] <= Len(Segs(c)) + trouble + IF \E r \in Runners : InFlight(r, c) THEN 1 ELSE 0
    BY <2>1, Zenon DEF Loss
  <2>. QED
    BY <1>0, <1>1, <2>1, <2>2
<1>3. ASSUME NEW r \in Runners, UNCHANGED <<overlapped, forced, launched, trouble>>, Segs(c)' = Segs(c),
             InFlight(r, c) => InFlight(r, c)', camp' = camp,
             \A x \in Runners \ {r} : pc'[x] = pc[x]
      PROVE  launched'[c] <= Len(Segs(c)') + trouble'
                             + IF \E x \in Runners : InFlight(x, c)' THEN 1 ELSE 0
  <2>1. \A x \in Runners : InFlight(x, c) => InFlight(x, c)'
    BY <1>3, Zenon DEF InFlight
  <2>2. launched[c] <= Len(Segs(c)) + trouble + IF \E x \in Runners : InFlight(x, c) THEN 1 ELSE 0
    BY <1>3, Zenon DEF Loss
  <2>. QED
    BY <1>0, <1>1, <1>3, <2>1, <2>2
<1>4. ASSUME NEW r \in Runners, Loads(r) \/ AppendCoverage(r)
      PROVE  launched'[c] <= Len(Segs(c)') + trouble'
                             + IF \E x \in Runners : InFlight(x, c)' THEN 1 ELSE 0
  <2>1. /\ UNCHANGED <<overlapped, forced, launched, trouble, camp>>
        /\ InFlight(r, c) => InFlight(r, c)'
        /\ \A x \in Runners \ {r} : pc'[x] = pc[x]
    BY <1>0, <1>4, Zenon DEF Loads, LoadProgress, AppendCoverage, Goto, Shape, InFlight
  <2>2. Segs(c)' = Segs(c)
    <3>1. CASE Loads(r)
      BY <1>0, <2>1, <3>1, LoadKeepsSegs, Zenon
    <3>2. CASE AppendCoverage(r)
      BY <3>2, Zenon DEF AppendCoverage, Segs
    <3>. QED
      BY <1>4, <3>1, <3>2, Zenon
  <2>. QED
    BY <1>3, <2>1, <2>2, Zenon
<1>5. ASSUME NEW r \in Runners, LaunchSegment(r)
      PROVE  launched'[c] <= Len(Segs(c)') + trouble'
                             + IF \E x \in Runners : InFlight(x, c)' THEN 1 ELSE 0
  <2>1. /\ UNCHANGED <<overlapped, forced, trouble, camp, progress>> /\ pc[r] = "loop" /\ pc'[r] = "wait"
        /\ \A x \in Runners \ {r} : pc'[x] = pc[x]
        /\ launched' = [launched EXCEPT ![camp[r]] = @ + 1] /\ camp[r] \in Campaigns
    BY <1>0, <1>5, Zenon DEF LaunchSegment, Goto, Shape
  <2>2. /\ Segs(c)' = Segs(c)
        /\ launched[c] <= Len(Segs(c)) + trouble + IF \E x \in Runners : InFlight(x, c) THEN 1 ELSE 0
    BY <2>1, Zenon DEF Loss, Segs
  <2>3. CASE camp[r] = c
    <3>1. \A x \in Runners : ~InFlight(x, c)
      BY <1>0, <2>1, <2>3, Zenon DEF Exclusive, Working, InFlight
    <3>2. InFlight(r, c)' /\ launched'[c] = launched[c] + 1
      BY <1>0, <2>1, <2>3, Zenon DEF InFlight, Shape
    <3>. QED
      BY <1>0, <1>1, <2>1, <2>2, <3>1, <3>2
  <2>4. CASE camp[r] # c
    <3>1. launched'[c] = launched[c] /\ \A x \in Runners : InFlight(x, c) => InFlight(x, c)'
      BY <1>0, <2>1, <2>4, Zenon DEF InFlight, Shape
    <3>. QED
      BY <1>0, <1>1, <2>1, <2>2, <3>1
  <2>. QED
    BY <2>3, <2>4, Zenon
<1>6. ASSUME NEW r \in Runners, SaveProgress(r)
      PROVE  launched'[c] <= Len(Segs(c)') + trouble'
                             + IF \E x \in Runners : InFlight(x, c)' THEN 1 ELSE 0
  <2>1. /\ UNCHANGED <<overlapped, forced, trouble, camp, launched>> /\ pc[r] = "save"
        /\ \A x \in Runners \ {r} : pc'[x] = pc[x]
        /\ progress'[camp[r]] = prog[r] /\ prog[r] # None
        /\ \A d \in Campaigns \ {camp[r]} : progress'[d] = progress[d]
    <3>1. camp[r] \in Campaigns /\ prog[r] \in Progresses /\ None \notin Progresses
      BY <1>0, <1>6, CampaignAssumption, ZenonT(30) DEF SaveProgress, Shape, CampaignAssumption
    <3>. QED
      BY <1>0, <1>6, <3>1, Zenon DEF SaveProgress, Goto, Shape
  <2>2. CASE camp[r] = c
    <3>1. Active(r, c) /\ forced = 0 /\ c \in Campaigns \ overlapped
      BY <2>1, <2>2, Zenon DEF Active
    <3>2. Segs(c)' = prog[r].segs /\ Len(prog[r].segs) = Len(Segs(c)) + 1
      BY <1>0, <2>1, <2>2, <3>1, Zenon DEF Ledger, InStep, Segs
    <3>3. launched[c] <= Len(Segs(c)) + trouble + IF \E x \in Runners : InFlight(x, c) THEN 1 ELSE 0
      BY <3>1, Zenon DEF Loss
    <3>. QED
      BY <1>0, <1>1, <2>1, <3>2, <3>3, SMTT(30)
  <2>3. CASE camp[r] # c
    <3>1. Segs(c)' = Segs(c) /\ ~InFlight(r, c)
      BY <2>1, <2>3, Zenon DEF Segs, InFlight
    <3>. QED
      BY <1>3, <2>1, <3>1, Zenon
  <2>. QED
    BY <2>2, <2>3, Zenon
<1>. QED
  BY <1>0, <1>2, <1>4, <1>5, <1>6, StepKinds, ZenonT(30)

\* One runner with a child accounts for the one segment that is in flight.
LEMMA OneInFlight ==
    ASSUME NEW l \in Nat, NEW n \in Nat, NEW t \in Nat, NEW k \in Nat, NEW e,
           e => k = 1, l <= n + t + IF e THEN 1 ELSE 0
    PROVE  l <= n + t + k
<1>1. CASE e
  BY <1>1, Zenon
<1>2. CASE ~e
  BY <1>2
<1>. QED
  BY <1>1, <1>2, Zenon

\* Every crash, interrupt or failure costs at most the segment it interrupted:
\* for any number of runners and campaigns, without --force.
THEOREM LossCorrect == Spec => []LossBound
<1>1. Init => Loss
  BY DEF Init, Loss, Segs
<1>2. LedgerInv /\ Loss => LossBound
  <2> SUFFICES ASSUME LedgerInv, Loss, forced = 0, NEW c \in Campaigns \ overlapped
               PROVE  launched[c] <= (IF progress[c] = None THEN 0 ELSE Len(progress[c].segs)) + trouble
                                     + Cardinality({r \in Runners : child[r] # None /\ camp[r] = c})
    BY Zenon DEF LossBound
  <2> DEFINE R == {r \in Runners : child[r] # None /\ camp[r] = c}
  <2>1. Shape /\ Waiting /\ Exclusive /\ launched[c] \in Nat /\ trouble \in Nat
    BY Zenon DEF LedgerInv, IInv, LockInv, Shape
  <2>2. None \notin Processes
    BY CampaignAssumption, Zenon DEF CampaignAssumption
  <2>3. \A r \in R : Working(r, c)
    BY <2>1, Zenon DEF Waiting, AfterLaunch, Working
  <2>4. \A r, x \in R : r = x
    BY <2>1, <2>3, Zenon DEF Exclusive
  <2>5. (\E r \in Runners : InFlight(r, c)) => R # {}
    BY <2>1, <2>2, Zenon DEF Waiting, AfterLaunch, InFlight
  <2> HIDE DEF R
  <2>6. R = {} \/ \E r : R = {r}
    <3>1. ASSUME NEW r \in R PROVE R = {r}
      BY <2>4, Zenon
    <3>. QED
      BY <3>1, Zenon
  <2>7. Cardinality(R) \in Nat /\ (R # {} => Cardinality(R) = 1)
    BY <2>6, FS_EmptySet, FS_Singleton
  <2>8. Len(Segs(c)) = (IF progress[c] = None THEN 0 ELSE Len(progress[c].segs)) /\ Len(Segs(c)) \in Nat
    BY <2>1, SegsType, Zenon
  <2>9. launched[c] <= Len(Segs(c)) + trouble + IF \E r \in Runners : InFlight(r, c) THEN 1 ELSE 0
    BY Zenon DEF Loss
  <2>10. launched[c] <= Len(Segs(c)) + trouble + Cardinality(R)
    BY <2>1, <2>5, <2>7, <2>8, <2>9, OneInFlight, ZenonT(30)
  <2>. QED
    BY <2>8, <2>10, Zenon DEF R
<1>. QED
  BY <1>1, <1>2, LedgerInvariance, StepLoss, PTL DEF Spec

=============================================================================
