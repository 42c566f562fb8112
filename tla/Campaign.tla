------------------------------ MODULE Campaign ------------------------------
(***************************************************************************)
(* The resumable campaign runner, tools/experiments/run_campaigns.py.      *)
(*                                                                         *)
(* Runners are processes executing run_one on campaigns that share the     *)
(* output directory and the benchmark directories.  One action is one      *)
(* operation on the file system, or one step of the mfuzz process of a     *)
(* segment.  A runner can be killed between any two operations and invoked *)
(* again.  A file written by atomic_json is replaced in one step.          *)
(***************************************************************************)
EXTENDS Integers, FiniteSets, Sequences

CONSTANTS Runners,       \* slots for runner processes, one at a time in each
          Campaigns,     \* run ids
          HostOf,        \* the hostname of each runner
          Benchmark,     \* the benchmark directory of each campaign
          Duration,      \* duration_seconds
          Segment,       \* segment_seconds
          RecoverForeign,\* --recover-foreign-lock is given
          Commits,       \* the values of commits to consider
          MaxTrouble,    \* bound on crashes, interrupts, failed segments, segments
                         \* without a log and invocations with --force together
          MaxForce,      \* bound on invocations with --force
          AfterOverlap,  \* consider troubles also after two runners have worked on
                         \* one campaign
          None           \* no such file, no such value

\* mfuzz processes, numbered for each campaign, and contents of progress.json
Processes  == Campaigns \X Nat
Progresses == [done : Nat, segs : Seq([from : Nat, until : Nat, by : Processes])]

ASSUME CampaignAssumption ==
    /\ HostOf \in [Runners -> {HostOf[r] : r \in Runners}]
    /\ Benchmark \in [Campaigns -> {Benchmark[c] : c \in Campaigns}]
    /\ Duration \in Nat \ {0}
    /\ Segment \in Nat \ {0}
    /\ RecoverForeign \in BOOLEAN
    /\ Commits \subseteq BOOLEAN
    /\ MaxTrouble \in Nat
    /\ MaxForce \in Nat
    /\ AfterOverlap \in BOOLEAN
    /\ None \notin Runners \cup Campaigns \cup Nat \cup Processes \cup Progresses

VARIABLES status,    \* status.json of each campaign
          progress,  \* progress.json: completed_seconds, completed_segments
          checkpoint,\* checkpoint.json: elapsed_seconds
          rows,      \* coverage.csv: elapsed_seconds, and the mfuzz process
          lock,      \* .lock: the owner it names, and whether that one lives
          log,       \* mfuzz_f_coverage.log of a benchmark: who wrote its last line
          fuzzers,   \* running mfuzz processes
          strays,    \* mfuzz processes that have ended, but not their honggfuzz
          pc,        \* where each runner is
          camp,      \* run
          force,     \* force
          owner,     \* owner, in acquire_lock
          prog,      \* progress, with completed_seconds
          child,     \* the mfuzz process waited for
          launched,  \* number of mfuzz processes of each campaign so far, to name them
          reclaimed, \* history: campaigns whose lock acquire_lock has removed
          overlapped,\* history: campaigns two runners have worked on at once
          disturbed, \* history: mfuzz processes in whose directory another one has
                     \* run, or clean_runtime, before their log was read
          silent,    \* history: mfuzz processes that exited with 0 and without a log
          orphans,   \* history: mfuzz processes that a runner has left running
          trouble, forced,
          commits    \* mfuzz writes checkpoint.json before it exits

lockVars == <<lock, owner, reclaimed, overlapped>>
runVars  == <<status, progress, checkpoint, rows>>
logVars  == <<log, silent, disturbed>>
busyVars == <<fuzzers, strays, orphans>>
fuzzVars == <<logVars, busyVars, child, launched>>
bounds   == <<trouble, forced, commits>>
vars     == <<runVars, lockVars, fuzzVars, pc, camp, force, prog, bounds>>

Benchmarks == {Benchmark[c] : c \in Campaigns}
NoLock     == [st |-> "none", by |-> None]
NewRun     == [done |-> 0, segs |-> <<>>]

Init ==
    /\ status = [c \in Campaigns |-> "none"]
    /\ progress = [c \in Campaigns |-> None]
    /\ checkpoint = [c \in Campaigns |-> None]
    /\ rows = [c \in Campaigns |-> <<>>]
    /\ lock = [c \in Campaigns |-> NoLock]
    /\ owner = [r \in Runners |-> NoLock]
    /\ reclaimed = {}
    /\ overlapped = {}
    /\ log = [b \in Benchmarks |-> None]
    /\ silent = {} /\ disturbed = {}
    /\ fuzzers = {} /\ strays = {} /\ orphans = {}
    /\ child = [r \in Runners |-> None]
    /\ launched = [c \in Campaigns |-> 0]
    /\ pc = [r \in Runners |-> "idle"]
    /\ camp = [r \in Runners |-> None]
    /\ force = [r \in Runners |-> FALSE]
    /\ prog = [r \in Runners |-> NewRun]
    /\ trouble = 0 /\ forced = 0
    /\ commits \in Commits

\* The bound on what goes wrong.
MoreTrouble ==
    /\ trouble + forced + Cardinality(silent) < MaxTrouble
    /\ overlapped = {} \/ AfterOverlap

Goto(r, l) == pc' = [pc EXCEPT ![r] = l]

\* The process of slot r ends: its locals are gone, and whatever lock names it
\* names a dead process from now on.
Buried(l, r) == IF l.by = r /\ l.st = "live" THEN [l EXCEPT !.st = "dead"] ELSE l

Exit(r, locks) ==
    /\ UNCHANGED <<reclaimed, overlapped>>
    /\ Goto(r, "idle")
    /\ camp' = [camp EXCEPT ![r] = None]
    /\ force' = [force EXCEPT ![r] = FALSE]
    /\ prog' = [prog EXCEPT ![r] = NewRun]
    /\ child' = [child EXCEPT ![r] = None]
    /\ lock' = [c \in Campaigns |-> Buried(locks[c], r)]
    /\ owner' = [x \in Runners |-> IF x = r THEN NoLock ELSE Buried(owner[x], r)]

-----------------------------------------------------------------------------

\* run_campaigns.py run --run-id c [--force].  (The third conjunct is a bound.)
Invoke(r, c, f) ==
    /\ pc[r] = "idle"
    /\ f => forced < MaxForce /\ MoreTrouble
    /\ (\E x \in Runners : camp[x] = c) => MoreTrouble
    /\ forced' = IF f THEN forced + 1 ELSE forced
    /\ camp' = [camp EXCEPT ![r] = c]
    /\ force' = [force EXCEPT ![r] = f]
    /\ Goto(r, "status")
    /\ UNCHANGED <<runVars, lockVars, fuzzVars, prog, trouble, commits>>

\* Completed campaigns are skipped.
CheckStatus(r) ==
    /\ pc[r] = "status"
    /\ \/ /\ status[camp[r]] = "complete" /\ ~force[r]
          /\ Exit(r, lock)
       \/ /\ status[camp[r]] # "complete" \/ force[r]
          /\ Goto(r, "lock")
          /\ UNCHANGED <<lockVars, camp, force, prog, child>>
    /\ UNCHANGED <<runVars, logVars, busyVars, launched, bounds>>

\* acquire_lock: lock_path.exists()
LockTest(r) ==
    /\ pc[r] = "lock"
    /\ Goto(r, IF lock[camp[r]] = NoLock THEN "create" ELSE "read")
    /\ UNCHANGED <<runVars, lockVars, fuzzVars, camp, force, prog, bounds>>

\* load_json(lock_path); an error (vanished, not yet written) gives {}.
LockRead(r) ==
    /\ pc[r] = "read"
    /\ owner' = [owner EXCEPT ![r] = IF lock[camp[r]].st \in {"live", "dead"}
                                      THEN lock[camp[r]] ELSE NoLock]
    /\ Goto(r, "judge")
    /\ UNCHANGED <<runVars, lock, reclaimed, overlapped, fuzzVars, camp, force, prog,
                   bounds>>

SameHost(r) == owner[r] # NoLock /\ HostOf[owner[r].by] = HostOf[r]

\* Variant: any lock of this host is respected, whether its owner lives or not.
LockJudgeAnyOwner(r) ==
    LET refused == SameHost(r) \/ ~RecoverForeign IN
    /\ pc[r] = "judge"
    /\ \/ refused /\ Exit(r, lock)
       \/ /\ ~refused
          /\ Goto(r, "unlink")
          /\ UNCHANGED <<lockVars, camp, force, prog, child>>
    /\ UNCHANGED <<runVars, logVars, busyVars, launched, bounds>>

\* A live owner, or a foreign one without --recover-foreign-lock, raises.
LockJudge(r) ==
    LET refused == IF SameHost(r) THEN owner[r].st = "live" ELSE ~RecoverForeign IN
    /\ pc[r] = "judge"
    /\ \/ refused /\ Exit(r, lock)
       \/ /\ ~refused
          /\ Goto(r, "unlink")
          /\ UNCHANGED <<lockVars, camp, force, prog, child>>
    /\ UNCHANGED <<runVars, logVars, busyVars, launched, bounds>>

LockUnlink(r) ==
    /\ pc[r] = "unlink"
    /\ lock' = [lock EXCEPT ![camp[r]] = NoLock]
    /\ owner' = [owner EXCEPT ![r] = NoLock]
    /\ reclaimed' = reclaimed \cup {camp[r]}
    /\ Goto(r, "create")
    /\ UNCHANGED <<runVars, overlapped, fuzzVars, camp, force, prog, bounds>>

\* r holds, or believes it holds, the lock of c.
Working(r, c) ==
    /\ camp[r] = c
    /\ pc[r] \in {"write", "load", "clean", "running", "loop", "wait", "join",
                  "raise", "append", "save", "failed", "release"}

\* Variant: O_EXCL is missing.
LockCreateShared(r) ==
    /\ pc[r] = "create"
    /\ lock' = [lock EXCEPT ![camp[r]] = [st |-> "blank", by |-> r]]
    /\ overlapped' = overlapped \cup {c \in {camp[r]} : \E x \in Runners : Working(x, c)}
    /\ Goto(r, "write")
    /\ UNCHANGED <<owner, reclaimed, camp, force, prog, child>>
    /\ UNCHANGED <<runVars, logVars, busyVars, launched, bounds>>

\* os.open(O_CREAT | O_EXCL) creates the lock without its content, or raises.
LockCreate(r) ==
    /\ pc[r] = "create"
    /\ \/ lock[camp[r]] # NoLock /\ Exit(r, lock)
       \/ /\ lock[camp[r]] = NoLock
          /\ lock' = [lock EXCEPT ![camp[r]] = [st |-> "blank", by |-> r]]
          /\ overlapped' = overlapped \cup
                {c \in {camp[r]} : \E x \in Runners : Working(x, c)}
          /\ Goto(r, "write")
          /\ UNCHANGED <<owner, reclaimed, camp, force, prog, child>>
    /\ UNCHANGED <<runVars, logVars, busyVars, launched, bounds>>

\* os.write to the open file, which may have been unlinked meanwhile.
LockWrite(r) ==
    /\ pc[r] = "write"
    /\ lock' = [lock EXCEPT ![camp[r]] = IF @ = [st |-> "blank", by |-> r]
                                          THEN [@ EXCEPT !.st = "live"] ELSE @]
    /\ Goto(r, "load")
    /\ UNCHANGED <<runVars, owner, reclaimed, overlapped, fuzzVars, camp, force, prog,
                   bounds>>

-----------------------------------------------------------------------------

\* Variant: progress.json is never read.
LoadedAnew(r) == NewRun

\* Variant: --force resets the seconds but not the segments.
LoadedSegments(r) ==
    IF progress[camp[r]] = None THEN NewRun
    ELSE IF force[r] THEN [progress[camp[r]] EXCEPT !.done = 0] ELSE progress[camp[r]]

\* progress.json if it exists, unless --force.
Loaded(r) ==
    IF progress[camp[r]] # None /\ ~force[r] THEN progress[camp[r]] ELSE NewRun

\* The elapsed seconds committed by mfuzz, if it commits them.
Committed(r) ==
    IF checkpoint[camp[r]] = None THEN Loaded(r).done ELSE checkpoint[camp[r]]

CheckpointValid(r) == Committed(r) \in Loaded(r).done .. Duration

RecoveredProgress(r) ==
    IF Committed(r) > Loaded(r).done
    THEN [progress EXCEPT ![camp[r]] = [Loaded(r) EXCEPT !.done = Committed(r)]]
    ELSE progress

\* Load progress.json and reconcile it with checkpoint.json.  An invalid
\* checkpoint raises before the try block: the lock stays behind.
LoadProgress(r) ==
    /\ pc[r] = "load"
    /\ \/ /\ ~CheckpointValid(r)
          /\ Exit(r, lock)
          /\ UNCHANGED progress
       \/ /\ CheckpointValid(r)
          /\ prog' = [prog EXCEPT ![r] = [Loaded(r) EXCEPT !.done = Committed(r)]]
          /\ progress' = RecoveredProgress(r)
          /\ Goto(r, "clean")
          /\ UNCHANGED <<lockVars, camp, force, child>>
    /\ UNCHANGED <<status, checkpoint, rows, logVars, busyVars, launched, bounds>>

\* The directory of an mfuzz process, the processes that run in directory b, and
\* those whose log is about to be read there.
Directory(p) == Benchmark[p[1]]
Fuzzing(b) == {p \in {f.id : f \in fuzzers} : Directory(p) = b}
Reading(b) == {child[r] : r \in {x \in Runners : pc[x] = "append" /\ Benchmark[camp[x]] = b}}

\* clean_runtime, for a run that has not completed anything.
CleanRuntime(r) ==
    LET b == Benchmark[camp[r]] IN
    /\ pc[r] = "clean"
    /\ \/ /\ prog[r] = NewRun
          /\ log' = [log EXCEPT ![b] = None]
          /\ disturbed' = disturbed \cup Fuzzing(b) \cup Reading(b)
       \/ /\ prog[r] # NewRun
          /\ UNCHANGED <<log, disturbed>>
    /\ Goto(r, "running")
    /\ UNCHANGED <<runVars, lockVars, silent, busyVars, child, launched, camp, force, prog,
                   bounds>>

MarkRunning(r) ==
    /\ pc[r] = "running"
    /\ status' = [status EXCEPT ![camp[r]] = "running"]
    /\ Goto(r, "loop")
    /\ UNCHANGED <<progress, checkpoint, rows, lockVars, fuzzVars, camp,
                   force, prog, bounds>>

\* min(segment_seconds, duration_seconds - completed_seconds)
SegmentDuration(done) == IF Duration - done < Segment THEN Duration - done ELSE Segment

\* Popen: an mfuzz process on the benchmark directory, in its own session.  It
\* removes the log of its predecessor.
LaunchSegment(r) ==
    LET c  == camp[r]
        id == <<c, launched[c] + 1>>
        b  == Benchmark[c]
    IN
    /\ pc[r] = "loop"
    /\ prog[r].done < Duration
    /\ launched' = [launched EXCEPT ![c] = @ + 1]
    /\ child' = [child EXCEPT ![r] = id]
    /\ fuzzers' = fuzzers \cup
         {[id |-> id, camp |-> c, from |-> prog[r].done,
           until |-> prog[r].done + SegmentDuration(prog[r].done),
           logged |-> FALSE, committed |-> FALSE]}
    /\ log' = [log EXCEPT ![b] = None]
    /\ disturbed' = disturbed \cup Fuzzing(b) \cup Reading(b)
                              \cup (IF Fuzzing(b) = {} THEN {} ELSE {id})
    /\ Goto(r, "wait")
    /\ UNCHANGED <<runVars, lockVars, silent, strays, orphans, camp, force, prog, bounds>>

\* logCoverage, after each window; a further line makes a difference only where
\* the log has been removed or, not modelled, where several processes write it.
FuzzerLogs(f) ==
    /\ f.logged => log[Directory(f.id)] = None
    /\ log' = [log EXCEPT ![Directory(f.id)] = f.id]
    /\ fuzzers' = (fuzzers \ {f}) \cup {[f EXCEPT !.logged = TRUE]}
    /\ UNCHANGED <<runVars, lockVars, silent, disturbed, strays, orphans, child, launched,
                   pc, camp, force, prog, bounds>>

\* The stand-in of the tests commits its elapsed time, then exits.
FuzzerCommits(f) ==
    /\ commits /\ ~f.committed
    /\ checkpoint' = [checkpoint EXCEPT ![f.camp] = f.until]
    /\ fuzzers' = (fuzzers \ {f}) \cup {[f EXCEPT !.committed = TRUE]}
    /\ UNCHANGED <<status, progress, rows, lockVars, logVars, strays, orphans, child,
                   launched, pc, camp, force, prog, bounds>>

\* mfuzz exits with code 0, having waited for its honggfuzz, and then it has
\* logged unless it had no drivers or could not fork; or with another code, and
\* then honggfuzz, which has a session of its own, may run on.  The runner that
\* launched it, if it is still there, goes on.
FuzzerExits(f, ok) ==
    /\ ok /\ commits => f.committed
    /\ IF ok \/ \A r \in Runners : child[r] # f.id THEN UNCHANGED trouble
       ELSE MoreTrouble /\ trouble' = trouble + 1
    /\ IF ok /\ ~f.logged THEN MoreTrouble /\ silent' = silent \cup {f.id}
       ELSE UNCHANGED silent
    /\ fuzzers' = fuzzers \ {f}
    /\ strays' \in IF ok THEN {strays} ELSE {strays, strays \cup {f.id}}
    /\ orphans' = IF f.id \in strays' THEN orphans ELSE orphans \ {f.id}
    /\ pc' = [r \in Runners |-> IF child[r] = f.id
                                 THEN IF ok THEN "append" ELSE "join" ELSE pc[r]]
    /\ UNCHANGED <<runVars, lockVars, log, disturbed, child, launched, camp, force, prog,
                   forced, commits>>

\* A honggfuzz that has survived its mfuzz ends.
StrayEnds ==
    /\ \E p \in strays : strays' = strays \ {p} /\ orphans' = orphans \ {p}
    /\ UNCHANGED <<runVars, lockVars, logVars, fuzzers, child, launched, pc, camp,
                   force, prog, bounds>>

\* Variant: the threads that read the pipes are left to themselves.
JoinOutputNot(r) ==
    /\ pc[r] \in {"join", "raise"}
    /\ Goto(r, IF pc[r] = "join" THEN "failed" ELSE "release")
    /\ UNCHANGED <<runVars, lockVars, fuzzVars, camp, force, prog, bounds>>

\* output_thread.join, which returns when nobody has the pipes open any more
\* (after exit code 0, at once): mfuzz is gone, and a stray honggfuzz must be.
JoinOutput(r) ==
    /\ pc[r] \in {"join", "raise"}
    /\ child[r] \notin strays
    /\ Goto(r, IF pc[r] = "join" THEN "failed" ELSE "release")
    /\ UNCHANGED <<runVars, lockVars, fuzzVars, camp, force, prog, bounds>>

\* coverage.csv with the row that append_coverage makes of the last line of the
\* log, if there is one.
WithRow(r, at) ==
    LET by == log[Benchmark[camp[r]]] IN
    IF by = None THEN rows
    ELSE [rows EXCEPT ![camp[r]] = Append(@, [at |-> at, by |-> by])]

\* Variant: a row is appended only for an elapsed time that has none yet.
AppendCoverageOnce(r) ==
    LET done == prog[r].done + SegmentDuration(prog[r].done) IN
    /\ pc[r] = "append"
    /\ rows' = IF \E j \in 1 .. Len(rows[camp[r]]) : rows[camp[r]][j].at = done THEN rows
               ELSE WithRow(r, done)
    /\ prog' = [prog EXCEPT ![r] = [done |-> done,
                 segs |-> Append(@.segs, [from |-> @.done, until |-> done, by |-> child[r]])]]
    /\ Goto(r, "save")
    /\ UNCHANGED <<status, progress, checkpoint, lockVars, fuzzVars, camp,
                   force, bounds>>

\* completed_seconds += segment_duration; append_coverage
AppendCoverage(r) ==
    LET done == prog[r].done + SegmentDuration(prog[r].done) IN
    /\ pc[r] = "append"
    /\ rows' = WithRow(r, done)
    /\ prog' = [prog EXCEPT ![r] = [done |-> done,
                 segs |-> Append(@.segs, [from |-> @.done, until |-> done, by |-> child[r]])]]
    /\ Goto(r, "save")
    /\ UNCHANGED <<status, progress, checkpoint, lockVars, fuzzVars, camp,
                   force, bounds>>

SaveProgress(r) ==
    /\ pc[r] = "save"
    /\ progress' = [progress EXCEPT ![camp[r]] = prog[r]]
    /\ child' = [child EXCEPT ![r] = None]
    /\ Goto(r, "loop")
    /\ UNCHANGED <<status, checkpoint, rows, lockVars, logVars, busyVars, launched,
                   camp, force, prog, bounds>>

\* Variant: the exit code of mfuzz is not looked at.
FinishAlwaysComplete(r) ==
    /\ pc[r] = "failed" \/ (pc[r] = "loop" /\ prog[r].done >= Duration)
    /\ status' = [status EXCEPT ![camp[r]] = "complete"]
    /\ Goto(r, "release")
    /\ UNCHANGED <<progress, checkpoint, rows, lockVars, fuzzVars, camp,
                   force, prog, bounds>>

\* The final status, complete or failed.
Finish(r) ==
    /\ \/ pc[r] = "loop" /\ prog[r].done >= Duration
          /\ status' = [status EXCEPT ![camp[r]] = "complete"]
       \/ pc[r] = "failed"
          /\ status' = [status EXCEPT ![camp[r]] = "failed"]
    /\ Goto(r, "release")
    /\ UNCHANGED <<progress, checkpoint, rows, lockVars, fuzzVars, camp,
                   force, prog, bounds>>

\* finally: lock_path.unlink(missing_ok=True)
ReleaseLock(r) ==
    /\ pc[r] = "release"
    /\ Exit(r, [lock EXCEPT ![camp[r]] = NoLock])
    /\ UNCHANGED <<runVars, logVars, busyVars, launched, bounds>>

\* KeyboardInterrupt while waiting: mfuzz's process group is terminated, and
\* honggfuzz with it or not; the readers are joined before the lock is released.
Interrupt(r) ==
    /\ pc[r] = "wait"
    /\ MoreTrouble
    /\ trouble' = trouble + 1
    /\ fuzzers' = {f \in fuzzers : f.id # child[r]}
    /\ strays' \in {strays, strays \cup {child[r]}}
    /\ Goto(r, "raise")
    /\ UNCHANGED <<runVars, lockVars, logVars, orphans, child, launched, camp, force, prog,
                   forced, commits>>

\* The mfuzz process of r, if it, or its honggfuzz, is running.
Left(r) == {p \in {f.id : f \in fuzzers} \cup strays : p = child[r]}

\* KeyboardInterrupt elsewhere in the try block: before wait, or a second one in
\* join, it goes straight to the release of the lock.
InterruptElsewhere(r) ==
    /\ pc[r] \in {"loop", "wait", "join", "raise", "append", "save", "failed"}
    /\ MoreTrouble
    /\ trouble' = trouble + 1
    /\ orphans' = orphans \cup Left(r)
    /\ child' = [child EXCEPT ![r] = None]
    /\ Goto(r, "release")
    /\ UNCHANGED <<runVars, lockVars, logVars, fuzzers, strays, launched, camp, force, prog,
                   forced, commits>>

\* The runner is killed.  Its mfuzz process has a session of its own and goes
\* on, unless the host goes down too.
Crash(r) ==
    /\ pc[r] # "idle"
    /\ MoreTrouble
    /\ trouble' = trouble + 1
    /\ \/ /\ orphans' = orphans \cup Left(r)
          /\ UNCHANGED <<fuzzers, strays>>
       \/ /\ fuzzers' = {f \in fuzzers : f.id # child[r]}
          /\ strays' = strays \ {child[r]}
          /\ UNCHANGED orphans
    /\ Exit(r, lock)
    /\ UNCHANGED <<runVars, logVars, launched, forced, commits>>

-----------------------------------------------------------------------------

RunnerStep(r) ==
    \/ CheckStatus(r) \/ LockTest(r) \/ LockRead(r) \/ LockJudge(r)
    \/ LockUnlink(r) \/ LockCreate(r) \/ LockWrite(r)
    \/ LoadProgress(r) \/ CleanRuntime(r) \/ MarkRunning(r) \/ LaunchSegment(r)
    \/ JoinOutput(r) \/ AppendCoverage(r) \/ SaveProgress(r) \/ Finish(r) \/ ReleaseLock(r)

FuzzerStep ==
    \/ \E f \in fuzzers :
          FuzzerLogs(f) \/ FuzzerCommits(f) \/ \E ok \in BOOLEAN : FuzzerExits(f, ok)
    \/ StrayEnds

Next ==
    \/ \E r \in Runners :
          \/ \E c \in Campaigns, f \in BOOLEAN : Invoke(r, c, f)
          \/ RunnerStep(r)
          \/ Interrupt(r) \/ InterruptElsewhere(r)
          \/ Crash(r)
    \/ FuzzerStep

Spec == Init /\ [][Next]_vars

(***************************************************************************)
(* Properties.                                                             *)
(***************************************************************************)

\* O_CREAT | O_EXCL works as a lock: whatever crashes, two runners work on one
\* campaign only after acquire_lock has removed a lock of it.
OverlapNeedsReclaim == overlapped \subseteq reclaimed

\* status.json says "complete" only of a campaign whose saved progress covers
\* its whole duration, wherever earlier invocations were interrupted.  The
\* exception is --force with an mfuzz that commits: reconcile_checkpoint then
\* replaces the saved progress while status.json still says "complete".
CompleteMeansDone ==
    ~(commits /\ forced > 0) => \A c \in Campaigns \ overlapped :
        status[c] = "complete" => progress[c] # None /\ progress[c].done = Duration

\* One segment ends where the next one begins, or before it if gaps are allowed.
Meet(t, u, gaps) == t = u \/ (gaps /\ t <= u)

\* The segments of a progress record cover its completed seconds, from 0 on.
Tiles(p, gaps) ==
    /\ Meet(IF p.segs = <<>> THEN 0 ELSE p.segs[Len(p.segs)].until, p.done, gaps)
    /\ \A i \in 1 .. Len(p.segs) :
          /\ Meet(IF i = 1 THEN 0 ELSE p.segs[i - 1].until, p.segs[i].from, gaps)
          /\ p.segs[i].until = p.segs[i].from + SegmentDuration(p.segs[i].from)

\* The completed segments tile the elapsed time: no hour is run twice, skipped
\* or counted twice, and the last segment is cut to the duration, even if two
\* runners work on the campaign.  Only hours that mfuzz has committed and that
\* are recovered from checkpoint.json have no segment.
SegmentsTile == \A c \in Campaigns : progress[c] # None => Tiles(progress[c], commits)

\* What summarize_coverage.py reads at the end of a completed segment, the
\* last row with that elapsed time, comes from the mfuzz process of that
\* segment, even if a crash left the row of an earlier attempt behind.  This
\* needs an mfuzz that has logged something (one without drivers exits with 0
\* and no log, and the segment counts as completed without a row), that had the
\* benchmark directory to itself (the log is shared), and no --force (it keeps
\* the rows of the discarded campaign).
SummaryReadsCommitted ==
    \A c \in Campaigns \ overlapped : status[c] = "complete" /\ forced = 0 =>
        \A i \in 1 .. Len(progress[c].segs) :
            LET g  == progress[c].segs[i]
                at == {j \in 1 .. Len(rows[c]) : rows[c][j].at = g.until}
            IN  g.by \notin silent \cup disturbed =>
                   \E j \in at : rows[c][j].by = g.by /\ \A k \in at : k <= j

\* "losing at most one hour of accounted time": every crash, interrupt or
\* failure costs at most the one segment it interrupted (--force, which gives up
\* the progress on purpose, aside).
LossBound ==
    forced = 0 => \A c \in Campaigns \ overlapped :
        launched[c] <= (IF progress[c] = None THEN 0 ELSE Len(progress[c].segs))
                       + trouble + Cardinality({r \in Runners : child[r] # None /\ camp[r] = c})

\* While a segment runs, nothing of an earlier segment of the campaign is still at
\* work in the benchmark directory, neither mfuzz nor a honggfuzz that survived
\* it: a runner whose segment fails, or that is interrupted, keeps the lock until
\* the pipes are closed.  The exceptions are a runner that is killed, and one that
\* is interrupted before it waits or once more in join.
NothingLeftBehind ==
    \A r \in Runners : pc[r] = "wait" /\ camp[r] \notin overlapped =>
        \A p \in ({f.id : f \in fuzzers} \cup strays) \ orphans :
            p[1] = camp[r] => p = child[r]

\* experiments/README.md: "Re-submitting the same array is safe".
OneOwner == overlapped = {}

=============================================================================
