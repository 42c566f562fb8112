---------------------------- MODULE Experiments ----------------------------
(***************************************************************************)
(* The experiment driver, tools/experiments/run_experiments.py: a pool of  *)
(* worker threads, each executing run_one of module Campaign on the runs   *)
(* of one executable after the other.                                      *)
(*                                                                         *)
(* The runners of Campaign are the threads of one process here.  A run_one *)
(* that returns goes back to run_subject, and the process dies with all of *)
(* its threads.  KeyboardInterrupt reaches the main thread only, which     *)
(* signals the mfuzz processes registered in _ACTIVE_PIDS.                 *)
(***************************************************************************)
EXTENDS Campaign

CONSTANT BySubject  \* the runs grouped by executable, in the order submitted

ASSUME BySubjectAssumption ==
    /\ BySubject \in Seq(Seq(Campaigns))
    /\ \A i, j \in 1 .. Len(BySubject) : i # j =>
          \A k \in 1 .. Len(BySubject[i]), l \in 1 .. Len(BySubject[j]) :
              Benchmark[BySubject[i][k]] # Benchmark[BySubject[j][l]]

VARIABLES proc,    \* "off", "pool", "terminated" or "exiting"
          futures, \* submitted, and not yet taken by a worker
          todo,    \* what is left of a worker's subject_runs
          active,  \* _ACTIVE_PIDS
          hit      \* history: runs whose mfuzz this invocation has terminated

poolVars == <<proc, futures, todo, active, hit>>
allVars  == <<vars, poolVars>>

PoolInit ==
    /\ Init
    /\ proc = "off"
    /\ futures = <<>>
    /\ todo = [w \in Runners |-> <<>>]
    /\ active = {} /\ hit = {}

-----------------------------------------------------------------------------

\* Variant: every run is a task of its own.
SubmitEachRun ==
    /\ proc = "off"
    /\ proc' = "pool"
    /\ futures' = [k \in 1 .. Len(BySubject[1]) |-> <<BySubject[1][k]>>] \o Tail(BySubject)
    /\ hit' = {}
    /\ UNCHANGED <<vars, todo, active>>

\* run_experiments.py is invoked: by_subject, and executor.submit for each.
Submit ==
    /\ proc = "off"
    /\ proc' = "pool"
    /\ futures' = BySubject
    /\ hit' = {}
    /\ UNCHANGED <<vars, todo, active>>

\* An idle worker of the pool takes the next future.
TakeFuture(w) ==
    /\ proc # "off"
    /\ pc[w] = "idle" /\ todo[w] = <<>>
    /\ futures # <<>>
    /\ todo' = [todo EXCEPT ![w] = Head(futures)]
    /\ futures' = Tail(futures)
    /\ UNCHANGED <<vars, proc, active, hit>>

\* run_one(run, force=False)
CallRunOne(w) ==
    /\ pc[w] = "idle" /\ todo[w] # <<>>
    /\ Invoke(w, Head(todo[w]), FALSE)
    /\ UNCHANGED poolVars

\* Variant: the runs after a failed one are executed all the same.
RemainingAfterFailure(w) ==
    IF pc[w] \in {"status", "release"} THEN Tail(todo[w]) ELSE <<>>

\* What run_subject does when run_one ends: "skipped" and "complete" lead to the
\* next run, "failed" and an exception to none.
Remaining(w) ==
    IF pc[w] = "status" \/ (pc[w] = "release" /\ status[camp[w]] = "complete")
    THEN Tail(todo[w]) ELSE <<>>

\* A step of run_one in thread w, and the return to run_subject.  (A lock that
\* an exception leaves behind counts as a dead owner's at once, and not when the
\* process ends: no thread of the process comes to that run again.)
RunOneStep(w) ==
    /\ RunnerStep(w)
    /\ todo' = IF pc'[w] = "idle" THEN [todo EXCEPT ![w] = Remaining(w)] ELSE todo
    /\ UNCHANGED <<proc, futures, active, hit>>

\* _ACTIVE_PIDS.add, after Popen
Register(w) ==
    /\ pc[w] = "wait" /\ child[w] \notin active
    /\ active' = active \cup {child[w]}
    /\ UNCHANGED <<vars, proc, futures, todo, hit>>

\* An mfuzz process logs or commits, or it exits and is discarded from
\* _ACTIVE_PIDS.
SegmentStep(f) ==
    /\ \/ FuzzerLogs(f) /\ UNCHANGED active
       \/ FuzzerCommits(f) /\ UNCHANGED active
       \/ (\E ok \in BOOLEAN : FuzzerExits(f, ok)) /\ active' = active \ {f.id}
    /\ UNCHANGED <<proc, futures, todo, hit>>

\* A honggfuzz that has survived its mfuzz ends.
HonggfuzzEnds ==
    /\ StrayEnds
    /\ UNCHANGED poolVars

-----------------------------------------------------------------------------

\* KeyboardInterrupt: terminate_active_processes.  mfuzz dies of SIGTERM, so wait
\* returns a code other than 0 in the workers concerned, which go on to join the
\* readers of its pipes; its honggfuzz, in another session, may survive.
Terminate ==
    /\ proc = "pool" /\ MoreTrouble
    /\ trouble' = trouble + 1
    /\ proc' = "terminated"
    /\ fuzzers' = {f \in fuzzers : f.id \notin active}
    /\ \E survive \in SUBSET active : strays' = strays \cup survive
    /\ pc' = [w \in Runners |-> IF child[w] \in active THEN "join" ELSE pc[w]]
    /\ hit' = {camp[w] : w \in {x \in Runners : child[x] \in active}}
    /\ active' = {}
    /\ UNCHANGED <<runVars, lockVars, logVars, orphans, child, launched, camp, force, prog,
                   forced, commits, futures, todo>>

\* executor.shutdown(wait=False, cancel_futures=True); return 130
Shutdown ==
    /\ proc = "terminated"
    /\ proc' = "exiting"
    /\ futures' = <<>>
    /\ UNCHANGED <<vars, todo, active, hit>>

\* The process ends when its workers have: executor.shutdown(wait=True), or the
\* join at the exit of the interpreter.
PoolEnds ==
    /\ proc \in {"pool", "exiting"}
    /\ futures = <<>>
    /\ \A w \in Runners : todo[w] = <<>>
    /\ proc' = "off"
    /\ UNCHANGED <<vars, futures, todo, active, hit>>

\* Worker w waits for the pipes that a surviving honggfuzz holds open.
Stuck(w) == pc[w] = "join" /\ child[w] \in strays

\* The process is killed, with all its threads, as it must be when a worker is
\* stuck; or the host goes down, with the processes of the segments too.
ProcessDies ==
    /\ proc # "off"
    /\ MoreTrouble \/ \E w \in Runners : Stuck(w)
    /\ trouble' = trouble + 1
    /\ proc' = "off"
    /\ futures' = <<>>
    /\ todo' = [w \in Runners |-> <<>>]
    /\ active' = {} /\ hit' = {}
    /\ UNCHANGED <<fuzzers, strays>> \/ (fuzzers' = {} /\ strays' = {})
    /\ orphans' = {f.id : f \in fuzzers'} \cup strays'
    /\ pc' = [w \in Runners |-> "idle"]
    /\ camp' = [w \in Runners |-> None]
    /\ prog' = [w \in Runners |-> NewRun]
    /\ child' = [w \in Runners |-> None]
    /\ owner' = [w \in Runners |-> NoLock]
    /\ lock' = [c \in Campaigns |->
                  IF lock[c].st = "live" THEN [lock[c] EXCEPT !.st = "dead"] ELSE lock[c]]
    /\ UNCHANGED <<runVars, reclaimed, overlapped, logVars, launched, force, forced, commits>>

-----------------------------------------------------------------------------

WorkerStep(w) == TakeFuture(w) \/ CallRunOne(w) \/ RunOneStep(w) \/ Register(w)

PoolNext ==
    \/ Submit \/ Terminate \/ Shutdown \/ PoolEnds \/ ProcessDies
    \/ \E w \in Runners : WorkerStep(w)
    \/ \E f \in fuzzers : SegmentStep(f)
    \/ HonggfuzzEnds

PoolSpec == PoolInit /\ [][PoolNext]_allVars

\* Threads and mfuzz processes run, the main thread returns, and whoever runs
\* the experiments invokes the driver again ("Invoke this script again after
\* interruption").  A honggfuzz without its mfuzz need not end, and nobody need
\* kill a driver that waits for it.
FairPoolSpec ==
    /\ PoolSpec
    /\ WF_allVars(Submit)
    /\ WF_allVars(Shutdown)
    /\ WF_allVars(PoolEnds)
    /\ \A w \in Runners : WF_allVars(WorkerStep(w))
    /\ WF_allVars(\E f \in fuzzers : SegmentStep(f))

(***************************************************************************)
(* Properties.                                                             *)
(***************************************************************************)

\* "one worker per executable": no two segments are at work in one benchmark
\* directory, be it with their mfuzz or with a honggfuzz that survived it, unless
\* one of them was left behind by an invocation that was killed: it has a session
\* of its own, and the lock that is reclaimed after the dead pid does not cover it.
OneFuzzerPerDirectory ==
    \A p, q \in {f.id : f \in fuzzers} \cup strays :
        p # q /\ Directory(p) = Directory(q) => {p, q} \cap orphans # {}

\* "The corpus persists": clean_runtime empties the directory that the campaigns
\* of an executable share only when each of them is complete or has not completed
\* a segment, for run_subject starts no campaign after one that did not complete.
\* (This is about the files; honggfuzz does not read fuzz/out again.)
CleansNothingUnfinished ==
    \A w \in Runners : pc[w] = "clean" /\ prog[w] = NewRun =>
        \A c \in Campaigns : Benchmark[c] = Benchmark[camp[w]] =>
            status[c] = "complete" \/ progress[c] = None

\* Ctrl-C: a campaign whose mfuzz was terminated is not taken up again by this
\* invocation, and neither is another one of that executable.  (A worker that
\* was between two segments, or between Popen and the registration, goes on.)
TerminatedStaysDown ==
    \A w \in Runners, c \in hit :
        pc[w] = "wait" => Benchmark[camp[w]] # Benchmark[c]

\* Interrupts, killed invocations, failing segments and locks left behind do not
\* keep the campaigns of a matrix from completing once the driver is invoked
\* again and again; only a honggfuzz that survives the mfuzz of a failed or
\* terminated segment does, which holds its worker, and with it the driver, for as
\* long as it runs.
AllComplete ==
    \/ <>[](\A c \in Campaigns : status[c] = "complete")
    \/ <>[](\E w \in Runners : Stuck(w))

=============================================================================
