------------------------------- MODULE Engine -------------------------------
(***************************************************************************)
(* honggfuzz as a process: the main thread and its signal handler          *)
(* (honggfuzz.c), the fuzzing threads with the barrier between the dry run *)
(* and the main phase (fuzz.c), and the child of each thread with its time *)
(* limit, its persistent rounds and its end (subproc.c, linux/arch.c).     *)
(* mfuzz runs honggfuzz with one thread; the code is written for any       *)
(* number.  Input selection is DynQueue's subject, drivers are             *)
(* DriverTable's; the socket fuzzer and the static mode are left out.      *)
(***************************************************************************)
EXTENDS Integers, FiniteSets

CONSTANTS
    Threads,        \* the threads asked for with -n
    None,
    StaticFiles,    \* files of the input directory
    Limits          \* values of -N; 0 is no limit

ASSUME ThreadsAssumption == IsFiniteSet(Threads) /\ Threads # {}
ASSUME NoneAssumption == None \notin Threads
ASSUME FilesAssumption == StaticFiles \in Nat
ASSUME LimitsAssumption == Limits \subseteq Nat

VARIABLES
    cfg,        \* the options, fixed at the start
    started,    \* the threads that are started: threadsMax
    sig,        \* sigReceived # 0
    term,       \* termTimeStamp # 0
    proc,       \* "runs", "exited" (main returned), "forced"
    mpc,        \* mainThreadLoop: "loop", "drain"
    crashed,    \* crashesCnt > 0, kept only if --exit_upon_crash uses it
    finished,   \* threadsFinished
    state,      \* feedback.state: "dry", "main", "minimize"
    files,      \* static files not yet taken
    mutations,  \* mutationsCnt, up to the limit
    cnt,        \* the counter of fuzz_setDynamicMainState
    reported,   \* the threads that have counted themselves in it
    lock,       \* owner of mutex.state
    pc, input,  \* per thread: where it is, what it runs
    child,      \* per thread: the target, see below
    tmo         \* per thread: tmOutSignaled

\* A target is absent, executing an input, waiting for the next one
\* (persistent mode), or dead and not yet waited for.
ChildStates == {"none", "busy", "idle", "exited", "crashed"}
Alive(c) == c \in {"busy", "idle"}
Dead(c) == c \in {"exited", "crashed"}

mainVars == <<sig, proc, mpc, finished>>
phaseVars == <<state, files, cnt, reported, lock>>
runVars == <<child, tmo, crashed>>
vars == <<cfg, started, mainVars, term, phaseVars, mutations, pc, input, runVars>>

ThreadsMax == Cardinality(started)

Configs == [persistent : BOOLEAN, minimize : BOOLEAN, exitUponCrash : BOOLEAN,
            tmOut : BOOLEAN, limit : Limits]

\* fuzz_threadsStart; minimization runs on one thread.
Init ==
    /\ cfg \in Configs
    /\ started \in SUBSET Threads
    /\ IF cfg.minimize THEN Cardinality(started) = 1 ELSE started = Threads
    /\ sig = FALSE /\ term = FALSE /\ proc = "runs" /\ mpc = "loop"
    /\ crashed = FALSE /\ finished = 0
    /\ state = "dry" /\ files = StaticFiles /\ mutations = 0
    /\ cnt = 0 /\ reported = {} /\ lock = None
    /\ pc = [t \in started |-> "iter"]
    /\ input = [t \in started |-> "none"]
    /\ child = [t \in started |-> "none"]
    /\ tmo = [t \in started |-> FALSE]

Go(t, from, to) ==
    /\ proc = "runs"
    /\ pc[t] = from
    /\ pc' = [pc EXCEPT ![t] = to]

(***************************************************************************)
(* fuzz_threadNew and fuzz_fetchInput                                      *)
(***************************************************************************)

\* Variant: iterations are not counted.
IterateUncounted(t) ==
    /\ Go(t, "iter", "fetch")
    /\ UNCHANGED <<cfg, started, mainVars, term, phaseVars, mutations, input,
                   runVars>>

\* The iteration limit, counted over all threads.
Iterate(t) ==
    LET over == cfg.limit # 0 /\ mutations >= cfg.limit IN
    /\ Go(t, "iter", IF over THEN "quit" ELSE "fetch")
    /\ mutations' = IF mutations < cfg.limit THEN mutations + 1 ELSE mutations
    /\ UNCHANGED <<cfg, started, mainVars, term, phaseVars, input, runVars>>

\* Dry run: the next file of the input directory.
FetchStatic(t) ==
    /\ Go(t, "fetch", "run")
    /\ state = "dry" /\ files > 0
    /\ files' = files - 1
    /\ input' = [input EXCEPT ![t] = "static"]
    /\ UNCHANGED <<cfg, started, mainVars, term, state, cnt, reported, lock,
                   mutations, runVars>>

FetchSwitched(t) ==
    /\ Go(t, "fetch", "input")
    /\ state # "dry"
    /\ UNCHANGED <<cfg, started, mainVars, term, phaseVars, mutations, input,
                   runVars>>

\* Variant: a thread counts itself in only once it can have the mutex.
ReportLocked(t) ==
    /\ Go(t, "fetch", "lock")
    /\ state = "dry" /\ files = 0 /\ lock = None
    /\ cnt' = cnt + 1
    /\ reported' = reported \cup {t}
    /\ UNCHANGED <<cfg, started, mainVars, term, state, files, lock, mutations,
                   input, runVars>>

\* fuzz_setDynamicMainState: count this thread in, then take mutex.state.
Report(t) ==
    /\ Go(t, "fetch", "lock")
    /\ state = "dry" /\ files = 0
    /\ cnt' = cnt + 1
    /\ reported' = reported \cup {t}
    /\ UNCHANGED <<cfg, started, mainVars, term, state, files, lock, mutations,
                   input, runVars>>

TakeLock(t) ==
    /\ Go(t, "lock", IF state = "dry" THEN "barrier" ELSE "input")
    /\ lock = None
    /\ lock' = IF state = "dry" THEN t ELSE None
    /\ UNCHANGED <<cfg, started, mainVars, term, state, files, cnt, reported,
                   mutations, input, runVars>>

\* Variant: the first thread to come does not wait for the others.
SwitchEarly(t) ==
    /\ Go(t, "barrier", "input")
    /\ state' = IF cfg.minimize THEN "minimize" ELSE "main"
    /\ lock' = None
    /\ UNCHANGED <<cfg, started, mainVars, term, files, cnt, reported, mutations,
                   input, runVars>>

\* All threads have counted themselves in.
Switch(t) ==
    /\ Go(t, "barrier", "input")
    /\ cnt = ThreadsMax
    /\ state' = IF cfg.minimize THEN "minimize" ELSE "main"
    /\ lock' = None
    /\ UNCHANGED <<cfg, started, mainVars, term, files, cnt, reported, mutations,
                   input, runVars>>

\* Variant: the wait for the other threads does not look at the termination.
StayInBarrier(t) ==
    /\ Go(t, "barrier", "barrier")
    /\ cnt # ThreadsMax /\ term
    /\ UNCHANGED <<cfg, started, mainVars, term, phaseVars, mutations, input,
                   runVars>>

LeaveBarrier(t) ==
    /\ Go(t, "barrier", "input")
    /\ cnt # ThreadsMax /\ term
    /\ lock' = None
    /\ UNCHANGED <<cfg, started, mainVars, term, state, files, cnt, reported,
                   mutations, input, runVars>>

\* The rest of fuzz_fetchInput: a mutated input, or, when the barrier was left
\* because honggfuzz terminates, whatever the buffer holds.
FetchDynamic(t) ==
    /\ Go(t, "input", "run")
    /\ state # "minimize"
    /\ input' = [input EXCEPT ![t] = IF state = "main" THEN "dynamic" ELSE "none"]
    /\ UNCHANGED <<cfg, started, mainVars, term, phaseVars, mutations, runVars>>

\* Minimization is over; fuzz_fuzzLoop terminates the process.
Minimized(t) ==
    /\ Go(t, "input", "loopend")
    /\ state = "minimize"
    /\ term' = TRUE
    /\ UNCHANGED <<cfg, started, mainVars, phaseVars, mutations, input, runVars>>

(***************************************************************************)
(* subproc_Run, arch_reapChild and the end of the iteration                *)
(***************************************************************************)

SetChild(t, c) == child' = [child EXCEPT ![t] = c]

\* subproc_New: a new process, or the next round of the persistent one, which
\* may have died since its last round.
StartTarget(t) ==
    /\ Go(t, "run", "reap")
    /\ SetChild(t, IF Dead(child[t]) THEN child[t] ELSE "busy")
    /\ tmo' = [tmo EXCEPT ![t] = FALSE]
    /\ UNCHANGED <<cfg, started, mainVars, term, phaseVars, mutations, input,
                   crashed>>

\* The child cannot execute the target and sends SIGTERM to the main process.
LaunchFails(t) ==
    /\ child[t] = "none"
    /\ Go(t, "run", "reap")
    /\ SetChild(t, "exited")
    /\ tmo' = [tmo EXCEPT ![t] = FALSE]
    /\ sig' = TRUE
    /\ proc' = IF sig THEN "forced" ELSE proc
    /\ UNCHANGED <<cfg, started, mpc, finished, term, phaseVars, mutations,
                   input, crashed>>

\* subproc_checkTimeLimit: the first signal, SIGVTALRM or SIGKILL by option;
\* the target may survive the former.
TimeLimit(t) ==
    /\ Go(t, "reap", "reap")
    /\ cfg.tmOut /\ ~tmo[t] /\ child[t] = "busy"
    /\ tmo' = [tmo EXCEPT ![t] = TRUE]
    /\ \E c \in {"busy", "exited", "crashed"} : SetChild(t, c)
    /\ UNCHANGED <<cfg, started, mainVars, term, phaseVars, mutations, input,
                   crashed>>

Kill(t) ==
    /\ Go(t, "reap", "reap")
    /\ Alive(child[t])
    /\ SetChild(t, "exited")
    /\ UNCHANGED <<cfg, started, mainVars, term, phaseVars, mutations, input, tmo,
                   crashed>>

\* subproc_checkTimeLimit, a second later: SIGKILL.
TimeLimitKill(t) == cfg.tmOut /\ tmo[t] /\ Kill(t)

\* subproc_checkTermination
TerminationKill(t) == term /\ Kill(t)

\* The persistent target is ready for the next input; it stays alive.
RoundDone(t) ==
    /\ Go(t, "reap", "loopend")
    /\ child[t] = "idle"
    /\ UNCHANGED <<cfg, started, mainVars, term, phaseVars, mutations, input,
                   runVars>>

\* arch_checkWait has waited for the dead target; a crash is counted.
Reap(t) ==
    /\ Go(t, "reap", "loopend")
    /\ Dead(child[t])
    /\ SetChild(t, "none")
    /\ crashed' = (crashed \/ (cfg.exitUponCrash /\ child[t] = "crashed"))
    /\ UNCHANGED <<cfg, started, mainVars, term, phaseVars, mutations, input, tmo>>

LoopEnd(t) ==
    /\ Go(t, "loopend", IF term \/ crashed THEN "quit" ELSE "iter")
    /\ term' = (term \/ crashed)
    /\ UNCHANGED <<cfg, started, mainVars, phaseVars, mutations, input, runVars>>

\* Variant: a thread that ends leaves its persistent target alone.
QuitKeepingTarget(t) ==
    /\ Go(t, "quit", "end")
    /\ finished' = finished + 1
    /\ UNCHANGED <<cfg, started, sig, proc, mpc, term, phaseVars, mutations,
                   input, runVars>>

\* The end of fuzz_threadNew: a persistent target that is left is killed.
Quit(t) ==
    /\ Go(t, "quit", "end")
    /\ SetChild(t, IF Alive(child[t]) THEN "exited" ELSE child[t])
    /\ finished' = finished + 1
    /\ UNCHANGED <<cfg, started, sig, proc, mpc, term, phaseVars, mutations,
                   input, tmo, crashed>>

(***************************************************************************)
(* The target (external), the main thread and the signals                  *)
(***************************************************************************)

\* The target exits or crashes, also between two persistent rounds.
TargetEnds(t) ==
    /\ Alive(child[t])
    /\ \E c \in {"exited", "crashed"} : SetChild(t, c)
    /\ UNCHANGED <<cfg, started, mainVars, term, phaseVars, mutations, pc, input,
                   tmo, crashed>>

TargetReady(t) ==
    /\ cfg.persistent /\ child[t] = "busy"
    /\ SetChild(t, "idle")
    /\ UNCHANGED <<cfg, started, mainVars, term, phaseVars, mutations, pc, input,
                   tmo, crashed>>

\* sigHandler: SIGTERM, SIGINT or SIGQUIT; a second one exits at once.
Signal ==
    /\ proc = "runs"
    /\ sig' = TRUE
    /\ proc' = IF sig THEN "forced" ELSE proc
    /\ UNCHANGED <<cfg, started, mpc, finished, term, phaseVars, mutations, pc,
                   input, runVars>>

\* sigHandler on SIGALRM, more than five seconds after the termination began.
AlarmForces ==
    /\ proc = "runs" /\ term
    /\ proc' = "forced"
    /\ UNCHANGED <<cfg, started, sig, mpc, finished, term, phaseVars, mutations,
                   pc, input, runVars>>

\* mainThreadLoop leaves its first loop.
BreakLoop ==
    /\ proc = "runs" /\ mpc = "loop"
    /\ mpc' = "drain"
    /\ term' = TRUE
    /\ UNCHANGED <<cfg, started, sig, proc, finished, phaseVars, mutations, pc,
                   input, runVars>>

MainBreaks == (sig \/ finished >= ThreadsMax) /\ BreakLoop

\* --run_time is over, or --exit_on_time without new coverage.
RunTimeOver == BreakLoop

\* The second loop: main waits for the threads and returns.
MainExits ==
    /\ proc = "runs" /\ mpc = "drain" /\ finished >= ThreadsMax
    /\ proc' = "exited"
    /\ UNCHANGED <<cfg, started, sig, mpc, finished, term, phaseVars, mutations,
                   pc, input, runVars>>

\* The process is gone.  Its targets had asked for SIGKILL at that point
\* (util_ParentDeathSigIfAvail in subproc_PrepareExecv).
Ended ==
    /\ proc # "runs"
    /\ child' = [t \in started |-> IF Alive(child[t]) THEN "exited" ELSE child[t]]
    /\ UNCHANGED <<cfg, started, mainVars, term, phaseVars, mutations, pc, input,
                   tmo, crashed>>

-----------------------------------------------------------------------------

ThreadStep(t) ==
    \/ Iterate(t) \/ FetchStatic(t) \/ FetchSwitched(t) \/ Report(t)
    \/ TakeLock(t) \/ Switch(t) \/ LeaveBarrier(t) \/ FetchDynamic(t)
    \/ Minimized(t) \/ StartTarget(t) \/ TimeLimit(t) \/ TimeLimitKill(t)
    \/ TerminationKill(t) \/ RoundDone(t) \/ Reap(t) \/ LoopEnd(t) \/ Quit(t)

MainStep == MainBreaks \/ MainExits

Next ==
    \/ \E t \in started : \/ ThreadStep(t) \/ LaunchFails(t)
                           \/ TargetEnds(t) \/ TargetReady(t)
    \/ MainStep \/ RunTimeOver \/ Signal \/ AlarmForces \/ Ended

Spec == Init /\ [][Next]_vars

\* The threads are scheduled, and sigtimedwait, the sleeps and the interval
\* timer wake them up; mutex.state is held only up to the end of the barrier.
\* Nothing is assumed of the target, of signals or of the forced exit.
FairSpec ==
    /\ Spec
    /\ \A t \in Threads : WF_vars(t \in started /\ ThreadStep(t))
    /\ WF_vars(MainStep)

(***************************************************************************)
(* Properties.                                                             *)
(***************************************************************************)

\* The two phases do not overlap: once honggfuzz has left the dry run, every
\* thread has counted itself in, exactly once, and none of them still runs a
\* file of the input directory for the dry run.
PhasesDisjoint ==
    /\ cnt <= ThreadsMax
    /\ state # "dry" =>
          /\ cnt = ThreadsMax
          /\ \A t \in started : pc[t] \in {"run", "reap"} => input[t] # "static"

\* When main returns, every thread has ended and no target is left running,
\* whether the end came by signal, run time, crash, minimization or limit.
ExitLeavesNoTarget ==
    proc = "exited" =>
        \A t \in started : pc[t] = "end" /\ ~Alive(child[t])

\* A termination signal ends the process even if nothing forces it: no thread
\* stays behind in the barrier, on its mutex or with a target that hangs.
SignalEnds == sig ~> proc # "runs"

\* With a time limit on the target, the dry run is left, however the threads
\* share the files.  The exception is a thread stopped by the iteration limit
\* of -N before it reports: the others wait for it in the barrier until the
\* process is told to terminate.
LeavesDryRun ==
    cfg.tmOut => <>\/ state # "dry" \/ term \/ proc # "runs"
                  \/ \E t \in started \ reported : pc[t] = "end"

\* Past the dry run, the iteration limit ends the process.
LimitEnds ==
    cfg.tmOut /\ cfg.limit # 0 => (state # "dry" ~> proc # "runs")

=============================================================================
