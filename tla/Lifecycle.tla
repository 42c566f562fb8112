----------------------------- MODULE Lifecycle -----------------------------
(***************************************************************************)
(* How mfuzz starts and stops honggfuzz.                                   *)
(*                                                                         *)
(* The worker thread runs start_fuzzer: scheduler, fork, the policy loop   *)
(* (the steps of Schedule), stop_fuzzer.  The main thread waits for SIGINT *)
(* or for the worker, runs stop_fuzzer and joins the worker.  Both may be  *)
(* in stop_fuzzer at the same time, without a lock: scheduler, stopped and *)
(* fuzzer_pid are plain members, and fuzzer_pid has no value before the    *)
(* fork.                                                                   *)
(***************************************************************************)
EXTENDS Schedule

CONSTANTS MayFail,      \* start_fuzzer may return early
          MayInterrupt, \* SIGINT or SIGTERM may be sent to mfuzz
          MayDie        \* honggfuzz may die, and mfuzz give up waiting for it
                        \* to load a driver

ASSUME LifecycleAssumption ==
    /\ MayFail \in BOOLEAN /\ MayInterrupt \in BOOLEAN /\ MayDie \in BOOLEAN

Threads == {"main", "worker"}

VARIABLES at,        \* where the two threads are; pc is inside the policy loop
          mfuzz,     \* the process: "runs", "exited", "aborted" or "crashed"
          g_stop, g_done,
          scheduler, \* it has been built
          session,   \* the session directory exists
          fuzzer_pid, \* "child", "minus" (-1), or "garbage": not yet assigned
          pid,       \* what a thread read of fuzzer_pid when it tested it
          hf,        \* the child: "none", "copy" of mfuzz before execvp, honggfuzz that
                     \* "boots", "runs" or "stops", "zombie", "reaped"
          failed,    \* history: start_fuzzer has returned early
          early,     \* history: SIGINT came before fuzzer_pid had a value, and
                     \* the bytes there happened to be positive
          abrupt,    \* history: honggfuzz was cut off while it stopped
          stray,     \* history: SIGINT was sent to something else
          swallowed  \* history: SIGINT reached the child before execvp

state == <<g_stop, g_done, scheduler, session, fuzzer_pid>>
lifeVars == <<at, mfuzz, state, pid, hf, failed, early, abrupt, stray, swallowed>>
allVars == <<vars, lifeVars>>

At(t, l) == mfuzz = "runs" /\ at[t] = l
Goto(t, l) == at' = [at EXCEPT ![t] = l]

\* The constructor of MFuzz has made the session directory and left fuzzer_pid
\* as it was.
LifeInit ==
    /\ Init
    /\ at = [t \in Threads |-> IF t = "main" THEN "poll" ELSE "setup"]
    /\ mfuzz = "runs"
    /\ g_stop = FALSE /\ g_done = FALSE
    /\ scheduler = FALSE
    /\ session = TRUE
    /\ fuzzer_pid \in {"minus", "garbage"}
    /\ pid = [t \in Threads |-> "minus"]
    /\ hf = "none"
    /\ failed = FALSE /\ early = FALSE /\ abrupt = FALSE /\ stray = FALSE
    /\ swallowed = FALSE

(***************************************************************************)
(* start_fuzzer                                                            *)
(***************************************************************************)

\* The benchmark is there: build the scheduler.
Setup ==
    /\ At("worker", "setup")
    /\ scheduler' = TRUE
    /\ Goto("worker", "fork")
    /\ UNCHANGED <<vars, mfuzz, g_stop, g_done, session, fuzzer_pid, pid, hf, failed, early,
                   abrupt, stray, swallowed>>

\* No benchmark; or no driver, or no fork.
SetupFails ==
    /\ MayFail
    /\ \E l \in {"setup", "fork"} : At("worker", l)
    /\ failed' = TRUE
    /\ Goto("worker", "done")
    /\ UNCHANGED <<vars, mfuzz, state, pid, hf, early, abrupt, stray, swallowed>>

Fork ==
    /\ At("worker", "fork")
    /\ hf' = "copy"
    /\ Goto("worker", "forked")
    /\ UNCHANGED <<vars, mfuzz, state, pid, failed, early, abrupt, stray, swallowed>>

SetPid ==
    /\ At("worker", "forked")
    /\ fuzzer_pid' = "child"
    /\ Goto("worker", "policy")
    /\ UNCHANGED <<vars, mfuzz, g_stop, g_done, scheduler, session, pid, hf, failed, early,
                   abrupt, stray, swallowed>>

\* A step of run_schedule_policy.
PolicyStep ==
    /\ At("worker", "policy")
    /\ Sleep \/ Proceed \/ Switch
    /\ UNCHANGED lifeVars

\* It ends because of stopped, or of the budget.
PolicyEnds ==
    /\ At("worker", "policy")
    /\ Finish
    /\ Goto("worker", "stop")
    /\ UNCHANGED <<mfuzz, state, pid, hf, failed, early, abrupt, stray, swallowed>>

\* waitForDriverLoad gives up: exit(1), from the worker thread.
GiveUp ==
    /\ MayDie
    /\ At("worker", "policy") /\ pc = "switch"
    /\ mfuzz' = "aborted"
    /\ UNCHANGED <<vars, at, state, pid, hf, failed, early, abrupt, stray, swallowed>>

WorkerDone ==
    /\ At("worker", "done")
    /\ g_done' = TRUE
    /\ Goto("worker", "end")
    /\ UNCHANGED <<vars, mfuzz, g_stop, scheduler, session, fuzzer_pid, pid, hf, failed,
                   early, abrupt, stray, swallowed>>

(***************************************************************************)
(* main                                                                    *)
(***************************************************************************)

Sigint ==
    /\ MayInterrupt
    /\ mfuzz = "runs"
    /\ g_stop' = TRUE
    /\ early' = (early \/ fuzzer_pid = "garbage")
    /\ UNCHANGED <<vars, at, mfuzz, g_done, scheduler, session, fuzzer_pid, pid, hf, failed,
                   abrupt, stray, swallowed>>

\* mfuzz has no handler for SIGTERM, which is how a campaign runner stops it.
Sigterm ==
    /\ MayInterrupt
    /\ mfuzz = "runs"
    /\ mfuzz' = "aborted"
    /\ UNCHANGED <<vars, at, state, pid, hf, failed, early, abrupt, stray, swallowed>>

Poll ==
    /\ At("main", "poll")
    /\ g_stop \/ g_done
    /\ Goto("main", "stop")
    /\ UNCHANGED <<vars, mfuzz, state, pid, hf, failed, early, abrupt, stray, swallowed>>

\* Variant: the main thread does not join.
JoinNot ==
    /\ At("main", "join")
    /\ mfuzz' = "exited"
    /\ UNCHANGED <<vars, at, state, pid, hf, failed, early, abrupt, stray, swallowed>>

\* worker.join, and the end of main
Join ==
    /\ At("main", "join")
    /\ at["worker"] = "end"
    /\ mfuzz' = "exited"
    /\ UNCHANGED <<vars, at, state, pid, hf, failed, early, abrupt, stray, swallowed>>

(***************************************************************************)
(* stop_fuzzer, by either thread                                           *)
(***************************************************************************)

Return(t) == IF t = "main" THEN "join" ELSE "done"

\* stopped = true; scheduler->dump()
Dump(t) ==
    /\ At(t, "stop")
    /\ stopped' = TRUE
    /\ mfuzz' = IF scheduler THEN mfuzz ELSE "crashed"
    /\ Goto(t, "test")
    /\ UNCHANGED <<loopVars, g_stop, g_done, scheduler, session, fuzzer_pid, pid, hf,
                   failed, early, abrupt, stray, swallowed>>

\* fuzzer_pid > 0
Test(t) ==
    /\ At(t, "test")
    /\ pid' = [pid EXCEPT ![t] = fuzzer_pid]
    /\ Goto(t, IF fuzzer_pid = "minus" THEN "clean" ELSE "kill")
    /\ UNCHANGED <<vars, mfuzz, state, hf, failed, early, abrupt, stray, swallowed>>

\* kill(fuzzer_pid, SIGINT), with fuzzer_pid as it was tested or read again.
\* The child has mfuzz's handler until execvp, so the signal has no effect there;
\* then it dies of it until it has its own handlers; a second signal cuts it off,
\* unless the first one is still pending and the two merge.
\* -1 goes to every process, so also to honggfuzz.
Kill(t) ==
    /\ At(t, "kill")
    /\ \E p \in {pid[t], fuzzer_pid} :
          /\ stray' = (stray \/ p # "child" \/ hf = "reaped")
          /\ swallowed' = (swallowed \/ (p # "garbage" /\ hf = "copy"))
          /\ IF p = "garbage" THEN UNCHANGED <<hf, abrupt>>
             ELSE /\ \/ hf = "boots" /\ hf' = "zombie"
                     \/ hf = "runs"  /\ hf' = "stops"
                     \/ hf = "stops" /\ hf' \in {"stops", "zombie"}
                     \/ hf \in {"none", "copy", "zombie", "reaped"} /\ UNCHANGED hf
                  /\ abrupt' = (abrupt \/ (hf = "stops" /\ hf' = "zombie"))
    /\ Goto(t, "reap")
    /\ UNCHANGED <<vars, mfuzz, state, pid, failed, early>>

\* Variant: waits until it has reaped honggfuzz itself.
ReapItself(t) ==
    /\ At(t, "reap")
    /\ hf = "zombie" /\ hf' = "reaped"
    /\ Goto(t, "clear")
    /\ UNCHANGED <<vars, mfuzz, state, pid, failed, early, abrupt, stray, swallowed>>

\* waitpid(fuzzer_pid): blocks while that child runs; returns at once if there
\* is no such child.
Reap(t) ==
    /\ At(t, "reap")
    /\ \/ fuzzer_pid = "garbage" /\ UNCHANGED hf
       \/ hf \in {"none", "reaped"} /\ UNCHANGED hf
       \/ fuzzer_pid # "garbage" /\ hf = "zombie" /\ hf' = "reaped"
    /\ Goto(t, "clear")
    /\ UNCHANGED <<vars, mfuzz, state, pid, failed, early, abrupt, stray, swallowed>>

\* Variant: fuzzer_pid keeps the pid of the process that has gone.
ClearNot(t) ==
    /\ At(t, "clear")
    /\ Goto(t, "clean")
    /\ UNCHANGED <<vars, mfuzz, state, pid, hf, failed, early, abrupt, stray, swallowed>>

\* fuzzer_pid = -1
Clear(t) ==
    /\ At(t, "clear")
    /\ fuzzer_pid' = "minus"
    /\ Goto(t, "clean")
    /\ UNCHANGED <<vars, mfuzz, g_stop, g_done, scheduler, session, pid, hf, failed, early,
                   abrupt, stray, swallowed>>

\* remove_all(session_path)
Clean(t) ==
    /\ At(t, "clean")
    /\ session' = FALSE
    /\ Goto(t, Return(t))
    /\ UNCHANGED <<vars, mfuzz, g_stop, g_done, scheduler, fuzzer_pid, pid, hf, failed,
                   early, abrupt, stray, swallowed>>

(***************************************************************************)
(* honggfuzz                                                               *)
(***************************************************************************)

\* setsid and execvp, which takes mfuzz's handler away
Exec ==
    /\ hf = "copy"
    /\ hf' = "boots"
    /\ UNCHANGED <<vars, at, mfuzz, state, pid, failed, early, abrupt, stray, swallowed>>

\* setupSignalsPreThreads
Boot ==
    /\ hf = "boots"
    /\ hf' = "runs"
    /\ UNCHANGED <<vars, at, mfuzz, state, pid, failed, early, abrupt, stray, swallowed>>

\* mainThreadLoop has left its loop after SIGINT and its threads have finished,
\* or SIGALRM ends it by force after five seconds.
StopFuzzing ==
    /\ hf = "stops"
    /\ hf' = "zombie"
    /\ UNCHANGED <<vars, at, mfuzz, state, pid, failed, early, abrupt, stray, swallowed>>

\* A failed execvp, or a fatal error.
Die ==
    /\ MayDie
    /\ hf \in {"copy", "boots", "runs"}
    /\ hf' = "zombie"
    /\ UNCHANGED <<vars, at, mfuzz, state, pid, failed, early, abrupt, stray, swallowed>>

-----------------------------------------------------------------------------

Step(t) == Dump(t) \/ Test(t) \/ Kill(t) \/ Reap(t) \/ Clear(t) \/ Clean(t)

WorkerStep ==
    \/ Setup \/ SetupFails \/ Fork \/ SetPid
    \/ PolicyStep \/ PolicyEnds \/ GiveUp \/ WorkerDone
    \/ Step("worker")

MainStep == Poll \/ Join \/ Step("main")

FuzzerStep == Exec \/ Boot \/ StopFuzzing

LifeNext ==
    \/ WorkerStep \/ MainStep \/ Sigint \/ Sigterm
    \/ FuzzerStep \/ Die

LifeSpec == LifeInit /\ [][LifeNext]_allVars

\* The threads and honggfuzz run.
FairLifeSpec ==
    /\ LifeSpec
    /\ WF_allVars(WorkerStep)
    /\ WF_allVars(MainStep)
    /\ WF_allVars(FuzzerStep)

(***************************************************************************)
(* Properties.                                                             *)
(***************************************************************************)

\* When main returns, honggfuzz has been waited for and the session directory
\* is gone, however SIGINT, the end of the budget and the two calls of
\* stop_fuzzer interleave; unless an early SIGINT finds fuzzer_pid positive.
ExitCleansUp == mfuzz = "exited" /\ ~early => hf \in {"none", "reaped"} /\ ~session

\* If nobody interrupts mfuzz, stop_fuzzer's SIGINT goes to honggfuzz once, so
\* that it may stop in its own time, and (if start_fuzzer got as far as the
\* fork) to nothing else, although both threads call stop_fuzzer.
SignalsItsOwnFuzzer == (abrupt => g_stop) /\ (stray => g_stop \/ failed)

\* mfuzz ends, whatever the policy: the two threads do not get each other stuck
\* in waitpid and join.  The only other outcome is that stop_fuzzer's SIGINT came
\* before execvp, where the child still has mfuzz's on_sigint: if no second one
\* follows, honggfuzz runs on and mfuzz waits for it for ever.
MfuzzEnds == <>(mfuzz # "runs") \/ <>[](swallowed /\ hf = "runs")

=============================================================================
