---------------------------- MODULE Mfuzz_proofs ----------------------------
(***************************************************************************)
(* Proofs about the two modules of mfuzz.cpp: Schedule, for any number of  *)
(* drivers, budget and window, and Lifecycle, which takes its steps.       *)
(*                                                                         *)
(* Rounds says how far "fixed" and "random" have come: r whole rounds, and *)
(* j windows of the next one, in the order in force, and that the time     *)
(* spent is at most that many windows.  LInv relates the two threads,      *)
(* fuzzer_pid and honggfuzz.                                               *)
(***************************************************************************)
EXTENDS Lifecycle, TLAPS

Rounds(r, j) ==
    /\ pc = "loop" => j = index
    /\ pc \in {"slept", "switch"} => j = index + 1
    /\ \A i \in 1 .. N : turns[order[i]] = IF i <= j THEN r + 1 ELSE r
    /\ elapsed <= (N * r + j) * Window

IInv ==
    /\ TypeOK
    /\ \A d \in 1 .. N : turns[d] <= elapsed
    /\ policy # "progress" => \E r \in Nat, j \in 0 .. N : Rounds(r, j)

-----------------------------------------------------------------------------

\* A permutation is a function, and reaches every driver.
LEMMA OrderFacts ==
    \A o \in Orders : /\ o \in [1 .. N -> 1 .. N]
                      /\ \A i, k \in 1 .. N : o[i] = o[k] => i = k
                      /\ \A d \in 1 .. N : \E i \in 1 .. N : o[i] = d
  BY DEF Orders, Bijection, Injection, Surjection, IsInjective

\* The division of the budget into windows.
LEMMA Quotient ==
    ASSUME NEW b \in Nat, NEW k \in Nat \ {0}
    PROVE  b \div k \in Nat /\ k * (b \div k) <= b
  OBVIOUS

\* (index + 1) % N
LEMMA Wraps ==
    ASSUME NEW i \in 0 .. N - 1, N \in Nat \ {0}
    PROVE  (i + 1) % N = IF i = N - 1 THEN 0 ELSE i + 1
  OBVIOUS

\* A window has at least a second; without -w, twelve windows for every driver
\* fit into a budget that is large enough.
LEMMA WindowFacts ==
    ASSUME TypeOK
    PROVE  /\ Window \in Nat \ {0}
           /\ windowSeconds = 0 /\ budget >= 12 * N => 12 * N * Window <= budget
<1> USE ScheduleAssumption DEF ScheduleAssumption, TypeOK
<1>1. budget \in Nat /\ windowSeconds \in Nat /\ 12 * N \in Nat \ {0}
  OBVIOUS
<1> DEFINE q == budget \div (12 * N)
<1>2. q \in Nat /\ 12 * N * q <= budget
  BY <1>1, Quotient, Zenon
<1>3. Window = IF windowSeconds # 0 THEN windowSeconds ELSE IF q = 0 THEN 1 ELSE q
  BY DEF Window
<1> HIDE DEF q
<1>4. Window \in Nat \ {0}
  BY <1>1, <1>2, <1>3
<1>5. ASSUME windowSeconds = 0, budget >= 12 * N PROVE 12 * N * Window <= budget
  BY <1>1, <1>2, <1>3, <1>5
<1>. QED
  BY <1>4, <1>5
\* A slice is at least a second, at most a window, and does not overdraw.
LEMMA SliceFacts ==
    ASSUME TypeOK, elapsed < budget
    PROVE  Slice \in 1 .. Window /\ elapsed + Slice <= budget
<1>1. budget \in Nat /\ elapsed \in Nat
  BY ScheduleAssumption DEF ScheduleAssumption, TypeOK
<1>. QED
  BY <1>1, WindowFacts DEF Slice

-----------------------------------------------------------------------------

\* Nothing has run when the policy loop is entered.
LEMMA InitIInv == Init => IInv
<1> SUFFICES ASSUME Init PROVE IInv
  OBVIOUS
<1> USE ScheduleAssumption DEF ScheduleAssumption, Init
<1>1. order \in Orders
  BY DEF Orders, Bijection, Injection, Surjection, IsInjective
<1>2. TypeOK
  <2>1. budget \in Nat \ {0} /\ stopped \in BOOLEAN
    BY Zenon
  <2>. QED
    BY <1>1, <2>1 DEF TypeOK
<1>3. Rounds(0, 0)
  <2>1. (N * 0 + 0) * Window = 0
    BY <1>2, WindowFacts
  <2>. QED
    BY <2>1 DEF Rounds
<1>4. \E r \in Nat, j \in 0 .. N : Rounds(r, j)
  BY <1>3
<1>. QED
  BY <1>2, <1>4 DEF IInv

\* A window: one more turn for the current driver, and its time.
LEMMA SleepIInv == IInv /\ Sleep => IInv'
<1> SUFFICES ASSUME IInv, Sleep PROVE IInv'
  OBVIOUS
<1>0. N \in Nat \ {0} /\ TypeOK /\ budget \in Nat /\ elapsed \in Nat
  BY ScheduleAssumption DEF ScheduleAssumption, IInv, TypeOK
<1>1. Slice \in 1 .. Window /\ elapsed + Slice <= budget /\ Window \in Nat
  BY <1>0, SliceFacts, WindowFacts DEF Sleep
<1>2. elapsed' = elapsed + Slice /\ Window' = Window
  BY DEF Sleep, Window, args
<1>3. Current \in 1 .. N /\ Current = order[index + 1] /\ index + 1 \in 1 .. N
  BY <1>0, OrderFacts DEF TypeOK, Current
<1>4. /\ turns \in [1 .. N -> Nat]
      /\ \A d \in 1 .. N : turns'[d] = IF d = Current THEN turns[d] + 1 ELSE turns[d]
  BY <1>0, <1>3 DEF Sleep, TypeOK
<1>5. \A d \in 1 .. N : turns'[d] \in Nat /\ turns'[d] <= elapsed'
  BY <1>0, <1>1, <1>2, <1>4 DEF IInv
<1>6. TypeOK'
  <2>1. turns' \in [1 .. N -> 0 .. budget]
    <3>1. turns' = [d \in 1 .. N |-> turns'[d]]
      BY <1>0, <1>3, Zenon DEF Sleep, TypeOK
    <3>2. \A d \in 1 .. N : turns'[d] \in 0 .. budget
      BY <1>0, <1>1, <1>2, <1>5
    <3>. QED
      BY <3>1, <3>2
  <2>2. elapsed' \in 0 .. budget
    BY <1>0, <1>1, <1>2
  <2>. QED
    BY <1>0, <2>1, <2>2 DEF TypeOK, Sleep, args
<1>7. ASSUME policy # "progress" PROVE \E r \in Nat, j \in 0 .. N : Rounds(r, j)'
  <2>1. PICK r \in Nat, j \in 0 .. N : Rounds(r, j)
    BY <1>7 DEF IInv
  <2>2. j = index /\ j + 1 \in 0 .. N
    BY <2>1, <1>0, <1>3 DEF Sleep, Rounds
  <2>3. \A i \in 1 .. N : turns'[order[i]] = IF i <= j + 1 THEN r + 1 ELSE r
    <3> SUFFICES ASSUME NEW i \in 1 .. N
                 PROVE  turns'[order[i]] = IF i <= j + 1 THEN r + 1 ELSE r
      OBVIOUS
    <3>1. order[i] \in 1 .. N /\ (order[i] = Current <=> i = j + 1)
      BY <1>0, <1>3, <2>2, OrderFacts, Zenon DEF TypeOK
    <3>. QED
      BY <1>0, <1>4, <2>1, <2>2, <3>1, SMTT(30) DEF Rounds
  <2>4. elapsed' <= (N * r + (j + 1)) * Window
    <3>1. (N * r + (j + 1)) * Window = (N * r + j) * Window + Window
      BY <1>0, <1>1
    <3>2. (N * r + j) * Window \in Nat
      BY <1>0, <1>1
    <3>. QED
      BY <1>0, <1>1, <1>2, <2>1, <3>1, <3>2 DEF Rounds
  <2>5. Rounds(r, j + 1)'
    BY <1>2, <2>2, <2>3, <2>4 DEF Rounds, Sleep
  <2>. QED
    BY <2>2, <2>5
<1>. QED
  BY <1>5, <1>6, <1>7 DEF IInv, Sleep, args

\* The next driver: within the round, or the first of a round in a new order.
LEMMA SwitchIInv == IInv /\ Switch => IInv'
<1> SUFFICES ASSUME IInv, Switch PROVE IInv'
  OBVIOUS
<1>0. N \in Nat \ {0} /\ TypeOK
  BY ScheduleAssumption DEF ScheduleAssumption, IInv
<1>1. Following = IF index = N - 1 THEN 0 ELSE index + 1
  BY <1>0, Wraps DEF Following, TypeOK
<1>2. order' \in Orders /\ index' \in 0 .. N - 1
  BY <1>0, <1>1 DEF Switch, TypeOK
<1>3. TypeOK'
  BY <1>0, <1>2 DEF Switch, TypeOK, args
<1>4. Window' = Window
  BY DEF Switch, Window, args
<1>5. ASSUME policy # "progress" PROVE \E r \in Nat, j \in 0 .. N : Rounds(r, j)'
  <2>1. PICK r \in Nat, j \in 0 .. N : Rounds(r, j)
    BY <1>5 DEF IInv
  <2>2. j = index + 1 /\ index' = Following /\ turns' = turns /\ elapsed' = elapsed /\ pc' = "loop"
    BY <1>5, <2>1 DEF Switch, Rounds
  <2>3. CASE index = N - 1
    <3>1. \A d \in 1 .. N : turns[d] = r + 1
      <4> TAKE d \in 1 .. N
      <4>1. PICK i \in 1 .. N : order[i] = d
        BY <1>0, OrderFacts, Zenon DEF TypeOK
      <4>. QED
        BY <1>0, <2>1, <2>2, <2>3, <4>1 DEF Rounds
    <3>2. \A i \in 1 .. N : turns[order'[i]] = r + 1
      BY <1>2, <3>1, OrderFacts, Zenon
    <3>3. (N * (r + 1) + 0) * Window = (N * r + j) * Window
      BY <1>0, <2>2, <2>3, WindowFacts
    <3>4. \A i \in 1 .. N : ~(i <= 0)
      OBVIOUS
    <3>5. elapsed' <= (N * (r + 1) + 0) * Window'
      BY <1>4, <2>1, <2>2, <3>3 DEF Rounds
    <3>6. Rounds(r + 1, 0)'
      BY <1>1, <2>2, <2>3, <3>2, <3>4, <3>5 DEF Rounds
    <3>. QED
      BY <1>0, <3>6
  <2>4. CASE index # N - 1
    <3>1. order' = order
      BY <1>0, <1>1, <1>5, <2>4 DEF Switch, Reorder, TypeOK
    <3>2. Rounds(r, j)'
      BY <1>1, <1>4, <2>1, <2>2, <2>4, <3>1 DEF Rounds
    <3>. QED
      BY <3>2
  <2>. QED
    BY <2>3, <2>4
<1>. QED
  BY <1>3, <1>5 DEF IInv, Switch, args

\* The loop goes on after a window, ends, or is told to.
LEMMA StopIInv == IInv /\ (Proceed \/ Finish \/ Stop \/ UNCHANGED vars) => IInv'
<1> SUFFICES ASSUME IInv, Proceed \/ Finish \/ Stop \/ UNCHANGED vars PROVE IInv'
  OBVIOUS
<1>1. /\ UNCHANGED <<policy, budget, windowSeconds, order, index, elapsed, turns>>
      /\ pc' \in {pc, "done"} \/ (pc = "slept" /\ pc' = "switch")
      /\ stopped' \in {stopped, TRUE}
  BY Zenon DEF Proceed, Finish, Stop, vars, loopVars, args
<1>2. TypeOK'
  <2>1. stopped' \in BOOLEAN
    BY <1>1, Zenon DEF IInv, TypeOK
  <2>. QED
    BY <1>1, <2>1 DEF IInv, TypeOK
<1>3. ASSUME policy # "progress" PROVE \E r \in Nat, j \in 0 .. N : Rounds(r, j)'
  <2>1. PICK r \in Nat, j \in 0 .. N : Rounds(r, j)
    BY <1>3 DEF IInv
  <2>2. Rounds(r, j)'
    BY <1>1, <2>1 DEF Rounds, Window
  <2>. QED
    BY <2>2
<1>. QED
  BY <1>1, <1>2, <1>3 DEF IInv

\* The inductive invariant holds in every reachable state.
THEOREM Invariance == Spec => []IInv
<1>1. IInv /\ [Next]_vars => IInv'
  BY SleepIInv, SwitchIInv, StopIInv DEF Next
<1>. QED
  BY InitIInv, <1>1, PTL DEF Spec

\* run_schedule_policy never overdraws the budget, never points past the
\* drivers, and shuffles to a permutation.
THEOREM TypeCorrect == Spec => []TypeOK
  BY Invariance, PTL DEF IInv

\* "fixed" and "random" give all drivers the same number of windows, up to the
\* round under way, for any number of drivers.
THEOREM FairShareCorrect == Spec => []FairShare
<1>1. IInv => FairShare
  <2> SUFFICES ASSUME IInv, policy # "progress", NEW d \in 1 .. N, NEW e \in 1 .. N
               PROVE  turns[d] - turns[e] \in -1 .. 1
    BY DEF FairShare
  <2>1. PICK r \in Nat, j \in 0 .. N : Rounds(r, j)
    BY DEF IInv
  <2>2. \A x \in 1 .. N : turns[x] \in {r, r + 1}
    <3> TAKE x \in 1 .. N
    <3>1. PICK i \in 1 .. N : order[i] = x
      BY OrderFacts DEF IInv, TypeOK
    <3>. QED
      BY <2>1, <3>1 DEF Rounds
  <2>. QED
    BY <2>2
<1>. QED
  BY <1>1, Invariance, PTL

\* Without -w, a budget of at least twelve seconds per driver that is used up
\* has given every driver twelve windows: the truncated division in the choice
\* of the window can only make the windows shorter and more.
THEOREM TwelveTurnsCorrect == Spec => TwelveTurns
<1> DEFINE Enough == \A d \in 1 .. N : turns[d] >= 12
           Due == Finish /\ ~stopped /\ policy # "progress" /\ windowSeconds = 0 /\ budget >= 12 * N
<1>1. ASSUME IInv, Due PROVE Enough
  <2>0. /\ N \in Nat \ {0} /\ TypeOK /\ budget \in Nat /\ elapsed \in Nat
        /\ elapsed >= budget /\ pc = "loop"
    BY <1>1, ScheduleAssumption DEF ScheduleAssumption, IInv, TypeOK, Finish
  <2>1. PICK r \in Nat, j \in 0 .. N : Rounds(r, j)
    BY <1>1 DEF IInv
  <2>2. j = index /\ j < N
    BY <2>0, <2>1 DEF Rounds, TypeOK
  <2>3. Window \in Nat \ {0} /\ 12 * N * Window <= budget
    BY <1>1, <2>0, WindowFacts
  <2>4. 12 * N * Window <= (N * r + j) * Window
    BY <2>0, <2>1, <2>3 DEF Rounds
  <2>5. 12 * N <= N * r + j
    BY <2>0, <2>3, <2>4
  <2>6. r >= 12
    <3> SUFFICES ASSUME r + 1 <= 12 PROVE FALSE
      OBVIOUS
    <3>1. N * (r + 1) <= N * 12
      BY <2>0
    <3>2. N * (r + 1) = N * r + N
      BY <2>0
    <3>. QED
      BY <2>0, <2>2, <2>5, <3>1, <3>2
  <2>7. \A d \in 1 .. N : turns[d] \in {r, r + 1}
    <3> TAKE d \in 1 .. N
    <3>1. PICK i \in 1 .. N : order[i] = d
      BY <2>0, OrderFacts, Zenon DEF TypeOK
    <3>. QED
      BY <2>1, <3>1 DEF Rounds
  <2>. QED
    BY <2>6, <2>7
<1>2. IInv => [Due => Enough]_vars
  BY <1>1
<1>. QED
  BY <1>2, Invariance, PTL DEF TwelveTurns

(***************************************************************************)
(* The two threads of mfuzz and honggfuzz: module Lifecycle.               *)
(***************************************************************************)

main == at["main"]
worker == at["worker"]
Gone == hf \in {"none", "reaped"}

Shape ==
    /\ at \in [Threads -> {"poll", "setup", "fork", "forked", "policy", "stop", "test", "kill",
                             "reap", "clear", "clean", "join", "done", "end"}]
    /\ main \notin {"setup", "fork", "forked", "policy", "done", "end"}
    /\ worker \notin {"poll", "join"}
    /\ pid \in [Threads -> {"child", "minus", "garbage"}]
    /\ fuzzer_pid \in {"child", "minus", "garbage"}
    /\ hf \in {"none", "copy", "boots", "runs", "stops", "zombie", "reaped"}

\* Unless a signal came too early, a thread gets past waitpid only when honggfuzz
\* is gone: no thread signals or waits before the worker has set fuzzer_pid, and
\* fuzzer_pid is -1 again only after waitpid.
Reaped ==
    /\ fuzzer_pid = "garbage" => ~g_stop
    /\ main # "poll" => g_stop \/ worker = "end"
    /\ g_done => worker = "end"
    /\ worker \in {"setup", "fork"} => hf = "none"
    /\ worker \in {"setup", "fork", "forked"} =>
          fuzzer_pid # "child" /\ main \notin {"kill", "reap", "clear"}
    /\ worker \notin {"setup", "fork", "forked"} /\ fuzzer_pid # "child" => Gone
    /\ worker \in {"policy", "stop", "test", "kill", "reap", "clear", "clean"} =>
          fuzzer_pid # "garbage"
    /\ worker = "end" /\ fuzzer_pid = "garbage" => hf = "none"
    /\ main = "clear" \/ worker \in {"clear", "clean", "done", "end"} => Gone
    /\ main = "join" => ~session
    /\ mfuzz = "exited" => main = "join" /\ worker = "end"

\* Without a signal the main thread comes second: by then fuzzer_pid is -1, or
\* there never was a fork.
Alone ==
    /\ ~early
    /\ main # "poll" => worker = "end"
    /\ worker \in {"policy", "stop", "test", "kill", "reap", "clear"} => fuzzer_pid = "child"
    /\ worker \in {"forked", "policy", "stop", "test", "kill"} =>
          hf \in {"copy", "boots", "runs", "zombie"}
    /\ worker = "kill" => pid["worker"] = "child"
    /\ worker \in {"clean", "done", "end"} /\ ~failed => fuzzer_pid = "minus"
    /\ failed => worker \in {"done", "end"} /\ hf = "none" /\ fuzzer_pid # "child"
    /\ main \in {"kill", "reap", "clear"} => failed
    /\ ~abrupt
    /\ stray => failed

LInv == Shape /\ (~early => Reaped) /\ (~g_stop => Alone)

\* What the signal does to honggfuzz.
LEMMA KillFacts ==
    ASSUME NEW t \in Threads, Shape, Kill(t)
    PROVE  /\ hf' \in {"none", "copy", "boots", "runs", "stops", "zombie", "reaped"}
           /\ hf \in {"none", "zombie", "reaped"} => hf' = hf
           /\ hf # "none" => hf' # "none"
           /\ hf # "reaped" => hf' # "reaped"
           /\ hf # "stops" => (abrupt' => abrupt)
           /\ hf # "reaped" /\ pid[t] = "child" /\ fuzzer_pid = "child" => (stray' => stray)
  BY Zenon DEF Shape, Kill

\* Every step keeps the labels and the values in their sets.
LEMMA ShapeStep ==
    ASSUME Shape, [LifeNext]_allVars
    PROVE  Shape'
<1> USE DEF Shape, main, worker, Threads, At, Goto
<1>1. CASE Setup \/ SetupFails \/ Fork \/ SetPid \/ PolicyStep \/ PolicyEnds \/ GiveUp \/ WorkerDone
  BY <1>1 DEF Setup, SetupFails, Fork, SetPid, PolicyStep, PolicyEnds, GiveUp, WorkerDone,
                   lifeVars, state
<1>2. CASE Poll \/ Join \/ Sigint \/ Sigterm \/ FuzzerStep \/ Die
  BY <1>2 DEF Poll, Join, Sigint, Sigterm, FuzzerStep, Exec, Boot, StopFuzzing, Die, state
<1>3. ASSUME NEW t \in Threads, Kill(t) PROVE Shape'
  <2>1. hf' \in {"none", "copy", "boots", "runs", "stops", "zombie", "reaped"}
    BY <1>3, KillFacts
  <2> QED
    BY <1>3, <2>1 DEF Kill, state
<1>4. ASSUME NEW t \in Threads, Dump(t) \/ Test(t) \/ Reap(t) \/ Clear(t) \/ Clean(t)
      PROVE  Shape'
  BY <1>4 DEF Dump, Test, Reap, Clear, Clean, Return, state
<1>5. CASE UNCHANGED allVars
  BY <1>5 DEF allVars, lifeVars, state
<1> QED
  BY <1>1, <1>2, <1>3, <1>4, <1>5 DEF LifeNext, WorkerStep, MainStep, FuzzerStep, Step

\* Every step of the threads, of honggfuzz and of the signals preserves it.
LEMMA LInvStep ==
    ASSUME LInv, [LifeNext]_allVars
    PROVE  LInv'
<1> USE DEF LInv, Reaped, Alone, Gone, main, worker, At, Goto
<1>0. Shape'
  BY ShapeStep
<1>a. at \in [Threads -> {"poll", "setup", "fork", "forked", "policy", "stop", "test", "kill",
                             "reap", "clear", "clean", "join", "done", "end"}]
      /\ "main" \in Threads /\ "worker" \in Threads
  BY DEF Shape, Threads
<1>1. CASE Setup
  BY <1>0, <1>a, <1>1 DEF Setup, Shape, state
<1>2. CASE SetupFails
  BY <1>0, <1>a, <1>2 DEF SetupFails, Shape, state
<1>3. CASE Fork
  BY <1>0, <1>a, <1>3 DEF Fork, Shape, state
<1>4. CASE SetPid
  BY <1>0, <1>a, <1>4 DEF SetPid, Shape, state
<1>5. CASE PolicyStep \/ PolicyEnds
  BY <1>0, <1>a, <1>5 DEF PolicyStep, PolicyEnds, lifeVars, Shape, state
<1>6. CASE GiveUp \/ Sigterm \/ Join
  BY <1>0, <1>a, <1>6 DEF GiveUp, Sigterm, Join, Shape, state
<1>7. CASE WorkerDone
  BY <1>0, <1>a, <1>7 DEF WorkerDone, Shape, state
<1>8. CASE Sigint
  BY <1>0, <1>a, <1>8, ZenonT(30) DEF Sigint, Shape, state
<1>9. CASE Poll
  BY <1>0, <1>a, <1>9 DEF Poll, Shape, state
<1>10. CASE FuzzerStep \/ Die
  BY <1>0, <1>a, <1>10 DEF FuzzerStep, Exec, Boot, StopFuzzing, Die, Shape, state
<1>11. ASSUME NEW t \in Threads, Dump(t) PROVE LInv'
  BY <1>0, <1>a, <1>11 DEF Dump, Shape, state, Threads
<1>12. ASSUME NEW t \in Threads, Test(t) PROVE LInv'
  BY <1>0, <1>a, <1>12 DEF Test, Shape, state, Threads
<1>13. ASSUME NEW t \in Threads, Kill(t) PROVE LInv'
  BY <1>0, <1>a, <1>13, KillFacts, ZenonT(60) DEF Kill, Shape, state, Threads
<1>14. ASSUME NEW t \in Threads, Reap(t) PROVE LInv'
  BY <1>0, <1>a, <1>14 DEF Reap, Shape, state, Threads
<1>15. ASSUME NEW t \in Threads, Clear(t) PROVE LInv'
  BY <1>0, <1>a, <1>15 DEF Clear, Shape, state, Threads
<1>16. ASSUME NEW t \in Threads, Clean(t) PROVE LInv'
  BY <1>0, <1>a, <1>16 DEF Clean, Shape, state, Threads, Return
<1>17. CASE UNCHANGED allVars
  BY <1>0, <1>17 DEF allVars, lifeVars, state, Shape
<1>18. "main" \in Threads /\ "worker" \in Threads
  BY DEF Threads
<1> HIDE DEF LInv
<1> QED
  BY <1>1, <1>2, <1>3, <1>4, <1>5, <1>6, <1>7, <1>8, <1>9, <1>10, <1>11, <1>12, <1>13, <1>14,
     <1>15, <1>16, <1>17, <1>18
  DEF LifeNext, WorkerStep, MainStep, FuzzerStep, Step

\* It holds from the start of main on.
LEMMA LInvariance == LifeSpec => []LInv
<1>1. LifeInit => LInv
  BY DEF LifeInit, Init, Threads, LInv, Shape, Reaped, Alone, Gone, main, worker
<1> QED
  BY <1>1, LInvStep, PTL DEF LifeSpec

\* Whatever may fail, be interrupted or die: see ExitCleansUp.
THEOREM ExitCorrect == LifeSpec => []ExitCleansUp
<1>1. LInv => ExitCleansUp
  BY DEF LInv, Reaped, Gone, ExitCleansUp
<1> QED
  BY <1>1, LInvariance, PTL

\* See SignalsItsOwnFuzzer.
THEOREM SignalsCorrect == LifeSpec => []SignalsItsOwnFuzzer
<1>1. LInv => SignalsItsOwnFuzzer
  BY DEF LInv, Alone, SignalsItsOwnFuzzer
<1> QED
  BY <1>1, LInvariance, PTL

\* What the theorems about Schedule say holds of mfuzz: between start_fuzzer and
\* the two calls of stop_fuzzer the worker thread does nothing to the policy but
\* take its steps, and the main thread nothing but set stopped.
THEOREM PolicyKept == LifeSpec => Spec
<1>1. LifeInit => Init
  BY Zenon DEF LifeInit
<1>2. [LifeNext]_allVars => [Next]_vars
  <2> SUFFICES ASSUME [LifeNext]_allVars PROVE [Next]_vars
    OBVIOUS
  <2>1. CASE PolicyStep \/ PolicyEnds
    BY <2>1, Zenon DEF PolicyStep, PolicyEnds, Next
  <2>2. ASSUME NEW t \in Threads, Dump(t) PROVE [Next]_vars
    <3>1. UNCHANGED loopVars /\ stopped' = TRUE
      BY <2>2, Zenon DEF Dump
    <3>. QED
      BY <3>1, Zenon DEF Next, Stop, vars
  <2>3. CASE Setup \/ SetupFails \/ Fork \/ SetPid \/ GiveUp \/ WorkerDone \/ Poll \/ Join
    BY <2>3, Zenon DEF Setup, SetupFails, Fork, SetPid, GiveUp, WorkerDone, Poll, Join
  <2>4. CASE Sigint \/ Sigterm \/ FuzzerStep \/ Die \/ UNCHANGED allVars
    BY <2>4, Zenon DEF Sigint, Sigterm, FuzzerStep, Exec, Boot, StopFuzzing, Die,
         allVars
  <2>5. ASSUME NEW t \in Threads, Test(t) \/ Kill(t) \/ Reap(t) \/ Clear(t) \/ Clean(t)
        PROVE  [Next]_vars
    BY <2>5, Zenon DEF Test, Kill, Reap, Clear, Clean
  <2>6. "main" \in Threads /\ "worker" \in Threads
    BY Zenon DEF Threads
  <2>. QED
    BY <2>1, <2>2, <2>3, <2>4, <2>5, <2>6, Zenon DEF LifeNext, WorkerStep, MainStep, Step
<1>. QED
  BY <1>1, <1>2, PTL DEF LifeSpec, Spec

=============================================================================
