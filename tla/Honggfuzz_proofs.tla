-------------------------- MODULE Honggfuzz_proofs --------------------------
(***************************************************************************)
(* Proofs about two modules of honggfuzz.                                  *)
(*                                                                         *)
(* Engine, for any number of threads, input files and iterations: the dry  *)
(* run and the main phase do not overlap, and honggfuzz leaves no thread   *)
(* and no target behind when main returns.                                 *)
(*                                                                         *)
(* DriverTable, for every finite set of driver ids: the linked list is     *)
(* well formed in every reachable state and implements DriverOrder, every  *)
(* edge is credited once in the modular arithmetic of the statistics, and  *)
(* no working copy outlives the run it was made for.                       *)
(***************************************************************************)
EXTENDS Engine, DriverTable, FiniteSetTheorems, TLAPS


PcStates == {"iter", "fetch", "lock", "barrier", "input", "run", "reap",
             "loopend", "quit", "end"}

\* The types the arguments below rest on.
ThreadType ==
    /\ started \subseteq Threads
    /\ pc \in [started -> PcStates]
    /\ child \in [started -> ChildStates]
    /\ input \in [started -> {"none", "static", "dynamic"}]

\* The counter of the barrier counts the threads of "reported".  Those still
\* in the dry run are in the barrier, or on their way out because the process
\* terminates; so a thread that fetches a static file has not reported.
Barrier ==
    /\ reported \subseteq started
    /\ cnt = Cardinality(reported)
    /\ state # "dry" => reported = started
    /\ \A t \in started :
          /\ t \notin reported => pc[t] \notin {"lock", "barrier"}
          /\ t \in reported /\ state = "dry" =>
                \/ pc[t] \in {"lock", "barrier"}
                \/ term /\ pc[t] \in {"input", "run", "reap", "loopend", "quit", "end"}
          /\ t \in reported /\ pc[t] \in {"run", "reap"} => input[t] # "static"

EndedThreads == {t \in started : pc[t] = "end"}

\* A thread is counted as finished once it has killed its target.
Endings ==
    /\ finished = Cardinality(EndedThreads)
    /\ \A t \in started : pc[t] = "end" => ~Alive(child[t])
    /\ proc = "exited" => EndedThreads = started

IInv == ThreadType /\ Barrier /\ Endings

-----------------------------------------------------------------------------

\* Every set of threads considered is finite.
LEMMA Finite ==
    ASSUME ThreadType, NEW S, S \subseteq started
    PROVE  /\ IsFiniteSet(S) /\ IsFiniteSet(started)
           /\ Cardinality(S) \in Nat /\ ThreadsMax \in Nat
           /\ Cardinality(S) <= ThreadsMax
           /\ Cardinality(S) >= ThreadsMax => S = started
  <1>1. IsFiniteSet(started)
    BY FS_Subset, ThreadsAssumption, Zenon DEF ThreadType
  <1>2. /\ IsFiniteSet(S) /\ Cardinality(S) <= Cardinality(started)
        /\ Cardinality(started) = Cardinality(S) => started = S
    BY <1>1, FS_Subset, Zenon
  <1>3. Cardinality(S) \in Nat /\ Cardinality(started) \in Nat
    BY <1>1, <1>2, FS_CardinalityType, Zenon
  <1> QED BY <1>1, <1>2, <1>3 DEF ThreadsMax

\* The threads have just been created: none is counted, none has a target.
LEMMA InitInv == Init => IInv
  <1> SUFFICES ASSUME Init PROVE IInv
    OBVIOUS
  <1>1. ThreadType
    BY Zenon DEF Init, ThreadType, PcStates, ChildStates
  <1>2. Barrier
    BY FS_EmptySet, Zenon DEF Init, Barrier
  <1>3. Endings
    <2>1. EndedThreads = {}
      BY Zenon DEF Init, EndedThreads
    <2> QED BY <2>1, FS_EmptySet DEF Init, Endings
  <1> QED BY <1>1, <1>2, <1>3 DEF IInv

\* Two ways of seeing Next: what each kind of step does to the threads.
LEMMA ThreadTypeStep == ThreadType /\ [Next]_vars => ThreadType'
  <1> SUFFICES ASSUME ThreadType, [Next]_vars PROVE ThreadType'
    OBVIOUS
  <1> USE DEF ThreadType, PcStates, ChildStates, mainVars, phaseVars, runVars
  <1>1. ASSUME NEW t \in started, ThreadStep(t) PROVE ThreadType'
    <2>1. CASE Iterate(t)
      BY <2>1, Zenon DEF Iterate, Go
    <2>2. CASE FetchStatic(t)
      BY <2>2, Zenon DEF FetchStatic, Go
    <2>3. CASE FetchSwitched(t) \/ Report(t)
      BY <2>3, Zenon DEF FetchSwitched, Report, Go
    <2>4. CASE TakeLock(t)
      BY <2>4, Zenon DEF TakeLock, Go
    <2>5. CASE Switch(t) \/ LeaveBarrier(t)
      BY <2>5, Zenon DEF Switch, LeaveBarrier, Go
    <2>6. CASE FetchDynamic(t)
      BY <2>6, Zenon DEF FetchDynamic, Go
    <2>7. CASE Minimized(t)
      BY <2>7, Zenon DEF Minimized, Go
    <2>8. CASE StartTarget(t)
      BY <2>8, Zenon DEF StartTarget, Go, SetChild
    <2>9. CASE TimeLimit(t)
      BY <2>9 DEF TimeLimit, Go, SetChild
    <2>10. CASE TimeLimitKill(t) \/ TerminationKill(t)
      BY <2>10, Zenon DEF TimeLimitKill, TerminationKill, Kill, Go, SetChild
    <2>11. CASE RoundDone(t) \/ LoopEnd(t)
      BY <2>11, Zenon DEF RoundDone, LoopEnd, Go
    <2>12. CASE Reap(t)
      BY <2>12, Zenon DEF Reap, Go, SetChild
    <2>13. CASE Quit(t)
      BY <2>13, Zenon DEF Quit, Go, SetChild
    <2> QED BY <1>1, <2>1, <2>2, <2>3, <2>4, <2>5, <2>6, <2>7, <2>8, <2>9,
               <2>10, <2>11, <2>12, <2>13 DEF ThreadStep
  <1>2. ASSUME NEW t \in started,
               LaunchFails(t) \/ TargetEnds(t) \/ TargetReady(t)
        PROVE  ThreadType'
    BY <1>2 DEF LaunchFails, TargetEnds, TargetReady, Go, SetChild
  <1>3. CASE MainStep \/ RunTimeOver \/ Signal \/ AlarmForces \/ UNCHANGED vars
    BY <1>3, Zenon DEF MainStep, MainBreaks, MainExits, RunTimeOver, BreakLoop, Signal,
                AlarmForces, vars
  <1>4. CASE Ended
    BY <1>4, Zenon DEF Ended
  <1> QED BY <1>1, <1>2, <1>3, <1>4 DEF Next

\* Threads count themselves in at the barrier once, and in the dry run only.
LEMMA BarrierStep == IInv /\ [Next]_vars => Barrier'
  <1> SUFFICES ASSUME IInv, [Next]_vars PROVE Barrier'
    OBVIOUS
  <1> USE DEF IInv, ThreadType, PcStates, mainVars, phaseVars, runVars
  <1>1. ASSUME NEW t \in started, ThreadStep(t) PROVE Barrier'
    <2>1. CASE Iterate(t)
      BY <2>1, Zenon DEF Barrier, Iterate, Go
    <2>2. CASE FetchStatic(t)
      BY <2>2, Zenon DEF Barrier, FetchStatic, Go
    <2>3. CASE FetchSwitched(t)
      BY <2>3, Zenon DEF Barrier, FetchSwitched, Go
    <2>4. CASE Report(t)
      <3>1. t \notin reported
        BY <2>4, Zenon DEF Barrier, Report, Go
      <3>2. IsFiniteSet(reported) /\ cnt \in Nat
        BY Finite, Zenon DEF Barrier
      <3>3. Cardinality(reported \cup {t}) = cnt + 1
        BY <3>1, <3>2, FS_AddElement, Zenon DEF Barrier
      <3> QED BY <2>4, <3>3 DEF Barrier, Report, Go
    <2>5. CASE TakeLock(t)
      BY <2>5, Zenon DEF Barrier, TakeLock, Go
    <2>6. CASE Switch(t)
      <3>1. reported = started
        <4>1. Cardinality(reported) >= ThreadsMax
          BY <2>6, Finite DEF Barrier, Switch
        <4> QED BY <4>1, Finite DEF Barrier
      <3> QED BY <2>6, <3>1, Zenon DEF Barrier, Switch, Go
    <2>7. CASE LeaveBarrier(t)
      BY <2>7, Zenon DEF Barrier, LeaveBarrier, Go
    <2>8. CASE FetchDynamic(t)
      BY <2>8, Zenon DEF Barrier, FetchDynamic, Go
    <2>9. CASE Minimized(t)
      BY <2>9, Zenon DEF Barrier, Minimized, Go
    <2>10. CASE StartTarget(t)
      BY <2>10, Zenon DEF Barrier, StartTarget, Go
    <2>11. CASE TimeLimit(t)
      BY <2>11, Zenon DEF Barrier, TimeLimit, Go
    <2>12. CASE TimeLimitKill(t) \/ TerminationKill(t)
      BY <2>12 DEF Barrier, TimeLimitKill, TerminationKill, Kill, Go
    <2>13. CASE RoundDone(t)
      BY <2>13, Zenon DEF Barrier, RoundDone, Go
    <2>14. CASE Reap(t)
      BY <2>14, Zenon DEF Barrier, Reap, Go
    <2>15. CASE LoopEnd(t)
      BY <2>15, Zenon DEF Barrier, LoopEnd, Go
    <2>16. CASE Quit(t)
      BY <2>16, Zenon DEF Barrier, Quit, Go
    <2> QED BY <1>1, <2>1, <2>2, <2>3, <2>4, <2>5, <2>6, <2>7, <2>8, <2>9,
               <2>10, <2>11, <2>12, <2>13, <2>14, <2>15, <2>16 DEF ThreadStep
  <1>2. ASSUME NEW t \in started, LaunchFails(t) PROVE Barrier'
    BY <1>2, Zenon DEF Barrier, LaunchFails, Go
  <1>3. ASSUME NEW t \in started, TargetEnds(t) \/ TargetReady(t)
        PROVE  Barrier'
    BY <1>3 DEF Barrier, TargetEnds, TargetReady
  <1>4. CASE MainBreaks \/ RunTimeOver
    BY <1>4, Zenon DEF Barrier, MainBreaks, RunTimeOver, BreakLoop
  <1>5. CASE MainExits \/ Signal \/ AlarmForces \/ Ended \/ UNCHANGED vars
    BY <1>5 DEF Barrier, MainExits, Signal, AlarmForces, Ended, vars
  <1> QED BY <1>1, <1>2, <1>3, <1>4, <1>5 DEF Next, MainStep

\* A thread ends without a target, and main exits after all of them.
LEMMA EndingsStep == IInv /\ [Next]_vars => Endings'
  <1> SUFFICES ASSUME IInv, [Next]_vars PROVE Endings'
    OBVIOUS
  <1> USE DEF IInv, ThreadType, PcStates, ChildStates, Alive, mainVars,
              phaseVars, runVars
  \* No step but Quit changes who has ended.
  <1>1. ASSUME NEW t \in started, NEW to \in PcStates \ {"end"}, started' = started,
               pc[t] # "end", pc' = [pc EXCEPT ![t] = to]
        PROVE  EndedThreads' = EndedThreads
    BY <1>1, Zenon DEF EndedThreads
  <1>2. ASSUME NEW t \in started, ThreadStep(t) PROVE Endings'
    <2>1. CASE Quit(t)
      <3>1. t \notin EndedThreads /\ EndedThreads' = EndedThreads \cup {t}
        BY <2>1, Zenon DEF EndedThreads, Quit, Go
      <3>2. IsFiniteSet(EndedThreads) /\ finished \in Nat
        BY Finite, Zenon DEF EndedThreads, Endings
      <3>3. Cardinality(EndedThreads') = finished + 1
        BY <3>1, <3>2, FS_AddElement, Zenon DEF Endings
      <3>4. \A u \in started : pc'[u] = "end" => ~Alive(child'[u])
        BY <2>1, Zenon DEF Quit, Go, SetChild, Endings
      <3> QED BY <2>1, <3>3, <3>4 DEF Endings, Quit, Go
    <2>2. CASE Iterate(t) \/ FetchStatic(t) \/ FetchSwitched(t) \/ Report(t)
      <3>1. EndedThreads' = EndedThreads
        BY <1>1, <2>2, Zenon DEF Iterate, FetchStatic, FetchSwitched, Report, Go
      <3> QED BY <2>2, <3>1 DEF Endings, Iterate, FetchStatic, FetchSwitched,
                                Report, Go
    <2>3. CASE TakeLock(t) \/ Switch(t) \/ LeaveBarrier(t) \/ FetchDynamic(t)
      <3>1. EndedThreads' = EndedThreads
        BY <1>1, <2>3, Zenon DEF TakeLock, Switch, LeaveBarrier, FetchDynamic, Go
      <3> QED BY <2>3, <3>1 DEF Endings, TakeLock, Switch, LeaveBarrier,
                                FetchDynamic, Go
    <2>4. CASE Minimized(t) \/ RoundDone(t) \/ LoopEnd(t)
      <3>1. EndedThreads' = EndedThreads
        BY <1>1, <2>4, Zenon DEF Minimized, RoundDone, LoopEnd, Go
      <3> QED BY <2>4, <3>1 DEF Endings, Minimized, RoundDone, LoopEnd, Go
    <2>5. CASE StartTarget(t)
      <3>1. EndedThreads' = EndedThreads
        BY <1>1, <2>5, Zenon DEF StartTarget, Go
      <3> QED BY <2>5, <3>1 DEF Endings, StartTarget, Go, SetChild
    <2>6. CASE TimeLimit(t)
      <3>1. EndedThreads' = EndedThreads
        BY <1>1, <2>6, Zenon DEF TimeLimit, Go
      <3> QED BY <2>6, <3>1 DEF Endings, TimeLimit, Go, SetChild
    <2>7. CASE TimeLimitKill(t) \/ TerminationKill(t)
      <3>1. EndedThreads' = EndedThreads
        BY <1>1, <2>7, Zenon DEF TimeLimitKill, TerminationKill, Kill, Go
      <3> QED BY <2>7, <3>1 DEF Endings, TimeLimitKill, TerminationKill, Kill,
                                Go, SetChild
    <2>8. CASE Reap(t)
      <3>1. EndedThreads' = EndedThreads
        BY <1>1, <2>8, Zenon DEF Reap, Go
      <3> QED BY <2>8, <3>1 DEF Endings, Reap, Go, SetChild
    <2> QED BY <1>2, <2>1, <2>2, <2>3, <2>4, <2>5, <2>6, <2>7, <2>8
            DEF ThreadStep
  <1>3. ASSUME NEW t \in started, LaunchFails(t) PROVE Endings'
    <2>1. EndedThreads' = EndedThreads
      BY <1>1, <1>3, Zenon DEF LaunchFails, Go
    <2> QED BY <1>3, <2>1 DEF Endings, LaunchFails, Go, SetChild
  <1>4. ASSUME NEW t \in started, TargetEnds(t) \/ TargetReady(t)
        PROVE  Endings'
    BY <1>4 DEF Endings, EndedThreads, TargetEnds, TargetReady, SetChild
  <1>5. CASE MainExits
    <2>1. EndedThreads = started
      <3>1. Cardinality(EndedThreads) >= ThreadsMax
        BY <1>5, Zenon DEF Endings, MainExits
      <3> QED BY <3>1, Finite DEF EndedThreads
    <2> QED BY <1>5, <2>1 DEF Endings, EndedThreads, MainExits
  <1>6. CASE MainBreaks \/ RunTimeOver \/ Signal \/ AlarmForces \/ UNCHANGED vars
    BY <1>6, Zenon DEF Endings, EndedThreads, MainBreaks, RunTimeOver, BreakLoop,
                Signal, AlarmForces, vars
  <1>7. CASE Ended
    BY <1>7, Zenon DEF Endings, EndedThreads, Ended
  <1> QED BY <1>2, <1>3, <1>4, <1>5, <1>6, <1>7 DEF Next, MainStep

\* The invariant holds in every state.
LEMMA Invariance == Spec => []IInv
  <1>1. IInv /\ [Next]_vars => IInv'
    BY ThreadTypeStep, BarrierStep, EndingsStep, Zenon DEF IInv
  <1> QED BY <1>1, InitInv, PTL DEF Spec

\* For any number of threads: when the first one leaves the dry run, all have
\* counted themselves in exactly once and none runs a static file any more.
THEOREM PhasesCorrect == Spec => []PhasesDisjoint
  <1>1. IInv => PhasesDisjoint
    BY Finite, Zenon DEF IInv, Barrier, PhasesDisjoint, ThreadsMax
  <1> QED BY <1>1, Invariance, PTL

\* For any number of threads and any cause of the end: main returns only when
\* every thread has ended and every target is dead.
THEOREM ExitCorrect == Spec => []ExitLeavesNoTarget
  <1>1. IInv => ExitLeavesNoTarget
    BY Zenon DEF IInv, Endings, EndedThreads, ExitLeavesNoTarget
  <1> QED BY <1>1, Invariance, PTL

(***************************************************************************)
(* The driver table.                                                       *)
(***************************************************************************)


\* The links and the head have their C types.
ListType ==
    /\ loaded \subseteq Ids
    /\ head \in Ids \cup {NULL}
    /\ next \in [Ids -> Ids \cup {NULL}]
    /\ pre \in [Ids -> Ids \cup {NULL}]
    /\ count \in Nat

ListInv == ListType /\ ListOK

-----------------------------------------------------------------------------

\* Loading a new driver puts a node in front of a well-formed list: all others
\* move back one place.
LEMMA AddNewKeeps ==
    ASSUME ListInv, NEW d \in Ids, AddNew(d)
    PROVE  /\ ListType'
           /\ \E pos \in Places, q \in Places' :
                 \A n \in loaded' : q[n] = IF n = d THEN 1 ELSE pos[n] + 1
  <1>1. ListType'
    BY DEF AddNew, ListInv, ListType
  <1>2. PICK pos \in [loaded -> 1 .. count] : PlacesOK(pos) /\ LinksOK(pos)
    BY Zenon DEF ListInv, ListOK, Places
  <1>3. PICK q \in [loaded' -> 1 .. count'] :
           \A n \in loaded' : q[n] = IF n = d THEN 1 ELSE pos[n] + 1
    <2> DEFINE f == [n \in loaded' |-> IF n = d THEN 1 ELSE pos[n] + 1]
    <2>1. f \in [loaded' -> 1 .. count']
      BY DEF AddNew, ListInv, ListType
    <2> QED BY <2>1, Zenon
  <1>4. /\ d \notin loaded /\ loaded' = loaded \cup {d} /\ count' = count + 1
        /\ head' = d
    BY Zenon DEF AddNew
  <1>5. PlacesOK(q)'
    <2>1. ASSUME NEW a \in loaded', NEW b \in loaded', q[a] = q[b]
          PROVE  a = b
      <3>1. \A n \in loaded : pos[n] \in Nat /\ pos[n] >= 1
        BY DEF ListInv, ListType
      <3>2. \A m, n \in loaded : pos[m] = pos[n] => m = n
        BY <1>2, Zenon DEF PlacesOK
      <3> QED BY <1>3, <1>4, <2>1, <3>1, <3>2
    <2>2. ASSUME NEW k \in 1 .. count' PROVE \E n \in loaded' : q[n] = k
      <3>1. CASE k = 1
        BY <1>3, <1>4, <3>1, Zenon
      <3>2. CASE k # 1
        <4>1. k - 1 \in 1 .. count
          BY <1>3, <1>4, <3>2 DEF ListInv, ListType
        <4>2. PICK n \in loaded : pos[n] = k - 1
          BY <1>2, <4>1, Zenon DEF PlacesOK
        <4>3. n # d /\ n \in loaded' /\ q[n] = k
          BY <1>3, <1>4, <4>2
        <4> QED BY <4>3
      <3> QED BY <3>1, <3>2
    <2>3. count' # 0 /\ head' \in loaded' /\ q[head'] = 1
      BY <1>3, <1>4 DEF ListInv, ListType
    <2> QED BY <2>1, <2>2, <2>3 DEF PlacesOK
  <1>6. LinksOK(q)'
    <2> SUFFICES ASSUME NEW n \in loaded'
                 PROVE  /\ IF q[n] = count' THEN next'[n] = NULL
                           ELSE next'[n] \in loaded' /\ q[next'[n]] = q[n] + 1
                        /\ IF q[n] = 1 THEN pre'[n] = NULL
                           ELSE pre'[n] \in loaded' /\ q[pre'[n]] = q[n] - 1
      BY Zenon DEF LinksOK
    <2>1. CASE n = d
      <3>1. q[n] = 1 /\ next'[n] = head /\ pre'[n] = NULL
        BY <1>3, <2>1, Zenon DEF AddNew, ListInv, ListType
      <3>2. CASE count = 0
        <4>1. head = NULL
          BY <1>2, <3>2, Zenon DEF PlacesOK
        <4> QED BY <1>3, <1>4, <3>1, <3>2, <4>1
      <3>3. CASE count # 0
        <4>1. head \in loaded /\ pos[head] = 1
          BY <1>2, <3>3, Zenon DEF PlacesOK
        <4>2. head # d /\ q[head] = 2
          BY <1>3, <1>4, <4>1
        <4>3. q[n] # count'
          BY <1>3, <1>4, <3>1, <3>3 DEF ListInv, ListType
        <4> QED BY <1>3, <1>4, <3>1, <4>1, <4>2, <4>3
      <3> QED BY <3>2, <3>3
    <2>2. CASE n # d
      <3>1. n \in loaded /\ q[n] = pos[n] + 1 /\ pos[n] \in 1 .. count
        BY <1>3, <1>4, <2>2, Zenon
      <3>2. next'[n] = next[n] /\ pre'[n] = IF n = head THEN d ELSE pre[n]
        BY <2>2, Zenon DEF AddNew, ListInv, ListType
      <3>3. IF q[n] = count' THEN next'[n] = NULL
            ELSE next'[n] \in loaded' /\ q[next'[n]] = q[n] + 1
        <4>1. CASE pos[n] = count
          BY <1>2, <1>3, <1>4, <3>1, <3>2, <4>1, Zenon DEF LinksOK
        <4>2. CASE pos[n] # count
          <5>1. next[n] \in loaded /\ pos[next[n]] = pos[n] + 1
            BY <1>2, <3>1, <4>2, Zenon DEF LinksOK
          <5>2. next[n] # d /\ q[next[n]] = pos[n] + 2
            BY <1>3, <1>4, <5>1, <3>1
          <5> QED BY <1>3, <1>4, <3>1, <3>2, <4>2, <5>1, <5>2 DEF ListInv, ListType
        <4> QED BY <4>1, <4>2
      <3>4. IF q[n] = 1 THEN pre'[n] = NULL
            ELSE pre'[n] \in loaded' /\ q[pre'[n]] = q[n] - 1
        <4>1. count # 0 /\ head \in loaded /\ pos[head] = 1
          BY <1>2, <3>1 DEF PlacesOK
        <4>2. CASE n = head
          BY <1>3, <1>4, <3>1, <3>2, <4>1, <4>2
        <4>3. CASE n # head
          <5>1. pos[n] # 1
            BY <1>2, <3>1, <4>1, <4>3, Zenon DEF PlacesOK
          <5>2. pre[n] \in loaded /\ pos[pre[n]] = pos[n] - 1
            BY <1>2, <3>1, <5>1, Zenon DEF LinksOK
          <5>3. pre[n] # d /\ q[pre[n]] = pos[n]
            BY <1>3, <1>4, <5>2, <3>1
          <5> QED BY <1>3, <1>4, <3>1, <3>2, <4>3, <5>1, <5>2, <5>3
        <4> QED BY <4>2, <4>3
      <3> QED BY <3>3, <3>4
    <2> QED BY <2>1, <2>2
  <1>7. pos \in Places /\ q \in Places'
    BY <1>2, <1>3, <1>5, <1>6, Zenon DEF Places
  <1> QED BY <1>1, <1>3, <1>7, Zenon

\* Moving a loaded driver to the front keeps the list well formed: the drivers
\* before it move back one place, those behind it keep theirs.
LEMMA MoveToFrontKeeps ==
    ASSUME ListInv, NEW d \in Ids, MoveToFront(d)
    PROVE  /\ ListType'
           /\ \E pos \in Places, q \in Places' :
                 \A n \in loaded' : q[n] = IF n = d THEN 1
                                          ELSE IF pos[n] < pos[d] THEN pos[n] + 1
                                          ELSE pos[n]
  <1>1. ListType'
    BY Zenon DEF MoveToFront, ListInv, ListType
  <1>2. PICK pos \in [loaded -> 1 .. count] : PlacesOK(pos) /\ LinksOK(pos)
    BY Zenon DEF ListInv, ListOK, Places
  <1>3. PICK q \in [loaded' -> 1 .. count'] :
           \A n \in loaded' : q[n] = IF n = d THEN 1
                                    ELSE IF pos[n] < pos[d] THEN pos[n] + 1
                                    ELSE pos[n]
    <2> DEFINE f == [n \in loaded' |-> IF n = d THEN 1
                                       ELSE IF pos[n] < pos[d] THEN pos[n] + 1
                                       ELSE pos[n]]
    <2>1. f \in [loaded' -> 1 .. count']
      BY DEF MoveToFront, ListInv, ListType
    <2> QED BY <2>1, Zenon
  <1>4. /\ d \in loaded /\ d # head /\ loaded' = loaded /\ count' = count
        /\ head' = d /\ d # NULL /\ NULL \notin loaded
    BY IdsAssumption, Zenon DEF MoveToFront, ListInv, ListType
  <1>5. /\ \A n \in loaded : pos[n] \in Nat /\ pos[n] >= 1 /\ pos[n] <= count
        /\ \A m, n \in loaded : pos[m] = pos[n] => m = n
        /\ count \in Nat /\ count # 0
        /\ head \in loaded /\ pos[head] = 1 /\ pos[d] > 1
    <2>1. \A n \in loaded : pos[n] \in Nat /\ pos[n] >= 1 /\ pos[n] <= count
      BY DEF ListInv, ListType
    <2>2. count \in Nat /\ count # 0
      BY <1>4, <2>1 DEF ListInv, ListType
    <2>3. /\ head \in loaded /\ pos[head] = 1
          /\ \A m, n \in loaded : pos[m] = pos[n] => m = n
      BY <1>2, <2>2, Zenon DEF PlacesOK
    <2> QED BY <1>4, <2>1, <2>2, <2>3
  \* The neighbours of d.
  <1>6. /\ pre[d] \in loaded /\ pos[pre[d]] = pos[d] - 1
        /\ IF pos[d] = count THEN next[d] = NULL
           ELSE next[d] \in loaded /\ pos[next[d]] = pos[d] + 1
    BY <1>2, <1>4, <1>5 DEF LinksOK
  <1>7. PlacesOK(q)'
    <2>1. ASSUME NEW a \in loaded', NEW b \in loaded', q[a] = q[b]
          PROVE  a = b
      BY <1>3, <1>4, <1>5, <2>1
    <2>2. ASSUME NEW k \in 1 .. count' PROVE \E n \in loaded' : q[n] = k
      <3>1. CASE k = 1
        BY <1>3, <1>4, <3>1, Zenon
      <3>2. CASE k # 1 /\ k <= pos[d]
        <4>1. k - 1 \in 1 .. count
          BY <1>4, <1>5, <3>2
        <4>2. PICK n \in loaded : pos[n] = k - 1
          BY <1>2, <4>1, Zenon DEF PlacesOK
        <4>3. n # d /\ pos[n] < pos[d]
          BY <1>4, <1>5, <3>2, <4>2
        <4> QED BY <1>3, <1>4, <4>2, <4>3
      <3>3. CASE k > pos[d]
        <4>1. PICK n \in loaded : pos[n] = k
          BY <1>2, <1>4, Zenon DEF PlacesOK
        <4>2. n # d /\ ~(pos[n] < pos[d])
          BY <1>4, <1>5, <3>3, <4>1
        <4> QED BY <1>3, <1>4, <4>1, <4>2
      <3> QED BY <1>4, <1>5, <3>1, <3>2, <3>3
    <2>3. count' # 0 /\ head' \in loaded' /\ q[head'] = 1
      BY <1>3, <1>4, <1>5, Zenon
    <2> QED BY <2>1, <2>2, <2>3 DEF PlacesOK
  <1>8. LinksOK(q)'
    <2> SUFFICES ASSUME NEW n \in loaded
                 PROVE  /\ IF q[n] = count THEN next'[n] = NULL
                           ELSE next'[n] \in loaded /\ q[next'[n]] = q[n] + 1
                        /\ IF q[n] = 1 THEN pre'[n] = NULL
                           ELSE pre'[n] \in loaded /\ q[pre'[n]] = q[n] - 1
      BY <1>4, Zenon DEF LinksOK
    <2>1. /\ next'[n] = IF n = d THEN head
                        ELSE IF n = pre[d] THEN next[d] ELSE next[n]
          /\ pre'[n] = IF n = d THEN NULL ELSE IF n = head THEN d
                       ELSE IF n = next[d] THEN pre[d] ELSE pre[n]
      BY Zenon DEF MoveToFront, ListInv, ListType
    <2>2. \A m \in loaded : q[m] = IF m = d THEN 1
                                   ELSE IF pos[m] < pos[d] THEN pos[m] + 1
                                   ELSE pos[m]
      BY <1>3, <1>4, Zenon
    <2>3. /\ IF pos[n] = count THEN next[n] = NULL
             ELSE next[n] \in loaded /\ pos[next[n]] = pos[n] + 1
          /\ IF pos[n] = 1 THEN pre[n] = NULL
             ELSE pre[n] \in loaded /\ pos[pre[n]] = pos[n] - 1
      BY <1>2, Zenon DEF LinksOK
    <2>4. CASE n = d
      BY <1>4, <1>5, <2>1, <2>2, <2>4, SMTT(30)
    <2>5. CASE n # d
      <3>1. IF q[n] = count THEN next'[n] = NULL
            ELSE next'[n] \in loaded /\ q[next'[n]] = q[n] + 1
        <4>1. CASE n = pre[d]
          BY <1>4, <1>5, <1>6, <2>1, <2>2, <2>5, <4>1, SMTT(30)
        <4>2. CASE n # pre[d]
          <5>1. pos[n] # pos[d] - 1 /\ pos[n] # pos[d]
            BY <1>4, <1>5, <1>6, <2>5, <4>2, Zenon
          <5> QED BY <1>4, <1>5, <2>1, <2>2, <2>3, <2>5, <4>2, <5>1
        <4> QED BY <4>1, <4>2
      <3>2. IF q[n] = 1 THEN pre'[n] = NULL
            ELSE pre'[n] \in loaded /\ q[pre'[n]] = q[n] - 1
        <4>1. CASE n = head
          BY <1>4, <1>5, <2>1, <2>2, <2>5, <4>1, SMTT(30)
        <4>2. CASE n # head /\ n = next[d]
          BY <1>4, <1>5, <1>6, <2>1, <2>2, <2>5, <4>2, SMTT(30)
        <4>3. CASE n # head /\ n # next[d]
          <5>1. pos[n] # 1 /\ pos[n] # pos[d] + 1 /\ pos[n] # pos[d]
            BY <1>4, <1>5, <1>6, <2>5, <4>3
          <5> QED BY <1>4, <1>5, <2>1, <2>2, <2>3, <2>5, <4>3, <5>1, SMTT(30)
        <4> QED BY <4>1, <4>2, <4>3, SMTT(30)
      <3> QED BY <3>1, <3>2
    <2> QED BY <2>4, <2>5
  <1>9. pos \in Places /\ q \in Places'
    BY <1>2, <1>3, <1>7, <1>8, Zenon DEF Places
  <1> QED BY <1>1, <1>3, <1>9, Zenon

-----------------------------------------------------------------------------

\* The least-number principle, for a set.
LEMMA LeastNatural ==
    ASSUME NEW B \in SUBSET Nat, B # {}
    PROVE  \E k \in B : \A j \in B : ~(j < k)
  <1>1. PICK k \in B : \A j \in B : ~(<<j, k>> \in OpToRel(<, Nat))
    BY NatLessThanWellFounded, WFMin, Zenon
  <1> QED BY <1>1, Zenon DEF OpToRel

\* A well-formed list has one numbering: the first driver on which two of them
\* differed would follow, along the links, one on which they agree.
LEMMA PlacesUnique == ListType => \A p, q \in Places : p = q
  <1> SUFFICES ASSUME ListType, NEW p \in Places, NEW q \in Places, p # q
               PROVE  FALSE
    BY Zenon
  <1>1. /\ p \in [loaded -> 1 .. count] /\ PlacesOK(p) /\ LinksOK(p)
        /\ q \in [loaded -> 1 .. count] /\ PlacesOK(q) /\ LinksOK(q)
        /\ count \in Nat
    BY Zenon DEF Places, ListType
  <1> DEFINE B == {k \in Nat : \E n \in loaded : p[n] = k /\ q[n] # k}
  <1>2. PICK n \in loaded : p[n] # q[n]
    <2>1. p = [x \in loaded |-> p[x]] /\ q = [x \in loaded |-> q[x]]
      BY <1>1
    <2> QED BY <2>1
  <1>3. p[n] \in B
    BY <1>1, <1>2
  <1>4. PICK k \in B : \A j \in B : ~(j < k)
    <2>1. B \in SUBSET Nat /\ B # {}
      BY <1>3
    <2> HIDE DEF B
    <2> QED BY <2>1, LeastNatural, Zenon
  <1>6. PICK d \in loaded : p[d] = k /\ q[d] # k
    BY <1>4, Zenon
  <1>7. CASE k = 1
    <2>1. head \in loaded /\ p[head] = 1 /\ q[head] = 1
      BY <1>1, <1>6, <1>7 DEF PlacesOK
    <2>2. head = d
      <3>1. \A m, j \in loaded : p[m] = p[j] => m = j
        BY <1>1, Zenon DEF PlacesOK
      <3> QED BY <1>6, <1>7, <2>1, <3>1
    <2> QED BY <1>6, <1>7, <2>1, <2>2, Zenon
  <1>8. CASE k # 1
    <2> DEFINE c == pre[d]
    <2>1. c \in loaded /\ p[c] = k - 1
      BY <1>1, <1>6, <1>8, ZenonT(30) DEF LinksOK
    <2>2. k \in 1 .. count /\ k - 1 \in Nat /\ k - 1 < k /\ k - 1 # count /\ k - 1 + 1 = k
      BY <1>1, <1>6, <2>1
    <2>3. q[c] = k - 1
      BY <1>4, <2>1, <2>2, Zenon
    <2>4. next[c] \in loaded /\ p[next[c]] = k /\ q[next[c]] = k
      <3>1. /\ p[c] # count => next[c] \in loaded /\ p[next[c]] = p[c] + 1
            /\ q[c] # count => q[next[c]] = q[c] + 1
        BY <1>1, <2>1, Zenon DEF LinksOK
      <3> HIDE DEF c
      <3> QED BY <2>1, <2>2, <2>3, <3>1
    <2>5. next[c] = d
      <3>1. \A m, j \in loaded : p[m] = p[j] => m = j
        BY <1>1, Zenon DEF PlacesOK
      <3> QED BY <1>6, <2>4, <3>1
    <2> QED BY <1>6, <2>4, <2>5, Zenon
  <1> QED BY <1>7, <1>8

\* The order of the list can be read off any numbering.
OrderByPlaces ==
    \A pos \in Places :
       Before = {p \in loaded \X loaded : pos[p[1]] < pos[p[2]]}

\* This follows from the numbering being unique.
LEMMA BeforeByPlaces == ListType => OrderByPlaces
  <1> SUFFICES ASSUME ListType, NEW pos \in Places
               PROVE  Before = {p \in loaded \X loaded : pos[p[1]] < pos[p[2]]}
    BY Zenon DEF OrderByPlaces
  <1>1. Places = {pos}
    BY PlacesUnique, Zenon
  <1> QED BY <1>1, Zenon DEF Before

\* A driver numbered 1, with the others in the order they had, is the step of
\* the abstract table.
LEMMA FrontOrder ==
    ASSUME ListType, ListType', NEW d, loaded' = loaded \cup {d},
           NEW pos \in Places, NEW q \in Places', q[d] = 1,
           \A m, n \in loaded \ {d} : q[m] < q[n] <=> pos[m] < pos[n]
    PROVE  Order!ToFront(d)
  <1>1. Before = {p \in loaded \X loaded : pos[p[1]] < pos[p[2]]}
    BY BeforeByPlaces, Zenon DEF OrderByPlaces
  <1>2. Before' = {p \in loaded' \X loaded' : q[p[1]] < q[p[2]]}
    <2>1. OrderByPlaces'
      BY BeforeByPlaces, PTL
    <2> QED BY <2>1, Zenon DEF OrderByPlaces
  <1>3. q \in [loaded' -> 1 .. count'] /\ \A n \in loaded' : q[n] = q[d] => n = d
    BY Zenon DEF Places, PlacesOK
  <1>4. \A n \in loaded' : n # d => 1 < q[n] /\ ~(q[n] < 1)
    BY <1>3 DEF ListType
  <1>5. ASSUME NEW m \in loaded', NEW n \in loaded'
        PROVE  <<m, n>> \in Before' <=>
                  \/ <<m, n>> \in Before /\ m # d /\ n # d
                  \/ m = d /\ n \in loaded \ {d}
    <2>1. <<m, n>> \in Before' <=> q[m] < q[n]
      BY <1>2
    <2>2. CASE n = d
      BY <1>3, <1>4, <2>1, <2>2
    <2>3. CASE n # d /\ m = d
      BY <1>4, <2>1, <2>3
    <2>4. CASE n # d /\ m # d
      BY <1>1, <2>1, <2>4
    <2> QED BY <2>2, <2>3, <2>4
  <1>6. Before' = {p \in Before : p[1] # d /\ p[2] # d} \cup {d} \X (loaded \ {d})
    <2>1. Before' \subseteq loaded' \X loaded' /\ Before \subseteq loaded' \X loaded'
      BY <1>1, <1>2
    <2> HIDE DEF Before
    <2> QED BY <1>5, <2>1
  <1> QED BY <1>6 DEF Order!ToFront

\* drive_addDriver keeps the list well formed, puts its driver at the head and
\* leaves the order of the others alone.
LEMMA AddDriverStep ==
    ASSUME ListInv, NEW d \in Ids, drive_addDriver(d)
    PROVE  ListInv' /\ head' = d /\ Order!ToFront(d)
  <1> USE DEF ListInv, ListOK
  <1>1. CASE AddNew(d)
    <2>1. ListType'
      BY <1>1, AddNewKeeps, Zenon
    <2>2. PICK pos \in Places, q \in Places' :
             \A n \in loaded' : q[n] = IF n = d THEN 1 ELSE pos[n] + 1
      BY <1>1, AddNewKeeps, Zenon
    <2>3. loaded' = loaded \cup {d} /\ head' = d
      BY <1>1, Zenon DEF AddNew
    <2>4. pos \in [loaded -> 1 .. count]
      BY Zenon DEF Places
    <2>5. q[d] = 1 /\ \A m, n \in loaded \ {d} : q[m] < q[n] <=> pos[m] < pos[n]
      BY <2>2, <2>3, <2>4 DEF ListType
    <2> QED BY <2>1, <2>3, <2>5, FrontOrder, Zenon
  <1>2. CASE MoveToFront(d)
    <2>1. ListType'
      BY <1>2, MoveToFrontKeeps, Zenon
    <2>2. PICK pos \in Places, q \in Places' :
             \A n \in loaded' : q[n] = IF n = d THEN 1
                                      ELSE IF pos[n] < pos[d] THEN pos[n] + 1
                                      ELSE pos[n]
      BY <1>2, MoveToFrontKeeps, Zenon
    <2>3. d \in loaded /\ loaded' = loaded /\ loaded' = loaded \cup {d} /\ head' = d
      BY <1>2 DEF MoveToFront
    <2>4. /\ pos \in [loaded -> 1 .. count]
          /\ \A n \in loaded : pos[n] = pos[d] => n = d
      BY <2>3, Zenon DEF Places, PlacesOK
    <2>5. q[d] = 1 /\ \A m, n \in loaded \ {d} : q[m] < q[n] <=> pos[m] < pos[n]
      BY <2>2, <2>3, <2>4 DEF ListType
    <2> QED BY <2>1, <2>3, <2>5, FrontOrder, Zenon
  <1>3. CASE KeepAtHead(d)
    <2>1. d \in loaded /\ d = head /\ UNCHANGED listVars
      BY <1>3, Zenon DEF KeepAtHead
    <2>2. ListType' /\ Places' = Places /\ loaded' = loaded \cup {d} /\ head' = d
      BY <2>1 DEF listVars, ListType, Places, PlacesOK, LinksOK
    <2>3. PICK pos \in Places : TRUE
      BY Zenon
    <2>4. pos[d] = 1
      <3>1. pos \in [loaded -> 1 .. count] /\ count \in Nat /\ PlacesOK(pos)
        BY Zenon DEF Places, ListType
      <3> QED BY <2>1, <3>1 DEF PlacesOK
    <2> QED BY <2>2, <2>3, <2>4, FrontOrder, Zenon
  <1> QED BY <1>1, <1>2, <1>3 DEF drive_addDriver

-----------------------------------------------------------------------------

\* The list is empty before the first driver is added.
LEMMA ListInit == TableInit => ListInv
  <1> SUFFICES ASSUME TableInit PROVE ListInv
    OBVIOUS
  <1>1. ListType
    BY Zenon DEF TableInit, ListType
  <1>2. PICK pos : pos = [d \in loaded |-> 1]
    BY Zenon
  <1>3. pos \in [loaded -> 1 .. count] /\ PlacesOK(pos) /\ LinksOK(pos)
    BY <1>2 DEF TableInit, PlacesOK, LinksOK
  <1> QED BY <1>1, <1>3, Zenon DEF ListInv, ListOK, Places

\* Only drive_addDriver touches the list.
LEMMA ListStep == ListInv /\ [TableNext]_tableVars => ListInv'
  <1> SUFFICES ASSUME ListInv, [TableNext]_tableVars PROVE ListInv'
    OBVIOUS
  <1>1. ASSUME UNCHANGED listVars PROVE ListInv'
    BY <1>1 DEF listVars, ListInv, ListType, ListOK, Places, PlacesOK, LinksOK
  <1>2. (\E d \in Ids : drive_addDriver(d)) \/ UNCHANGED listVars
    BY Zenon DEF TableNext, tableVars, Boot, LoadAndSwitch, FreeOfArgv, LoadRefused, NoLoad,
           InPlaceEditBefore, InPlaceEditAfter, PerfFeedback, Gone
  <1> QED BY <1>1, <1>2, AddDriverStep, Zenon

\* The list of driver_loader.c is well formed after any number of hand-overs
\* of any number of drivers in any order.
THEOREM ListCorrect == TableSpec => []ListOK
  <1>1. TableSpec => []ListInv
    BY ListInit, ListStep, PTL DEF TableSpec
  <1>2. ListInv => ListOK
    BY Zenon DEF ListInv
  <1> QED BY <1>1, <1>2, PTL

\* Apart from the copies that could not be deleted, one exists exactly while its
\* path is recorded and the descriptor refers to it; that happens only during a run, and only while the flag that makes
\* fuzz_inPlaceEditAfter act is still set.
CopyInv ==
    /\ at \in {"boot", "loop", "input", "run", "feedback", "gone"}
    /\ tmpPath \in BOOLEAN /\ inPlace \in BOOLEAN
    /\ tmpPath => at = "run" /\ inPlace
    /\ fd = (IF tmpPath THEN "copy" ELSE "shm")
    /\ kept \in Nat
    /\ copies = (IF tmpPath THEN kept + 1 ELSE kept)

\* Whatever drivers are handed over between runs, in-place editing or not, the
\* working copy of a run is removed, unless unlink fails, and the descriptor
\* restored after it.
THEOREM CopiesCorrect == TableSpec => []CopyRemoved
  <1>1. TableInit => CopyInv
    <2>1. 0 \in Nat
      OBVIOUS
    <2> QED BY <2>1, Zenon DEF TableInit, CopyInv
  <1>2. CopyInv /\ [TableNext]_tableVars => CopyInv'
    <2> SUFFICES ASSUME CopyInv, [TableNext]_tableVars PROVE CopyInv'
      OBVIOUS
    <2>1. CASE Boot
      BY <2>1, Zenon DEF CopyInv, Boot, copyVars
    <2>2. ASSUME NEW d \in Ids, NEW e \in BOOLEAN, LoadAndSwitch(d, e) \/ FreeOfArgv(d, e)
          PROVE  CopyInv'
      BY <2>2 DEF CopyInv, LoadAndSwitch, FreeOfArgv, copyVars
    <2>3. ASSUME NEW id \in BadIds, LoadRefused(id) PROVE CopyInv'
      BY <2>3, Zenon DEF CopyInv, LoadRefused, copyVars
    <2>4. CASE NoLoad
      BY <2>4, Zenon DEF CopyInv, NoLoad, copyVars
    <2>5. CASE InPlaceEditBefore
      <3>1. tmpPath = FALSE /\ fd = "shm" /\ copies = kept /\ inPlace' = inPlace /\ kept' = kept
        BY <2>5, Zenon DEF CopyInv, InPlaceEditBefore, copyVars
      <3>2. \/ inPlace = TRUE /\ fd' = "copy" /\ tmpPath' = TRUE /\ copies' = kept + 1
            \/ tmpPath' = FALSE /\ fd' = "shm" /\ copies' = kept
        BY <2>5, <3>1 DEF CopyInv, InPlaceEditBefore, copyVars
      <3>3. at' = "run" /\ inPlace \in BOOLEAN
        BY <2>5, Zenon DEF CopyInv, InPlaceEditBefore
      <3> QED BY <3>1, <3>2, <3>3, Zenon DEF CopyInv
    <2>6. CASE InPlaceEditAfter
      <3>1. CASE tmpPath = TRUE
        <4>1. inPlace = TRUE /\ copies = kept + 1 /\ kept \in Nat /\ inPlace' = inPlace
          BY <2>6, <3>1, Zenon DEF CopyInv, InPlaceEditAfter
        <4>2. /\ fd' = "shm" /\ tmpPath' = FALSE
              /\ \/ copies' = copies - 1 /\ kept' = kept
                 \/ copies' = copies /\ kept' = kept + 1
          BY <2>6, <3>1, <4>1, Zenon DEF InPlaceEditAfter
        <4>3. copies' = kept' /\ kept' \in Nat /\ at' = "feedback"
          BY <2>6, <4>1, <4>2 DEF InPlaceEditAfter
        <4> QED BY <4>1, <4>2, <4>3, Zenon DEF CopyInv
      <3>2. CASE tmpPath = FALSE
        BY <2>6, <3>2, Zenon DEF CopyInv, InPlaceEditAfter, copyVars
      <3> QED BY <3>1, <3>2, Zenon DEF CopyInv
    <2>7. CASE PerfFeedback
      BY <2>7, Zenon DEF CopyInv, PerfFeedback, copyVars
    <2>8. CASE Gone \/ UNCHANGED tableVars
      BY <2>8 DEF CopyInv, Gone, tableVars, copyVars
    <2> QED BY <2>1, <2>2, <2>3, <2>4, <2>5, <2>6, <2>7, <2>8 DEF TableNext
  <1>3. CopyInv => CopyRemoved
    BY Zenon DEF CopyInv, CopyRemoved
  <1> QED BY <1>1, <1>2, <1>3, PTL DEF TableSpec

\* Once a driver is active it is the head of the list.
Focus ==
    /\ active # NULL => active = head /\ cmd = active
    /\ at = "boot" => active = NULL

\* The driver that driver_updateDrvStat credits with what a run finds is the
\* one whose command line runs, and it is the one last handed over.
THEOREM FocusCorrect == TableSpec => []Focus
  <1>1. TableInit => Focus
    BY Zenon DEF TableInit, Focus
  <1>2. Focus /\ [TableNext]_tableVars => Focus'
    <2> SUFFICES ASSUME Focus, [TableNext]_tableVars PROVE Focus'
      OBVIOUS
    <2>1. CASE Boot
      BY <2>1, Zenon DEF Focus, Boot, listVars
    <2>2. ASSUME NEW d \in Ids, NEW e \in BOOLEAN, LoadAndSwitch(d, e) \/ FreeOfArgv(d, e)
          PROVE  Focus'
      <3>1. CASE LoadAndSwitch(d, e)
        BY <3>1, Zenon DEF Focus, LoadAndSwitch, driver_switchDriver
      <3>2. CASE FreeOfArgv(d, e)
        <4>1. active = NULL /\ active' = active /\ at' = "gone"
          BY <3>2, Zenon DEF Focus, FreeOfArgv
        <4> QED BY <4>1 DEF Focus
      <3> QED BY <2>2, <3>1, <3>2
    <2>3. CASE \/ \E id \in BadIds : LoadRefused(id)
               \/ NoLoad \/ InPlaceEditBefore \/ InPlaceEditAfter
               \/ PerfFeedback \/ Gone \/ UNCHANGED tableVars
      BY <2>3, Zenon DEF Focus, LoadRefused, NoLoad, InPlaceEditBefore,
           InPlaceEditAfter, PerfFeedback, Gone, tableVars, listVars
    <2> QED BY <2>1, <2>2, <2>3 DEF TableNext
  <1> QED BY <1>1, <1>2, PTL DEF TableSpec

\* While the process goes on, the command line is honggfuzz's own only until a
\* driver is loaded, and none is loaded before the command line is parsed.
CmdKnown ==
    /\ at # "gone" /\ cmd = NULL => loaded = {}
    /\ at = "boot" => loaded = {}

\* No step of the iteration loads a driver and leaves the command line alone.
LEMMA CmdKnownStep ==
    ListInv /\ Focus /\ CmdKnown /\ [TableNext]_tableVars => CmdKnown'
  <1> SUFFICES ASSUME ListInv, Focus, CmdKnown, [TableNext]_tableVars
               PROVE  CmdKnown'
    OBVIOUS
  <1>1. CASE Boot
    BY <1>1, IdsAssumption, Zenon DEF CmdKnown, Boot, listVars
  <1>2. ASSUME NEW d \in Ids, NEW e \in BOOLEAN, LoadAndSwitch(d, e) PROVE CmdKnown'
    <2>1. head' = d /\ d # NULL /\ at' = "input"
      BY <1>2, AddDriverStep, IdsAssumption, Zenon DEF LoadAndSwitch
    <2>2. cmd' = IF active = d THEN cmd ELSE d
      BY <1>2, <2>1, Zenon DEF LoadAndSwitch, driver_switchDriver
    <2>3. cmd' # NULL
      BY <2>1, <2>2 DEF Focus
    <2> QED BY <2>1, <2>3 DEF CmdKnown
  <1>3. CASE \/ \E d \in Ids, e \in BOOLEAN : FreeOfArgv(d, e)
             \/ \E id \in BadIds : LoadRefused(id)
    <2>1. at' = "gone"
      BY <1>3, Zenon DEF FreeOfArgv, LoadRefused
    <2> QED BY <2>1 DEF CmdKnown
  <1>4. CASE NoLoad \/ InPlaceEditBefore \/ InPlaceEditAfter \/ PerfFeedback
             \/ Gone \/ UNCHANGED tableVars
    <2>1. /\ loaded' = loaded /\ cmd' = cmd
          /\ (at' # "boot" /\ at # "gone") \/ at' = at
      BY <1>4, SMTT(30) DEF NoLoad, InPlaceEditBefore, InPlaceEditAfter, PerfFeedback,
                  Gone, tableVars, listVars
    <2> QED BY <2>1, Zenon DEF CmdKnown
  <1> QED BY <1>1, <1>2, <1>3, <1>4 DEF TableNext

\* A step that leaves the list, the active driver and its command line alone
\* is a stutter of the abstract table.
LEMMA OrderStutters ==
    ASSUME UNCHANGED <<listVars, active, cmd>>
    PROVE  UNCHANGED Order!vars
  BY DEF listVars, Order!vars, Before, Places, PlacesOK, LinksOK

\* The linked list with its move to front keeps the drivers by the time they
\* were last handed over, and the driver in use is the last one: every step of
\* honggfuzz is a hand-over of DriverOrder or leaves the table as it is.
THEOREM OrderCorrect == TableSpec => ImplementsOrder
  <1>1. TableInit => Order!Init
    <2> SUFFICES ASSUME TableInit PROVE Order!Init
      OBVIOUS
    <2>1. loaded = {} /\ active = NULL
      BY Zenon DEF TableInit
    <2>2. Before = {}
      BY <2>1 DEF Before
    <2> QED BY <2>1, <2>2 DEF Order!Init
  <1>2. ListInv /\ Focus /\ CmdKnown /\ [TableNext]_tableVars
            => [Order!Next]_(Order!vars)
    <2> SUFFICES ASSUME ListInv, Focus, CmdKnown, [TableNext]_tableVars
                 PROVE  [Order!Next]_(Order!vars)
      OBVIOUS
    <2>1. CASE Boot
      <3>1. CASE UNCHANGED <<listVars, cmd>>
        BY <2>1, <3>1, OrderStutters, Zenon DEF Boot
      <3>2. ASSUME NEW d \in Ids, drive_addDriver(d) PROVE Order!Next
        <4>1. loaded = {} /\ active = NULL /\ active' = NULL
          BY <2>1, Zenon DEF Boot, Focus, CmdKnown
        <4>2. Order!ToFront(d)
          BY <3>2, AddDriverStep, Zenon
        <4>3. Order!Preload(d)
          BY <4>1, <4>2 DEF Order!Preload
        <4> QED BY <4>3, Zenon DEF Order!Next
      <3> QED BY <2>1, <3>1, <3>2, Zenon DEF Boot
    <2>2. ASSUME NEW d \in Ids, NEW e \in BOOLEAN, LoadAndSwitch(d, e)
          PROVE  Order!Next
      <3>1. head' = d /\ d # NULL /\ Order!ToFront(d)
        BY <2>2, AddDriverStep, IdsAssumption, Zenon DEF LoadAndSwitch
      <3>2. active' = d /\ cmd' = d
        BY <2>2, <3>1, Zenon DEF LoadAndSwitch, driver_switchDriver, Focus
      <3>3. Order!Focus(d)
        BY <3>1, <3>2 DEF Order!Focus
      <3> QED BY <3>3, Zenon DEF Order!Next
    <2>3. ASSUME NEW d \in Ids, NEW e \in BOOLEAN, FreeOfArgv(d, e)
          PROVE  Order!Next
      <3>1. loaded = {} /\ active' = active /\ cmd' = cmd
        BY <2>3 DEF FreeOfArgv, CmdKnown
      <3>2. Order!ToFront(d)
        BY <2>3, AddDriverStep, Zenon DEF FreeOfArgv
      <3>3. Order!Preload(d)
        BY <3>1, <3>2 DEF Order!Preload
      <3> QED BY <3>3, Zenon DEF Order!Next
    <2>4. CASE \/ \E id \in BadIds : LoadRefused(id)
               \/ NoLoad \/ InPlaceEditBefore \/ InPlaceEditAfter
               \/ PerfFeedback \/ Gone \/ UNCHANGED tableVars
      <3>1. UNCHANGED <<listVars, active, cmd>>
        BY <2>4, Zenon DEF LoadRefused, NoLoad, InPlaceEditBefore,
             InPlaceEditAfter, PerfFeedback, Gone, tableVars, listVars
      <3> QED BY <3>1, OrderStutters, Zenon
    <2> QED BY <2>1, <2>2, <2>3, <2>4 DEF TableNext
  <1>3. TableInit => CmdKnown
    BY Zenon DEF TableInit, CmdKnown
  <1> QED BY <1>1, <1>2, <1>3, CmdKnownStep, ListInit, ListStep, FocusCorrect,
             PTL DEF TableSpec, ImplementsOrder, Order!Spec

(***************************************************************************)
(* The statistics.                                                         *)
(***************************************************************************)

\* The element MapThenSumSet takes first.
Pick(S) == CHOOSE x \in S : TRUE

\* s adds f up over the sets of D.
Adds(f, s, D) ==
    \A S \in D : s[S] = IF S = {} THEN 0 ELSE f[Pick(S)] + s[S \ {Pick(S)}]

\* The equation of the recursive function in the fold.
IsSum(f, s) ==
    s = [S \in SUBSET Ids |-> IF S = {} THEN 0 ELSE f[Pick(S)] + s[S \ {Pick(S)}]]

\* The fold takes an element of the set,
LEMMA PickIn == ASSUME NEW S, S # {} PROVE Pick(S) \in S
  BY Zenon DEF Pick

\* and goes on with a smaller set.
LEMMA PickLeaves ==
    ASSUME NEW S \in SUBSET Ids, S # {}
    PROVE  /\ Cardinality(S) \in Nat \ {0} /\ Pick(S) \in Ids
           /\ S \ {Pick(S)} \in SUBSET Ids
           /\ Cardinality(S \ {Pick(S)}) = Cardinality(S) - 1
  <1>1. IsFiniteSet(S)
    BY IdsAssumption, FS_Subset, Zenon
  <1>2. Pick(S) \in S
    BY PickIn, Zenon
  <1>3. Cardinality(S \ {Pick(S)}) = Cardinality(S) - 1 /\ Cardinality(S) \in Nat
    BY <1>1, <1>2, FS_RemoveElement, FS_CardinalityType
  <1>4. Cardinality(S) # 0
    BY <1>1, FS_EmptySet, Zenon
  <1> QED BY <1>2, <1>3, <1>4

\* The fold is such a function if there is one.
LEMMA FoldIsSum ==
    ASSUME NEW f, NEW g, IsSum(f, g)
    PROVE  \E s : IsSum(f, s) /\ SumOf(f) = s[Ids]
  <1> DEFINE c == CHOOSE s : IsSum(f, s)
  <1>1. IsSum(f, c)
    BY Zenon
  <1>2. SumOf(f) = c[Ids]
    BY Zenon DEF SumOf, MapThenSumSet, MapThenFoldSet, IsSum, Pick
  <1> QED BY <1>1, <1>2, Zenon

\* The function restricted to the sets of at most k elements.
Upto(k) == {S \in SUBSET Ids : Cardinality(S) <= k}

PartSum(f, k, s) == s \in [Upto(k) -> Int] /\ Adds(f, s, Upto(k))

\* There is one: each size extends the function for the sizes below it.
LEMMA SumExists ==
    ASSUME NEW f \in [Ids -> Int]
    PROVE  \E s : IsSum(f, s)
  <1> DEFINE B == {k \in Nat : ~\E s : PartSum(f, k, s)}
  <1>1. B = {}
    <2> SUFFICES ASSUME B # {} PROVE FALSE
      OBVIOUS
    <2>1. PICK k \in B : \A j \in B : ~(j < k)
      <3>1. B \in SUBSET Nat /\ B # {}
        OBVIOUS
      <3> HIDE DEF B
      <3> QED BY <3>1, LeastNatural, Zenon
    <2>2. k \in Nat /\ ~\E s : PartSum(f, k, s)
      BY <2>1
    <2>3. CASE k = 0
      <3> DEFINE s == [S \in Upto(0) |-> 0]
      <3>1. \A S \in Upto(0) : S = {}
        <4>1. ASSUME NEW S \in Upto(0), S # {} PROVE FALSE
          <5>1. Cardinality(S) \in Nat \ {0}
            BY <4>1, PickLeaves, Zenon DEF Upto
          <5> QED BY <5>1 DEF Upto
        <4> QED BY <4>1
      <3>2. PartSum(f, 0, s)
        BY <3>1 DEF PartSum, Adds
      <3> QED BY <2>2, <2>3, <3>2
    <2>4. CASE k # 0
      <3>1. k - 1 \in Nat /\ k - 1 < k
        BY <2>2, <2>4
      <3>2. PICK r : PartSum(f, k - 1, r)
        BY <2>1, <3>1
      <3> DEFINE s == [S \in Upto(k) |->
                         IF S = {} THEN 0 ELSE f[Pick(S)] + r[S \ {Pick(S)}]]
      <3>3. \A S \in Upto(k) : S # {} => /\ Pick(S) \in Ids /\ f[Pick(S)] \in Int
                                         /\ S \ {Pick(S)} \in Upto(k - 1)
                                         /\ S \ {Pick(S)} \in Upto(k)
        BY <2>2, PickLeaves DEF Upto
      <3>4. \A S \in Upto(k - 1) : r[S] \in Int
        BY <3>2, SMTT(30) DEF PartSum, Adds
      <3>5. s \in [Upto(k) -> Int]
        BY <3>3, <3>4
      <3>6. \A S \in Upto(k - 1) : S \in Upto(k) /\ s[S] = r[S]
        <4>1. \A S \in Upto(k - 1) : S \in Upto(k)
          <5>1. \A S \in SUBSET Ids : Cardinality(S) \in Nat
            BY IdsAssumption, FS_Subset, FS_CardinalityType
          <5> QED BY <2>2, <5>1 DEF Upto
        <4> QED BY <3>2, <4>1 DEF PartSum, Adds
      <3>7. PartSum(f, k, s)
        <4>1. ASSUME NEW S \in Upto(k)
              PROVE  s[S] = IF S = {} THEN 0 ELSE f[Pick(S)] + s[S \ {Pick(S)}]
          BY <3>3, <3>6, Zenon
        <4> HIDE DEF s
        <4> QED BY <3>5, <4>1 DEF PartSum, Adds
      <3> QED BY <2>2, <3>7
    <2> QED BY <2>3, <2>4
  <1>2. Cardinality(Ids) \in Nat
    BY IdsAssumption, FS_CardinalityType
  <1>3. PICK s : PartSum(f, Cardinality(Ids), s)
    BY <1>1, <1>2
  <1>4. Upto(Cardinality(Ids)) = SUBSET Ids
    BY IdsAssumption, FS_Subset DEF Upto
  <1>5. IsSum(f, s)
    BY <1>3, <1>4 DEF PartSum, Adds, IsSum
  <1> QED BY <1>5

\* Induction over the subsets of the ids, in the form of a least counterexample.
LEMMA LeastSubset ==
    ASSUME NEW T \in SUBSET SUBSET Ids, T # {}
    PROVE  \E S \in T : S = {} \/ S \ {Pick(S)} \notin T
  <1>1. \A S \in T : Cardinality(S) \in Nat
    BY IdsAssumption, FS_Subset, FS_CardinalityType
  <1> DEFINE B == {Cardinality(S) : S \in T}
  <1>2. B \in SUBSET Nat /\ B # {}
    BY <1>1
  <1>3. PICK k \in B : \A j \in B : ~(j < k)
    <2> HIDE DEF B
    <2> QED BY <1>2, LeastNatural, Zenon
  <1>4. PICK S \in T : Cardinality(S) = k
    BY <1>3
  <1>5. ASSUME S # {}, S \ {Pick(S)} \in T PROVE FALSE
    <2>1. Cardinality(S) \in Nat /\ Cardinality(S \ {Pick(S)}) = Cardinality(S) - 1
      BY <1>5, PickLeaves
    <2>2. Cardinality(S \ {Pick(S)}) \in B
      BY <1>5
    <2> HIDE DEF B
    <2> QED BY <1>3, <1>4, <2>1, <2>2
  <1> QED BY <1>5, Zenon

\* So the sum of f satisfies the equation.
LEMMA SumAdds ==
    ASSUME NEW f \in [Ids -> Int]
    PROVE  \E s : Adds(f, s, SUBSET Ids) /\ SumOf(f) = s[Ids]
  <1>1. PICK s : IsSum(f, s) /\ SumOf(f) = s[Ids]
    BY SumExists, FoldIsSum, Zenon
  <1> DEFINE h == [S \in SUBSET Ids |-> IF S = {} THEN 0
                                       ELSE f[Pick(S)] + s[S \ {Pick(S)}]]
  <1>2. s = h
    BY <1>1, Zenon DEF IsSum
  <1>3. \A S \in SUBSET Ids :
           h[S] = IF S = {} THEN 0 ELSE f[Pick(S)] + s[S \ {Pick(S)}]
    BY Zenon
  <1>4. Adds(f, s, SUBSET Ids)
    <2> HIDE DEF h
    <2> QED BY <1>2, <1>3, Zenon DEF Adds
  <1> QED BY <1>1, <1>4, Zenon

\* Nothing adds up to nothing.
LEMMA SumZero == ASSUME NEW f, f = [d \in Ids |-> 0] PROVE SumOf(f) = 0
  <1>1. PICK s : Adds(f, s, SUBSET Ids) /\ SumOf(f) = s[Ids]
    <2>1. f \in [Ids -> Int]
      OBVIOUS
    <2> QED BY <2>1, SumAdds, Zenon
  <1> DEFINE T == {S \in SUBSET Ids : s[S] # 0}
  <1>2. ASSUME T # {} PROVE FALSE
    <2>1. PICK S \in T : S = {} \/ S \ {Pick(S)} \notin T
      <3>1. T \in SUBSET SUBSET Ids
        OBVIOUS
      <3> HIDE DEF T
      <3> QED BY <1>2, <3>1, LeastSubset, Zenon
    <2>2. s[S] = IF S = {} THEN 0 ELSE f[Pick(S)] + s[S \ {Pick(S)}]
      <3>1. S \in SUBSET Ids
        BY <2>1
      <3> HIDE DEF T
      <3> QED BY <1>1, <3>1, Zenon DEF Adds
    <2>3. CASE S = {}
      BY <2>1, <2>2, <2>3
    <2>4. CASE S # {}
      <3>1. Pick(S) \in Ids /\ S \ {Pick(S)} \in SUBSET Ids
        BY <2>4, PickLeaves, Zenon
      <3>2. s[S \ {Pick(S)}] = 0 /\ f[Pick(S)] = 0
        BY <2>1, <2>4, <3>1
      <3> QED BY <2>1, <2>2, <2>4, <3>2
    <2> QED BY <2>3, <2>4
  <1>3. s[Ids] = 0
    BY <1>2, SMTT(30)
  <1> QED BY <1>1, <1>3

\* Changing one summand changes the sum by the difference.
LEMMA SumUpdate ==
    ASSUME NEW f \in [Ids -> Int], NEW d \in Ids, NEW v \in Int
    PROVE  /\ SumOf(f) \in Int
           /\ SumOf([f EXCEPT ![d] = v]) = SumOf(f) + (v - f[d])
  <1> DEFINE g == [f EXCEPT ![d] = v]
  <1>0. g \in [Ids -> Int] /\ \A x \in Ids : g[x] = IF x = d THEN v ELSE f[x]
    OBVIOUS
  <1>1. PICK s : Adds(f, s, SUBSET Ids) /\ SumOf(f) = s[Ids]
    BY SumAdds, Zenon
  <1>2. PICK t : Adds(g, t, SUBSET Ids) /\ SumOf(g) = t[Ids]
    <2> HIDE DEF g
    <2> QED BY <1>0, SumAdds, Zenon
  <1> HIDE DEF g
  <1> DEFINE Good(S) == s[S] \in Int /\ t[S] = s[S] + IF d \in S THEN v - f[d] ELSE 0
             T == {S \in SUBSET Ids : ~Good(S)}
  <1>3. ASSUME T # {} PROVE FALSE
    <2>1. PICK S \in T : S = {} \/ S \ {Pick(S)} \notin T
      <3>1. T \in SUBSET SUBSET Ids
        OBVIOUS
      <3> HIDE DEF T
      <3> QED BY <1>3, <3>1, LeastSubset, Zenon
    <2>2. /\ s[S] = IF S = {} THEN 0 ELSE f[Pick(S)] + s[S \ {Pick(S)}]
          /\ t[S] = IF S = {} THEN 0 ELSE g[Pick(S)] + t[S \ {Pick(S)}]
      <3>1. S \in SUBSET Ids
        BY <2>1
      <3> HIDE DEF T
      <3> QED BY <1>1, <1>2, <3>1, Zenon DEF Adds
    <2>3. CASE S = {}
      <3>1. Good(S)
        BY <2>2, <2>3
      <3> QED BY <2>1, <3>1
    <2>4. CASE S # {}
      <3> DEFINE x == Pick(S)
                 U == S \ {x}
      <3>1. x \in S /\ x \in Ids /\ U \in SUBSET Ids
        BY <2>4, PickLeaves, PickIn, SMTT(30)
      <3>2. s[U] \in Int /\ t[U] = s[U] + IF d \in U THEN v - f[d] ELSE 0
        BY <2>1, <2>4, <3>1
      <3>3. d \in S <=> d = x \/ d \in U
        BY <3>1
      <3>4. d \in U => d # x
        OBVIOUS
      <3>5. s[S] = f[x] + s[U] /\ t[S] = g[x] + t[U]
        BY <2>2, <2>4
      <3>6. f[x] \in Int /\ f[d] \in Int /\ g[x] = IF x = d THEN v ELSE f[x]
        BY <1>0, <3>1
      <3>7. Good(S)
        <4> HIDE DEF x, U
        <4> QED BY <3>2, <3>3, <3>4, <3>5, <3>6
      <3> QED BY <2>1, <3>7
    <2> QED BY <2>3, <2>4
  <1>4. Good(Ids)
    BY <1>3
  <1> QED BY <1>1, <1>2, <1>4 DEF g

\* A sum of integers is an integer.
LEMMA SumInt == ASSUME NEW f \in [Ids -> Int] PROVE SumOf(f) \in Int
  <1>1. CASE Ids = {}
    <2>1. f = [d \in Ids |-> 0]
      BY <1>1
    <2>2. SumOf(f) = 0
      BY <2>1, SumZero, Zenon
    <2> QED BY <2>2
  <1>2. CASE Ids # {}
    <2>1. PICK d \in Ids : f[d] \in Int
      BY <1>2
    <2> QED BY <2>1, SumUpdate, Zenon
  <1> QED BY <1>1, <1>2

\* Quotient and remainder.
LEMMA ModParts ==
    \A a \in Int : /\ a \div Mod \in Int /\ a % Mod \in 0 .. Mod - 1
                   /\ a = Mod * (a \div Mod) + (a % Mod)
  BY ModAssumption

\* A number is its remainder and a multiple.
LEMMA ModRest == ASSUME NEW a \in Int PROVE \E k \in Int : a = (a % Mod) + Mod * k
  <1>1. /\ a \div Mod \in Int /\ a % Mod \in Int /\ Mod \in Int
        /\ a = Mod * (a \div Mod) + (a % Mod)
    BY ModParts, ModAssumption
  <1>2. a = (a % Mod) + Mod * (a \div Mod)
    BY <1>1
  <1> QED BY <1>1, <1>2, Zenon

\* Numbers have the same remainder if and only if they differ by a multiple.
LEMMA ModEqual ==
    ASSUME NEW a \in Int, NEW b \in Int
    PROVE  a % Mod = b % Mod <=> \E k \in Int : a = b + Mod * k
  <1>1. ASSUME a % Mod = b % Mod PROVE \E k \in Int : a = b + Mod * k
    <2>1. a = b + Mod * ((a \div Mod) - (b \div Mod))
      BY <1>1, ModAssumption, ModParts
    <2> QED BY <2>1, ModParts
  <1>2. ASSUME NEW k \in Int, a = b + Mod * k PROVE a % Mod = b % Mod
    <2> DEFINE m == k + (b \div Mod) - (a \div Mod)
    <2>1. m \in Int
      BY ModParts
    <2>2. a % Mod = Mod * m + (b % Mod)
      BY <1>2, ModAssumption, ModParts
    <2>3. (m > 0 => Mod * m >= Mod) /\ (m < 0 => Mod * m <= 0 - Mod)
      <3> HIDE DEF m
      <3> QED BY <2>1, ModAssumption
    <2>4. Mod * m \in Int /\ (m = 0 => Mod * m = 0)
      <3> HIDE DEF m
      <3> QED BY <2>1, ModAssumption
    <2>5. a % Mod \in 0 .. Mod - 1 /\ b % Mod \in 0 .. Mod - 1
      BY ModParts
    <2> HIDE DEF m
    <2> QED BY <2>1, <2>2, <2>3, <2>4, <2>5, ModAssumption
  <1> QED BY <1>1, <1>2

\* The types of the statistics, and what they add up to.
EdgesInv ==
    /\ active \in Ids \cup {NULL}
    /\ total \in [Ids -> Int] /\ start \in [Ids -> Int]
    /\ edges \in Int /\ unowned \in Int
    /\ EdgesAccounted

\* A switch closes the window of the driver that was active and opens that of
\* d: what the closed window held is now in the total, and the new one is empty
\* but for what the 32-bit start value drops of the count.
LEMMA SwitchAccounts ==
    ASSUME EdgesInv, NEW d \in Ids, driver_switchDriver(d),
           edges' = edges, unowned' = unowned
    PROVE  EdgesInv'
  <1>1. /\ total \in [Ids -> Int] /\ start \in [Ids -> Int]
        /\ edges \in Int /\ unowned \in Int /\ Mod \in Int
        /\ active' = d /\ d # NULL
    BY IdsAssumption, ModAssumption DEF EdgesInv, driver_switchDriver
  <1>2. edges % Mod \in Int
    BY <1>1, ModParts
  <1>3. start' = [start EXCEPT ![d] = edges % Mod]
    BY Zenon DEF driver_switchDriver, SettleStats
  <1>4. start' \in [Ids -> Int] /\ start'[d] = edges % Mod
    BY <1>1, <1>2, <1>3
  <1>5. PICK k \in Int : edges = (edges % Mod) + Mod * k
    BY <1>1, ModRest, Zenon
  <1> DEFINE open == IF active = NULL THEN 0 ELSE edges - start[active]
             held == SumOf(total) + open + unowned
             held2 == SumOf(total') + (edges - start'[d]) + unowned
  <1>6. held % Mod = edges % Mod
    BY DEF EdgesInv, EdgesAccounted
  <1>7. SumOf(total) \in Int /\ open \in Int
    <2>1. SumOf(total) \in Int
      BY <1>1, SumInt, Zenon
    <2> QED BY <1>1, <2>1 DEF EdgesInv
  <1>8. total' \in [Ids -> Int] /\ \E m \in Int : held2 = held + Mod * m
    <2>1. CASE active = NULL
      <3>1. total' = total /\ open = 0
        BY <2>1 DEF driver_switchDriver, SettleStats
      <3>2. held2 = held + Mod * k
        <4> HIDE DEF open
        <4> QED BY <1>1, <1>2, <1>4, <1>5, <1>7, <3>1
      <3> QED BY <1>1, <3>1, <3>2, Zenon
    <2>2. CASE active # NULL
      <3> DEFINE new == total[active] + edges - start[active]
      <3>1. /\ active \in Ids /\ new \in Int /\ total[active] \in Int
            /\ start[active] \in Int
        BY <1>1, <2>2, SMTT(30) DEF EdgesInv
      <3>2. new % Mod \in Int
        BY <3>1, ModParts
      <3>3. total' = [total EXCEPT ![active] = new % Mod]
        BY <2>2 DEF driver_switchDriver, SettleStats
      <3>4. SumOf(total') = SumOf(total) + ((new % Mod) - total[active])
        <4> HIDE DEF new
        <4> QED BY <1>1, <3>1, <3>2, <3>3, SumUpdate, Zenon
      <3>5. PICK m \in Int : new = (new % Mod) + Mod * m
        <4> HIDE DEF new
        <4> QED BY <3>1, ModRest, Zenon
      <3>6. held2 = held + (Mod * k - Mod * m)
        <4> DEFINE a == Mod * k
                   b == Mod * m
                   rest == new % Mod
                   low == edges % Mod
        <4>1. a \in Int /\ b \in Int
          BY <1>1
        <4>2. /\ open = edges - start[active]
              /\ new = total[active] + edges - start[active]
          BY <2>2, SMTT(30)
        <4>3. /\ edges = low + a /\ new = rest + b
              /\ rest \in Int /\ low \in Int /\ start'[d] = low
              /\ SumOf(total') = SumOf(total) + (rest - total[active])
          BY <1>2, <1>4, <1>5, <3>2, <3>4, <3>5
        <4> HIDE DEF open, new, a, b, rest, low
        <4>4. unowned \in Int /\ edges \in Int
          BY <1>1, ZenonT(30)
        <4>5. rest - total[active] = open - b
          BY <1>7, <3>1, <4>1, <4>2, <4>3, <4>4, SMTT(30)
        <4>6. SumOf(total') = SumOf(total) + (open - b) /\ edges - start'[d] = a
          BY <4>1, <4>3, <4>4, <4>5
        <4>7. held2 = held + (a - b)
          BY <1>7, <4>1, <4>4, <4>6
        <4> QED BY <4>7 DEF a, b
      <3>7. k - m \in Int /\ Mod * k - Mod * m = Mod * (k - m)
        BY <1>1
      <3>8. total' \in [Ids -> Int]
        <4> HIDE DEF new
        <4> QED BY <1>1, <3>2, <3>3, Zenon
      <3> HIDE DEF held, held2
      <3> QED BY <3>6, <3>7, <3>8, Zenon
    <2> QED BY <2>1, <2>2, Zenon
  <1>9. held \in Int /\ held2 \in Int
    <2>1. SumOf(total') \in Int
      BY <1>8, SumInt, Zenon
    <2> HIDE DEF open
    <2> QED BY <1>1, <1>2, <1>4, <1>7, <2>1
  <1>10. held2 % Mod = edges % Mod
    <2> HIDE DEF held, held2
    <2> QED BY <1>6, <1>8, <1>9, ModEqual, Zenon
  <1>11. EdgesAccounted'
    BY <1>1, <1>10 DEF EdgesAccounted
  <1> QED BY <1>1, <1>4, <1>8, <1>11 DEF EdgesInv

\* What a run finds goes into the open window or, before the first switch, into
\* what no driver owns.
LEMMA FeedbackAccounts == ASSUME EdgesInv, PerfFeedback PROVE EdgesInv'
  <1>1. PICK n \in Int : /\ edges' = edges + n
                         /\ unowned' = IF active = NULL THEN unowned + n ELSE unowned
    BY DEF PerfFeedback
  <1>2. active' = active /\ start' = start /\ total' = total
    BY Zenon DEF PerfFeedback
  <1> DEFINE open == IF active = NULL THEN 0 ELSE edges - start[active]
             open2 == IF active = NULL THEN 0 ELSE edges' - start[active]
             held == SumOf(total) + open + unowned
             held2 == SumOf(total) + open2 + unowned'
  <1>3. /\ SumOf(total) \in Int /\ unowned \in Int /\ edges \in Int
        /\ active # NULL => start[active] \in Int
    <2>1. active # NULL => active \in Ids
      BY DEF EdgesInv
    <2>2. SumOf(total) \in Int
      BY SumInt, Zenon DEF EdgesInv
    <2> QED BY <2>1, <2>2 DEF EdgesInv
  <1>4. held \in Int /\ held2 = held + n
    BY <1>1, <1>3
  <1>5. held % Mod = edges % Mod
    BY DEF EdgesInv, EdgesAccounted
  <1>6. held2 % Mod = edges' % Mod
    <2>1. edges' \in Int /\ held2 \in Int
      BY <1>1, <1>3, <1>4
    <2> HIDE DEF held, held2
    <2>2. PICK k \in Int : held = edges + Mod * k
      BY <1>3, <1>4, <1>5, ModEqual, Zenon
    <2>3. Mod * k \in Int
      BY ModAssumption
    <2>4. held2 = edges' + Mod * k
      BY <1>1, <1>3, <1>4, <2>2, <2>3
    <2> QED BY <2>1, <2>4, ModEqual, Zenon
  <1>7. EdgesAccounted'
    BY <1>2, <1>6 DEF EdgesAccounted
  <1>8. edges' \in Int /\ unowned' \in Int
    BY <1>1, <1>3
  <1> QED BY <1>2, <1>7, <1>8 DEF EdgesInv

\* Every edge is credited to one driver, in the arithmetic of the statistics,
\* for every number of drivers, every modulus and every order of hand-overs.
THEOREM EdgesCorrect == TableSpec => []EdgesAccounted
  <1>1. TableInit => EdgesInv
    <2> SUFFICES ASSUME TableInit PROVE EdgesInv
      OBVIOUS
    <2>1. /\ active = NULL /\ edges = 0 /\ unowned = 0
          /\ total = [d \in Ids |-> 0] /\ start = [d \in Ids |-> 0]
      BY Zenon DEF TableInit
    <2>2. SumOf(total) = 0
      BY <2>1, SumZero, Zenon
    <2> QED BY <2>1, <2>2 DEF EdgesInv, EdgesAccounted
  <1>2. ListInv /\ EdgesInv /\ [TableNext]_tableVars => EdgesInv'
    <2> SUFFICES ASSUME ListInv, EdgesInv, [TableNext]_tableVars PROVE EdgesInv'
      OBVIOUS
    <2>1. ASSUME NEW d \in Ids, NEW e \in BOOLEAN, LoadAndSwitch(d, e)
          PROVE  EdgesInv'
      <3>1. head' = d /\ driver_switchDriver(head') /\ edges' = edges /\ unowned' = unowned
        BY <2>1, AddDriverStep, Zenon DEF LoadAndSwitch
      <3> QED BY <3>1, SwitchAccounts, Zenon
    <2>2. CASE PerfFeedback
      BY <2>2, FeedbackAccounts, Zenon
    <2>3. CASE \/ Boot
               \/ \E d \in Ids, e \in BOOLEAN : FreeOfArgv(d, e)
               \/ \E id \in BadIds : LoadRefused(id)
               \/ NoLoad \/ InPlaceEditBefore \/ InPlaceEditAfter
               \/ Gone \/ UNCHANGED tableVars
      <3>1. active' = active /\ UNCHANGED statVars
        BY <2>3, Zenon DEF Boot, FreeOfArgv, LoadRefused, NoLoad,
             InPlaceEditBefore, InPlaceEditAfter, Gone, tableVars
      <3> QED BY <3>1 DEF statVars, EdgesInv, EdgesAccounted
    <2> QED BY <2>1, <2>2, <2>3 DEF TableNext
  <1>3. EdgesInv => EdgesAccounted
    BY Zenon DEF EdgesInv
  <1> QED BY <1>1, <1>2, <1>3, ListInit, ListStep, PTL DEF TableSpec

=============================================================================
