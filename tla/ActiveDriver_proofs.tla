-------------------------- MODULE ActiveDriver_proofs --------------------------
(***************************************************************************)
(* Proofs about the two sides of setActiveDriver: the handover to          *)
(* honggfuzz and the attribution of what the outgoing driver did.          *)
(*                                                                         *)
(* Handover, for any number of drivers and any limits.  Neither Agreement  *)
(* nor CreditedInTime is inductive: whether honggfuzz runs the driver that *)
(* mfuzz credits when mfuzz sleeps depends on where the two sides were,    *)
(* and on what was in the file, all through the handover.  Rendezvous says *)
(* so for each place of mfuzz and of honggfuzz, Gate says when targets are *)
(* kept from recording, and Credits whose records may be under way.        *)
(*                                                                         *)
(* GraphSync, for every call graph, every set of drivers and every width   *)
(* of the counts.  That a credit is justified depends on whose window a    *)
(* count changed in: Pending follows each changed count from the call that *)
(* made it, through the closed gate, to the synchronisation that reads it. *)
(***************************************************************************)
EXTENDS Handover, GraphSync, FiniteSetTheorems, TLAPS

\* What the two sides and the file agree on while both are timely.
Rendezvous ==
    /\ hpc # "dead" /\ known
    /\ mpc \notin {"over", "exited"}
    /\ mpc # "blocked" => target = active
    /\ mpc \in {"sleep", "blocked", "synced", "gone"} => file = "none"
    /\ mpc \in {"sleep", "blocked", "gone"} => current = active
    /\ mpc \in {"first", "wait"} => file \in {"none", active}
    /\ mpc \in {"first", "wait"} /\ file = "none" => current = active
    /\ mpc = "first" /\ hpc \in {"run", "running"} => file = "none"
    /\ mpc = "truncated" => file = "empty"
    /\ file = "none" => hpc \in {"loop", "run", "running"}
    /\ file = "empty" => hpc \in {"loop", "run", "running", "read"}
    /\ hpc \in {"map", "switch", "remove"} => head = active
    /\ hpc = "remove" => current = active
    /\ hpc \in {"start", "map"} => mpc = "first" /\ file = active

\* mfuzz finds the map when it closes the gate, and keeps it closed until
\* honggfuzz has switched.
Gate ==
    /\ hpc \notin {"start", "map"} => map
    /\ mpc \in {"blocked", "synced", "truncated", "wait", "gone"} => blocked

\* A target runs the active driver or, until honggfuzz has switched, its
\* predecessor; a record of the latter is one that was past the gate when the
\* map was read.
Credits ==
    /\ hpc \in {"run", "running"} => current \in {active, former}
    /\ hpc \in {"loop", "read", "switch", "remove"} /\ mpc # "first" => current \in {active, former}
    /\ inflight => hpc = "running"
    /\ inflight /\ current # active => late
    /\ unread \subseteq {active, former}
    /\ unread \subseteq {active} \/ late

\* The limits are respected.
Limits ==
    /\ failed > MaxFailed => mpc = "exited"
    /\ tries = 0 => hpc = "dead"

IInv ==
    /\ TypeOK /\ Limits
    /\ timely => Rendezvous /\ Gate /\ Credits

-----------------------------------------------------------------------------

\* It holds when start_fuzzer has published the default driver.
LEMMA InitIInv == Init => IInv
<1> SUFFICES ASSUME Init PROVE IInv
  OBVIOUS
<1> USE HandoverAssumption DEF HandoverAssumption
<1>1. TypeOK /\ Limits
  <2>1. /\ timely \in BOOLEAN /\ map \in BOOLEAN /\ blocked \in BOOLEAN /\ inflight \in BOOLEAN
        /\ known \in BOOLEAN /\ late \in BOOLEAN
    BY Zenon DEF Init
  <2>2. failed \in 0 .. MaxFailed + 1 /\ tries \in 0 .. MaxTries /\ Limits
    BY DEF Init, Limits
  <2>3. target \in Drivers /\ active \in Drivers /\ file \in Drivers \cup {"none", "empty"}
    BY Zenon DEF Init
  <2>. QED
    BY <2>1, <2>2, <2>3, Zenon DEF Init, TypeOK
<1>2. timely => Rendezvous
  BY DEF Init, Rendezvous
<1>3. timely => Gate /\ Credits
  BY DEF Init, Gate, Credits
<1>. QED
  BY <1>1, <1>2, <1>3 DEF IInv

\* Every step keeps the types, whether the sides are timely or not.
LEMMA StepTypeOK == TypeOK /\ Limits /\ [Next]_vars => TypeOK' /\ Limits'
<1> SUFFICES ASSUME TypeOK, Limits, [Next]_vars PROVE TypeOK' /\ Limits'
  OBVIOUS
<1> USE HandoverAssumption DEF HandoverAssumption, TypeOK, Limits
<1>1. CASE FirstWindow
  BY <1>1 DEF FirstWindow, hVars
<1>2. CASE \E d \in Drivers : Block(d)
  BY <1>2 DEF Block, hVars
<1>3. CASE Synchronize
  BY <1>3 DEF Synchronize, hVars
<1>4. CASE Truncate
  BY <1>4 DEF Truncate, hVars
<1>5. CASE Publish
  BY <1>5 DEF Publish, hVars
<1>6. CASE SeeGone
  BY <1>6 DEF SeeGone, hVars
<1>7. CASE TimeOut
  BY <1>7 DEF TimeOut, hVars
<1>8. CASE Unblock
  <2>1. TypeOK'
    BY <1>8, ZenonT(30) DEF Unblock, hVars
  <2>2. Limits'
    BY <1>8 DEF Unblock, hVars
  <2>. QED
    BY <2>1, <2>2
<1>9. CASE ParseCmdline
  BY <1>9 DEF ParseCmdline, LoadDriver, mVars
<1>10. CASE CreateMap
  <2>1. TypeOK'
    BY <1>10, ZenonT(60) DEF CreateMap, mVars
  <2>2. Limits'
    BY <1>10 DEF CreateMap, mVars
  <2>. QED
    BY <2>1, <2>2
<1>11. CASE OpenFile
  BY <1>11 DEF OpenFile, mVars
<1>12. CASE ReadFile
  BY <1>12 DEF ReadFile, LoadDriver, mVars
<1>13. CASE Switch
  BY <1>13 DEF Switch, mVars
<1>14. CASE Remove
  BY <1>14 DEF Remove, mVars
<1>15. CASE RunTarget
  BY <1>15 DEF RunTarget, mVars
<1>16. CASE TargetEnds
  <2>1. TypeOK'
    BY <1>16, ZenonT(60) DEF TargetEnds, mVars
  <2>2. Limits'
    BY <1>16 DEF TargetEnds, mVars
  <2>. QED
    BY <2>1, <2>2
<1>17. CASE EnterRecord
  BY <1>17 DEF EnterRecord, mVars, hVars
<1>18. CASE Record
  <2>1. TypeOK'
    BY <1>18, ZenonT(60) DEF Record, mVars, hVars
  <2>2. Limits'
    BY <1>18 DEF Record, mVars, hVars
  <2>. QED
    BY <2>1, <2>2
<1>19. CASE OpenFails
  BY <1>19 DEF OpenFails, hVars
<1>20. CASE WriteFails
  BY <1>20 DEF WriteFails, hVars
<1>21. CASE Die
  BY <1>21, ZenonT(30) DEF Die, mVars
<1>22. CASE UNCHANGED vars
  BY <1>22 DEF vars
<1>. QED
  BY <1>1, <1>2, <1>3, <1>4, <1>5, <1>6, <1>7, <1>8, <1>9, <1>10, <1>11, <1>12, <1>13,
     <1>14, <1>15, <1>16, <1>17, <1>18, <1>19, <1>20, <1>21, <1>22, ZenonT(30)
  DEF Next, MfuzzStep, HonggfuzzStep

\* Every step of a timely behaviour keeps the rendezvous and the credits.
LEMMA StepTimely ==
    ASSUME IInv, timely, [Next]_vars
    PROVE  timely' /\ Rendezvous' /\ Gate' /\ Credits'
<1> USE HandoverAssumption DEF HandoverAssumption, IInv, TypeOK, Limits, Rendezvous, Gate, Credits
<1>1. CASE FirstWindow
  BY <1>1 DEF FirstWindow, hVars
<1>2. CASE \E d \in Drivers : Block(d)
  BY <1>2 DEF Block, hVars
<1>3. CASE Synchronize
  BY <1>3 DEF Synchronize, hVars
<1>4. CASE Truncate
  BY <1>4 DEF Truncate, hVars
<1>5. CASE Publish
  BY <1>5 DEF Publish, hVars
<1>6. CASE SeeGone
  BY <1>6 DEF SeeGone, hVars
<1>7. CASE TimeOut
  BY <1>7 DEF TimeOut, hVars
<1>8. CASE Unblock
  BY <1>8 DEF Unblock, hVars
<1>9. CASE ParseCmdline
  BY <1>9 DEF ParseCmdline, LoadDriver, mVars
<1>10. CASE CreateMap
  BY <1>10 DEF CreateMap, mVars
<1>11. CASE OpenFile
  BY <1>11 DEF OpenFile, mVars
<1>12. CASE ReadFile
  BY <1>12 DEF ReadFile, LoadDriver, mVars
<1>13. CASE Switch
  BY <1>13 DEF Switch, mVars
<1>14. CASE Remove
  BY <1>14 DEF Remove, mVars
<1>15. CASE RunTarget
  BY <1>15 DEF RunTarget, mVars
<1>16. CASE TargetEnds
  BY <1>16 DEF TargetEnds, mVars
<1>17. CASE EnterRecord
  BY <1>17 DEF EnterRecord, mVars, hVars
<1>18. CASE Record
  BY <1>18 DEF Record, mVars, hVars
<1>19. CASE OpenFails
  BY <1>19 DEF OpenFails, hVars
<1>20. CASE WriteFails
  BY <1>20 DEF WriteFails, hVars
<1>21. CASE Die
  BY <1>21 DEF Die, mVars
<1>22. CASE UNCHANGED vars
  BY <1>22, SMTT(30) DEF vars
<1>. QED
  BY <1>1, <1>2, <1>3, <1>4, <1>5, <1>6, <1>7, <1>8, <1>9, <1>10, <1>11, <1>12, <1>13, Zenon,
     <1>14, <1>15, <1>16, <1>17, <1>18, <1>19, <1>20, <1>21, <1>22
  DEF Next, MfuzzStep, HonggfuzzStep

\* No step makes a behaviour timely that was not: timely is never assigned.
LEMMA TimelyIsConstant == [Next]_vars => timely' = timely
  BY DEF Next, MfuzzStep, HonggfuzzStep, vars, FirstWindow, Block, Synchronize, Truncate,
     Publish, SeeGone, TimeOut, Unblock, ParseCmdline, CreateMap, OpenFile, ReadFile, Switch,
     Remove, RunTarget, TargetEnds, EnterRecord, Record, OpenFails, WriteFails, Die

\* It is inductive.
LEMMA StepIInv == IInv /\ [Next]_vars => IInv'
<1> SUFFICES ASSUME IInv, [Next]_vars PROVE IInv'
  OBVIOUS
<1>1. TypeOK' /\ Limits'
  BY StepTypeOK DEF IInv
<1>2. timely' => Rendezvous' /\ Gate' /\ Credits'
  BY TimelyIsConstant, StepTimely, Zenon
<1>. QED
  BY <1>1, <1>2 DEF IInv

\* The inductive invariant holds in every reachable state.
THEOREM Invariance == Spec => []IInv
  BY InitIInv, StepIInv, PTL DEF Spec

\* If both sides are timely, honggfuzz runs the driver that mfuzz will credit
\* whenever mfuzz sleeps between two handovers.
THEOREM AgreementCorrect == Spec => []Agreement
<1>1. IInv => Agreement
  BY DEF IInv, Rendezvous, Agreement
<1>. QED
  BY <1>1, Invariance, PTL

\* If both sides are timely, synchronizeGraphs credits to the outgoing driver
\* nothing but its own hits and the record of its predecessor that was past the
\* gate when the map was read before.
THEOREM CreditCorrect == Spec => []CreditedInTime
<1>1. IInv => CreditedInTime
  BY DEF IInv, Credits, CreditedInTime
<1>. QED
  BY <1>1, Invariance, PTL

(***************************************************************************)
(* The attribution.                                                        *)
(***************************************************************************)

\* The counts that differ from what mfuzz has seen come from the driver that
\* will be credited with them at the next synchronizeNodes.
Pending ==
    /\ running = activeDriver
    /\ block_writes <=> pc \in {"nodes", "edges", "switch", "unblock"}
    /\ pc = "unblock" => next = activeDriver
    /\ \A n \in ChangedNodes :
          IF pc \in {"edges", "switch"} THEN next \in callers[n] ELSE activeDriver \in callers[n]
    /\ updated # {} => pc = "edges"
    /\ \A n \in updated : activeDriver \in nodeMask[n]

Shape ==
    /\ funcs \in [Nodes -> Nat] /\ edges \in [Edges -> Nat]
    /\ nodeHit \in [Nodes -> Nat] /\ edgeHit \in [Edges -> Nat]
    /\ nodeMask \in [Nodes -> SUBSET DriverIds] /\ edgeMask \in [Edges -> SUBSET DriverIds]
    /\ callers \in [Nodes -> SUBSET DriverIds]
    /\ call \in Edges \cup {None}
    /\ running \in DriverIds /\ activeDriver \in DriverIds /\ next \in DriverIds
    /\ updated \subseteq Nodes
    /\ pc \in {"window", "nodes", "edges", "switch", "unblock", "log"}

GraphInv == Shape /\ Pending /\ NodeCreditJustified /\ EdgeCreditNeedsNode

-----------------------------------------------------------------------------

\* A count stays a count.
LEMMA BumpNat == \A n \in Nat : Bump(n) \in Nat
  BY GraphAssumption DEF GraphAssumption, Bump

\* An edge joins two nodes.
LEMMA EdgeEnds == \A e \in Edges : e[1] \in Nodes /\ e[2] \in Nodes
  BY GraphAssumption DEF GraphAssumption

\* Nothing is counted and nobody is credited when mfuzz starts.
LEMMA GraphInitial == GraphInit => GraphInv
  BY EdgeEnds, SMTT(30) DEF GraphInit, GraphInv, Shape, Pending, ChangedNodes, NodeCreditJustified, EdgeCreditNeedsNode

\* Counts, masks and drivers keep their shape.
LEMMA StepShape == Shape /\ [GraphNext]_graphVars => Shape'
<1> SUFFICES ASSUME Shape, [GraphNext]_graphVars PROVE Shape'
  OBVIOUS
<1> USE DEF Shape
<1>1. CASE \E e \in Edges : Call(e)
  BY <1>1 DEF Call, graph, drivers
<1>2. CASE RecordEdge
  <2>1. call \in Edges
    BY <1>2 DEF RecordEdge
  <2>. QED
    BY <1>2, <2>1, BumpNat DEF RecordEdge, graph, drivers
<1>3. CASE RecordFunc
  <2>1. call \in Edges /\ Callee(call) \in Nodes
    BY <1>3, EdgeEnds DEF RecordFunc, Callee
  <2>. QED
    BY <1>3, <2>1, BumpNat DEF RecordFunc, graph, drivers
<1>4. CASE Abandon
  BY <1>4 DEF Abandon, graph, drivers
<1>5. CASE \E d \in DriverIds : SetCovBlock(d)
  BY <1>5 DEF SetCovBlock, graph, recorded
<1>6. CASE SynchronizeNodes
  BY <1>6 DEF SynchronizeNodes, ChangedNodes, recorded, drivers
<1>7. CASE SynchronizeEdges
  BY <1>7 DEF SynchronizeEdges, recorded, drivers
<1>8. CASE SwitchDriver
  BY <1>8 DEF SwitchDriver, graph
<1>9. CASE SetCovNonBlock
  BY <1>9 DEF SetCovNonBlock, graph, recorded, drivers
<1>10. CASE GetCoveredFuncs
  BY <1>10 DEF GetCoveredFuncs, recorded, drivers
<1>11. CASE UNCHANGED graphVars
  BY <1>11 DEF graphVars, recorded, graph, drivers
<1>. QED
  BY <1>1, <1>2, <1>3, <1>4, <1>5, <1>6, <1>7, <1>8, <1>9, <1>10, <1>11 DEF GraphNext

\* Every step keeps credits justified.
LEMMA StepCredit ==
    GraphInv /\ [GraphNext]_graphVars => Pending' /\ NodeCreditJustified' /\ EdgeCreditNeedsNode'
<1> SUFFICES ASSUME GraphInv, [GraphNext]_graphVars
             PROVE  Pending' /\ NodeCreditJustified' /\ EdgeCreditNeedsNode'
  OBVIOUS
<1> USE EdgeEnds DEF GraphInv, Shape, Pending, NodeCreditJustified, EdgeCreditNeedsNode, ChangedNodes
<1>1. CASE \E e \in Edges : Call(e)
  BY <1>1 DEF Call, graph, drivers
<1>2. CASE RecordEdge
  BY <1>2 DEF RecordEdge, graph, drivers
<1>3. CASE RecordFunc
  <2>1. Callee(call) \in Nodes
    BY <1>3 DEF RecordFunc, Callee
  <2>2. \A n \in Nodes : callers[n] \subseteq callers'[n]
    BY <1>3, <2>1 DEF RecordFunc
  <2>3. \A n \in Nodes \ {Callee(call)} : funcs'[n] = funcs[n]
    BY <1>3, <2>1, SMTT(30) DEF RecordFunc
  <2>4. running \in callers'[Callee(call)] /\ (block_writes => next \in callers'[Callee(call)])
    BY <1>3, <2>1 DEF RecordFunc
  <2>. QED
    BY <1>3, <2>1, <2>2, <2>3, <2>4 DEF RecordFunc, graph, drivers
<1>4. CASE Abandon
  BY <1>4 DEF Abandon, graph, drivers
<1>5. CASE \E d \in DriverIds : SetCovBlock(d)
  BY <1>5, SMTT(30) DEF SetCovBlock, graph, recorded
<1>6. CASE SynchronizeNodes
  <2>1. /\ \A n \in Nodes : nodeMask[n] \subseteq nodeMask'[n]
        /\ \A n \in ChangedNodes : nodeMask'[n] = nodeMask[n] \cup {activeDriver}
        /\ \A n \in Nodes \ ChangedNodes : nodeMask'[n] = nodeMask[n]
    BY <1>6 DEF SynchronizeNodes
  <2>2. ChangedNodes' = {}
    BY <1>6, SMTT(30) DEF SynchronizeNodes, recorded
  <2>3. Pending'
    BY <1>6, <2>1, <2>2, SMTT(30) DEF SynchronizeNodes, recorded, drivers
  <2>4. NodeCreditJustified'
    BY <1>6, <2>1, SMTT(30) DEF SynchronizeNodes, recorded
  <2>5. EdgeCreditNeedsNode'
    BY <1>6, <2>1, SMTT(30) DEF SynchronizeNodes
  <2>. QED
    BY <2>3, <2>4, <2>5, SMTT(30)
<1>7. CASE SynchronizeEdges
  <2>1. \A e \in Edges : edgeMask'[e] \subseteq edgeMask[e] \cup {activeDriver}
    BY <1>7 DEF SynchronizeEdges
  <2>2. \A e \in Edges : edgeMask'[e] # edgeMask[e] => e[1] \in updated \/ e[2] \in updated
    BY <1>7 DEF SynchronizeEdges, EdgesAt
  <2>. QED
    BY <1>7, <2>1, <2>2 DEF SynchronizeEdges, recorded, drivers
<1>8. CASE SwitchDriver
  BY <1>8 DEF SwitchDriver, graph
<1>9. CASE SetCovNonBlock
  BY <1>9 DEF SetCovNonBlock, graph, recorded, drivers
<1>10. CASE GetCoveredFuncs
  BY <1>10 DEF GetCoveredFuncs, recorded, drivers
<1>11. CASE UNCHANGED graphVars
  BY <1>11 DEF graphVars, recorded, graph, drivers
<1>. QED
  BY <1>1, <1>2, <1>3, <1>4, <1>5, <1>6, <1>7, <1>8, <1>9, <1>10, <1>11, Zenon DEF GraphNext

\* The inductive invariant holds in every reachable state.
THEOREM GraphInvariance == GraphSpec => []GraphInv
<1>1. GraphInv /\ [GraphNext]_graphVars => GraphInv'
  BY StepShape, StepCredit DEF GraphInv
<1>. QED
  BY GraphInitial, <1>1, PTL DEF GraphSpec

\* synchronizeNodes credits a function only to drivers that called it, or that
\* took over from one whose record was in flight when setCovBlock closed the gate.
THEOREM NodeCreditCorrect == GraphSpec => []NodeCreditJustified
  BY GraphInvariance, PTL DEF GraphInv

\* synchronizeEdges credits an edge to a driver only if one of its ends is
\* credited to it too.
THEOREM EdgeCreditCorrect == GraphSpec => []EdgeCreditNeedsNode
  BY GraphInvariance, PTL DEF GraphInv

-----------------------------------------------------------------------------

\* The edges that synchronizeEdges finds new are those that gain a HitNum.
LEMMA StepReported == Shape /\ EdgesReportedOnce /\ [GraphNext]_graphVars => EdgesReportedOnce'
<1> SUFFICES ASSUME Shape, EdgesReportedOnce, [GraphNext]_graphVars PROVE EdgesReportedOnce'
  OBVIOUS
<1>1. CASE SynchronizeEdges
  <2> DEFINE old == {e \in Edges : edgeHit[e] # 0}
             hit == ChangedEdges \cap EdgesAt(updated)
             new == {e \in hit : edgeHit[e] = 0}
  <2>1. IsFiniteSet(old) /\ IsFiniteSet(new) /\ old \cap new = {}
    <3>1. old \subseteq Edges /\ new \subseteq Edges
      BY DEF ChangedEdges
    <3>. QED
      BY <3>1, FS_Subset, GraphAssumption DEF GraphAssumption
  <2>2. {e \in Edges : edgeHit'[e] # 0} = old \cup new
    BY <1>1 DEF SynchronizeEdges, ChangedEdges, Shape
  <2>3. Cardinality(old \cup new) = Cardinality(old) + Cardinality(new)
    <3>1. Cardinality(old \cup new) = Cardinality(old) + Cardinality(new) - Cardinality(old \cap new)
      BY <2>1, FS_Union
    <3>2. Cardinality(old \cap new) = 0
      BY <2>1, FS_EmptySet
    <3>3. Cardinality(old) \in Nat /\ Cardinality(new) \in Nat
      BY <2>1, FS_CardinalityType
    <3>. QED
      BY <3>1, <3>2, <3>3
  <2>4. newEdges' = newEdges + Cardinality(new)
    BY <1>1, SMTT(30) DEF SynchronizeEdges
  <2>. QED
    BY <2>2, <2>3, <2>4 DEF EdgesReportedOnce
<1>2. ASSUME ~SynchronizeEdges PROVE edgeHit' = edgeHit /\ newEdges' = newEdges
  BY <1>2 DEF GraphNext, graphVars, recorded, graph, drivers, Call, RecordEdge, RecordFunc, Abandon, SetCovBlock,
     SynchronizeNodes, SwitchDriver, SetCovNonBlock, GetCoveredFuncs
<1>. QED
  BY <1>1, <1>2 DEF EdgesReportedOnce

\* The newEdges of all SyncStats add up to the edges ever seen, however the
\* recording of calls interleaves with the synchronisations and counts wrap.
THEOREM ReportsCorrect == GraphSpec => []EdgesReportedOnce
<1>1. GraphInit => EdgesReportedOnce
  <2> SUFFICES ASSUME GraphInit PROVE EdgesReportedOnce
    OBVIOUS
  <2>1. {e \in Edges : edgeHit[e] # 0} = {}
    BY DEF GraphInit
  <2>. QED
    BY <2>1, FS_EmptySet DEF GraphInit, EdgesReportedOnce
<1>. QED
  BY <1>1, GraphInvariance, StepReported, PTL DEF GraphSpec, GraphInv

=============================================================================
