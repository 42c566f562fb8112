----------------------------- MODULE GraphSync -----------------------------
(***************************************************************************)
(* How mfuzz attributes coverage to drivers.                               *)
(*                                                                         *)
(* Targets count calls in the coverage map: first the edge, then the       *)
(* function called (fcov_record).  At the end of a window mfuzz closes the *)
(* gate, compares the counts with the HitNum of the nodes of the call      *)
(* graph, credits the changed nodes and the changed edges at them to the   *)
(* active driver (synchronizeGraphs), hands over (module Handover, here    *)
(* with honggfuzz in time), opens the gate and counts the covered          *)
(* functions for the log (getCoveredFuncs).                                *)
(*                                                                         *)
(* One target thread records at a time, and one key stands for the keys of *)
(* the call sites of an edge, whose counts getEdgeHitNum adds up.          *)
(***************************************************************************)
EXTENDS Naturals, FiniteSets

CONSTANTS DriverIds,
          Nodes,     \* functions of the call graph
          Edges,     \* its calls, pairs of nodes
          CountMod,  \* counts are modulo 2^32
          MaxCalls,  \* bound: calls that targets make
          None

ASSUME GraphAssumption ==
    /\ Edges \subseteq Nodes \X Nodes /\ IsFiniteSet(Edges)
    /\ CountMod \in Nat \ {0} /\ MaxCalls \in Nat
    /\ None \notin Edges

VARIABLES funcs,         \* counts of the functions in the map
          edges,         \* counts of the edges in the map
          block_writes,
          call,          \* the call that a target is recording, or None
          counted,       \* the edge of call is counted, its function is not
          calls,         \* calls so far
          running,       \* the driver that honggfuzz runs
          callers,       \* history: the drivers that called a node; if they did
                         \* so behind the closed gate, also their successors
          window,        \* history: calls recorded since activeDriver took over,
                         \* before the gate closed
          nodeHit,       \* HitNum of a node
          edgeHit,       \* HitNum of an edge
          nodeMask,      \* drivers in the DriverIdMask of a node
          edgeMask,      \* drivers in the DriverIdMask of an edge
          activeDriver,
          next,          \* argument of setActiveDriver
          updated,       \* updatedNodes
          newEdges,      \* the newEdges of all SyncStats so far
          pc             \* where the worker thread is

recorded == <<funcs, edges, call, counted, calls, callers, window>>
graph    == <<nodeHit, edgeHit, nodeMask, edgeMask, newEdges>>
drivers  == <<running, activeDriver, next>>
graphVars == <<recorded, graph, drivers, block_writes, updated, pc>>

GraphInit ==
    /\ funcs = [n \in Nodes |-> 0] /\ edges = [e \in Edges |-> 0]
    /\ block_writes = FALSE
    /\ call = None /\ counted = FALSE /\ calls = 0
    /\ callers = [n \in Nodes |-> {}] /\ window = {}
    /\ nodeHit = [n \in Nodes |-> 0] /\ edgeHit = [e \in Edges |-> 0]
    /\ nodeMask = [n \in Nodes |-> {}] /\ edgeMask = [e \in Edges |-> {}]
    /\ \E d \in DriverIds : running = d /\ activeDriver = d /\ next = d
    /\ updated = {} /\ newEdges = 0
    /\ pc = "window"

Callee(e) == e[2]

Bump(n) == (n + 1) % CountMod

(***************************************************************************)
(* Targets                                                                 *)
(***************************************************************************)

\* A call passes the gate of fcov_record.
Call(e) ==
    /\ call = None /\ calls < MaxCalls
    /\ ~block_writes
    /\ call' = e /\ counted' = FALSE /\ calls' = calls + 1
    /\ UNCHANGED <<funcs, edges, callers, window, graph, drivers, block_writes, updated, pc>>

\* fcov_record_edge, which had passed its gate.
RecordEdge ==
    /\ call # None /\ ~counted
    /\ edges' = [edges EXCEPT ![call] = Bump(@)]
    /\ counted' = TRUE
    /\ UNCHANGED <<funcs, call, calls, callers, window, graph, drivers, block_writes, updated, pc>>

\* fcov_record_func, which had passed its gate.
RecordFunc ==
    /\ call # None /\ counted
    /\ funcs' = [funcs EXCEPT ![Callee(call)] = Bump(@)]
    /\ callers' = [callers EXCEPT ![Callee(call)] = @ \cup {running}
                                         \cup IF block_writes THEN {next} ELSE {}]
    /\ window' = IF block_writes THEN window ELSE window \cup {call}
    /\ call' = None /\ counted' = FALSE
    /\ UNCHANGED <<edges, calls, graph, drivers, block_writes, updated, pc>>

\* Either of them finds the gate closed, or the target dies.
Abandon ==
    /\ call # None
    /\ call' = None /\ counted' = FALSE
    /\ UNCHANGED <<funcs, edges, calls, callers, window, graph, drivers, block_writes, updated, pc>>

(***************************************************************************)
(* mfuzz                                                                   *)
(***************************************************************************)

\* A window is over; setActiveDriver(d) begins with setCovBlock.
SetCovBlock(d) ==
    /\ pc = "window"
    /\ next' = d
    /\ block_writes' = TRUE
    /\ pc' = "nodes"
    /\ UNCHANGED <<recorded, graph, running, activeDriver, updated>>

\* Nodes and edges whose count differs from their HitNum; a count of 0 is
\* no coverage.
ChangedNodes == {n \in Nodes : funcs[n] # 0 /\ funcs[n] # nodeHit[n]}
ChangedEdges == {e \in Edges : edges[e] # 0 /\ edges[e] # edgeHit[e]}

\* Variant: HitNum stays as it was, so that old hits look new again.
SynchronizeNodesNoUpdate ==
    /\ pc = "nodes"
    /\ updated' = ChangedNodes
    /\ nodeMask' = [n \in Nodes |-> IF n \in ChangedNodes THEN nodeMask[n] \cup {activeDriver}
                                    ELSE nodeMask[n]]
    /\ pc' = "edges"
    /\ UNCHANGED <<recorded, nodeHit, edgeHit, edgeMask, newEdges, drivers, block_writes>>

SynchronizeNodes ==
    /\ pc = "nodes"
    /\ updated' = ChangedNodes
    /\ nodeHit' = [n \in Nodes |-> IF n \in ChangedNodes THEN funcs[n] ELSE nodeHit[n]]
    /\ nodeMask' = [n \in Nodes |-> IF n \in ChangedNodes THEN nodeMask[n] \cup {activeDriver}
                                    ELSE nodeMask[n]]
    /\ pc' = "edges"
    /\ UNCHANGED <<recorded, edgeHit, edgeMask, newEdges, drivers, block_writes>>

\* The edges that go out of or come into an updated node.
EdgesAt(ns) == {e \in Edges : e[1] \in ns \/ e[2] \in ns}

\* Variant: all edges (the overload of synchronizeEdges without nodes).
SynchronizeAllEdges ==
    /\ pc = "edges"
    /\ LET hit == ChangedEdges
       IN  /\ edgeHit' = [e \in Edges |-> IF e \in hit THEN edges[e] ELSE edgeHit[e]]
           /\ edgeMask' = [e \in Edges |-> IF e \in hit THEN edgeMask[e] \cup {activeDriver}
                                           ELSE edgeMask[e]]
           /\ newEdges' = newEdges + Cardinality({e \in hit : edgeHit[e] = 0})
    /\ updated' = {}
    /\ pc' = "switch"
    /\ UNCHANGED <<recorded, nodeHit, nodeMask, drivers, block_writes>>

\* Variant: every changed edge is new.
SynchronizeEdgesAllNew ==
    /\ pc = "edges"
    /\ LET hit == ChangedEdges \cap EdgesAt(updated)
       IN  /\ edgeHit' = [e \in Edges |-> IF e \in hit THEN edges[e] ELSE edgeHit[e]]
           /\ edgeMask' = [e \in Edges |-> IF e \in hit THEN edgeMask[e] \cup {activeDriver}
                                           ELSE edgeMask[e]]
           /\ newEdges' = newEdges + Cardinality(hit)
    /\ updated' = {}
    /\ pc' = "switch"
    /\ UNCHANGED <<recorded, nodeHit, nodeMask, drivers, block_writes>>

SynchronizeEdges ==
    /\ pc = "edges"
    /\ LET hit == ChangedEdges \cap EdgesAt(updated)
       IN  /\ edgeHit' = [e \in Edges |-> IF e \in hit THEN edges[e] ELSE edgeHit[e]]
           /\ edgeMask' = [e \in Edges |-> IF e \in hit THEN edgeMask[e] \cup {activeDriver}
                                           ELSE edgeMask[e]]
           /\ newEdges' = newEdges + Cardinality({e \in hit : edgeHit[e] = 0})
    /\ updated' = {}
    /\ pc' = "switch"
    /\ UNCHANGED <<recorded, nodeHit, nodeMask, drivers, block_writes>>

\* The rest of setActiveDriver: the next driver is active and honggfuzz,
\* between two runs, switches to it.
SwitchDriver ==
    /\ pc = "switch"
    /\ call = None
    /\ activeDriver' = next
    /\ running' = next
    /\ window' = {}
    /\ pc' = "unblock"
    /\ UNCHANGED <<funcs, edges, call, counted, calls, callers, graph, next, block_writes, updated>>

\* setCovNonBlock.  The policy "progress" may call setActiveDriver once more
\* before it logs the coverage.
SetCovNonBlock ==
    /\ pc = "unblock"
    /\ block_writes' = FALSE
    /\ pc' \in {"window", "log"}
    /\ UNCHANGED <<recorded, graph, drivers, updated>>

\* getCoveredFuncs
GetCoveredFuncs ==
    /\ pc = "log"
    /\ nodeHit' = funcs
    /\ pc' = "window"
    /\ UNCHANGED <<recorded, edgeHit, nodeMask, edgeMask, newEdges, drivers, block_writes, updated>>

-----------------------------------------------------------------------------

GraphNext ==
    \/ \E e \in Edges : Call(e)
    \/ RecordEdge \/ RecordFunc \/ Abandon
    \/ \E d \in DriverIds : SetCovBlock(d)
    \/ SynchronizeNodes \/ SynchronizeEdges \/ SwitchDriver \/ SetCovNonBlock
    \/ GetCoveredFuncs

GraphSpec == GraphInit /\ [][GraphNext]_graphVars

(***************************************************************************)
(* Properties.                                                             *)
(***************************************************************************)

\* A function is credited only to a driver that called it, or that took over
\* from one whose record was in flight when the gate closed.
NodeCreditJustified ==
    \A n \in Nodes : nodeMask[n] \subseteq callers[n]

\* The newEdges that synchronizeGraphs reports over time, from which "progress"
\* decides, count every edge once.
EdgesReportedOnce == newEdges = Cardinality({e \in Edges : edgeHit[e] # 0})

\* An edge is credited to a driver only together with one of its ends.
EdgeCreditNeedsNode ==
    \A e \in Edges : edgeMask[e] \subseteq nodeMask[e[1]] \cup nodeMask[e[2]]

\* run_schedule_policy: "Synchronize the outgoing driver's contribution first."
\* A call that was recorded in full while the driver had its window is credited
\* to it before another driver takes over.
ContributionSynchronized ==
    pc = "switch" => \A e \in window : activeDriver \in edgeMask[e]

=============================================================================
