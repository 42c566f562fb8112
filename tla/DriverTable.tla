---------------------------- MODULE DriverTable -----------------------------
(***************************************************************************)
(* honggfuzz's side of the drivers (driver_loader.c, and the iteration of  *)
(* fuzz_fuzzLoop in fuzz.c that uses it): the table of drivers as a map    *)
(* and a doubly linked list, the switch to the driver at its head with the *)
(* statistics it settles, and the working copy of an input that a driver   *)
(* editing in place is given.  mfuzz starts honggfuzz with one fuzzing     *)
(* thread, so an iteration is sequential; what mfuzz does to the hand-over *)
(* file meanwhile is Handover's subject, the queue work of a switch is     *)
(* DynQueue's.  A node of the list is named by the id of its driver.       *)
(*                                                                         *)
(* Of the three statistics (edges, crashes, time), which are computed      *)
(* alike, the edges stand for all.  The statistics file is left out: no    *)
(* code in the repository reads it.                                        *)
(***************************************************************************)
EXTENDS Integers, FiniteSets, FiniteSetsExt

CONSTANTS
    Ids,        \* driver ids a profile may carry, all below MAX_DRIVER
    BadIds,     \* ids a profile may carry that drive_loadDriver refuses
    NULL,
    Mod,        \* 2^32: the statistics are unsigned, the global count is not
    MaxEdges,   \* bound of the model on the edges found
    MaxKept     \* bound of the model on the copies that cannot be deleted

ASSUME IdsAssumption ==
    IsFiniteSet(Ids) /\ NULL \notin Ids /\ Ids \cap BadIds = {}
ASSUME ModAssumption == Mod \in Nat \ {0}

VARIABLES
    loaded,         \* {d : driver_map[d] # NULL}
    head,           \* driver_list_head
    next, pre,      \* the links of the nodes
    count,          \* driver_count
    active,         \* active_driver
    initialized,    \* nodes whose initialized flag is set
    cmd,            \* driver of exe.cmdline and io.outputDir
    start,          \* start_edges
    total,          \* total_edges
    inPlace,        \* drv_table.inPlaceEdit
    edges,          \* hwCnts.softCntEdge, 64 bits wide
    unowned,        \* edges found while no driver was active
    fd,             \* what dynfile->fd refers to: "shm" or "copy"
    tmpPath,        \* inplaceTmpPath is set
    copies,         \* working copies in the session directory
    kept,           \* history: those among them whose unlink has failed
    at              \* "boot", "loop", "input", "run", "feedback", "gone"

listVars == <<loaded, head, next, pre, count>>
statVars == <<start, total, edges, unowned>>
copyVars == <<fd, tmpPath, copies, kept>>
tableVars == <<listVars, active, initialized, cmd, statVars, inPlace, copyVars, at>>

TableInit ==
    /\ loaded = {} /\ head = NULL /\ count = 0
    /\ next = [d \in Ids |-> NULL]
    /\ pre = [d \in Ids |-> NULL]
    /\ active = NULL /\ initialized = {} /\ cmd = NULL
    /\ start = [d \in Ids |-> 0] /\ total = [d \in Ids |-> 0]
    /\ inPlace = FALSE /\ edges = 0 /\ unowned = 0
    /\ fd = "shm" /\ tmpPath = FALSE /\ copies = 0 /\ kept = 0
    /\ at = "boot"

(***************************************************************************)
(* drive_addDriver                                                         *)
(***************************************************************************)

\* A driver not in the map: a node is allocated and put at the head.
AddNew(d) ==
    /\ d \notin loaded
    /\ loaded' = loaded \cup {d}
    /\ pre' = [n \in Ids |-> IF n = d THEN NULL
                              ELSE IF n = head THEN d ELSE pre[n]]
    /\ next' = [next EXCEPT ![d] = head]
    /\ head' = d
    /\ count' = count + 1

\* Variant: the node after the moved one keeps its old back link.
MoveToFrontOneWay(d) ==
    /\ d \in loaded /\ d # head
    /\ next' = [n \in Ids |-> IF n = d THEN head
                               ELSE IF n = pre[d] THEN next[d] ELSE next[n]]
    /\ pre' = [n \in Ids |-> IF n = d THEN NULL
                              ELSE IF n = head THEN d ELSE pre[n]]
    /\ head' = d
    /\ UNCHANGED <<loaded, count>>

\* A driver already in the map, not at the head: unlinked and put there.
MoveToFront(d) ==
    /\ d \in loaded /\ d # head
    /\ next' = [n \in Ids |-> IF n = d THEN head
                               ELSE IF n = pre[d] THEN next[d] ELSE next[n]]
    /\ pre' = [n \in Ids |-> IF n = d THEN NULL
                              ELSE IF n = head THEN d
                              ELSE IF n = next[d] THEN pre[d] ELSE pre[n]]
    /\ head' = d
    /\ UNCHANGED <<loaded, count>>

KeepAtHead(d) == d \in loaded /\ d = head /\ UNCHANGED listVars

drive_addDriver(d) == AddNew(d) \/ MoveToFront(d) \/ KeepAtHead(d)

(***************************************************************************)
(* The iteration of the fuzzing thread.                                    *)
(***************************************************************************)

\* cmdlineParse: the profile mfuzz wrote before it started honggfuzz gives
\* the command line; without one the command line of honggfuzz is used.
Boot ==
    /\ at = "boot"
    /\ \/ \E d \in Ids, e \in BOOLEAN :
             /\ drive_addDriver(d)
             /\ inPlace' = e
             /\ cmd' = d
       \/ UNCHANGED <<listVars, inPlace, cmd>>
    /\ at' = "loop"
    /\ UNCHANGED <<active, initialized, statVars, copyVars>>

\* Variant: the statistics of a driver that stays in focus are settled, and
\* its window is not restarted.
SettleOnly(h) ==
    /\ total' = IF active = NULL THEN total
                ELSE [total EXCEPT ![active] = (@ + edges - start[active]) % Mod]
    /\ start' = IF active = h THEN start ELSE [start EXCEPT ![h] = edges % Mod]

\* driver_updateDrvStat for the driver that was active, driver_initStat for
\* the one that is from now on: h.
SettleStats(h) ==
    /\ total' = IF active = NULL THEN total
                ELSE [total EXCEPT ![active] = (@ + edges - start[active]) % Mod]
    /\ start' = [start EXCEPT ![h] = edges % Mod]

\* Variant: the command line is replaced for a driver seen the first time only.
SwitchFirstTime(h) ==
    /\ SettleStats(h)
    /\ active' = h
    /\ cmd' = IF active = h \/ h \in initialized THEN cmd ELSE h
    /\ initialized' = IF active = h THEN initialized ELSE initialized \cup {h}

\* driver_switchDriver, h being the head of the list.  A driver that stays in
\* focus keeps its command line, output directory and seeds.
driver_switchDriver(h) ==
    /\ SettleStats(h)
    /\ active' = h
    /\ cmd' = IF active = h THEN cmd ELSE h
    /\ initialized' = IF active = h THEN initialized ELSE initialized \cup {h}

\* fuzz_fuzzLoop finds a profile in the hand-over file and switches to it.
LoadAndSwitch(d, e) ==
    /\ at = "loop"
    /\ drive_addDriver(d)
    /\ inPlace' = e
    /\ driver_switchDriver(head')
    /\ at' = "input"
    /\ UNCHANGED <<edges, unowned, copyVars>>

\* The first switch of a process that booted without a profile frees an
\* exe.cmdline that points into argv: undefined, and the allocator may abort.
FreeOfArgv(d, e) ==
    /\ at = "loop" /\ cmd = NULL
    /\ drive_addDriver(d)
    /\ inPlace' = e
    /\ at' = "gone"
    /\ UNCHANGED <<active, initialized, cmd, statVars, copyVars>>

\* A profile drive_loadDriver cannot accept: LOG_F ends the process.
LoadRefused(id) ==
    /\ at = "loop"
    /\ id \in BadIds
    /\ at' = "gone"
    /\ UNCHANGED <<listVars, active, initialized, cmd, statVars, inPlace,
                   copyVars>>

\* There is no hand-over file.
NoLoad ==
    /\ at = "loop"
    /\ at' = "input"
    /\ UNCHANGED <<listVars, active, initialized, cmd, statVars, inPlace,
                   copyVars>>

\* fuzz_inPlaceEditBefore: the target of an in-place editing driver is given
\* a copy of the input, unless the input is empty or the copy cannot be made.
InPlaceEditBefore ==
    /\ at = "input"
    /\ \/ /\ inPlace
          /\ fd' = "copy" /\ tmpPath' = TRUE /\ copies' = copies + 1
          /\ UNCHANGED kept
       \/ UNCHANGED copyVars
    /\ at' = "run"
    /\ UNCHANGED <<listVars, active, initialized, cmd, statVars, inPlace>>

\* Variant: the copy is deleted and the input's descriptor is not put back.
InPlaceEditForget ==
    /\ at = "run"
    /\ IF inPlace /\ tmpPath
       THEN tmpPath' = FALSE /\ copies' = copies - 1 /\ UNCHANGED <<fd, kept>>
       ELSE UNCHANGED copyVars
    /\ at' = "feedback"
    /\ UNCHANGED <<listVars, active, initialized, cmd, statVars, inPlace>>

\* fuzz_inPlaceEditAfter, when the target has run: the input's descriptor is
\* put back and the copy deleted.  If unlink fails, a warning is logged and the
\* path forgotten all the same.
InPlaceEditAfter ==
    /\ at = "run"
    /\ IF inPlace /\ tmpPath
       THEN /\ fd' = "shm" /\ tmpPath' = FALSE
            /\ \/ copies' = copies - 1 /\ UNCHANGED kept
               \/ kept < MaxKept /\ kept' = kept + 1 /\ UNCHANGED copies
       ELSE UNCHANGED copyVars
    /\ at' = "feedback"
    /\ UNCHANGED <<listVars, active, initialized, cmd, statVars, inPlace>>

\* fuzz_perfFeedback adds the new edges of the run to the global count.
PerfFeedback ==
    /\ at = "feedback"
    /\ \E n \in 0 .. MaxEdges - edges :
          /\ edges' = edges + n
          /\ unowned' = IF active = NULL THEN unowned + n ELSE unowned
    /\ at' = "loop"
    /\ UNCHANGED <<listVars, active, initialized, cmd, start, total, inPlace,
                   copyVars>>

Gone == at = "gone" /\ UNCHANGED tableVars

TableNext ==
    \/ Boot
    \/ \E d \in Ids, e \in BOOLEAN : LoadAndSwitch(d, e) \/ FreeOfArgv(d, e)
    \/ \E id \in BadIds : LoadRefused(id)
    \/ NoLoad \/ InPlaceEditBefore \/ InPlaceEditAfter \/ PerfFeedback
    \/ Gone

TableSpec == TableInit /\ [][TableNext]_tableVars

(***************************************************************************)
(* Properties.                                                             *)
(***************************************************************************)

LinksOK(pos) ==
    /\ \A d \in loaded :
          /\ IF pos[d] = count THEN next[d] = NULL
             ELSE next[d] \in loaded /\ pos[next[d]] = pos[d] + 1
          /\ IF pos[d] = 1 THEN pre[d] = NULL
             ELSE pre[d] \in loaded /\ pos[pre[d]] = pos[d] - 1

\* Every driver has a place of its own in 1 .. count, and the head is the
\* first.
PlacesOK(pos) ==
    /\ \A c, d \in loaded : pos[c] = pos[d] => c = d
    /\ \A k \in 1 .. count : \E d \in loaded : pos[d] = k
    /\ IF count = 0 THEN head = NULL ELSE head \in loaded /\ pos[head] = 1

\* The numberings of the drivers from the head along the links: there is one
\* when the list is well formed.
Places == {pos \in [loaded -> 1 .. count] : PlacesOK(pos) /\ LinksOK(pos)}

\* The list is the map: whatever drivers are loaded, moved to the front or
\* loaded again, the list from driver_list_head visits each driver of
\* driver_map exactly once, in the same order forwards and backwards, ends
\* with NULL on both sides, and driver_count is its length.
ListOK == Places # {}

SumOf(f) == MapThenSumSet(LAMBDA d : f[d], Ids)

\* Every edge is credited once: the totals of the drivers, the open window of
\* the active one and what was found before the first switch add up to the
\* global edge count, in 32-bit arithmetic, also when a driver is handed over
\* again while it is in focus.
EdgesAccounted ==
    LET open == IF active = NULL THEN 0 ELSE edges - start[active]
    IN  (SumOf(total) + open + unowned) % Mod = edges % Mod

\* Between two runs of the target no working copy is left, but those that could
\* not be deleted, and the input's descriptor is the shared mapping again,
\* whatever driver was handed over since and whether or not it edits in place.
CopyRemoved ==
    at # "run" => fd = "shm" /\ ~tmpPath /\ copies = kept

\* <<c, d>>: c is before d in the list.
Before ==
    UNION {{p \in loaded \X loaded : pos[p[1]] < pos[p[2]]} : pos \in Places}

Order == INSTANCE DriverOrder WITH
    NoDriver <- NULL,
    seen <- loaded,
    newer <- Before,
    current <- IF active = NULL THEN NULL ELSE cmd

\* Reading the list from its head gives the drivers by the time they were last
\* handed over, and the command line in use is that of the last one.
ImplementsOrder == Order!Spec

=============================================================================
