------------------------------ MODULE Handover ------------------------------
(***************************************************************************)
(* How mfuzz hands a driver over to honggfuzz.                             *)
(*                                                                         *)
(* mfuzz (Scheduler::setActiveDriver, DriverMng::setActiveDriver) blocks   *)
(* coverage writes, credits what the map holds to the outgoing driver,     *)
(* publishes the next driver in the file active_driver.drv and waits until *)
(* the file is gone.  honggfuzz (fuzz_fuzzLoop, drive_loadDriver,          *)
(* driver_switchDriver) looks for the file before every run of a target,   *)
(* loads it, switches and removes it.  The two share nothing but the file  *)
(* and the coverage map; no lock protects either.                          *)
(***************************************************************************)
EXTENDS Naturals

CONSTANTS Drivers,    \* ids of driver_list.json, never 0
          Nobody,     \* the id 0, the null driver
          MaxFailed,  \* timeouts in a row that mfuzz tolerates: 3
          MaxTries,   \* reads of an empty file that honggfuzz attempts: 3
          Timings     \* the values of timely to consider

ASSUME HandoverAssumption ==
    /\ Nobody \notin Drivers
    /\ "none" \notin Drivers /\ "empty" \notin Drivers
    /\ MaxFailed \in Nat
    /\ MaxTries \in Nat \ {0}
    /\ Timings \subseteq BOOLEAN

VARIABLES file,     \* active_driver.drv: "none", "empty", or the driver in it
          map,      \* fcov.map exists
          blocked,  \* its block_writes
          unread,   \* drivers whose hits are in the map and not yet credited
          mpc,      \* where the mfuzz worker thread is
          target,   \* driverId, the argument of setActiveDriver
          active,   \* Scheduler::activeDriver
          former,   \* history: the driver credited before active
          failed,   \* drvFailedNum
          known,    \* activeDrvId # 0: a driver has been published
          hpc,      \* where the fuzzing thread of honggfuzz is
          tries,    \* try_no of drive_loadDriver
          head,     \* driver_list_head
          current,  \* active_driver of honggfuzz
          inflight, \* the target is past the gate and has not recorded yet
          late,     \* history: it was, when the map was last read for credits
          timely    \* honggfuzz lives, takes the first driver within the first
                    \* window and the others within the timeout, and mfuzz can
                    \* write the file and does so before honggfuzz gives up
                    \* reading it; a behaviour is timely throughout or not

mVars == <<mpc, target, active, former, failed, known, late>>
hVars == <<hpc, tries, head, current>>
vars  == <<file, map, blocked, unread, mpc, target, active, former, failed, known,
           hpc, tries, head, current, inflight, late, timely>>

\* start_fuzzer: the default driver is published without waiting for anyone,
\* then honggfuzz is started.  A failed open or write goes unnoticed, but for
\* activeDrvId.
Init ==
    /\ target \in Drivers
    /\ active = target
    /\ \/ file = target /\ known = TRUE
       \/ timely = FALSE /\ file \in {"none", "empty"} /\ known = FALSE
    /\ map = FALSE
    /\ blocked = FALSE
    /\ unread = {}
    /\ mpc = "first"
    /\ former = Nobody
    /\ failed = 0
    /\ hpc = "start"
    /\ tries = MaxTries
    /\ head = Nobody
    /\ current = Nobody
    /\ inflight = FALSE
    /\ late = FALSE
    /\ timely \in Timings

(***************************************************************************)
(* mfuzz                                                                   *)
(***************************************************************************)

\* The first window ends.
FirstWindow ==
    /\ mpc = "first"
    /\ timely => file = "none"
    /\ mpc' = "sleep"
    /\ UNCHANGED <<file, map, blocked, unread, target, active, former, failed, known,
                   hVars, inflight, late, timely>>

\* A window ends; the policy picks a driver, possibly the active one again.
\* setCovBlock does nothing while honggfuzz has not created the map.
Block(d) ==
    /\ mpc = "sleep"
    /\ target' = d
    /\ blocked' = map
    /\ mpc' = "blocked"
    /\ UNCHANGED <<file, map, unread, active, former, failed, known, hVars, inflight,
                   late, timely>>

\* synchronizeGraphs: everything found in the map is credited to the driver
\* that is still active; then the next driver becomes the active one.
Synchronize ==
    /\ mpc = "blocked"
    /\ unread' = {}
    /\ active' = target
    /\ former' = IF target = active THEN former ELSE active
    /\ late' = inflight
    /\ mpc' = "synced"
    /\ UNCHANGED <<file, map, blocked, target, failed, known, hVars, inflight, timely>>

\* open(O_CREAT | O_TRUNC)
Truncate ==
    /\ mpc = "synced"
    /\ file' = "empty"
    /\ mpc' = "truncated"
    /\ UNCHANGED <<map, blocked, unread, target, active, former, failed, known, hVars,
                   inflight, late, timely>>

\* It fails: there is no new publication, nothing is waited for, and
\* Scheduler::setActiveDriver does not look at the result.
OpenFails ==
    /\ mpc = "synced" /\ ~timely
    /\ mpc' = "over"
    /\ UNCHANGED <<file, map, blocked, unread, target, active, former, failed, known, hVars,
                   inflight, late, timely>>

\* write and close; then waitForDriverLoad, if a driver was published before.
\* The write is lost with the file if honggfuzz has removed it since it was
\* truncated.
Publish ==
    /\ mpc = "truncated"
    /\ file' = IF file = "none" THEN "none" ELSE target
    /\ known' = TRUE
    /\ mpc' = IF known THEN "wait" ELSE "over"
    /\ UNCHANGED <<map, blocked, unread, target, active, former, failed, hVars, inflight,
                   late, timely>>

\* The write fails: the empty file stays, and nothing is waited for.
WriteFails ==
    /\ mpc = "truncated" /\ ~timely
    /\ mpc' = "over"
    /\ UNCHANGED <<file, map, blocked, unread, target, active, former, failed, known, hVars,
                   inflight, late, timely>>

\* waitForDriverLoad: the file no longer exists.
SeeGone ==
    /\ mpc = "wait"
    /\ file = "none"
    /\ failed' = 0
    /\ mpc' = "gone"
    /\ UNCHANGED <<file, map, blocked, unread, target, active, former, known, hVars,
                   inflight, late, timely>>

\* Variant: the count of timeouts starts anew in every handover.
TimeOutForgets ==
    /\ mpc = "wait"
    /\ ~timely
    /\ mpc' = IF failed + 1 > MaxFailed THEN "exited" ELSE "over"
    /\ UNCHANGED <<file, map, blocked, unread, target, active, former, failed, known,
                   hVars, inflight, late, timely>>

\* 15 seconds are over.  mfuzz exits after too many timeouts in a row and goes
\* on as if the driver were loaded otherwise.
TimeOut ==
    /\ mpc = "wait"
    /\ ~timely
    /\ failed' = failed + 1
    /\ mpc' = IF failed + 1 > MaxFailed THEN "exited" ELSE "over"
    /\ UNCHANGED <<file, map, blocked, unread, target, active, former, known, hVars,
                   inflight, late, timely>>

\* setCovNonBlock
Unblock ==
    /\ mpc \in {"gone", "over"}
    /\ blocked' = FALSE
    /\ mpc' = "sleep"
    /\ UNCHANGED <<file, map, unread, target, active, former, failed, known, hVars,
                   inflight, late, timely>>

(***************************************************************************)
(* honggfuzz, with its one fuzzing thread (-n 1)                           *)
(***************************************************************************)

\* drive_loadDriver: what is read is moved to the head of the driver list; an
\* empty file is read again a few times, then it is fatal.
LoadDriver(next) ==
    \/ /\ file \in Drivers
       /\ head' = file
       /\ hpc' = next
       /\ tries' = MaxTries
    \/ /\ file = "empty"
       /\ tries > 1 \/ ~timely
       /\ tries' = tries - 1
       /\ hpc' = IF tries = 1 THEN "dead" ELSE hpc
       /\ UNCHANGED head

\* cmdlineParse loads the published driver and leaves the file in place.  If
\* there is none, honggfuzz starts without a driver.
ParseCmdline ==
    /\ hpc = "start"
    /\ \/ LoadDriver("map")
       \/ file = "none" /\ hpc' = "map" /\ UNCHANGED <<tries, head>>
    /\ UNCHANGED <<file, map, blocked, unread, mVars, current, inflight, timely>>

\* fcov_initBitmap
CreateMap ==
    /\ hpc = "map"
    /\ map' = TRUE
    /\ blocked' = FALSE
    /\ hpc' = "loop"
    /\ UNCHANGED <<file, unread, mVars, tries, head, current, inflight, timely>>

\* fuzz_fuzzLoop: is there a driver to load?
OpenFile ==
    /\ hpc = "loop"
    /\ hpc' = IF file = "none" THEN "run" ELSE "read"
    /\ UNCHANGED <<file, map, blocked, unread, mVars, tries, head, current, inflight, timely>>

ReadFile ==
    /\ hpc = "read"
    /\ LoadDriver("switch")
    /\ UNCHANGED <<file, map, blocked, unread, mVars, current, inflight, timely>>

\* Variant: only the first driver is ever switched to.
SwitchOnce ==
    /\ hpc = "switch"
    /\ current' = IF current = Nobody THEN head ELSE current
    /\ hpc' = "remove"
    /\ UNCHANGED <<file, map, blocked, unread, mVars, tries, head, inflight, timely>>

\* Variant: return early if the driver is still the same, without the remove.
SwitchOrReturn ==
    /\ hpc = "switch"
    /\ current' = head
    /\ hpc' = IF current = head THEN "run" ELSE "remove"
    /\ UNCHANGED <<file, map, blocked, unread, mVars, tries, head, inflight, timely>>

\* driver_switchDriver: statistics, command line and seeds of the new driver.
Switch ==
    /\ hpc = "switch"
    /\ current' = head
    /\ hpc' = "remove"
    /\ UNCHANGED <<file, map, blocked, unread, mVars, tries, head, inflight, timely>>

\* remove(active_drv_path)
Remove ==
    /\ hpc = "remove"
    /\ file' = "none"
    /\ hpc' = "run"
    /\ UNCHANGED <<map, blocked, unread, mVars, tries, head, current, inflight, timely>>

\* subproc_Run starts the target of the current driver ...
RunTarget ==
    /\ hpc = "run"
    /\ hpc' = "running"
    /\ UNCHANGED <<file, map, blocked, unread, mVars, tries, head, current, inflight, timely>>

\* Variant: a target records whether the gate is open or not.
EnterRecordAnyway ==
    /\ hpc = "running"
    /\ ~inflight
    /\ inflight' = TRUE
    /\ UNCHANGED <<file, map, blocked, unread, mVars, hVars, timely>>

\* ... which passes the gate of fcov_record ...
EnterRecord ==
    /\ hpc = "running"
    /\ ~inflight /\ ~blocked
    /\ inflight' = TRUE
    /\ UNCHANGED <<file, map, blocked, unread, mVars, hVars, timely>>

\* ... and writes to the map.
Record ==
    /\ hpc = "running"
    /\ inflight
    /\ inflight' = FALSE
    /\ unread' = unread \cup {current}
    /\ UNCHANGED <<file, map, blocked, mVars, hVars, timely>>

\* The target ends, crashes or is killed after its timeout.
TargetEnds ==
    /\ hpc = "running"
    /\ inflight' = FALSE
    /\ hpc' = "loop"
    /\ UNCHANGED <<file, map, blocked, unread, mVars, tries, head, current, timely>>

\* honggfuzz ends for another reason: a fatal error, a signal.
Die ==
    /\ hpc # "dead" /\ ~timely
    /\ hpc' = "dead"
    /\ inflight' = FALSE
    /\ UNCHANGED <<file, map, blocked, unread, mVars, tries, head, current, timely>>

-----------------------------------------------------------------------------

MfuzzStep ==
    \/ FirstWindow
    \/ \E d \in Drivers : Block(d)
    \/ Synchronize \/ Truncate \/ OpenFails \/ Publish \/ WriteFails
    \/ SeeGone \/ TimeOut \/ Unblock

HonggfuzzStep ==
    \/ ParseCmdline \/ CreateMap \/ OpenFile \/ ReadFile \/ Switch \/ Remove
    \/ RunTarget \/ TargetEnds

Next == MfuzzStep \/ HonggfuzzStep \/ EnterRecord \/ Record \/ Die

Spec == Init /\ [][Next]_vars

\* Both processes run, windows end and runs of a target end (they have a
\* timeout).  Nothing obliges a target to record.
FairSpec == Spec /\ WF_vars(MfuzzStep) /\ WF_vars(HonggfuzzStep)

(***************************************************************************)
(* Properties.                                                             *)
(***************************************************************************)

\* The file, the program counters and the driver variables hold what the code
\* can put there; the count of timeouts and of reads stay within their limits.
TypeOK ==
    /\ file \in Drivers \cup {"none", "empty"}
    /\ map \in BOOLEAN /\ blocked \in BOOLEAN /\ inflight \in BOOLEAN
    /\ known \in BOOLEAN /\ late \in BOOLEAN /\ timely \in BOOLEAN
    /\ unread \subseteq Drivers \cup {Nobody}
    /\ mpc \in {"first", "sleep", "blocked", "synced", "truncated", "wait", "gone",
                "over", "exited"}
    /\ target \in Drivers /\ active \in Drivers
    /\ former \in Drivers \cup {Nobody}
    /\ failed \in 0 .. MaxFailed + 1
    /\ hpc \in {"start", "map", "loop", "read", "switch", "remove", "run", "running", "dead"}
    /\ tries \in 0 .. MaxTries
    /\ head \in Drivers \cup {Nobody} /\ current \in Drivers \cup {Nobody}

\* If both sides are timely, honggfuzz runs the driver that mfuzz will credit
\* whenever mfuzz sleeps and targets may record.
Agreement == timely /\ mpc = "sleep" => current = active

\* If both sides are timely, hits are credited to the driver that made them.
\* The exception is a record that was past the gate of fcov_record, and not yet
\* in the map, when synchronizeGraphs read it: it goes to the driver that comes
\* next.  Nothing that reaches the gate after it was closed does.
CreditedInTime ==
    timely /\ mpc = "blocked" => unread \subseteq {active} \cup (IF late THEN {former} ELSE {})

\* If both sides are timely, every handover ends, without any timeout.
HandoverEnds == timely /\ mpc = "wait" ~> mpc = "sleep"

\* A honggfuzz that died is noticed, whatever it died of: mfuzz exits after a
\* few handovers.  It counts timeouts only, so it takes handovers in which the
\* file can be written: mfuzz never notices if all of them fail before the wait.
DeathIsNoticed ==
    <>[][~OpenFails /\ ~WriteFails]_vars => (hpc = "dead" ~> mpc = "exited")

=============================================================================
