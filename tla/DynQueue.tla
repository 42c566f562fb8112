------------------------------ MODULE DynQueue ------------------------------
(***************************************************************************)
(* The input corpus of the fuzzing thread (honggfuzz/input.c, fuzz.c and   *)
(* driver_loader.c): the queue dynfileq that all drivers share, its cursor *)
(* dynfileqCurrent, the seeds a driver brings along when it is switched    *)
(* to, and the choice of the next input.  mfuzz starts honggfuzz with one  *)
(* fuzzing thread (-n 1), so the steps below are those of one thread; an   *)
(* iteration of a loop over seeds or over the queue is a step.             *)
(*                                                                         *)
(* An entry keeps what selection and attribution look at: idx (also its    *)
(* identity: the queue length counter never goes down), the driver it is   *)
(* tagged with, whether it is an imported seed that was not yet measured,  *)
(* and its coverage.  Contents are told apart only for duplicate seeds.    *)
(***************************************************************************)
EXTENDS Integers, FiniteSets, Sequences

CONSTANTS
    Drivers,        \* driver ids (drive_loadDriver refuses 0)
    Contents,       \* contents of seed files
    Seeds,          \* Seeds[d]: contents of the files in d's seed_dir
    MaxHashes,      \* MAX_SEED_HASHES
    MaxStatic,      \* bound on the files of the input directory
    MaxCov,         \* coverage values are 0..MaxCov
    MaxTries,       \* bound on -(skip_factor)
    MaxAdds,        \* bound on the inputs added
    MaxSwitches,    \* bound on the publications picked up
    Policies        \* values of independentQueue to consider

Null == 0
StaticTag == 0            \* run->dynfile of a static file is never tagged
EmptyTag == 959527        \* tag of the empty fallback input; above MAX_DRIVER

ASSUME DynQueueAssumption ==
    /\ Drivers \subseteq Nat \ {0, EmptyTag}
    /\ Seeds \in [Drivers -> SUBSET Contents]
    /\ {MaxHashes, MaxStatic, MaxCov, MaxTries, MaxAdds, MaxSwitches} \subseteq Nat
    /\ Policies \subseteq BOOLEAN

VARIABLES
    queue,          \* dynfileq, first entry first
    cursor,         \* dynfileqCurrent: idx of an entry, or Null
    dynfileqCnt,    \* goes up with every entry, and never down
    maxCov,         \* feedback.maxCov[0]
    hashes,         \* seed_hashes[0..seed_hash_count-1]
    seeded,         \* drivers whose seeds were loaded
    activeDrv,      \* active_driver, or Null
    incoming,       \* driver_list_head, the driver that is switched to
    seedFiles,      \* what readdir has yet to return of its seed directory
    iter,           \* the entry driver_prioritizeSeeds has come to
    stage,          \* feedback.state: dry run or main phase
    static,         \* files of the input directory not yet run
    independent,    \* independentQueue, from MFUZZ_QUEUE_POLICY
    run,            \* run->dynfile, the input in hand: its tag and kind
    triesLeft,      \* run->triesLeft
    scans,          \* independentScans
    place,          \* where the thread is; fatal = LOG_F, crashed = null dereference
    adds, switches  \* counters of the bounds

qvars == <<queue, cursor, dynfileqCnt>>
drvvars == <<hashes, seeded, activeDrv, incoming, seedFiles, iter>>
phase == <<stage, static, independent>>
bounds == <<adds, switches>>
dynVars == <<qvars, maxCov, drvvars, phase, run, triesLeft, scans, place, bounds>>

Input(e) == [driver |-> e.driver, imported |-> e.imported]

Idxs == {queue[i].idx : i \in DOMAIN queue}

\* TAILQ_INSERT_BEFORE the entry at i, or TAILQ_INSERT_TAIL for i = Len(q) + 1.
InsertBefore(q, i, e) == SubSeq(q, 1, i - 1) \o <<e>> \o SubSeq(q, i, Len(q))

\* TAILQ_REMOVE
Remove(q, i) == SubSeq(q, 1, i - 1) \o SubSeq(q, i + 1, Len(q))

\* TAILQ_FIRST
First(q) == IF q = <<>> THEN Null ELSE q[1].idx

QueueInit ==
    /\ queue = <<>> /\ cursor = Null /\ dynfileqCnt = 0 /\ maxCov = 0
    /\ hashes = {} /\ seeded = {} /\ activeDrv = Null
    /\ incoming = Null /\ seedFiles = {} /\ iter = 0
    /\ stage = "dry" /\ static \in 0..MaxStatic
    /\ independent \in Policies
    /\ run = [driver |-> StaticTag, imported |-> FALSE]
    /\ triesLeft = 0 /\ scans = 0 /\ place = "switch"
    /\ adds = 0 /\ switches = 0

-----------------------------------------------------------------------------
(* Switching drivers (driver_switchDriver)                                 *)

\* A published driver is picked up.  The first one is there before the loop
\* starts, unless mfuzz could not write the file.
SwitchDriver(d) ==
    /\ place = "switch" /\ switches < MaxSwitches
    /\ switches' = switches + 1
    /\ incoming' = d
    /\ \/ d = activeDrv /\ place' = "fetch" /\ UNCHANGED <<seedFiles, iter>>
       \/ d # activeDrv /\ d \notin seeded /\ place' = "seeds"
          /\ seedFiles' = Seeds[d] /\ UNCHANGED iter
       \/ d # activeDrv /\ d \in seeded /\ place' = "prioritize"
          /\ iter' = 1 /\ UNCHANGED seedFiles
    /\ UNCHANGED <<qvars, maxCov, hashes, seeded, activeDrv, phase, run,
                   triesLeft, scans, adds>>

\* One file of its seed directory, in the order readdir gives them: skipped
\* when its content is known, else put at the head of the queue, where the
\* cursor goes; a full hash table forgets the content.
AddDriverSeed(c) ==
    /\ place = "seeds" /\ c \in seedFiles
    /\ seedFiles' = seedFiles \ {c}
    /\ \/ c \in hashes /\ UNCHANGED <<qvars, hashes>>
       \/ /\ c \notin hashes
          /\ queue' = <<[idx |-> dynfileqCnt + 1, driver |-> incoming,
                        imported |-> TRUE, cov |-> 0]>> \o queue
          /\ cursor' = dynfileqCnt + 1
          /\ dynfileqCnt' = dynfileqCnt + 1
          /\ hashes' = IF Cardinality(hashes) < MaxHashes
                       THEN hashes \cup {c} ELSE hashes
    /\ UNCHANGED <<maxCov, seeded, activeDrv, incoming, iter, phase, run,
                   triesLeft, scans, place, bounds>>

SeedsAdded ==
    /\ place = "seeds" /\ seedFiles = {}
    /\ seeded' = seeded \cup {incoming}
    /\ activeDrv' = incoming
    /\ place' = "fetch"
    /\ UNCHANGED <<qvars, maxCov, hashes, incoming, seedFiles, iter, phase, run,
                   triesLeft, scans, bounds>>

\* Variant: the driver's inputs go to the tail.
PrioritizeSeedLast ==
    /\ place = "prioritize" /\ iter <= Len(queue)
    /\ queue' = IF queue[iter].driver = incoming
                THEN Append(Remove(queue, iter), queue[iter]) ELSE queue
    /\ iter' = iter + 1
    /\ UNCHANGED <<cursor, dynfileqCnt, maxCov, hashes, seeded, activeDrv, incoming,
                   seedFiles, phase, run, triesLeft, scans, place, bounds>>

\* An iteration of driver_prioritizeSeeds: an input of the driver goes to the
\* head, and the loop to what followed it.
PrioritizeSeed ==
    /\ place = "prioritize" /\ iter <= Len(queue)
    /\ queue' = IF queue[iter].driver = incoming
                THEN <<queue[iter]>> \o Remove(queue, iter) ELSE queue
    /\ iter' = iter + 1
    /\ UNCHANGED <<cursor, dynfileqCnt, maxCov, hashes, seeded, activeDrv, incoming,
                   seedFiles, phase, run, triesLeft, scans, place, bounds>>

SeedsPrioritized ==
    /\ place = "prioritize" /\ iter > Len(queue)
    /\ cursor' = First(queue)
    /\ activeDrv' = incoming
    /\ iter' = 0
    /\ place' = "fetch"
    /\ UNCHANGED <<queue, dynfileqCnt, maxCov, hashes, seeded, incoming, seedFiles,
                   phase, run, triesLeft, scans, bounds>>

\* No driver is published (drive_loadDriver returns false): the thread goes on
\* with the active one, or with none.
KeepDriver ==
    /\ place = "switch"
    /\ place' = "fetch"
    /\ UNCHANGED <<qvars, maxCov, drvvars, phase, run, triesLeft, scans,
                   bounds>>

-----------------------------------------------------------------------------
(* Adding an input (input_addDynamicInput)                                 *)

\* e goes in front of the first entry with less coverage, else to the tail.
SortedAt(e, i) ==
    /\ \A j \in 1..(i - 1) : e.cov <= queue[j].cov
    /\ i <= Len(queue) => e.cov > queue[i].cov

AddDynamicInput(e) ==
    /\ dynfileqCnt' = dynfileqCnt + 1
    /\ \E i \in 1..(Len(queue) + 1) :
          /\ SortedAt(e, i)
          /\ queue' = InsertBefore(queue, i, [e EXCEPT !.idx = dynfileqCnt + 1])
    /\ maxCov' = IF e.cov > maxCov THEN e.cov ELSE maxCov

-----------------------------------------------------------------------------
(* Fetching an input (fuzz_fetchInput)                                     *)

\* Dry run: the next file of the input directory, untagged and unmangled.
PrepareStaticFile ==
    /\ place = "fetch" /\ stage = "dry" /\ static > 0
    /\ static' = static - 1
    /\ place' = "run"
    /\ UNCHANGED <<qvars, maxCov, drvvars, stage, run, triesLeft, scans,
                   independent, bounds>>

\* The dry run is over; an empty input makes up for an empty corpus.
SetDynamicMainState ==
    /\ place = "fetch" /\ stage = "dry" /\ static = 0
    /\ stage' = "main"
    /\ IF dynfileqCnt = 0
       THEN AddDynamicInput([idx |-> 0, driver |-> EmptyTag, imported |-> FALSE, cov |-> 0])
       ELSE UNCHANGED <<queue, dynfileqCnt, maxCov>>
    /\ UNCHANGED <<cursor, drvvars, static, run, triesLeft, scans, place,
                   independent, bounds>>

PrepareDynamicInput ==
    /\ place = "fetch" /\ stage = "main"
    /\ scans' = 0
    /\ place' = IF dynfileqCnt = 0 THEN "fatal" ELSE "select"
    /\ UNCHANGED <<qvars, maxCov, drvvars, phase, run, triesLeft, bounds>>

-----------------------------------------------------------------------------
(* An iteration of the selection loop (input_prepareDynamicInput)          *)

\* The entry under the cursor.
Here == IF cursor = Null THEN First(queue) ELSE cursor
Chosen == {i \in DOMAIN queue : queue[i].idx = Here}

Successor(i) == IF i < Len(queue) THEN queue[i + 1].idx ELSE Null

\* The previous input is used again, whatever the active driver is.
TryAgain ==
    /\ place = "select" /\ triesLeft > 0
    /\ triesLeft' = triesLeft - 1
    /\ cursor' = Here
    /\ place' = "run"
    /\ UNCHANGED <<queue, dynfileqCnt, maxCov, drvvars, phase, run, scans, bounds>>

\* TAILQ_NEXT of a null cursor: the queue has no entry left.
SelectNone ==
    /\ place = "select" /\ triesLeft = 0 /\ Here = Null
    /\ place' = "crashed"
    /\ UNCHANGED <<qvars, maxCov, drvvars, phase, run, triesLeft, scans,
                   bounds>>

Foreign(e) == independent /\ activeDrv # Null /\ e.driver # activeDrv

\* Another driver's input in independent mode; after as many of them as the
\* queue is thought to have entries the fuzzer gives up.
SkipForeign ==
    /\ place = "select" /\ triesLeft = 0 /\ Here # Null
    /\ \E i \in Chosen : Foreign(queue[i]) /\ cursor' = Successor(i)
    /\ scans' = scans + 1
    /\ place' = IF scans + 1 >= dynfileqCnt THEN "fatal" ELSE "select"
    /\ UNCHANGED <<queue, dynfileqCnt, maxCov, drvvars, phase, run, triesLeft, bounds>>

\* Variant: the cursor stays on the entry that is taken out.
SelectImportedStay ==
    /\ place = "select" /\ triesLeft = 0 /\ Here # Null
    /\ \E i \in Chosen :
       /\ queue[i].imported /\ ~Foreign(queue[i])
       /\ cursor' = Here
       /\ queue' = Remove(queue, i)
       /\ run' = Input(queue[i])
    /\ place' = "run"
    /\ UNCHANGED <<dynfileqCnt, maxCov, drvvars, phase, triesLeft, scans, bounds>>

\* Variant: the entry taken out is no longer counted.
SelectImportedUncount ==
    /\ place = "select" /\ triesLeft = 0 /\ Here # Null
    /\ \E i \in Chosen :
       /\ queue[i].imported /\ ~Foreign(queue[i])
       /\ cursor' = Successor(i)
       /\ queue' = Remove(queue, i)
       /\ run' = Input(queue[i])
    /\ place' = "run"
    /\ dynfileqCnt' = dynfileqCnt - 1
    /\ UNCHANGED <<maxCov, drvvars, phase, triesLeft, scans, bounds>>

\* A seed not yet measured is taken out of the queue; dynfileqCnt stays.
SelectImported ==
    /\ place = "select" /\ triesLeft = 0 /\ Here # Null
    /\ \E i \in Chosen :
       /\ queue[i].imported /\ ~Foreign(queue[i])
       /\ cursor' = Successor(i)
       /\ queue' = Remove(queue, i)
       /\ run' = Input(queue[i])
    /\ place' = "run"
    /\ UNCHANGED <<dynfileqCnt, maxCov, drvvars, phase, triesLeft, scans, bounds>>

\* Variant: an input that is passed over keeps the cursor.
SelectMeasuredStay ==
    /\ place = "select" /\ triesLeft = 0 /\ Here # Null
    /\ \E i \in Chosen :
       /\ ~queue[i].imported /\ ~Foreign(queue[i])
       /\ cursor' = Here
       /\ triesLeft' \in 0..MaxTries
       /\ run' = Input(queue[i])
       /\ place' = "run"
    /\ UNCHANGED <<queue, dynfileqCnt, maxCov, drvvars, phase, scans, bounds>>

\* A measured input: taken (for up to MaxTries more rounds when its skip
\* factor is negative) or passed over at random.
SelectMeasured ==
    /\ place = "select" /\ triesLeft = 0 /\ Here # Null
    /\ \E i \in Chosen :
       /\ ~queue[i].imported /\ ~Foreign(queue[i])
       /\ cursor' = Successor(i)
       /\ \/ /\ triesLeft' \in 0..MaxTries
             /\ run' = Input(queue[i])
             /\ place' = "run"
          \/ UNCHANGED <<triesLeft, run, place>>
    /\ UNCHANGED <<queue, dynfileqCnt, maxCov, drvvars, phase, scans, bounds>>

-----------------------------------------------------------------------------
(* After the execution (fuzz_perfFeedback)                                 *)

\* New coverage: the input joins the corpus with the tag of its source.
Useful(c) ==
    /\ place = "run" /\ adds < MaxAdds
    /\ adds' = adds + 1
    /\ run' = [run EXCEPT !.imported = FALSE]
    /\ AddDynamicInput([idx |-> 0, driver |-> run.driver, imported |-> FALSE, cov |-> c])
    /\ place' = "switch"
    /\ UNCHANGED <<cursor, drvvars, phase, triesLeft, scans, switches>>

\* Nothing new: the input is forgotten.
Useless ==
    /\ place = "run"
    /\ place' = "switch"
    /\ UNCHANGED <<qvars, maxCov, drvvars, phase, run, triesLeft, scans,
                   bounds>>

SwitchStep ==
    \/ \E d \in Drivers : SwitchDriver(d)
    \/ \E c \in Contents : AddDriverSeed(c)
    \/ SeedsAdded \/ PrioritizeSeed \/ SeedsPrioritized
    \/ KeepDriver

Fetch == PrepareStaticFile \/ SetDynamicMainState \/ PrepareDynamicInput

Select == TryAgain \/ SelectNone \/ SkipForeign \/ SelectImported \/ SelectMeasured

QueueNext ==
    \/ SwitchStep \/ Fetch \/ Select
    \/ \E c \in 1..MaxCov : Useful(c)
    \/ Useless

QueueSpec == QueueInit /\ [][QueueNext]_dynVars

\* The thread keeps running; what it meets (publications, coverage, the
\* random choice) is left open.
FairQueueSpec == QueueSpec /\ WF_dynVars(QueueNext)

-----------------------------------------------------------------------------

\* The cursor never points at an entry that was taken out of the queue, and no
\* two entries share an idx: seeds are inserted, removed, reordered and
\* re-added around dynfileqCurrent (driver_loader.c:400, 452; input.c:556, 603).
CursorInQueue ==
    /\ cursor # Null => cursor \in Idxs
    /\ \A i, j \in DOMAIN queue : queue[i].idx = queue[j].idx => i = j

\* Indices stay inside their arrays.  The table of seed hashes is never filled
\* past its end (driver_isSeedExist), and the percentiles input_skipFactor uses
\* as indices of scaleMap never exceed 100: no entry is newer than dynfileqCnt
\* or better than maxCov, although entries leave the queue (input.c:481-514,
\* 603).
IndicesInBounds ==
    /\ Cardinality(hashes) <= MaxHashes
    /\ \A i \in DOMAIN queue : queue[i].idx <= dynfileqCnt /\ queue[i].cov <= maxCov

\* Right after a switch to another driver its own inputs come first
\* (driver_prioritizeSeeds, driver_addDriverSeed).
OwnInputsFirst ==
    [][activeDrv' # activeDrv =>
        \A i, j \in DOMAIN queue' :
            i < j /\ queue'[j].driver = activeDrv' => queue'[i].driver = activeDrv']_dynVars

\* Every seed a driver brings along is run, in a shared corpus, once drivers
\* stop changing: the cursor comes round to every entry (input.c:545-581).
SeedsAreMeasured ==
    (~independent /\ \E i \in DOMAIN queue : queue[i].imported) ~>
        (\A i \in DOMAIN queue : ~queue[i].imported)

=============================================================================
