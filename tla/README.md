# GraphDissect: a TLA+ verification project

GraphDissect fuzzes one executable through several *drivers* (command-line
configurations with their own seeds).  `mfuzz` (`mfuzz/`) schedules the drivers
and attributes coverage of the call graph to them, a modified honggfuzz
(`honggfuzz/`) runs them, and the experiment scripts (`tools/experiments/`) run
mfuzz in resumable one-hour segments.  The parts are separate processes that
share files and a memory-mapped table and use almost no locks.  That is where
tests reach least, and it is what these modules model.

Paths below are relative to the repository root (`src/` in `PROJECT.json`).

## 1. The system

| Part | Source | State | Operations that change it |
|---|---|---|---|
| Coverage map | `honggfuzz/libhfuzz/instrument.c`, `honggfuzz/func_coverage.c`, `mfuzz/src/fcov.cpp` | two open-addressed hash tables in `fcov.map`, `block_writes` | record an edge and a function, look up, block, unblock |
| Driver handover | `mfuzz/src/driver.cpp`, `mfuzz/src/scheduler.cpp`, `honggfuzz/driver_loader.c`, `honggfuzz/fuzz.c` | `active_driver.drv`, each side's idea of the active driver, count of timeouts | truncate, write, poll, give up; open, read, switch, remove |
| Attribution | `mfuzz/src/scheduler.cpp`, `mfuzz/include/scheduler.h`, `CallGraph.h` | `HitNum` and driver mask of nodes and edges | `synchronizeNodes`, `synchronizeEdges`, `getCoveredFuncs` |
| Scheduling policy | `mfuzz/src/mfuzz.cpp` | order, index, elapsed time | sleep a slice, choose the next driver, stop |
| Life cycle | `mfuzz/src/main.cpp`, `mfuzz/src/mfuzz.cpp`, `honggfuzz/honggfuzz.c` | `g_stop`, `g_done`, `stopped`, `fuzzer_pid`, session directory, child process | start, fork, signal, wait, clean up |
| Corpus queue | `honggfuzz/input.c`, `honggfuzz/fuzz.c`, `honggfuzz/driver_loader.c` | `dynfileq` and its cursor, counters, seed hashes, tries left | inject seeds, prioritise, select, add, drop |
| Driver table | `honggfuzz/driver_loader.c`, `honggfuzz/fuzz.c`, `honggfuzz/cmdline.c` | `driver_map`, the doubly linked list, the active driver, its statistics window, the working copy of an input | load, move to front, switch, settle statistics, copy and remove |
| Fuzzing engine | `honggfuzz/honggfuzz.c`, `fuzz.c`, `subproc.c`, `linux/arch.c` | phase, barrier counter and mutex, threads, their targets, termination | fetch, report, switch phase, start, kill, reap, signal, exit |
| Campaign runner | `tools/experiments/run_campaigns.py` | `.lock`, `status.json`, `progress.json`, `checkpoint.json`, `coverage.csv`, the benchmark's coverage log, running mfuzz and honggfuzz processes | acquire and reclaim the lock, reconcile, clean, run a segment, join its pipes, save, finish |
| Worker pool | `tools/experiments/run_experiments.py`, `run_campaigns.py` | futures, a worker's remaining runs, `_ACTIVE_PIDS` | submit, take, run, register, terminate, shut down |

How they interact: every window, mfuzz closes the coverage map, synchronises the
graph, publishes a driver in `active_driver.drv`, waits for honggfuzz to remove
the file and opens the map again.  Targets write the map the whole time.
honggfuzz looks at the file between two executions and reorders its corpus when
the driver changes.  mfuzz is started once per segment by a campaign runner
that may be killed and started again, also on another host; the worker pool calls
that runner for all runs of an executable, one after the other.

`PROJECT.json` lists all components, those left out included, the hazards at
the line where they bite, and for every definition the lines it models.

## 2. Modules

| Module | What it is |
|---|---|
| `FcovCounters` | abstract: one atomic counter per key, with hits that may be dropped |
| `FcovTable` | one table of the coverage map, one action per atomic access |
| `FcovTable_proofs` | theorems about `FcovTable`, among them that it implements `FcovCounters` |
| `Handover` | the file protocol between mfuzz and honggfuzz, with the gate and records in flight |
| `GraphSync` | attribution of recorded calls to drivers |
| `ActiveDriver_proofs` | theorems about `Handover` and `GraphSync`, the two sides of `setActiveDriver` |
| `Schedule` | `run_schedule_policy` |
| `Lifecycle` | starting and stopping honggfuzz with two unsynchronised threads and signals, composed with `Schedule` |
| `Mfuzz_proofs` | theorems about `Schedule` and `Lifecycle` |
| `DynQueue`, `DynQueue_proofs` | the corpus queue across driver switches |
| `DriverOrder` | abstract: the drivers by the time they were last handed over, and the one in use |
| `DriverTable` | the linked table that implements it, statistics, in-place copies |
| `Engine` | threads, targets, phases and termination of honggfuzz |
| `Honggfuzz_proofs` | theorems about `Engine` and `DriverTable` |
| `Campaign` | the resumable runner, one action per file-system operation |
| `Campaign_proofs` | theorems about its lock, its processes and its status |
| `CampaignLedger_proofs` | theorems about its progress, rows and losses |
| `Experiments`, `Experiments_proofs` | the worker pool, composed with `Campaign` |
| `MC*` | instances for TLC |

`Experiments` extends `Campaign` and takes its steps, and so does `Lifecycle` with
`Schedule`: those two compositions are checked.  The other modules are coupled by
what they assume of each other, which is argued here and not checked.  `GraphSync`
uses the map as one atomic counter per key, which `FcovTable` implements
(`FcovCounters`); it leaves out hits dropped because a probe window is full.
`GraphSync` takes the handover as a single step in which honggfuzz is in time,
which is what `Agreement` of `Handover` states.  `Campaign` sees an mfuzz process
that logs, exits, fails or outlives its runner, and may leave its honggfuzz
behind.  An iteration of honggfuzz's thread is split by subject: `Handover` has its file accesses, `DriverTable` the table and
the statistics, `DynQueue` the corpus, `Engine` the phases and the target.  They
meet in `driver_switchDriver`, which runs between two executions in each of them.

Definitions introduced by "Variant" are faulty versions of the definition that
follows them.  No specification uses them; each shows that a property notices
the fault (`mutants` in `PROJECT.json`).

### FcovTable

`key` and `count` are the slots, `total` is `edge_count`/`func_count`, `pc`,
`wkey`, `probe` the locals of recording threads and `rpc`, `rkey`, `rprobe` those
of mfuzz's lookup.  `RecordEnter`, `RecordLoad`, `RecordClaim`, `RecordAdd`,
`RecordTotal` and `RecordGiveUp` are the accesses of `fcov_record_edge` in order
(the function table differs only in its key width); `TargetDies` ends a recorder
between two of them.  Slots are indexed through an arbitrary function `Hash`.

All accesses are atomic in the code, relaxed but for the claim.  The model
interleaves them, that is, it assumes that the accesses of one thread become
visible in program order.  That holds on x86 and for the accesses to one slot
everywhere; reordering of accesses to two slots on weaker machines is not
covered.  `block_writes` is a plain byte and is read as one access.

### Handover

`file` is absent, empty or holds a driver.  `mpc` follows
`Scheduler::setActiveDriver` and `DriverMng::setActiveDriver`, `hpc` honggfuzz
from its command line (which reads the first publication without removing it)
through the loop of `fuzz_fuzzLoop`.  `Truncate` and `Publish` are two steps, so
an empty file is read; after `MaxTries` such reads honggfuzz ends.  Either call may
fail (`OpenFails`, `WriteFails`): mfuzz then goes on without waiting, and a failed
write leaves the empty file.  `Die` is any other end of honggfuzz.  The variable
`timely`, fixed in the initial state, says that honggfuzz picks up a publication
before mfuzz's wait (15 seconds) is over, the first one within the first window,
that mfuzz has written the file before honggfuzz gives up reading it, that the
calls succeed and that honggfuzz lives.  Without it `TimeOut` may happen at any
moment, and agreement is false in the code.  `unread` holds the drivers that made
the hits not yet synchronised, `inflight` says that a record is past the gate and
`late` that one was when the map was last read.

### GraphSync

`Call`, `RecordEdge`, `RecordFunc` are the two halves of `fcov_record`, which a
target may abandon in between; `SetCovBlock`, `SynchronizeNodes`,
`SynchronizeEdges`, `SwitchDriver`, `SetCovNonBlock`, `GetCoveredFuncs` are the
steps of the worker thread of mfuzz; `Abandon` is a target that dies or meets
the closed gate between them.  Counts wrap at `CountMod`.  `callers` and
`window` are history: who called a function, and what was recorded in the
current window before the gate closed.  One target thread records at a time;
several calls in flight together are not covered.

### Schedule

`order`, `index`, `elapsed` and the window are the variables of
`run_schedule_policy`; the number of new edges (the test of the `progress`
policy) is arbitrary.  `Proceed` is the test of `stopped` after the sleep; a stop
that comes later lets the handover (`Switch`) go through.  `Stop` is the assignment
in `stop_fuzzer`, by either thread.  Elapsed time is the sum of the slices, as in
the code: the time a switch takes is not counted, so the wall-clock time of a
segment exceeds its budget by the switching times.

### Lifecycle

Two threads (`at`) with the steps of `start_fuzzer`, `main` and `stop_fuzzer`, a
child process and its signals.  The worker takes the steps of `Schedule` while it
is in the policy loop, and `stopped` is the variable of both modules: the main
thread may set it, signal honggfuzz and remove the session directory at any
moment of the loop.  `GiveUp` is mfuzz's own exit during a handover.  `fuzzer_pid`
has no initial value, so it starts as any of the outcomes the code distinguishes:
not positive, or positive and not the child's.  It is a plain member read again by
`kill` and `waitpid`; the compiler may keep the tested value or reload it, and
`Kill` allows both.  After the fork the child is a copy of mfuzz, with mfuzz's
handler of SIGINT, until it has called `execvp` (`Exec`): a signal that comes
before has no effect.  `early`, `abrupt`, `stray` and `swallowed` are history.

### DynQueue

`queue` is the list `dynfileq`, `cursor` is `dynfileqCurrent`, `run` the tag and
kind of the input in hand.  A switch takes one step for every seed file
(`AddDriverSeed`) or for every entry (`PrioritizeSeed`, with the iterator `iter`),
and ends with the assignment of `active_driver` (`SeedsAdded`,
`SeedsPrioritized`).  An iteration of the selection loop is one step; the skip
factor is any number, so a measured input may be taken, taken repeatedly or
passed over.  Coverage is a number instead of a vector of four compared
lexicographically.  `KeepDriver` is an iteration without a switch, also before
there is a driver.  mfuzz starts honggfuzz with `-n 1`, so one thread works on the
queue.

### DriverTable

A node of the list is named by the id of its driver; `next`, `pre`, `head`,
`count` and `loaded` are the code's pointers, counter and map.  `AddNew`,
`MoveToFront` and `KeepAtHead` are the branches of `drive_addDriver`;
`LoadAndSwitch` is the load and the switch at the start of an iteration, `NoLoad`
and `LoadRefused` its other outcomes, `InPlaceEditBefore`, `InPlaceEditAfter` and
`PerfFeedback` what follows.  `SettleStats` closes a driver's statistics window
and opens the next: unsigned 32-bit fields (`Mod`) over a 64-bit global count.
A working copy that cannot be deleted stays (`kept` counts them): `unlink` only
warns.
Edges stand for crashes and time, which are computed alike.  `Places` holds the
numberings of the nodes that follow the links from the head; the refinement reads
from it which driver is before which, the relation `newer` of `DriverOrder`.

If honggfuzz starts without a profile, the first switch frees `exe.cmdline`,
which then points into `argv`.  That is undefined, and `FreeOfArgv` lets the
process go on or end.  Ids are below `MAX_DRIVER`; `drive_loadDriver` also
accepts `MAX_DRIVER` itself, for which the map has no element.

### Engine

The threads of `fuzz_threadNew` (`pc`, `input`), each with at most one target
(`child`), the main thread (`mpc`) and the signal handler.  `Report`, `TakeLock`,
`Switch` and `LeaveBarrier` are the parts of `fuzz_setDynamicMainState`: the
counter, the mutex, the wait for the others, and the way out on termination.
`RoundDone` is the persistent-mode state machine, `Reap` the wait for the end of
a target, `TimeLimit`, `TimeLimitKill` and `TerminationKill` the timers.  Options
are chosen in the initial state.  mfuzz starts one thread; the model has several,
as the code does.  A target may hang, end, crash or become ready at any time.

### Experiments

The runners of `Campaign` become the threads of one process: a `run_one` that
returns goes back to `run_subject` (`RunOneStep`, `Remaining`), and the process
dies with all of them (`ProcessDies`).  `Register` is separate from the launch,
so an interrupt may find a process that is not in `_ACTIVE_PIDS` yet.
`Terminate` ends the registered mfuzz processes; each honggfuzz, in a session of
its own, ends with them or becomes a stray, and the worker goes on to join the
pipes.  It is `Stuck` there as long as the stray has them open.  `hit` (runs whose
mfuzz was terminated) is history.

### Campaign

Each runner executes `run_one`.  `LockTest` to `LockWrite` are the operations of
`acquire_lock` in order; `LoadProgress`, `CleanRuntime`, `MarkRunning`,
`LaunchSegment`, `JoinOutput`, `AppendCoverage`, `SaveProgress`, `Finish`,
`ReleaseLock` the rest.  A lock names its owner and is blank, or its owner lives or
is dead.  `Crash` kills a runner anywhere; its mfuzz process has a session of its
own and may go on.  `Interrupt` is Ctrl-C in `wait`, which terminates mfuzz and
joins the pipes; `InterruptElsewhere` is Ctrl-C in the rest of the `try`, which
goes straight to the release of the lock.

`log` is `mfuzz_f_coverage.log`, one for each benchmark directory: a starting mfuzz
and `clean_runtime` remove it, every window of an mfuzz appends to it, and
`append_coverage` makes a row of its last line, or none if there is no line.  An
mfuzz that exits with 0 and has not logged (no drivers, a failed fork) is recorded
in `silent`, one whose log another process may have removed or continued in
`disturbed`.  Rows and segments remember the mfuzz process they come from.
`strays` are the segments whose mfuzz has ended and whose honggfuzz has not,
`orphans` the ones no runner waits for any more.  `commits` says whether mfuzz
writes `checkpoint.json`: the runner reads that file, the stand-in of the tests
writes it, mfuzz itself does not.

## 3. Runs

The largest run, `campaign`, takes two to three minutes with two workers; the
others take one to two minutes or less.

| Run | Bounds | States | Shows |
|---|---|---|---|
| `fcov_table` | 2 writers, a reader, 3 keys, 3 slots, 2 probes, counts modulo 2 | 911,232 | no key in two slots, no hit dropped while a slot in reach is free; implements atomic counters |
| `handover` | 3 drivers, timely and not, 3 tolerated timeouts, 3 reads, failing opens and writes, honggfuzz dying | 254,361 | if timely: agreement in every window, hits go to the driver that made them, or to its successor if they were past the gate, every handover ends; always: a dead honggfuzz is noticed unless all later writes fail |
| `graph_sync` | 3 drivers, 3 nodes, 3 edges, 4 calls, counts modulo 3 | 2,226,462 | a driver is credited only with nodes it or its predecessor called; edges are credited with their node and reported as new once |
| `schedule` | 3 drivers, budgets of 1 to 49 s, windows of 0, 1, 3, 5, 100 s | 1,731,647 | equal shares, twelve turns each with automatic windows, termination |
| `lifecycle` | 2 drivers, budgets of 1 and 3 s, windows of 0 and 2 s, all policies; failing starts, SIGINT, SIGTERM, honggfuzz dying | 90,888 | without an early SIGINT an exit leaves nothing behind; if nobody interrupts a started mfuzz, honggfuzz is signalled once and nothing else is; mfuzz ends unless its SIGINT came before `execvp` |
| `dyn_queue` | 2 drivers, 2 seed contents (one shared), 1 hash, 3 additions, 3 switches, both policies | 1,165,658 | the cursor never dangles, table indices stay in range, own inputs come first, injected seeds get run |
| `campaign` | 2 runners on one host, 2 segments, 2 troubles of which 1 `--force`, with and without commits | 4,796,835 | two runners overlap only after a lock was reclaimed; segments tile the time even then; a trouble costs at most a segment; rows belong to the segments saved; nothing of an earlier segment is at work beside a later one |
| `driver_table` | 3 drivers, 2 refused ids, 4 edges modulo 3, 1 copy that stays | 112,973 | list and map agree, every edge is credited once, no working copy is left but the ones `unlink` failed on, implements `DriverOrder` |
| `engine` | 2 threads, 1 input file, no limit or 3 iterations, all options | 452,306 | phases do not overlap; main leaves no target; a signal, the dry run and the limit come to an end |
| `experiments` | 2 workers, 2 campaigns in one directory, 2 segments each, 2 troubles, `--recover-foreign-lock`, no commits | 397,245 | one segment at work per directory beside orphans; a fresh start cleans nothing unfinished; a terminated campaign stays down; the matrix completes unless a honggfuzz holds a worker |

Why the bounds are enough: three slots with two probes make windows overlap,
wrap around and fill; three drivers tell "the previous driver" from "an earlier
one"; counts modulo 2 or 3 wrap within the run; two segments, the second cut
short, give a first, a last and an interrupted one; two runners give the races of
the lock, whose steps compare one owner with one other; three drivers move the
first, a middle and the last node of the list; two threads and one file let one
thread wait in the barrier while the other still runs the file, and three
iterations end within the dry run or after it; two campaigns of one executable
give a first one to be cleaned up after and a second one that cleans.

A *trouble* of `Campaign` is a crash, an interrupt, a failed segment, a segment
without a log, or a `--force`; `MaxTrouble` bounds all of them together.  In
`campaign` there is none once two runners have overlapped (`AfterOverlap`; the
proofs are for both values), and a second runner takes up a campaign that another
is at only while a trouble is left.  With two
executables `experiments` has 6.9 million states, out of reach for its liveness
property; the workers of two executables share nothing but the pool, and the
safety properties are proved for any number.  All runners of these instances are
on one host: a lock counts as foreign there only while it is blank.
Deadlock checking is off only where the system may stop: mfuzz exits
(`handover`, `schedule`, `lifecycle`) or honggfuzz ends itself (`dyn_queue`).

Exceptions are written into the properties where the code has them.
`CompleteMeansDone` excludes `--force` with an mfuzz that commits:
`reconcile_checkpoint` then replaces the saved progress by an older checkpoint
while `status.json` still says "complete".  `AllComplete` is checked without
commits and for one invocation at a time: an mfuzz that outlives several runners
and commits late can put `checkpoint.json` behind `progress.json`, which every
later start refuses, and two invocations that reclaim each other's locks can
keep setting the status of a finished campaign back to "running".
It is an alternative of `AllComplete` that a worker waits for ever in the join of
its pipes, because a honggfuzz whose mfuzz failed or was terminated keeps them
open.  `LossBound` and `SummaryReadsCommitted` exclude `--force`, which gives up
the progress on purpose and keeps the rows.  `SummaryReadsCommitted` also excepts
segments whose mfuzz has logged nothing or did not have the directory to itself:
those may have no row, or another's.  All but `OverlapNeedsReclaim` and
`SegmentsTile` are about campaigns that two runners have not worked on at once,
the disagreement below.  `NothingLeftBehind` and `OneFuzzerPerDirectory` except
orphans: an mfuzz that outlived its runner has a session of its own, and the lock
names the dead runner.  `DeathIsNoticed` takes that opens and writes do not fail
for ever, `MfuzzEnds` that the SIGINT of `stop_fuzzer` was not swallowed before
`execvp`; `SignalsItsOwnFuzzer` is about runs without SIGINT, after which both
threads may signal.  `LeavesDryRun` excepts a thread that `-N` stops before it reports; the others then wait in the barrier
until the process is told to terminate.

### Disagreements

Two runs check what the repository says of itself and end in a violation; the
findings in `PROJECT.json` quote the text.

| Run | Statement | What happens |
|---|---|---|
| `graph_sync_missed` | "Synchronize the outgoing driver's contribution first" | what is recorded before `getCoveredFuncs` is not attributed |
| `campaign_owner` | "Re-submitting the same array is safe" | two runners reclaim one lock and both go on |

The models also have these behaviours.  No run of the project is about them, and
no property excludes them:

- "File no longer exists → driver is loaded" (`driver.cpp:221`) need not hold
  after a timed-out wait: honggfuzz removes the file by name
  (`driver_loader.c:578`), which can delete the next publication unread
  (`Handover`; `Agreement` is about timely sides).
- A failed open or write of the file goes unnoticed (`driver.cpp:252`,
  `driver.cpp:258`): mfuzz credits the new driver while honggfuzz runs the old one,
  or dies of the empty file; if every later write fails too, mfuzz never counts a
  timeout and runs on without a fuzzer (`Handover`).
- "reuses MFuzz's benchmark-local corpus" (`experiments/README.md:191`): the files
  stay, but nothing reads them.  honggfuzz saves to `fuzz/out/<driver>`
  (`driver_loader.c:257`) and a segment starts from `fuzz/in` (`mfuzz.cpp:47`,
  `input.c:178`) and the drivers' `seeds`.  `Campaign` therefore has no corpus, and
  `CleansNothingUnfinished` is about the files only.
- A segment whose mfuzz exits with 0 and without a log is saved as completed,
  without a row (`run_campaigns.py:232`); an mfuzz that outlived its runner goes on
  appending to the log its successor is summarised from (`Campaign`).
- Ctrl-C, or a failing mfuzz, with a honggfuzz that survives: the runner, or the
  worker and with it the driver, hangs in the join of the pipes
  (`run_campaigns.py:415`) until honggfuzz ends (`Campaign`, `Experiments`).
- A KeyboardInterrupt between `Popen` and the inner `try` releases the lock and
  leaves mfuzz running (`Campaign`).
- A worker that is between two segments, or between `Popen` and the registration,
  when Ctrl-C arrives goes on with its campaign; a worker set free may take
  another future before `cancel_futures` (`Experiments`).
- Every child that cannot execute the target sends SIGTERM to honggfuzz; the
  second one counts as a repeated signal and ends it at once (`Engine`).
- Edges found before the first switch belong to no driver (`DriverTable`).
- `edge_count` and `func_count`, documented as totals of edges and functions,
  count hits (`FcovTable`).
- A SIGINT before the fork, with the uninitialised `fuzzer_pid` positive, can end
  with honggfuzz running (`Lifecycle`; hence `early` in `ExitCleansUp`).
- A SIGINT between fork and `execvp` is taken by the child's copy of mfuzz's
  handler: honggfuzz starts all the same, and `stop_fuzzer` waits for it for ever
  (`Lifecycle`; hence `swallowed` in `MfuzzEnds`).
- With an independent queue, tries left over from the previous driver's input
  are spent under the new driver; the search can also give up although the
  driver has an input that was passed over at random.  If all driver seeds prove
  useless, the queue is empty while `dynfileqCnt` is not (`DynQueue`).
- A runner killed between creating and writing its lock leaves an empty lock that
  only `--recover-foreign-lock` removes; two campaigns of one executable started
  by hand share a benchmark directory; `--force` keeps checkpoint and rows
  (`Campaign`).

## 4. Fairness

Safety runs use no fairness.  The liveness runs assume:

- `Handover`: weak fairness of mfuzz's and honggfuzz's steps: sleeps and polls
  end, an execution ends because honggfuzz runs targets with a timeout.
  Nothing makes a target record, nothing keeps opens and writes from failing, and
  nothing makes honggfuzz timely; that is the hypothesis `timely` of the
  properties that need it.
- `Schedule`: weak fairness of the worker thread; nothing makes anyone stop it.
- `Lifecycle`: weak fairness of the two threads and of honggfuzz's shutdown,
  which its SIGALRM handler ends by force after five seconds; none for signals,
  failures and deaths.
- `DynQueue`: weak fairness of the fuzzing thread as a whole; the random choice
  and coverage stay open.  That switches are finitely many (`MaxSwitches`) is
  part of what `SeedsAreMeasured` says.
- `Engine`: weak fairness of every thread and of the main thread: they are
  scheduled, and `sigtimedwait`, the sleeps and the interval timer wake them up.
  A thread's fairness includes the timers that kill its target, so nothing is
  assumed of the target itself, of signals or of the forced exit.
- `Experiments`: weak fairness of the workers, the mfuzz processes and the end of
  the main thread, and of somebody invoking the driver again, as the
  documentation asks.  A honggfuzz without its mfuzz need not end, and nobody need
  kill a driver that waits for one.

## 5. Proofs

Eight modules hold theorems checked by TLAPS.  They hold for every value of the
constants that satisfies the named assumptions of the modules: positive sizes,
constants that differ, finitely many driver ids, and for `Experiments` that
`BySubject` groups the runs by directory, as `benchmark_directory` does.  The
bounds of the models remain parameters, so no theorem depends on their values.

| Module | Theorems | Run properties proved |
|---|---|---|
| `FcovTable_proofs` | `TypeCorrect`, `ChainCorrect`, `KeysUnique`, `DropsJustified`, `KeysStable`, `Refinement` | `NoDuplicateKeys`, `GiveUpOnlyWhenFull`, `ImplementsCounters` |
| `ActiveDriver_proofs` | of `Handover`: `AgreementCorrect`, `CreditCorrect`; of `GraphSync`: `NodeCreditCorrect`, `EdgeCreditCorrect`, `ReportsCorrect` | `Agreement`, `CreditedInTime`, `NodeCreditJustified`, `EdgeCreditNeedsNode`, `EdgesReportedOnce` |
| `Mfuzz_proofs` | of `Schedule`: `TypeCorrect`, `FairShareCorrect`, `TwelveTurnsCorrect`; of `Lifecycle`: `ExitCorrect`, `SignalsCorrect`, `PolicyKept` | `TypeOK`, `FairShare`, `TwelveTurns`, `ExitCleansUp`, `SignalsItsOwnFuzzer` |
| `Honggfuzz_proofs` | of `Engine`: `PhasesCorrect`, `ExitCorrect`; of `DriverTable`: `ListCorrect`, `OrderCorrect`, `EdgesCorrect`, `CopiesCorrect`, `FocusCorrect` | `PhasesDisjoint`, `ExitLeavesNoTarget`, `ListOK`, `ImplementsOrder`, `EdgesAccounted`, `CopyRemoved` |
| `DynQueue_proofs` | `CursorCorrect`, `IndicesCorrect`, `OwnFirstCorrect` | `CursorInQueue`, `IndicesInBounds`, `OwnInputsFirst` |
| `Campaign_proofs` | `OverlapCorrect`, `LeftoversCorrect`, `CompleteCorrect` | `OverlapNeedsReclaim`, `NothingLeftBehind`, `CompleteMeansDone` |
| `CampaignLedger_proofs` | `TileCorrect`, `SummaryCorrect`, `LossCorrect` | `SegmentsTile`, `SummaryReadsCommitted`, `LossBound` |
| `Experiments_proofs` | `DirectoryCorrect`, `TerminateCorrect`, `CleanCorrect` | `OneFuzzerPerDirectory`, `TerminatedStaysDown`, `CleansNothingUnfinished` |

None of these properties but `TypeOK`, `ListOK` and `EdgesAccounted` is inductive up
to types.  The strengthenings:

- `FcovTable`: a stored key is preceded in its probe order only by slots full of
  other keys (`ProbeChain`).  Claiming a slot preserves that only because the
  writer has seen all earlier slots taken: `WriterSeen` says so for every place in
  the loop, `ReaderSeen` for the lookup.  What a loop has seen stays true because
  a stored key never changes.  `FreeIsZero` (no key, no count) is what the
  refinement needs: claiming, loading and probing are stutters, adding is the
  abstract increment.
- `Handover`: `Rendezvous` says, for each place of both sides, what is in the file
  and which driver runs; `Credits` that only the active driver can have left hits,
  and its predecessor if a record of it was past the gate when the map was read.
  Both hold under `timely`.
- `GraphSync`: `Pending` follows each changed count from the call that made it,
  through the closed gate, to the synchronisation that reads it.
- `Schedule`: `Rounds(r, j)` says that "fixed" and "random" have done `r` whole
  rounds and `j` windows of the next one, within that many windows of time.
- `Lifecycle`: `Reaped` says, as long as no SIGINT came before the fork, that no
  thread signals or waits before `fuzzer_pid` is set, and that it is -1 again only
  when honggfuzz has been waited for.  `Alone` says that without a signal the main
  thread enters `stop_fuzzer` only after the worker has left it.  `PolicyKept`
  shows that the composition implements `Schedule`, so the theorems about the policy
  hold of it.
- `DynQueue`: `Tagged` says that only drivers whose seeds were read have entries, so
  that a new driver has none when its seeds begin to arrive; `Fronted` says how far
  the driver's own inputs come first while a loop is under way: in all of the
  queue while seeds are put at its head, up to the iterator while inputs are moved
  there.  The lemmas about insertion, removal and moving give the entry at every
  position afterwards.
- `DriverTable`: the list has a numbering of its nodes that both directions of
  links follow; each branch of `drive_addDriver` gives a new numbering.  A list has
  only one (`PlacesUnique`), so the new one tells how the order changed, which is
  the step of `DriverOrder`; `CmdKnown` says when the table is still empty, as
  preloading requires.  For the statistics, `SumUpdate` says what changing one
  summand does to `MapThenSumSet` and `ModEqual` turns equal remainders into a
  multiple of the modulus.  Both `PlacesUnique` and the lemmas on sums need
  induction; they take the least counterexample of a set (`LeastNatural`,
  `LeastSubset`).  `CopyInv` ties a working copy to the flag that removes it, and
  the others to the failed deletions.
- `Engine`: `Barrier` ties the counter to the set of threads that reported, and
  says where these can be during the dry run; `Endings` that a thread is counted
  as finished once its target is dead.
- `Campaign`: `Held` and `Exclusive` describe the lock, `Waiting` gives each mfuzz
  process a name and a waiter, `Attended` says that a segment of which mfuzz or
  honggfuzz runs has a runner in `wait` or in the join, unless it is an orphan:
  with `Exclusive` that leaves no room for a second one.  `Faithful` relates what a
  runner has in memory to the files.
- `CampaignLedger`: `Tiled` extends `SegmentsTile` to the progress a runner holds
  in memory, because that is what it saves.  `Logged` says that the log is that
  of the process about to be summarised, unless it is silent or disturbed
  (`Excused`).  `Ledger` says of `progress.json` and of every active runner that
  each segment not excused is the last row of its time; a row that a crash left
  behind is overtaken by the row of the retry, at the same time.  `Loss` counts a
  segment as in flight until it is saved, so that a crash between the row and the save is paid for by the crash.
- `Experiments`: the locks do not help, as they are taken for a run and not for a
  directory.  `Separate` says that the futures and the workers' remaining runs
  concern different directories, `OnItsRun` and `Attended` tie every segment at
  work that is no orphan to the worker that minds it.  `Down` says that after
  Ctrl-C only a worker that is on its way out can still be at a directory that was
  hit.  `InTurn` says that a worker's remaining runs are the end of a subject
  whose earlier runs are complete, and that a run which has progress and is not
  complete has been reached; with `Begun` (saved progress is never of 0 seconds) a
  worker that starts afresh has only complete runs before it and none with
  progress after it.

Every invariant, action property and refinement of a passing run is proved.  Only
model-checked is liveness, since TLAPS does not do fairness.

## 6. Not modelled

- SVF, vendored under `SVF`, is most of the repository's lines, and the rest of
  honggfuzz (mutation, sanitizer parsing, reports, the socket fuzzer, other
  platforms) is upstream code that is sequential and about data.  The models see
  targets that run, record, hang, die and yield coverage or not.  Measured in
  lines the project therefore covers a small part of the repository: the part
  where its own processes and threads meet.
- Call-graph extraction and marking, driver generation, the graph studies and
  their presentation, the crawler and the batch scripts are sequential programs
  over files.
- honggfuzz's statistics files are written and never read: `loadRuntimeStat` has
  no caller.  `fuzzer.cpp` and the earlier schedule functions of `mfuzz.cpp` are
  not reached from `main`.
- `execveat` runs the descriptor opened at start, whatever driver is active
  (`linux/arch.c:164`).  The scripts make all drivers links to one executable; no
  model distinguishes executables.

## 7. Open

In this order:

1. `Handover` refined from an abstract "one active driver" specification, so
   that `GraphSync` composes with it instead of assuming it.
2. `Campaign` on two hosts, and two invocations of `Experiments` at once.
