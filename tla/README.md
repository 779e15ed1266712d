# Verification of realtime_utilities

TLA+ models of `realtime_utilities`, TLC runs that check
them on small instances, and TLAPS proofs that lift the main results to every
instance. Paths below are relative to the repository root; `impl` is
`include/realtime_utilities/internal/realtime_ipc_impl.h`.

## 1. The system

`realtime_utilities` is a library for hard real-time robot control: a process
that talks to the hardware (the *server*) exchanges commands and feedback with
control processes (the *clients*), and all of them use the same helpers for
timing, statistics, diagnostics and threads.

| Component | State | Operations | Interacts with |
|---|---|---|---|
| `RealTimeIPC` data plane (`realtime_ipc.h`, `impl` 302-631) | the mapped segment (bond flag, real-time flag, time, payload), the named mutex, per object `data_time_prev_`, `start_watchdog_time_`, `flush_time_prev_` | `isBonded`, `bond`, `breakBond`, `isHardRT`, `setHardRT`, `setSoftRT`, `update`, `flush`, `dump` | other processes, through the segment and the mutex; the monotonic clock |
| `RealTimeIPC` lifecycle (`impl` 90-300) | the two names in the system, the handles of each object, the umask | constructor, `init`, destructor | other processes, through the names |
| `tasks` thread pool (`parallel_computing.h`) | deque `work_`, mutex, condition variable, futures `finished_` | `queue`, `start`, `abort`, `cancel_pending`, `finish`, destructor, `thread_task` | any thread; the bodies of tasks call back into the pool |
| `circ_buffer` (`circular_buffer.h`) | bounded buffer, monitor, condition variable | push, pop, `front`, `back`, `get`, `set_capacity`, min/max/mean | producer and consumer threads |
| `circ_buffer_stamped` | a `circ_buffer` of (text, seconds, value) | the above, `push_back` adds the stamp | same |
| `TimeSpanTracker` | a `circ_buffer` of spans, mode, last tick, counters, a mutex | `time_span`, `tick`, `tock`, statistics | `DiagnosticsInterface`, the clock |
| `DiagnosticsInterface` | a vector of statuses, a map of trackers, a mutex for the first | add, report by level, `addTimeTracker`, `timeSpanStrakcer`, performance report | ROS diagnostics, trackers, their workers |
| timers (`realtime_utilities.cpp` 193-336) | `period_info` of the thread; the static `integral` | `timer_add`, both `timer_inc_period`, `timer_calc_sync_offset`, `timer_wait_rest_of_period`, conversions | periodic threads, the clock |
| `vector_mt` | vector and mutex | vector operations, iterators | any thread |
| `shared_mutex` | a pthread mutex in a named shared segment | init, close, destroy | other processes (not built by CMakeLists.txt) |
| real-time set-up (`realtime_utilities.cpp` 17-190, `rt_init_thread`) | locked pages, the reserved pool, static page-fault counters | `rt_main_init`, `rt_init_thread`, `show_new_pagefault_count` | the kernel, malloc, all threads of the process |

What is hard in it, and what makes each part correct:

* **Data plane.** Every call is a read of the whole packet and, for writers, a
  later write of the whole packet, in *two* critical sections. Calls of
  different processes interleave between them, a process may die inside one,
  and `flush` judges freshness from fields that survive earlier calls. Correct
  means: packets are never torn; a call is atomic unless somebody wrote in
  between; a call returns; the command of a dead writer stops being applied in
  bounded time.
* **Lifecycle.** Creating and removing two names takes several system calls
  that other processes see half done. Correct means: whoever shares a segment
  locks the same mutex; a server owns what it created; a clean stop permits a
  new start; initialisation does not erase what a client wrote.
* **Thread pool.** Notifications after the unlock, stop messages that share
  the deque with tasks, bodies that queue and cancel. Correct means: no wakeup
  is lost, no task is lost or run twice, queued tasks run, the destructor
  returns.
* **Buffers and vector.** References and iterators leave the lock; one
  notification per push.
* **Diagnostics and trackers.** A report that removes less than it shows, a row
  that is read in several critical sections, a map without a lock, the first
  span from the epoch. Correct means: no message is lost or repeated by its own
  level and each is shown in the end; a row is a snapshot up to what happened
  during the report; counters and spans agree with the clock.
* **Timers.** Two forms of increment, one of which leaves values that are not
  normalised, a comparison in doubles, an integral that nobody limits. Correct
  means: deadlines do not drift, a late thread catches up, a sleep is not
  refused.
* **Memory.** Locking, switching off the trimming and touching the pool have to
  come in an order that holds for threads and allocations that come later, and
  each can fail. Correct means: after a successful set-up nothing faults.
* **Shared mutex.** Its segment appears, is initialised, destroyed and removed
  in separate steps. Correct means: everybody has the same, live mutex.

`PROJECT.json` lists these hazards line by line with the properties that cover
them.

## 2. Modules

| Module | Models |
|---|---|
| `RealTimeIPC` | the data plane: segment, mutex, calls, `flush` and its watchdog |
| `AtomicIPC` | the abstract channel: a register on which every writing call is one step |
| `RealTimeIPC_proofs` | theorems about `RealTimeIPC` |
| `MCRealTimeIPC` | instances: which calls each program makes |
| `IpcLifecycle`, `MCIpcLifecycle` | `init` and the destructor, system call by system call |
| `IpcLifecycle_proofs` | theorems about `IpcLifecycle` |
| `Tasks`, `MCTasks` | the thread pool |
| `Tasks_proofs` | theorems about `Tasks` |
| `CircBuffer`, `MCCircBuffer` | the bounded buffer, its waiting readers and the references it hands out |
| `CircBuffer_proofs` | theorems about `CircBuffer` |
| `Timer` | the arithmetic of timespecs, as operators |
| `Timer_proofs` | lemmas and theorems about those operators |
| `RtMemory` | `rt_main_init`, the pool, stacks and page faults |
| `RtThread`, `MCRtThread` | a process put together from the two: `rt_init_thread` and the periodic loop |
| `RtThread_proofs` | theorems about `RtThread` and `RtMemory`, with those of `Timer_proofs` |
| `TimeSpanTracker` | a tracker as a record, its calls and statistics as operators |
| `Diagnostics`, `MCDiagnostics` | `DiagnosticsInterface` with its trackers, posting threads, a worker and the updater |
| `Diagnostics_proofs` | theorems about `Diagnostics` and `TimeSpanTracker` |
| `SharedMutex`, `MCSharedMutex` | `shared_mutex.cpp`, system call by system call |
| `SharedMutex_proofs` | theorems about `SharedMutex` |

### RealTimeIPC

An endpoint is one `RealTimeIPC` object driven by one thread. `pc[p]` walks
through `lock_get`, `copy_get`, `body`, `lock_set`, `copy_set`:

* `GetLock`, `GetUnlock` are `getDataPacket` and `SetLock`, `SetUnlock` are
  `setDataPacket`. A `memcpy` is two steps, header then payload, so a copy that
  is cut short or not exclusive shows.
* `bond`, `breakBond`, `setHardRT`, `setSoftRT`, `update`, `flush`, `destroy`,
  `Query` are what each call does with its local packet in between. `Result`
  is the change that a writing call makes.
* `Call` starts any call in `Calls[p]`; `Crash` kills a process anywhere (a
  named mutex is not released by the system); `Tick` advances the clock.

A payload is identified by the update that supplied it, `[by, at]`. Time is in
ticks longer than the `1e-5` of the code. `arg` is the time argument of
`update`: the clock when the call starts, as control programs pass it.
`committed`, `disturbed` and `freshAt` are history variables that no action
reads. Every endpoint has its memory. The early returns of `update` and `flush`
for a wrong `n_bytes`, and those of all calls but `breakBond` and `dump` for a
client without memory, change nothing and are stutters; these two have no such
return, and a client without memory must not make them.

### IpcLifecycle

Segments are numbered in order of creation; a mutex has the number of the
segment of the server that made it. Names (`shm`, `mtx`) and objects
(`segOf`, `mtxOf`) are distinct: a removed name leaves the object alive for
those who opened it. `server_create`, `server_truncate`, `server_memset`,
`server_mutex` are the system calls of `init` in their order, with the throw of
each `create_only`; `server_fails` is the throw of a truncate or a map that is
refused memory, which leaves the segment's name behind and the umask at 0;
`client_open`, `client_map`, `client_mutex` those of a
client, with the two "not found" paths that leave it without memory and the
failing map of a segment that has no size yet. The bond is one step here.
`crash` stands anywhere. The type invariant ties the handles of an object to
where it is in its constructor or destructor (`Handles`).

### Tasks

Each section under `mtx_` is one step and the notification after it another.
`thread_take` is the critical section of `thread_task`: sleep, or pop the first
entry. `body_queue`, `body_cancel` are bodies of tasks that call the pool.
`start`, `finish`, `abort` and the destructor are calls of one owner thread:
`start` touches `finished_` without the mutex, so anything else is a data race
by itself. `destroy_members` is the destruction of `finished_` (it waits for
every thread) and then of `work_`, the reverse order of declaration.

### CircBuffer

Every call is one critical section and one step, its `notify_one` included
(it is made under the lock). `front` and `back` sleep on an empty buffer and
look again when woken, with or without a notification. An element is the number
of its push, positive from the back and negative from the front, so that order
in the buffer is order of numbers. `ref[t]` follows the reference that a caller
holds after the lock is gone: `Lost` once its slot was overwritten, freed or
moved. What `boost::circular_buffer` does when it is full, resized or has no
capacity is external and modelled from its use here.

### Timer, RtMemory, RtThread

`Timer` has one operator per `timer_*` function. The second (`NS`), the 50000 ns
shift and the divisors 100 and 20 are constants, so that a small second keeps
every boundary. Doubles are modelled by their spacing: `Double(x)` is the
nearest multiple of `Ulp`, which in the code is 1 ns for a clock below 104 days
and more after that. `Quot` and `Rem` are the division of C.

In `RtMemory` a page is a number (heap) or a thread (its stack). The kernel may
take any page that is not locked; malloc takes any free run that fits and
otherwise lets the heap grow, and `free` may return the end of the heap unless
`keep` (the two `mallopt` calls). `initial_count`,
`configure_malloc_behavior`, `reserve_process_memory` and `reserve_free` are
`rt_main_init` in its order, with the refused `mlockall` and the unchecked
`malloc`. `show_new_pagefault_count` is three steps (`getrusage`, `printf`, the
assignments), because any thread may call it and its counters are statics.
`setprio` and `prove_thread_stack_use_is_safe` are the first parts of
`rt_init_thread`; the timer is the last.

`RtThread` adds the thread with a `period_info`: it may ask for a correction
(`timer_calc_sync_offset`), increments its deadline with either form and sleeps.
The outer loop of `timer_inc_period` is one step per round (`inc_round`); its
inner loop is `Carry`. Deadlines that move forth and back again lower
`tv_nsec` without end, which `MaxBelow` bounds for model checking. `grid`, `from`, `corrected` and `backward` are history
variables, as are `reported`, `overlap` and `faulted` of `RtMemory`.

### TimeSpanTracker, Diagnostics

Every call of a tracker holds its mutex throughout and reads the clock inside:
it is an operator from record to record. The mean is kept as a sum and a size.
The clock is assumed to be steady: `high_resolution_clock`
(`time_span_tracker.h:33`) is the system clock in libstdc++, and what a tracker
measures while somebody sets that back is outside the model.
In `Diagnostics` each call that holds `mtx_` is one step, except the performance
report: it is `diagnosticsPerformance`, one `performance_read` per counter (in
any order) and `performance_end`, since the tracker is only locked for one read
at a time. `addTimeTracker` takes no mutex and is two steps: `operator[]` makes
an entry, `reset` fills it, unless the constructor throws. Following a null
pointer crashes; reading the map while it is being changed is undefined and may.
`Erase` is the loop that removes a report's own level: it keeps the other
messages in their order, which it states with an increasing enumeration of their
places. Messages are model values with a level, posted once each. A level that is not
one of the four names stays at the value the message is built with, OK.

### SharedMutex

Segments are numbered in the order of their creation; the name and the segment
are distinct. `shm_open`, `shm_open_create` (which does not insist on being the
creator), `ftruncate`, `mmap`, `pthread_mutex_init` are `shared_mutex_init`;
`shared_mutex_destroy` and `shared_mutex_destroy_unlink` the two halves of the
destruction. `shm_open_fails`, `init_fails`, `close_fails` and `destroy_fails`
are the early returns. Those of `shared_mutex_init` after the name was opened
give back a structure that still has its descriptor and its `created` flag but
no mutex: the process is then at `failed`, from where it may initialise again
or hand the structure to `shared_mutex_destroy`.
`mixed`, `spoiled` and `pulled` are history variables that say whether use was
orderly.

## 3. Runs

| Run | Properties | Shows |
|---|---|---|
| `ipc_race` | `TypeOK`, `NoTornPacket`, `UndisturbedIsAtomic` | three endpoints that all write, clients killed anywhere |
| `ipc_one_writer` | `StaleCommandBound`, `ImplementsChannel`, `SoloCallReturns` | a periodic server and one writer, which stalls or is killed anywhere: its command is dropped within the watchdog plus three flush periods; the segment implements `AtomicIPC`; every call returns once the others are outside theirs |
| `ipc_stall` (violation) | `StallMeansNoNewData` | finding 1 |
| `lifecycle` | `TypeOK`, `SameMutex`, `ServerOwnsName`, `CleanRestart`, `InitErasesNothing`, `UmaskRestored` | processes start, stop, die and restart at every step of both constructors and the destructor |
| `tasks` | `TypeOK`, `NoLostWakeup`, `EachTaskOnce`, `StopForEveryone`, `QueuedTaskRuns`, `DestructorReturns` | three threads, two callers, a body that queues and one that cancels, under fair scheduling |
| `tasks_cancel` (violation) | `DestructorAlwaysReturns` | finding 2 |
| `tasks_finish` (violation) | `FinishWaits` | finding 4 |
| `circ_buffer` | `TypeOK`, `NotAllAsleep`, `InOrder` | two readers, one of which consumes, a producer at both ends, a thread that clears and resizes |
| `circ_reference` (violation) | `ReferenceStaysValid` | finding 3 |
| `rt_thread` | `TypeOK`, `OnGrid`, `CatchUp`, `SleepRefused`, `OverrunSeen`, `BackwardOnlyByWindup`, `NeverFaults`, `PoolKept`, `FaultsReportedOnce`, `IncReturns` | memory is set up while threads start and an application allocates; a periodic thread mixes both increments with corrections and oversleeps |
| `diagnostics` | `TypeOK`, `NothingLost`, `TimeAccounted` (`SpansTile`, `MissedTookTime`, `StatsBracket`), `ReportInWindow`, `CrashExplained`, `EventuallyShown` | posts, reports in turn, a worker that measures, an owner that adds and replaces trackers |
| `shared_mutex` | `TypeOK`, `OneLiveMutex` (`LoadedIsLive`, `OneMutex`), `Exclusion` | three processes, one of which fails or is killed at any step |

**Bounds.** `ipc_race` has two clients because a lost update or a double bond
needs two writers, and a third endpoint to disturb a call that is itself a
disturbance. The clock has two values there, so that two updates differ in
their stamp and a packet with the time of one and the payload of the other would
show. `ipc_one_writer` runs the clock for six ticks: with `Watchdog = 2` and
`FlushGap = 1` the bound is five, and the sixth tick is where a violation would
appear; the mutant that starts the watchdog again on each flush does appear
there. Its client bonds, changes the mode, writes and goes; one that breaks the
bond and bonds again is in `ipc_stall`, and one that flushes is left to the
theorems, which have every call. `MaxGen = 3` lets a
server die, a second one fail or start, and a third one come after it. Three
tasks, three threads and two finishes give each pool call a chance to fall
between the others; `MaxFinish` bounds the stop messages. Capacities 0 to 3 and
four pushes from each end fill, overwrite, shrink and refill the buffer.

`rt_thread` has a second of 4 ns and periods of 3 and 5: a deadline carries into
the next second after one or two increments, ends on a full second with some
corrections, and one of the periods is longer than a second. `RefTimes` gives
phase errors of both signs, and with `MaxIntegral = 6` the integral winds up
until a correction takes back a whole period and more, so that deadlines do move
back and a sleep on a negative `tv_nsec` is refused. `Ulp = 2` makes the
comparison of doubles coarse. The clock may run nine ticks, so that a deadline
falls up to three periods behind. The memory and the timer share no variable, so
one program has three threads and no timer and another one only the periodic
thread; the product of both says nothing more. A heap of four pages and a pool
of two leave room for allocations beside the pool and for growth beyond it.
`diagnostics` has windows of two spans and three cycles in all trackers
together (`MaxCycles`), so that spans follow each other in a window and the last
one pushes the first one out; the clock goes from 2 to 4, which makes the first
span, from the epoch, late, and leaves time for a second late one or for a span
of 0. Its messages are of the levels OK and STALE. Two generations of one tracker
are enough to replace one during a report. `shared_mutex` has three
segments: one is destroyed, a second one left behind and a third one created
beside it.

**Symmetry** is used only in runs without liveness.

**Deadlock** is checked where the modelled programs can always go on
(lifecycle, buffer). Elsewhere the clock, the segments or the pushes
of the instance end, or the system really may stop: every endpoint of a race is
destroyed, a process dies with the mutex and the others wait for it for ever, a
pool is destroyed, a null pointer is followed.

**Clocks** never go back. For `CLOCK_MONOTONIC`, which the data plane and the
timers read, the system guarantees that; for the trackers it is an assumption.

**Fairness.** `RealTimeIPC!FairSpec`: a thread that is inside a call keeps
being scheduled; nothing is assumed about threads that are outside, and the
mutex is not assumed to be fair (`WF` on each endpoint's steps only).
`Tasks!FairSpec`: pool threads and callers that are inside a call keep being
scheduled and the body of a task returns; nobody is assumed to make a call, and
a spurious wakeup is never relied on. `RtThread!FairSpec`: a thread inside
`timer_inc_period` is scheduled. `Diagnostics!FairSpec`: the updater goes on
asking for its reports, as `diagnostic_updater` does from its timer; no other
thread is assumed to do anything. All of this is what the operating system gives
to a runnable thread.

**What the bound of `StaleCommandBound` means.** `FlushGap` is an assumption on
the server's program: it calls `flush` at least once every `FlushGap` ticks.
One period is for a flush already under way when data stops, one until the last
packet is read, one until it is read again and arms the watchdog.

**What the pool properties assume.** `StopForEveryone` and `DestructorReturns`
are about destructors that run while no body that calls `cancel_pending` is
queued or running; finding 2 is what happens otherwise.

**What the shared-mutex properties assume.** `SharedMutex!Orderly`: creations and
destructions do not overlap other calls, none is cut short and nobody destroys
what others have open. The header asks for the first, and only of creations:
the run shows that the other conditions are needed as well (see Observations)
and that together they are enough, with any process killed outside of them.

**What the lifecycle properties assume.** `ServerOwnsName` holds whatever
happens. `CleanRestart` and `InitErasesNothing` are about servers that come one
after the other and are neither killed nor refused memory (clients may be): a
server that is cut short leaves names behind, and then a new constructor throws, by design of `create_only`.
`SameMutex` allows kills but needs servers not to overlap. With a server that starts while
another one is between its two removals, a client can open the new segment and
then the old mutex, whose name is still there. No document promises
otherwise, so this is recorded as a hazard and not as a finding.

## 4. Findings

1. `impl:595`. The branch commented "the client is not writing new data"
   compares the clock with a `start_watchdog_time_` that only a latency inside
   the watchdog resets. After a stall that ends with a longer latency, or with
   a new bond, the next flush that reads the same fresh packet twice raises the
   watchdog and zeroes the command.
2. `parallel_computing.h:71`. "cancel_pending() merely cancels all non-started
   tasks", but it also removes stop messages; from the body of a task, during
   the destructor, that makes the destructor wait for ever.
3. `circular_buffer.h:41`. "Thread safe circular buffer": `front` and `back`
   return a reference and release the lock; a push into the full buffer replaces
   the element before the reader follows it.
4. `parallel_computing.h:84`. `finish` "enques a "stop the thread" message for
   every thread, then waits for them" (line 73) and `abort` "waits for them to
   finish up" (lines 60-61), but the statement that waited is commented out: both
   return while threads still run tasks. Only the destructor waits.

**Observations.** What the models show and no document contradicts:

* `impl:146`: a constructor of a server that throws leaves the umask 0, and the
  next one that succeeds stores and restores that (`UmaskRestored` excepts them).
* `parallel_computing.h:80`: the stop messages of `finish` are anonymous: a
  thread started later may take one and an earlier thread goes on until the
  destructor. `StopForEveryone` shows that the destructor gets them all.
* `realtime_utilities.cpp:272`: an increment with an offset that ends exactly on
  a full second leaves `tv_nsec = 1000000000`; the sleep is refused and the cycle
  starts early (`SleepRefused` says when). The next plain increment repairs it.
* `realtime_utilities.cpp:229`: this form compares the deadlines the other way
  round and so returns 0 whenever the deadline advances.
* `realtime_utilities.cpp:282`: with a phase error of one sign the correction
  grows until it exceeds the period (`BackwardOnlyByWindup` gives the integral).
* `realtime_utilities.cpp:272`: `timer_add` never borrows, so after a deadline that
  was moved back `tv_nsec` is negative, and deadlines that go forth and back lower
  it further each time.
* `time_span_tracker.h:33`: the clock of the trackers is one that may be set back;
  a span may then be negative.
* `show_new_pagefault_count` never compares the counts with those allowed, and
  two threads that call it at once report faults twice or not at all.
* `diagnostics_interface.cpp:80, 98`: a report shows messages of other levels
  too, and says "None Error in the queue" when only other levels are queued. A
  message of level STALE is never removed.
* `diagnostics_interface.cpp:131`: mean, min and max of one row are separate
  reads, so the mean may lie above the maximum beside it. `min` starts from 0 and
  is always 0.
* `diagnostics_interface.cpp:143`: a period above ten seconds gives a window of
  no elements; a constructor that throws leaves a null entry.
* `shared_mutex.cpp:103`: the header documents the race of two creations, not
  the one of a destruction with an initialisation, nor that a creator which
  fails leaves a name with a raw mutex behind.

## 5. Proofs

Every theorem holds for any set of processes, threads, messages and tasks, any
programs, any crashes and any bound of the clock or of a counter: the constants
that TLC needs small are arbitrary here. The assumptions
(`EndpointAssumption`, `TimeAssumption`, `ZeroAssumption`, `TasksAssumption`,
`BufferAssumption`, `LifecycleAssumption`, `SharedMutexAssumption`,
`TimerAssumption`, `MemoryAssumption`, `ThreadAssumption`,
`DiagnosticsAssumption`) say what kind of value each constant is, that every
task is queued by one piece of code, that threads are finitely many and that a
period is positive, which `rt_init_thread` asserts. TLC evaluates all of them
in the runs.

The properties are seldom inductive as the runs state them; each paragraph names
the invariant that is. TLC finds these invariants true on the instances of the
runs as well (but for `Synchronised`, which quantifies over all integers).

`RealTimeIPC_proofs`

* `TypeCorrect`: `Spec => []TypeOK`.
* `Invariant`: `Spec => []IInv`, where `IInv` adds to the types
  * `Exclusion`: an endpoint that is copying holds the mutex;
  * `SegmentInv`: the segment is `committed` when nobody writes it, and its
    header is the writer's when somebody does;
  * `WholeInv`: `committed` and every packet beyond its first copy are whole;
  * `FreshInv`: a call between its critical sections that was not disturbed
    has in its packet `committed`, or what the call makes of it.

  None of these is inductive alone: a packet is whole because the segment was
  when it was read, which holds because the copies exclude each other.
* `PacketsAreWhole`: `Spec => []NoTornPacket`.
* `AtomicUnlessDisturbed`: `Spec => UndisturbedIsAtomic`.
* `SerialCallsAreAtomic`: `Spec /\ []OneAtATime => ImplementsChannel`. Any number
  of endpoints may write, as long as at most one at a time is inside a call that
  does; readers and kills need no condition. `SerialInv` adds that no call is
  disturbed and that no stamp is ahead of the clock or, in an `update` under way,
  behind `committed`. Nothing in `RealTimeIPC` establishes `OneAtATime`: it is what
  the programs at both ends must arrange, as one writer or as a lock of their own.
* `OneWriterIsAtomic`: if only `w` makes calls that write,
  `Spec => ImplementsChannel`, a corollary: the others are never in a call that
  writes (`OthersRead`), so the calls of `w` take turns.
* `StaleCommandsDropped`: `Spec => []StaleCommandBound`, for any `Watchdog` and
  `FlushGap`. The bound is about two states far apart, so `WatchInv` has to say
  what a server knows in between. With `G` for `FlushGap`: `Recent`, the last
  flush is at most `G` ago; `Seen`, data the server has not read yet is at most
  `G` older than its last flush, an unarmed watchdog means data at most `2G`
  older than it, and one that is armed was armed at most `3G` after the data;
  `Held`, the same of the packet that a flush under way has read.
* `PromptStallsAreReal`: `Spec /\ [][PromptWriter]_vars => []StallMeansNoNewData`,
  the positive side of finding 1. `PromptWriter` says that no flush which finds
  its watchdog running reads data that came `Watchdog` or more after the data
  before. Then new data always stops the watchdog, so it was started after the
  data read last (`ArmedAfterData`); `StampInv` gives that no data is stamped ahead
  of the clock. The false alarms of finding 1 therefore all come from an overrun,
  or a latency of exactly the watchdog, that leaves the watchdog running.

`Tasks_proofs`

* `TypeCorrect`: `Spec => []TypeOK`, with `RunInv`: a thread inside a body has
  a task.
* `NoWakeupIsLost`: `Spec => []NoLostWakeup`. A push adds one entry and one
  notification owed; a notification owed becomes a thread that is ready, or
  there was nobody asleep; a thread that takes an entry removes both. `Balanced`
  states this with cardinalities, and each action is one of a few such moves.
* `EachTaskOnceHolds`: `Spec => []EachTaskOnce`. `PlaceInv` says in which one
  place each task is: in the deque (`DequeInv`, no entry twice), with one thread
  (`CurInv`, `ThreadInv`), or over; `PendingInv` ties the state of the task to it.
* `StopForEveryoneHolds`: `Spec => []StopForEveryone`. A thread that takes a
  message removes one entry and one thread, and a bijection shows that the two
  counts go down together; `PlaceInv` gives that a body which cancels counts as
  pending as long as it runs, so that no `cancel_pending` removes a message.

`CircBuffer_proofs`

* `TypeCorrect`: `Spec => []TypeOK`, the capacity included.
* `SomeReaderAwake`: `Spec => []NotAllAsleep`. `SleepInv` says that a sleeper is
  in a call of its program, so the thread that a push wakes is a reader.
* `PushOrder`: `Spec => []InOrder`. `ElemInv` bounds the elements by the pushes
  made, which is what makes the next push fit at its end; `TailSorted`,
  `PrefixSorted`, `AppendSorted` and `PrependSorted` say what each operation of
  the buffer does to a sorted sequence.
* `CarefulReferences`: `Spec /\ [][Careful]_vars => []ReferenceStaysValid`, the
  positive side of finding 3. `Careful`: while a reference is held nobody pops,
  clears or resizes, or pushes into the full buffer. Then every reference is to an
  element that is in the buffer (`HeldInv`); pushes into room that is left, from
  either end, are free.

`IpcLifecycle_proofs`

* `TypeCorrect`: `Spec => []TypeOK`, with the handles an object has at each place.
* `ServerOwnsNameHolds`: `Spec => []ServerOwnsName`, with no condition on how
  servers start and stop. `OwnerInv`: a server has a segment exactly when it is
  past `create_only` (`ServerPlace`), numbers are not used again (`Numbered`),
  and from `create_only` to its own removal a name leads to its creator's object
  (`Owners`), since nobody else gets beyond `create_only` meanwhile.
* `UmaskRestoredHolds`: `Umasks` follows what `init` stores until it restores it.
* `SameMutexHolds`: `Sequential` says, as long as servers did not overlap, that a
  client with the server's segment has its mutex, or that a mutex left over by a
  killed server is in the way and the constructor will throw. The second case is
  what makes it inductive.
* `CleanRestartHolds`, `InitErasesNothingHolds`: `Clean`, in orderly use (no server
  cut short, none that overlaps another) a name
  belongs to a server that is there (`LeftClean`), so `create_only` succeeds, and
  nobody is up on a segment that is being initialised (`NotYetBonded`).

`SharedMutex_proofs`

* `TypeCorrect`: `Spec => []TypeOK`, with the descriptor each structure has.
* `OneLiveMutexHolds`, `ExclusionHolds`. `UseInv`, for orderly states: who creates
  or destroys is alone (`Alone`), whoever has a segment has the one with the name
  (`OneSegment`), it is live unless somebody creates or destroys it (`NameLive`),
  and who is between lock and unlock is its holder (`LockedHolds`). Structures that
  a failed call left behind count for none of this. Kills and failures elsewhere
  need no condition.

`Timer_proofs`, for every length of a second and every increment

* `TimerAddExact`: `timer_add` is exact for increments of either sign, with the
  division of C, and leaves at most one full second of nanoseconds. That it may
  leave a full one is the case of `SleepRefused`.
* `CompareExact`: `timer_greater_than` compares instants if both timespecs are
  normalised.
* Lemmas: what `Quot` and `Rem` return for each sign, what `Carry` keeps.

`RtThread_proofs`

* `TypeCorrect`: `Spec => []TypeOK`, with `Control`: where each thread can be and
  where it goes on after counting page faults.
* `NeverFaultsHolds`, `PoolKeptHolds`. `Memory`: a locked process has all that is
  mapped in RAM; from `configure_malloc_behavior` on the heap does not shrink;
  from the first reservation on it has the size of the pool. `AtMain` looks
  through a count under way, which `rt_main_init` makes between its parts.
* `FaultsReportedOnceHolds`. `Counted`: without an overlap one thread counts at a
  time, and between its `printf` and its assignments what is printed is ahead of
  the statics by what it is about to store.
* `OnGridHolds`, `CatchUpHolds`, `SleepRefusedHolds`, `OverrunSeenHolds`,
  `BackwardOnlyByWindupHolds`. `TimerInv`: the deadline is the sum of what was
  added and is normalised but for a full second that an offset may leave
  (`Deadline`); inside `timer_inc_period` the rounds are counted and the deadline
  of the last one was over (`Rounds`); the offset comes from the last
  synchronisation (`Synchronised`). The arithmetic is cited from `Timer_proofs`.

`Diagnostics_proofs`

* `TypeCorrect`: `Spec => []TypeOK`, windows included.
* `NothingLostHolds`: `Spec => []NothingLost`. `QueueInv` says that no message is
  in the queue twice and that the queue is what was posted without what was
  shown; `Erase` keeps it because its enumeration is one to one.
* `CrashExplainedHolds`: `PointerInv`, an entry is null only inside
  `addTimeTracker` or after one that threw; `MapInv` keeps pointers to trackers
  that exist.
* `ReportInWindowHolds`: `WindowInv`, as long as the report is not disturbed its
  counters lie between their first value and the present one. What other threads
  do is `Forward`: no tracker is replaced and no counter goes back.
* `TimeAccountedHolds`: `Spec => []TimeAccounted`, from its three parts:
  * `MissedTookTimeHolds`: `Paid` says of each tracker that its missed cycles fit
    below its last tick;
  * `SpansTileHolds`: `Tiled` says that the spans in the window are not negative
    and that their total is at most the last tick, and equal to it as long as
    `time_span` has dropped none; `PushTotal` is what a push, which may drop the
    oldest span, does to the total;
  * `StatsOfWindow`: the total lies between the length times the least and times
    the greatest element (`TotalBounds`).

  The total is a fold. `SumsExist` shows that the function which the fold defines
  by recursion exists on the sets of places of a sequence, and `SumsAgree` that its
  value depends on the elements only, from which come `TotalEmpty`, `TotalAppend`
  and `TotalTail`. These are inductions; `NatSets` states the principle for a set
  in the place of a formula, and follows from the library's minimum principle.

Only model-checked:

* the liveness properties `SoloCallReturns`, `QueuedTaskRuns`,
  `DestructorReturns`, `IncReturns` and `EventuallyShown`: the prover has neither
  fairness nor `ENABLED`;
* the four violations, which are examples. Conditions under which three of them
  cannot happen are proved: `PromptStallsAreReal` for finding 1, `CarefulReferences` for
  finding 3 and, for finding 2, `StopForEveryoneHolds`, that no stop message is
  missing when no body cancels. For finding 4 there is none.

## 6. Not modelled

* `RealTimeIPC`: pipe and message-queue access modes (`assert(0)`); a server of
  dimension 0; a client constructed with a non-zero dimension that finds no
  memory; `breakBond` and `dump` of a client that has no memory; a map that fails
  in a client for want of memory (the constructor throws and the process ends, as
  in `crash`); a value of `time` other than the clock; sizes of payloads; printing.
* Trackers and diagnostics: a clock that is set back; a period below -10 s, whose
  window is 0 and does not throw as other negative ones do, and one so small that
  `int(10.0/period)` overflows.
* `circ_buffer`: `get`, `begin`, `end` hand out the buffer itself; `combine` has
  no caller. `circ_buffer_stamped` reads the clock and then makes the call that
  `CircBuffer` models; `circ_buffer_stamped_checked::push_back` calls an overload
  that it hides and cannot be instantiated.
* `vector_mt`: every method is one call of `std::vector` under a lock. What could
  go wrong is what callers do with the iterators, and there are none here.
* Real-time set-up: the Cobalt branch of `rt_init_thread` (another build),
  `error`, `get_ifaces`. A failing `pthread_mutexattr_*` and a failing
  `pthread_mutex_init` are one failure of `shared_mutex_init`.

## 7. Plan

Modelled and checked: all parts of the table above that keep state, but for
`vector_mt`. Proved: every safety property of every passing run, for every value
of the constants, and conditions under which three of the four violations do not arise. What is
left:

1. The liveness properties, once a prover with fairness and `ENABLED` is at hand.
   The safety half of their argument is there: `NoLostWakeup` and
   `StopForEveryone` for the pool, `CatchUp` for the timer, `Exclusion` for the
   segment.
2. `vector_mt` and `finished_` of the pool (`parallel_computing.h:52`), when code
   appears that uses them from two threads.
