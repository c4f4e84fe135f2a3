# ComplexSim in TLA+

ComplexSim is a C library for discrete simulations on multiprocessors. A user
registers periodic *activities*, schedules *events*, and starts an engine that
advances a clock step by step; threads of worker pools execute activities and
event handlers in parallel. Almost all of the difficulty is in how those
threads meet. This directory models them, checks the models with TLC and
proves the central results with TLAPS.

## 1. The system

| Part | Source | State | Operations | Whom it meets |
|---|---|---|---|---|
| Bounded queue | `cs_queue.c` | linked list, status, `qsem` (elements), `qlimit_sem` (slots), `qmutex` | init, size, enqueue, dequeue, close, destroy | producers and consumers wait for a semaphore, then lock |
| Worker pool | `cs_workerpool.c` | status, `workerpool_semaphore` (free workers), per worker status / assigned task / shutdown flag / semaphore, task table, id counter, `wp_mutex`, `table_mutex` | init, start, shutdown, destroy, enqueue, wait, get_res, pop_res | clients enqueue; a controller thread dequeues and hands each task to a free worker |
| Timer | `cs_timer.c` | `clock`, `sync`, `n_sync`, `stop`, a mutex and a condition | init, set_nsync, get_clock, time_sync, time_stop, destroy | a barrier of the engine and the event controller |
| Event manager | `cs_events.c` | tree of event lists by time, handler table, `stop`, `running`, `start_time`, `last_completion` | schedule, pop, delete, throw, num_events, install_handler, start / stop controller, wait_event_completion | its controller is a task of its own pool and enqueues one task per worker there |
| Engine | `cs_engine.c` | activities with period and last execution, termination function, type of simulation | bind activity, setters, sim_start (the main loop), fini | drives everything |
| Locking helpers | `cs_concurrence.c` | | recursive mutexes | |
| Network runtime | `cs_network_runtime.h` | | only declared | |
| libavl | `avl-2.0/` | twelve kinds of ordered table: plain, AVL and red-black trees, each with stacks, parent links, threads or right threads; a count, a generation number, traversers | create, probe, insert, replace, find, delete, balance, copy, destroy; traverser init, first, last, find, insert, copy, next, prev, cur, replace | `rb.c` is the tree of events, the table of handlers and the table of tasks |

One tick of a simulation: the engine executes the AFTER_STEP activities, looks
at the termination conditions and enters `cs_time_sync`, where it meets the
event controller. Both leave with the new clock. The engine runs the USER
activities (activity scan) and waits until the controller says that the events
of the tick are complete; the controller pops the list of the tick, cuts it
into shares, enqueues a task per share, waits for the tasks, signals the
completion and goes back to the timer.

What is hard here, and hardly testable:

- a thread holds a semaphore token before it holds the lock (queue, pool);
- values are checked under one lock and used under another, or under none
  (`cs_wp_get_status` before the enqueue, the status of a task in
  `cs_wp_tsk_wait`, the static id counter);
- condition waits without a loop (timer, completion of events);
- stops race with everything: close of the queue, shutdown and restart of the
  pool, `cs_time_stop`, `cs_evm_stop_controller`, the end of a simulation;
- engine, controller, event workers, timer and the thread that shuts down a
  pool can all wait for one another;
- the lists of the event tree are found under a recursive lock and used after
  it, while handlers schedule into and delete from the tree they are raised
  from;
- the trees of libavl go wrong many calls after the slip: a stale parent link,
  thread, colour or traverser stack, or half a copy when memory runs out.

`PROJECT.json` lists these hazards with their lines and the properties that
are aimed at them. The code persists nothing, so there is no crash recovery
to model.

What makes each part correct:

- **queue**: a bounded FIFO; nothing lost, duplicated or reordered; its asserts
  hold; closing it lets consumers finish;
- **pool**: every accepted task runs exactly once; the controller always finds
  the free worker it was promised; waiting ends exactly when the task is done;
  a shutdown drains and returns;
- **timer**: a barrier; the clock moves once per round of all actors;
- **events**: every event is raised once, in its tick; a step is over only
  when its handlers are; the engine never waits in vain; a list belongs to the
  tree or to one thread, and is freed;
- **engine**: periods are kept; every item of an activity is worked on once;
  the simulation stops when its condition says so, and ends;
- **libavl**: every kind is one and the same ordered table to its user,
  whatever traversers are held across changes; its trees stay sound and
  balanced, its copies are faithful, nothing is left allocated.

## 2. The modules

| Module | What it is |
|---|---|
| `BoundedFifo` | abstract: a buffer of bounded length that can be closed |
| `CsQueue` | `cs_queue.c`; implements `BoundedFifo` |
| `TaskService` | abstract: a service whose workers execute each accepted task once, for which clients wait |
| `CsWorkerPool` | `cs_workerpool.c` on top of `CsQueue` (by `INSTANCE`, step by step); implements `TaskService` |
| `BarrierClock` | abstract: a clock that moves when every actor has arrived |
| `CsTimer` | `cs_timer.c`; implements `BarrierClock` |
| `CsShares` | operators: how events and data are divided among threads |
| `StepwiseSimulation` | abstract: events that are raised once and at their time, by a clock that waits for those that are due |
| `CsSimulation` | main loop, event controller, event workers and `cs_engine_fini`, on top of `CsTimer` and `CsShares`; implements `StepwiseSimulation` |
| `CsEventTables` | the tree of event lists and the table of handlers, as memory that threads share |
| `LibavlHeap` | operators: nodes and links of a libavl table, search, rotation |
| `LibavlStack`, `LibavlParent`, `LibavlThread`, `LibavlRightThread` | operators: the calls of `bst.c`, `avl.c`, `rb.c`; of `pbst.c`, `pavl.c`, `prb.c`; of `tbst.c`, `tavl.c`, `trb.c`; of `rtbst.c`, `rtavl.c`, `rtrb.c` |
| `OrderedTable` | abstract: a set of items by key, with cursors |
| `LibavlTable` | a program that uses a table of one kind and its traversers; implements `OrderedTable` |
| `MCQueue`, `MCWorkerPool`, `MCSimulation`, `MCEventTables`, `MCLibavl` | what the instances for TLC need (`CsTimer` is checked directly) |
| `CsQueueProofs`, `CsWorkerPoolProofs`, `CsTimerProofs`, `CsSharesProofs`, `CsSimulationProofs`, `CsEventTablesProofs` | the theorems about the module each is named after |

Conventions. Variables and actions have the names of the fields and functions
they model; a comment says so where they cannot. A step is a stretch of code
between two points where another thread can interfere. What is done between
lock and unlock on state that is written only under that lock is one step; a
mutex that is held across a blocking call (`wp_mutex`, `table_mutex`) is a
variable. Places in the code are strings in `qpc`, `pc`, `cpc`, `wpc`, `tpc`,
`epc`, `vpc`. Definitions headed "wrong variants" are slips the code could
have had; every checked property is violated when one of them replaces the
definition it varies. Errors of system calls (`malloc`, `pthread_create`,
`sem_wait`) do not occur in the `Cs` modules; allocations of libavl fail at any
call.

**CsQueue.** `EnqueueCall`, `EnqueueSem` / `EnqueueFull`, `EnqueueLocked`
are `cs_queue_enqueue` before, at and after its semaphore; likewise for
dequeue, whose critical section is `DequeueClosed` or `DequeueElement`. The
list is the sequence `elems`; `accepted` and `delivered` are histories.

**CsWorkerPool.** The owner starts and shuts down, other clients enqueue,
wait, fetch and pop. `NewIdLoad` and `NewIdStore` are the two halves of the
unprotected `++tsk_id`. Its counter is a static variable, one for all pools of
the process, and the library itself has two (the engine's and the event
manager's), so the other pool is part of the model as far as the counter goes:
`OtherIdLoad` and `OtherIdStore` are an enqueue there, in progress at any
time. Tasks are looked up in the table by their ids (`SameId`), which may be
equal. The controller dequeues (`CtlDequeue...`), takes a token
(`CtlWaitFree`), looks at one worker per step (`CtlScan`), assigns and
notifies. `WorkerDone` and `WorkerExitCode` are separate because
`cs_wp_tsk_wait` reads the status without `tsk_mutex`. A client that pops a
task does so once: a second pop of the same id would follow a NULL pointer. A
failed assert ends the program: no step follows it, and the properties say
that the assert holds.

**CsTimer.** `cs_time_sync` is `TimeSyncRefused`, `TimeSyncTick` or
`TimeSyncWait`, then `Wake`, or `SpuriousWake`, which POSIX allows.

**CsSimulation.** Engine and user's main thread are one: `FirstEvent` (the
user schedules `InitTimes` before the start), then `SimStart` to `FiniJoin`.
Pools are reduced to what `CsWorkerPool` shows of them: a task accepted before
the shutdown runs once, a task put into the closed queue is dropped though its
id is returned, and `wp_mutex` is held throughout a shutdown. Ids that repeat
are left to `CsWorkerPool`: here a task is awaited as itself. The pool of the
event manager has one worker more than the controller has tasks, so no task
waits for a worker. User code (`UserCode`, external) may schedule an event at
the clock plus one of `Delays`, and a handler may stop the controller if
`UserStops`. The termination function looks at the clock, as that of
`test_cs_engine.c` does; the one of `sample_engine_activity_driven.c` looks at
the results of the activities, which are not modelled. `EvmChoices` says
whether the simulation has an event manager; without one the engine is alone
at the timer. An activity has `Acts[i].items` items, divided as
`_cs_bind_sim_activity` divides them for `NThreads` threads, and `worked`
counts how often each item was in the block, from `data_index` to `data_index
+ offset`, of a task that ran.

**CsEventTables.** `tree` maps a time to the number of a list or to 0, `lists`
is the memory: every list ever allocated, with how often it was freed. `owner`
and `depth` are the recursive `ev_tree_lock`. `cs_evm_throw_scheduled_events`
keeps the lock while it raises one event per step (`ThrowLock`, `ThrowOne`,
`ThrowDelete`); a popped list is raised without it (`PopEvents`, `PopRaise`,
`PopDestroy`), by one thread here, since `CsSimulation` shows the shares. A
handler may schedule, and may delete a list: its own only if `DeletesOwn`.
Undefined behaviour is a choice: after a second free the program is aborted or
goes on, the time read from a freed list is any, and the machine code that
`cs_evm_install_handler` takes for a table entry compares equal, compares
different or faults.

**Libavl.** A node is its key, a table a record: `link`, `parent`, `thread`,
`bal` (balance factor or colour), `ver` (which of two items with that key),
`count`, `gen` (whether the call moved the generation number). An operation of
the source is the operator of its name, `left` and `right` in one where the
source spells out mirror images; files that share code text (the first and
last of the AVL and red-black kinds, for example) share operators. A traverser
is its node, its stack and whether its generation is the table's; a stale one
has no stack to trust. `MaxHeight` is `BST_MAX_HEIGHT`. `mem` says whether an
allocation succeeds; copies have a budget of allocations and one of successful
calls to the user's copy function. The data of a node that was allocated and
not yet filled is `GARBAGE`; `AllocByte` is the byte of `trb_alloc` that
`trb_delete` reads as a tag. A program deletes no item a traverser stands on,
as the manual of libavl asks.

## 3. What is checked

Bounds are constants: `MaxEnqueued`, `MaxQsem`, `MaxTasks`, `MaxStarts`,
`MaxOtherIds`, `MaxClock`, `MaxSpurious`, `Horizon`, `MaxEvents`, `MaxLooks`,
`MaxHeight`, the keys of `Tables`.

The types of all of these but libavl are proved (section 4), so no run checks
`TypeOK`.

Runs that pass:

| Run | Instance | Shows |
|---|---|---|
| `queue_safety` | 2 producers, 2 consumers, one of each not blocking; 1 closer; capacity 2; 3 elements | slots are conserved (`SlotsConserved`), `HeadAssert`, refinement of `BoundedFifo` (so exactly once and in order, and nothing after close) |
| `queue_single_consumer` | 1 consumer, as in the pool | `SizeIsSem`; `CloseReachesConsumer` |
| `pool_service` | 2 workers, queue of 1, 2 tasks, one thread enqueues and shuts down, one waits, another pool draws an id | every task runs; waits and shutdown return |
| `pool_safety` | 2 workers, queue of 1, 3 tasks, 2 starts, a client that enqueues, fetches and pops | `FreeWorkersCounted`, `PoolAsserts`, `TaskInOnePlace`, `RestMeansDone` (nobody is ever left waiting for somebody who waits), `ShutdownDrains`, refinement of `TaskService`; `UsesQueue`: what the pool does to its queue is a behaviour of `CsQueue` |
| `timer` | 3 actors, 6 ticks, stop at any time, 1 spurious wakeup | `NobodyTooMany`, `SyncReturns`, `TimeGoesOn`; up to the stop and the first spurious wakeup `LockStep`, `SyncMeansTick`; up to the first spurious wakeup refinement of `BarrierClock` |
| `sim_event_driven` | 3 first events at 2 times, handlers and activities schedule up to 6 | `StepComplete`, `NoEventMissed`, `DrainedAtEnd`, refinement of `StepwiseSimulation`, `SimulationEnds` |
| `sim_activity_scan` | with and without an event manager; activities of period 2 and 1 on 2 threads, one with a remainder, 4 ticks, 5 events in one tick for 2 workers, 2 more later, up to the tick after the end, 1 spurious wakeup of the engine | `ActivityPeriod`, `EveryItemOnce` (the blocks from `data_index` on), `RaisedOnTime`, `EndAssert`; `StuckOnlyAtEnd`: engine, controller, workers and timer never all wait for one another before the last tick |
| `event_tables` | a controller that pops and a user who schedules, deletes, throws, looks and installs; 2 times, 3 events, 2 handlers | `EventConserved`, `TreeSound`, `LockHeldToRaise` |
| `libavl_tables` | the twelve kinds; without traverser 6 keys (unbalanced kinds) or 8 (balanced ones), with one traverser 5 keys, one of them with two items; stacks of height 3 | `WellFormed` (links, parents, threads, balance), `TraverserStack`, `CopyFaithful`, `BalanceMinimal`, `DestroyedInOrder`, refinement of `OrderedTable` |

Why these bounds are enough for the interesting cases: the queue becomes full
and empty, and more threads than slots hold tokens; with three tasks, two
workers and a queue of one the controller waits for a worker, an enqueuer
waits for a slot with `table_mutex` held, and a shutdown overtakes an assigned
task; a restart meets the flags of the first life; lists are shorter than,
equal to and longer than the number of workers, with a remainder; activities
of different periods coincide and do not. Eight keys give balanced trees of height
four, in which rebalancing takes every case and goes on over more than one
level; six keys and stacks of three make trees of `bst.c` that are too
deep for every call that has a stack. The passing runs of libavl count a state
once whatever the last call and its result were (`VIEW view`): no step reads
them, and the refinement is an action property, checked on every step.

The passing runs leave out what is shown below to go wrong: one consumer per
queue for `SizeIsSem`, one enqueuing thread and one start for the liveness of
the pool, ids that repeat (it takes an overlapping draw of another pool and
three tasks; `pool_safety` has no other pool, `pool_service` two tasks),
events only for later ticks, no spurious wakeup in the event driven
simulation, at least as many items as threads, no network runtime, no handler
that deletes the list it is raised from.

Disagreements between the code and its own comments, headers or asserts. The
three that the runs of `PROJECT.json` keep under regular check, each with a
finding that quotes both sides:

| Run | What happens |
|---|---|
| `pool_freed_task` | pop_res frees a task that its worker still uses |
| `sim_last_tick` | with an event in the tick after the end, shutdown and controller wait for each other |
| `sim_index_reading` | `IndexedItemOnce`: a task that works on `data[index]` to `data[index+offset]`, as the comment at `cs_engine.h:47` says and the test does (`test_cs_engine.c:61`, `80`), works on the wrong items, for `index` is the number of the task (`cs_engine.c:80`) and `data_index` the start of its block: of 5 items on 2 threads item 1 is done twice and item 4 never |

Further configurations, kept to reproduce the rest; TLC reports the named
property as violated:

| Configuration | Module | Property | What happens |
|---|---|---|---|
| `QueueTwoConsumers` | `MCQueue` | `SizeIsSem` | with two consumers the assert on `sem_getvalue` (`cs_queue.c:242`) fails |
| `QueueClosedEnqueue` | `MCQueue` | `OkMeansQueued` | enqueue into a closed queue drops the datum and returns 0 (`cs_queue.c:190`; `cs_queue.h:74` promises a value < 0 "whenever something was wrong"); it also keeps its slot, so later callers block on a queue with room |
| `PoolTwoWaiters` | `MCWorkerPool` | `WaitReturns` | "signal to all the tsk/thread waiting" (`cs_workerpool.c:441`) is one post: of two threads that wait for a task, one waits for ever |
| `PoolTwoPools` | `MCWorkerPool` | `NoDuplicateId` | one thread enqueues into each of two pools; the store of one rolls the static counter back (`cs_workerpool.c:124`), the other draws an id again, and the assert under "no duplicate can exist" (`cs_workerpool.c:755`) fails; two threads that enqueue into one pool (`Enqueuers = {c1, c2}`) do the same |
| `PoolShutdownRace` | `MCWorkerPool` | `EnqueuedRuns` | an enqueue that races with a shutdown returns the id of a task that never runs |
| `PoolRestart` | `MCWorkerPool` | `EnqueuedRuns` | after a restart no task ever runs: the queue stays closed |
| `SimOverdue` | `MCSimulation` | `NoEventMissed` | an event scheduled for the current time is never raised |
| `SimSpurious` | `MCSimulation` | `StepComplete` | a spurious wakeup ends a step while its handlers run (`cs_events.c:295`) |
| `SimStartLate` | `MCSimulation` | `WaitEventsReturns` | with `start_raising` above 1 the controller signals no completion (`cs_events.c:345-346`), and engine and controller wait for each other |
| `SimNumEvents` | `MCSimulation` | `NumEventsIsTotal` | `cs_evm_num_events` counts the first list once per list (`cs_events.c:611`) |
| `SimFewItems` | `MCSimulation` | `EveryItemOnce` | with fewer items than threads every share is empty (`cs_engine.c:57`: offset -1) and no item is worked on |
| `SimNetRuntime` | `MCSimulation` | deadlock | a network runtime is counted as an actor (`cs_engine.c:370`) that never comes |
| `EventFreedTwice` | `MCEventTables` | `FreedOnce` | `cs_evm_delete_events` frees a list after `destroy_event_list` did (`cs_events.c:535-536`) |
| `EventHandlerDeletes` | `MCEventTables` | `UsedListAlive` | a handler deletes the list that `cs_evm_throw_scheduled_events` is walking (`cs_events.c:565`) |
| `EventLookBesidePop` | `MCEventTables` | `UsedListAlive` | the nearest or farthest list is read after the unlock (`cs_events.c:675`, `696`), when it may be freed |
| `EventSecondHandler` | `MCEventTables` | `HandlerAssociated` | a second handler of a type is passed to `rb_replace` as if it were an entry (`cs_events.c:484`) |
| `LibavlCopyGarbage` | `MCLibavl` | `DestroysItemsOnly` | a copy that fails hands data that was never set to `destroy` (`rb.c:742-751`) |
| `LibavlDeleteTag` | `MCLibavl` | `DeleteDeletes` | `trb_delete` reads a tag of its pseudo root, which is a byte of a pointer (`trb.c:298-305`); if it equals `TRB_THREAD`, nothing is deleted |

A result is copied after DONE is set and before the exit code is
(`cs_workerpool.c:437-438`): `ResultIsFinal` fails as an invariant of
`PoolSafety.cfg`. Without the condition `Undisturbed` both `LockStep` and
`SyncMeansTick` fail in `Timer.cfg`: a stop makes `cs_time_sync` return 0
without a tick, and so does a spurious wakeup (`cs_timer.c:74`). With
`UserStops = TRUE` in `SimEventDriven.cfg`, `WaitEventsReturns` fails, for
after `cs_evm_stop_controller` by a handler the engine waits for ever.

Reading the code for the model also showed, without a run: `engine->running`
is never set to 1, so the setters never refuse; `cs_init_engine` sets no
termination function, and an activity scan without one calls an uninitialised
pointer (`cs_engine.c:152`); when `pthread_create` fails for one worker the
others keep running and the pool stays READY (`cs_workerpool.c:458`);
`copy_error_recovery` of `pbst.c` climbs from the root into the fields of the
table (`pbst.c:450-459`).

**Fairness.** Weak fairness of each thread's own steps: a runnable thread is
scheduled, gets a mutex that is free, and user code ends. In `CsQueue` the
consumers call again and again, as the controller's loop does; in `CsTimer`
the actors do. Nothing makes a client call, stop or close, and nothing makes
a wait end by itself. Semaphores and mutexes have no more than weak fairness:
a thread that is overtaken for ever is not assumed to get through.

**Deadlock** is checked by TLC except where threads may rightly stop: a queue
nobody uses any more, and clients of a pool that wait for a task that is not
coming. What TLC calls a deadlock also says nothing of a program that is stuck
while a client could still make another call. So the two compositions say it
themselves: `RestMeansDone` of the pool (when every thread is in a wait that
nobody ends, or idle, then the accepted tasks are complete), and
`StuckOnlyAtEnd` of the simulation. Both are state predicates on where the
threads are and what they wait for, not `ENABLED`, and are proved below. The one
way a simulation does get stuck is that of `sim_last_tick`; `sim_activity_scan`
gets there too and stops, which is why it does not check for deadlock. With a
spurious wakeup an event driven simulation can go the same way.

## 4. What is proved

All theorems hold for every value of the constants that satisfies the named
assumptions of the modules.

- `CsQueueProofs`. Inductive invariant `Inv`: types, `CallsOK`,
  `SlotsConserved`, `SemCountsElements`, `FifoExactlyOnce`. The two
  conservation laws need one another's threads counted by where they are
  (`Holders`), and `GotoCard` says how a step changes such a count. From `Inv`
  follow `TypeCorrect`, `TokensAccounted`, `FifoOrder`, `HeadAssertHolds`,
  `ClosedForGood` and `Refinement` (to `BoundedFifo`: the slots taken plus the
  tokens held never exceed the capacity). `SizeAssertHolds` assumes at most
  one consumer; `QueueTwoConsumers.cfg` shows why.
- `CsWorkerPoolProofs`. `TypeInv` gives `TypeCorrect`. `DispatchInv` adds,
  for the protocol between controller and workers: what the status of each
  worker says about where it is; the token equation, by which the semaphore of
  a worker plus the token it has taken equals one for an assigned and notified
  task plus one for a shutdown command it has not yet obeyed; the count of
  free workers; and that while the controller scans, a free worker is at or
  after its index (workers only become free behind its back, and only the
  controller makes one busy). Results: `FreeWorkersCount`, `PoolAssertsHold`.

  `WayInv` follows a task on its way. `QueueInv`: no task is accepted twice,
  and once the controller leaves its loop the queue is closed and empty.
  `FreshInv`: a task whose enqueue is in progress is that of one client and not
  yet accepted. `Placed(k)`: task `k` is in the queue, with the controller, at
  one worker or complete, and exactly one of these if it was accepted; until a
  worker has it, nothing touched it. `Stage(w)`: what the place of a worker
  says about its task, field by field, in the order of the writes in
  `_cs_wp_worker`. It needs `DispatchInv`, without which the controller could
  assign a second task to a busy worker. Results: `OnePlace`, `WaitIsDone`
  (`WaitMeansDone`), `Drained` (when the controller has ended, so has every
  worker, and every place of a task but the last is empty).

  `IsService`: the pool implements `TaskService`. A task is to do when the
  queue has accepted it and no worker has begun with it, being done while its
  worker is in `run`, done when `runs` counts it, and a client awaits it while
  it is in `cs_wp_tsk_wait`. `EnqueueLocked` is `Accept`, `WorkerTake` is
  `Begin`, `WorkerRun` is `Finish`, the end of a wait `Return`, the join in
  `cs_wp_shutdown` is `Stop`; each has its lemma (`EnqueueIsAccept`, ...), and
  all other steps are none of the service.

  `QueueUsedRightly` shows that the pool refines `CsQueue` with nothing hidden
  (`UsesQueue`). `CreditInv` is needed for the bounds of `CsQueue`: the value
  of `qsem`, plus one while a close is still to come, never exceeds the number
  of tasks accepted plus the number of starts. With it every theorem of
  `CsQueueProofs` holds for the queue of a pool: `QueueOfThePool` and
  `QueueIsFifo` state the ones that matter, both asserts in
  `cs_queue_dequeue` among them.

  `RestIsDone`: the pool never gets stuck. The proof excludes every way in
  which all threads could wait: an idle controller in front of elements
  (`TokenInv`: `qsem` covers the elements, and the post of the close while the
  owner joins), a controller without a free worker while all workers sleep
  (`DispatchInv`), an enqueuer that keeps `table_mutex` in front of an empty
  queue (`SlotsConserved`), a client that waits for a task whose worker has gone
  on (`SignalInv`: the post of a finished task is not consumed by another) or
  that no worker will get (`KnownInv`: what a client waits for was accepted, as
  long as the queue is open). It assumes that one thread waits for results
  (`PoolTwoWaiters.cfg` violates `RestMeansDone` too) and that the queue has
  room for a task (with `QueueSize = 0` in `PoolSafety.cfg` the first enqueue
  never returns).

  `IdsUnique`: `NoDuplicateId` holds for any number of tasks, of clients that
  enqueue and of ids that another pool draws, as long as no two draws from the
  counter overlap (`OneDraw`); `PoolTwoPools.cfg` shows that one overlap is
  enough to break it, with one enqueuer in each pool. So the assert rests on
  the callers of every pool in the process, and on nothing else. `IdInv`: no
  id of this pool is ahead of the counter, no two are equal, whether in the
  table or on their way, and an id that is being drawn is the next one.
- `CsTimerProofs`, with spurious wakeups and stops. `TypeCorrect` and
  `NeverTooMany` hold throughout, `ActorsInLockStep`, `SyncIsTick` and
  `Refinement` (to `BarrierClock`) as far as the properties themselves say.
  Invariant `BarrierInv`: as long as nobody was woken without a broadcast or by
  a stop, every actor is counted as often as the clock says, once more if it
  waits; `sync` is the number that wait, and never all of them do.
- `CsSharesProofs`. Pure arithmetic, for any number of items, events and
  threads. `BlocksPartition`: with at least as many items as threads the blocks
  of `_cs_bind_sim_activity` contain every item exactly once; block `i` begins
  where block `i - 1` ends, and the last one takes the remainder.
  `EventSharesPartition`: the shares of `_ev_controller` contain every event
  exactly once, with fewer events than workers too.
- `CsSimulationProofs`, for any activities, number of threads and workers,
  times of events and types of simulation. `TypeInv` gives `TypeCorrect`.
  `MeetInv` says how engine and controller meet: `sync` counts those of the two
  that wait in `cs_time_sync`, the clock is the engine's or one more if the
  engine has not yet seen the tick, and the controller works on the events of
  that clock; `EndAssertHolds` follows. `EventsInv` adds where events are: what
  each task of a batch still has to raise is an end of its share (`ShareInv`);
  every event not yet raised is once in the tree under its time or once in the
  batch (`PlaceInv`, `EventInv`); of the batch exactly the beginning of each
  share was raised (`HandInv`, which rests on `EventSharesPartition`).
  `OnTime` follows, whatever handlers schedule and whoever stops first.

  `StepInv` relates `last_completion` to the clock at every place of engine and
  controller; with it follow `StepIsComplete`, and, with `OverdueInv` (the
  lists of times that are over are empty) and `EndInv`, `NothingMissed` and
  `AllDrained`. All three assume `MaxSpurious = 0`, since the engine's wait for
  the completion has no loop (`SimSpurious.cfg`); `NothingMissed` assumes also
  `Later`, that nothing is scheduled for the current tick (`SimOverdue.cfg`).
  `IsStepwise`: the simulation implements `StepwiseSimulation`, with the events
  scheduled so far as a function to their times. A step that throws an event is
  a `Raise`, together with what its handler schedules; a step that moves the
  clock is a `Tick` (`ClockTicks`); all others schedule an event or stutter. A
  tick needs engine and controller at the timer (`Meeting`), and nothing that
  is due is open then (`TickReady`), for either of two reasons: the engine has
  waited for the completion (`EngineWaited`, from `StepInv`), or the controller
  is through with the list of the tick before it comes back to the timer
  (`ControllerThrough`, from `RoundInv`). The second holds with spurious wakeups
  too: what they cost is the order within a step, not an event. So the theorem
  assumes `Later`, and `MaxSpurious = 0` or `StartRaising <= 1`; a controller
  that begins late skips ticks, and with a spurious wakeup the engine does not
  wait for it (`SimEventDriven.cfg` with `MaxSpurious = 1`, `StartRaising = 2`).

  `PeriodKept`: between the looks of `_loop_activity` the set of execution
  times is `Regular`, the multiples of the period from time 1 on. `ItemsOnce`
  assumes `EnoughItems`, as many items as threads (`SimFewItems.cfg`), and
  rests on `BlocksPartition`.

  `NeverStuckBefore` and `EventDrivenNeverStuck`: no deadlock of engine,
  controller, workers and timer. `WayInv`: while `last_completion` is behind
  the clock the controller is on its way from the timer to the signal
  (`OnItsWay`), and it leaves its loop only after the engine has left its own;
  so an engine that waits for the completion does not wait in vain, and with
  `MeetInv` the two never miss one another at the timer. `MutexInv`: `wp_mutex`
  is held by `cs_wp_shutdown` only. `DropInv`: a task is dropped only by the
  closed queue, so the controller waits in vain only then, and only for events
  of the last tick; an event driven simulation without spurious wakeups
  has none left then (`AllDrained`). Both assume no network runtime
  (`SimNetRuntime.cfg`), no handler that stops the controller (`UserStops =
  TRUE` in `SimEventDriven.cfg`) and raising from time 1 on
  (`SimStartLate.cfg`); with each of these three `StuckOnlyAtEnd` is violated.
  The second also assumes an event driven simulation (`SimLastTick.cfg`) and
  `MaxSpurious = 0` (`SimSpurious.cfg`).
- `CsEventTablesProofs`, for any number of threads, times, events and lists.
  `TypeInv` and `LockInv` (the recursive lock is free with nobody inside, or
  held once by the one thread that throws) give `TypeCorrect` and
  `LockReleased`, whatever the handlers do. `HandInv`: a list that is not freed
  is in the tree or in the hands of the one thread that popped it, a thrown
  list stays in the tree until its thread deletes it; it gives
  `ListsAccounted`. `PlaceInv` (every event is at one place of one list) and
  `RaiseInv` (of a list in hand the events before the cursor were raised, of a
  list in the tree none) give `EventsConserved`. The last two assume
  `DeletesOwn = FALSE`: no handler deletes the list it is raised from
  (`EventHandlerDeletes.cfg`).

Every assumption above that is not one of a module's named assumptions is
necessary: the configuration named with it is a counterexample without it.
Each of these invariants was checked by TLC on small instances before it was
proved.

Only model-checked: every liveness property (`EnqueuedRuns`, `WaitReturns`,
`ShutdownReturns`, `CloseReachesConsumer`, `TimeGoesOn`, `SyncReturns`,
`SimulationEnds`), because it needs fairness and `ENABLED`, and everything about
libavl, whose algorithms are recursive operators: both are out of the prover's
reach. All other properties of the passing runs are proved.

## 5. What is not modelled

- `cs_queue_destroy`, `cs_wp_destroy`, `cs_destroy_timer` and the rest of
  `cs_engine_fini`: releases of memory after the threads are gone.
- The links of the queue's list; `CsQueue` keeps their order.
- `cs_init_engine` and the engine's setters: they store pointers before a
  simulation starts, and are the constants of `CsSimulation`.
- Spurious wakeups of the timer inside a simulation (the timer alone is checked
  with them). Two threads that start one pool.
- Failures of system calls outside libavl; logging; the locking helpers, which
  create a recursive mutex; the network runtime, an empty structure.
- libavl's `slr.c` (a generator of parsers for the tool its manual is written
  with) and `bsts.c` (an example of the manual): programs nothing here uses.
  The allocators of libavl and the `*_assert_*` wrappers.
- The `Cs` modules use functions where the code has red-black tables:
  `libavl_tables` is the reason why they may.

## 6. Plan

Done: queue, pool, timer, the composed simulation, the event tables, libavl,
and proofs of every safety property of the `Cs` modules, freedom from deadlock
included. What could follow:

1. `CsSimulation` with a `TaskService` in the place of the jobs by which it
   restates what the pool guarantees.
2. Spurious wakeups of the timer in a simulation.
3. `CsQueueList`: the doubly linked list as an implementation of `CsQueue`,
   with destroy; a second owner of a pool that starts it concurrently.

## 7. Running

    tlc -workers 2 -config QueueSafety.cfg MCQueue
    tlapm CsQueueProofs.tla

`CsSimulationProofs` and `CsWorkerPoolProofs` take about five minutes each.
`PROJECT.json` names module and configuration of every run. All runs finish in
about two minutes or less; `libavl_tables` and `pool_safety` are the longest.
