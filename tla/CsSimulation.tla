---------------------------- MODULE CsSimulation ----------------------------
(***************************************************************************)
(* A whole simulation: the main loop of src/cs_engine.c, the event manager *)
(* of src/cs_events.c with its controller and its event workers, and the   *)
(* timer of CsTimer on which engine and controller meet once per tick.     *)
(* The thread that runs the engine also is the user's main thread: it      *)
(* calls cs_sim_start and then cs_engine_fini.                             *)
(*                                                                         *)
(* The worker pools are reduced to what CsWorkerPool shows of them: a task *)
(* that is enqueued before the shutdown is run once, a task enqueued into  *)
(* the closed queue is dropped although its id is returned, wp_mutex is    *)
(* held throughout a shutdown, and enqueuing needs it for a moment.  The   *)
(* pool of the event manager has one worker for the controller and one for *)
(* each of its tasks, so no task waits for a worker.                       *)
(*                                                                         *)
(* The user's code (event handlers, activity tasks) may schedule an event. *)
(* The locks of the event tree, evm->mutex and wait_mutex are held only    *)
(* within a step.                                                          *)
(***************************************************************************)
EXTENDS CsShares, Sequences, FiniteSets

CONSTANTS
    SimType,        \* engine->st: "ACTIVITY_SCAN" or "EVENT_DRIVEN"
    EndTime,        \* the user's termination function: the clock is at EndTime
    Acts,           \* engine->alist: a sequence of records with nsteps, type and items,
                    \* the number of items of its data
    NThreads,       \* wp->nthreads of the engine's pool
    EvmChoices,     \* whether the user may set an event manager: a set of Booleans
    NetRuntime,     \* whether the user sets a network runtime
    NWorkers,       \* the argument of cs_init_event_manager
    InitTimes,      \* the times of the events scheduled before cs_sim_start
    Delays,         \* user code schedules events at the clock plus one of these
    StartRaising,   \* the user starts the controller with this, unless it is 0
    UserStops,      \* an event handler may call cs_evm_stop_controller
    Horizon,        \* bound: the latest time of an event
    MaxEvents,      \* bound: how many events are ever scheduled
    MaxSpurious     \* bound: waits on wait_cond that end by themselves

Actors == {"engine", "controller"}
Slots  == 0 .. NWorkers - 1       \* the ntasks tasks of the controller
Events == 1 .. MaxEvents
Times  == 0 .. Horizon

ASSUME SimAssumption ==
    /\ SimType \in {"ACTIVITY_SCAN", "EVENT_DRIVEN"} /\ EndTime \in Nat
    /\ NWorkers \in Nat \ {0} /\ NThreads \in Nat \ {0}
    /\ EvmChoices \subseteq BOOLEAN /\ NetRuntime \in BOOLEAN
    /\ Acts # <<>> \/ EvmChoices = {TRUE} \/ NetRuntime
    /\ \A i \in DOMAIN Acts : /\ Acts[i].nsteps \in Nat \ {0} /\ Acts[i].items \in Nat \ {0}
                              /\ Acts[i].type \in {"AFTER_STEP", "USER"}
    /\ Horizon \in Nat /\ MaxEvents \in Nat /\ MaxSpurious \in Nat
    /\ InitTimes \in Seq(Times) /\ Len(InitTimes) <= MaxEvents
    /\ Delays \subseteq Nat /\ StartRaising \in Nat /\ UserStops \in BOOLEAN

VARIABLES
    clock, sync, n_sync, stop, tpc, tret, entered, configured, arrivals, spurious, \* of CsTimer
    epc,            \* where the engine is
    estop,          \* its variable stop
    ecur,           \* its cur_time
    last,           \* last_execution_time of each activity
    atasks,         \* the activity tasks that are enqueued and not complete
    worked,         \* history: how often each item was worked on in the last execution
    execs,          \* history: the times at which each activity was executed
    hasEvm,         \* whether engine->evm is set
    tree,           \* evm->ev_tree: the list of events for each time
    nevents, at,    \* how many events were scheduled, and for when
    raised,         \* history: the times at which each event was raised
    evmStop, evmRunning, startTime, lastCompletion,   \* of cs_event_manager_t
    vpc,            \* where the controller is
    vcur, vstart,   \* its cur_time and start
    batch,          \* its ev_list
    slot,           \* its c
    jobs, todo,     \* its tasks, and the events each has still to raise
    wpMutex,        \* who holds wp_mutex of the event manager's pool
    qClosed,        \* whether the queue of that pool is closed
    woken           \* how many waits on wait_cond ended by themselves

tVars == <<clock, sync, n_sync, stop, tpc, tret, entered, configured, arrivals, spurious>>
aVars == <<last, atasks, worked, execs, hasEvm>>
xVars == <<tree, nevents, at>>
mVars == <<evmRunning, startTime, lastCompletion>>
vVars == <<vpc, vcur, vstart, batch, slot>>
jVars == <<jobs, todo, raised>>
pVars == <<wpMutex, qClosed>>
eVars == <<epc, estop, ecur>>
simVars == <<tVars, aVars, xVars, mVars, evmStop, vVars, jVars, pVars, eVars, woken>>

Timer == INSTANCE CsTimer WITH Stoppers <- {"engine"}, MaxClock <- EndTime + Horizon

\* the items of an activity, and the tasks it is divided into
Items(i) == 0 .. Acts[i].items - 1
ActTasks(i) == 0 .. BlockTasks(Acts[i].items, NThreads) - 1

\* cs_evm_schedule_event appends the event to the list of its time
Listed(t) == IF t \in Times THEN tree[t] ELSE <<>>

Schedule(t) ==
    /\ nevents < MaxEvents /\ t \in Times
    /\ nevents' = nevents + 1
    /\ at' = [at EXCEPT ![nevents + 1] = t]
    /\ tree' = [tree EXCEPT ![t] = Append(@, nevents + 1)]

\* the user may have started the controller before
Init ==
    /\ Timer!Init
    /\ epc = "start" /\ estop = FALSE /\ ecur = 0
    /\ last = [i \in DOMAIN Acts |-> -1] /\ atasks = {} /\ execs = [i \in DOMAIN Acts |-> {}]
    /\ worked = [i \in DOMAIN Acts |-> [x \in Items(i) |-> 0]]
    /\ hasEvm \in EvmChoices
    /\ nevents = 0 /\ at = [e \in Events |-> 0] /\ tree = [t \in Times |-> <<>>]
    /\ raised = [e \in Events |-> <<>>]
    /\ evmStop = FALSE /\ evmRunning = FALSE /\ lastCompletion = 0
    /\ startTime = StartRaising
    /\ vpc = (IF hasEvm /\ StartRaising > 0 THEN "queued" ELSE "none")
    /\ vcur = 0 /\ vstart = 0 /\ batch = <<>> /\ slot = 0
    /\ jobs = [c \in Slots |-> "none"] /\ todo = [c \in Slots |-> <<>>]
    /\ wpMutex = "free" /\ qClosed = FALSE /\ woken = 0

Engine(from, to)     == epc = from /\ epc' = to
Controller(from, to) == vpc = from /\ vpc' = to

\* where the engine goes after a tick and after its activities
AfterUser == IF hasEvm THEN "wait_events" ELSE "after_step"
AfterSync ==
    IF estop THEN IF hasEvm THEN "stop_evm" ELSE "stop_timer"
    ELSE IF SimType = "ACTIVITY_SCAN" THEN "user" ELSE AfterUser

\* the lists in the tree, and the first of them
Scheduled == {t \in Times : tree[t] # <<>>}
First     == CHOOSE t \in Scheduled : \A u \in Scheduled : t <= u

\* how many tasks the controller enqueues
NTasks == EvTasks(Len(batch), NWorkers)

-----------------------------------------------------------------------------
(***************************************************************************)
(* Wrong variants of the definitions below, against which the properties   *)
(* are tried.                                                              *)
(***************************************************************************)

\* takes a single list for none
NumEventsOffByOne ==
    IF Cardinality(Scheduled) <= 1 THEN 0 ELSE Cardinality(Scheduled) * Len(tree[First])

\* waits a tick too long
DueLate(atype) ==
    {i \in DOMAIN Acts : Acts[i].type = atype /\ (last[i] < 0 \/ clock - last[i] > Acts[i].nsteps)}

\* keeps the time it had before the last tick
EngineSyncedStale ==
    /\ epc = "syncing" /\ tpc["engine"] = "out"
    /\ epc' = AfterSync
    /\ ecur' = IF estop THEN ecur ELSE clock
    /\ UNCHANGED <<tVars, aVars, xVars, mVars, evmStop, vVars, jVars, pVars, estop, woken>>

\* does not wait
WaitEventsNot ==
    /\ Engine("wait_events", "after_step")
    /\ UNCHANGED <<tVars, aVars, xVars, mVars, evmStop, vVars, jVars, pVars, estop, ecur, woken>>

\* waits although the events are complete
WaitEventsAgain ==
    /\ Engine("wait_events", IF lastCompletion <= ecur THEN "events_waiting" ELSE "after_step")
    /\ UNCHANGED <<tVars, aVars, xVars, mVars, evmStop, vVars, jVars, pVars, estop, ecur, woken>>

\* continue instead of break when the timer was stopped
CtlSyncedRetries ==
    /\ Controller("syncing", IF tret["controller"] < 0 THEN "sync" ELSE "should_stop")
    /\ tpc["controller"] = "out"
    /\ vcur' = IF tret["controller"] < 0 THEN vcur ELSE clock
    /\ UNCHANGED <<tVars, aVars, xVars, mVars, evmStop, vstart, batch, slot, jVars, pVars, eVars,
                   woken>>

\* every guard one event after the one before it
GuardNext(c) == IF c < Len(batch) THEN c + 1 ELSE Len(batch)

\* waits for the first task only
CtlWaitFirst ==
    /\ Controller("wait", "signal")
    /\ jobs[slot] = "done"
    /\ slot' = slot + 1
    /\ UNCHANGED <<tVars, aVars, xVars, mVars, evmStop, vcur, vstart, batch, jVars, pVars, eVars,
                   woken>>

-----------------------------------------------------------------------------
\* cs_evm_num_events: the traverser is never moved past the first list
NumEvents == IF Scheduled = {} THEN 0 ELSE Cardinality(Scheduled) * Len(tree[First])

-----------------------------------------------------------------------------
(***************************************************************************)
(* The user's code in a handler or a task                                  *)
(***************************************************************************)
UserCode ==
    \/ UNCHANGED xVars
    \/ hasEvm /\ \E d \in Delays : Schedule(clock + d)

(***************************************************************************)
(* The engine                                                              *)
(***************************************************************************)
\* the user schedules the first events, one after the other ...
FirstEvent ==
    /\ Engine("start", "start") /\ hasEvm /\ nevents < Len(InitTimes)
    /\ Schedule(InitTimes[nevents + 1])
    /\ UNCHANGED <<tVars, aVars, mVars, evmStop, vVars, jVars, pVars, estop, ecur, woken>>

\* ... and calls cs_sim_start: the engine and the event controller synchronize.
\* A network runtime is counted too, although nothing runs it.
NActors == 1 + (IF NetRuntime THEN 1 ELSE 0) + (IF hasEvm THEN 1 ELSE 0)

SimStart ==
    /\ Engine("start", IF hasEvm THEN "start_evm" ELSE "after_step")
    /\ hasEvm => nevents = Len(InitTimes)
    /\ Timer!SetNsync(NActors)
    /\ UNCHANGED <<aVars, xVars, mVars, evmStop, vVars, jVars, pVars, estop, ecur, woken>>

\* cs_evm_start_controller(evm, 1) if the controller does not run yet; when it
\* was started but has not begun, cs_wp_start refuses
StartController ==
    /\ Engine("start_evm", "after_step")
    /\ IF evmRunning THEN UNCHANGED <<startTime, vpc>>
       ELSE startTime' = 1 /\ vpc' = IF vpc = "none" THEN "queued" ELSE vpc
    /\ UNCHANGED <<tVars, aVars, xVars, evmRunning, lastCompletion, evmStop, vcur, vstart, batch,
                   slot, jVars, pVars, estop, ecur, woken>>

\* the first half of _loop_activity: the activities that are due are enqueued
Due(atype) ==
    {i \in DOMAIN Acts : /\ Acts[i].type = atype
                         /\ last[i] < 0 \/ (clock - last[i]) % Acts[i].nsteps = 0}

LoopActivity(atype) ==
    LET due == IF clock <= 0 THEN {} ELSE Due(atype)
    IN  /\ last' = [i \in DOMAIN Acts |-> IF i \in due THEN clock ELSE last[i]]
        /\ execs' = [i \in DOMAIN Acts |-> IF i \in due THEN execs[i] \cup {clock} ELSE execs[i]]
        /\ atasks' = UNION {{i} \X ActTasks(i) : i \in due}
        /\ worked' = [i \in DOMAIN Acts |->
                        IF i \in due THEN [x \in Items(i) |-> 0] ELSE worked[i]]
        /\ UNCHANGED hasEvm

AfterStep ==
    /\ Engine("after_step", "after_step_wait")
    /\ LoopActivity("AFTER_STEP")
    /\ UNCHANGED <<tVars, xVars, mVars, evmStop, vVars, jVars, pVars, estop, ecur, woken>>

UserStep ==
    /\ Engine("user", "user_wait")
    /\ LoopActivity("USER")
    /\ UNCHANGED <<tVars, xVars, mVars, evmStop, vVars, jVars, pVars, estop, ecur, woken>>

\* a worker of the engine's pool runs one of the tasks on its share of the data
ActivityTask(task) ==
    /\ task \in atasks
    /\ atasks' = atasks \ {task}
    /\ worked' = [worked EXCEPT ![task[1]] =
                    [x \in Items(task[1]) |->
                        @[x] + (IF x \in Block(Acts[task[1]].items, NThreads, task[2]) THEN 1 ELSE 0)]]
    /\ UserCode
    /\ UNCHANGED <<tVars, last, execs, hasEvm, mVars, evmStop, vVars, jVars, pVars, eVars, woken>>

\* the second half of _loop_activity: all of them are complete
AfterStepDone ==
    /\ Engine("after_step_wait", "check") /\ atasks = {}
    /\ UNCHANGED <<tVars, aVars, xVars, mVars, evmStop, vVars, jVars, pVars, estop, ecur, woken>>

UserStepDone ==
    /\ Engine("user_wait", AfterUser) /\ atasks = {}
    /\ UNCHANGED <<tVars, aVars, xVars, mVars, evmStop, vVars, jVars, pVars, estop, ecur, woken>>

\* the two termination conditions
CheckTermination ==
    /\ Engine("check", "sync")
    /\ estop' = \/ SimType = "ACTIVITY_SCAN" /\ clock >= EndTime
                \/ SimType = "EVENT_DRIVEN" /\ hasEvm /\ ~(NumEvents > 0)
    /\ UNCHANGED <<tVars, aVars, xVars, mVars, evmStop, vVars, jVars, pVars, ecur, woken>>

EngineSync ==
    /\ Engine("sync", "syncing")
    /\ Timer!TimeSync("engine")
    /\ UNCHANGED <<aVars, xVars, mVars, evmStop, vVars, jVars, pVars, estop, ecur, woken>>

EngineSynced ==
    /\ Engine("syncing", AfterSync) /\ tpc["engine"] = "out"
    /\ ecur' = clock
    /\ UNCHANGED <<tVars, aVars, xVars, mVars, evmStop, vVars, jVars, pVars, estop, woken>>

\* wait_event_completion: an if, not a loop, around pthread_cond_wait
WaitEvents ==
    /\ Engine("wait_events", IF lastCompletion < ecur THEN "events_waiting" ELSE "after_step")
    /\ UNCHANGED <<tVars, aVars, xVars, mVars, evmStop, vVars, jVars, pVars, estop, ecur, woken>>

EventsWoken ==
    /\ Engine("events_woken", "after_step")
    /\ UNCHANGED <<tVars, aVars, xVars, mVars, evmStop, vVars, jVars, pVars, estop, ecur, woken>>

SpuriousWake ==
    /\ Engine("events_waiting", "after_step")
    /\ woken < MaxSpurious
    /\ woken' = woken + 1
    /\ UNCHANGED <<tVars, aVars, xVars, mVars, evmStop, vVars, jVars, pVars, estop, ecur>>

\* _cs_stop_actors: the controller, then the timer
StopController ==
    /\ Engine("stop_evm", "stop_timer")
    /\ evmStop' = TRUE
    /\ UNCHANGED <<tVars, aVars, xVars, mVars, vVars, jVars, pVars, estop, ecur, woken>>

StopTimer ==
    /\ Engine("stop_timer", "ended")
    /\ Timer!TimeStop
    /\ UNCHANGED <<aVars, xVars, mVars, evmStop, vVars, jVars, pVars, estop, ecur, woken>>

(***************************************************************************)
(* cs_engine_fini: _cs_shutdown_event_manager, with cs_wp_shutdown of its  *)
(* pool.  The engine's own pool has no task left at this point.            *)
(***************************************************************************)
FiniStop ==
    /\ Engine("ended", IF hasEvm THEN "fini_lock" ELSE "over")
    /\ evmStop' = (evmStop \/ evmRunning)
    /\ UNCHANGED <<tVars, aVars, xVars, mVars, vVars, jVars, pVars, estop, ecur, woken>>

FiniLock ==
    /\ Engine("fini_lock", "fini_close") /\ wpMutex = "free"
    /\ wpMutex' = "engine"
    /\ UNCHANGED <<tVars, aVars, xVars, mVars, evmStop, vVars, jVars, qClosed, estop, ecur, woken>>

FiniClose ==
    /\ Engine("fini_close", "fini_join")
    /\ qClosed' = TRUE
    /\ UNCHANGED <<tVars, aVars, xVars, mVars, evmStop, vVars, jVars, wpMutex, estop, ecur, woken>>

\* the workers end when they have run every task the queue had accepted
FiniJoin ==
    /\ Engine("fini_join", "over")
    /\ vpc = "ended" /\ \A c \in Slots : jobs[c] # "queued"
    /\ wpMutex' = "free"
    /\ UNCHANGED <<tVars, aVars, xVars, mVars, evmStop, vVars, jVars, qClosed, estop, ecur, woken>>

EngineStep ==
    \/ FirstEvent \/ SimStart \/ StartController \/ AfterStep \/ AfterStepDone \/ CheckTermination
    \/ EngineSync \/ EngineSynced \/ UserStep \/ UserStepDone
    \/ WaitEvents \/ EventsWoken \/ StopController \/ StopTimer
    \/ FiniStop \/ FiniLock \/ FiniClose \/ FiniJoin

-----------------------------------------------------------------------------
(***************************************************************************)
(* _ev_controller                                                          *)
(***************************************************************************)
CtlBegin ==
    /\ Controller("queued", "sync")
    /\ vstart' = startTime /\ vcur' = clock
    /\ evmRunning' = TRUE
    /\ UNCHANGED <<tVars, aVars, xVars, startTime, lastCompletion, evmStop, batch, slot, jVars,
                   pVars, eVars, woken>>

CtlSync ==
    /\ Controller("sync", "syncing")
    /\ Timer!TimeSync("controller")
    /\ UNCHANGED <<aVars, xVars, mVars, evmStop, vcur, vstart, batch, slot, jVars, pVars, eVars,
                   woken>>

CtlSynced ==
    /\ Controller("syncing", IF tret["controller"] < 0 THEN "exit" ELSE "should_stop")
    /\ tpc["controller"] = "out"
    /\ vcur' = IF tret["controller"] < 0 THEN vcur ELSE clock
    /\ UNCHANGED <<tVars, aVars, xVars, mVars, evmStop, vstart, batch, slot, jVars, pVars, eVars,
                   woken>>

\* a controller that is not to raise events yet goes back to the timer
CtlShouldStop ==
    /\ Controller("should_stop",
                  IF evmStop THEN "exit" ELSE IF vstart > vcur THEN "sync" ELSE "pop")
    /\ UNCHANGED <<tVars, aVars, xVars, mVars, evmStop, vcur, vstart, batch, slot, jVars, pVars,
                   eVars, woken>>

\* pop_events takes the list for this time out of the tree
CtlPop ==
    /\ Controller("pop", IF Listed(vcur) = <<>> THEN "signal" ELSE "enqueue")
    /\ batch' = Listed(vcur) /\ slot' = 0
    /\ tree' = [t \in Times |-> IF t = vcur THEN <<>> ELSE tree[t]]
    /\ UNCHANGED <<tVars, aVars, nevents, at, mVars, evmStop, vcur, vstart, jVars, pVars, eVars,
                   woken>>

(***************************************************************************)
(* How the list is divided: task c begins at guard c, which is hops after  *)
(* the one before it, and raises hops events, the last task all the rest.  *)
(***************************************************************************)
Guard(c) == EvGuard(Len(batch), NWorkers, c)
NumOf(c) == EvNum(Len(batch), NWorkers, c)

Share(c) == SubSeq(batch, Guard(c), Guard(c) + NumOf(c) - 1)

\* cs_wp_tsk_enqueue: cs_wp_get_status needs wp_mutex ...
CtlEnqueue ==
    /\ Controller("enqueue", "put") /\ wpMutex = "free"
    /\ UNCHANGED <<tVars, aVars, xVars, mVars, evmStop, vcur, vstart, batch, slot, jVars, pVars,
                   eVars, woken>>

\* ... and a queue that was closed since then drops the task
CtlPut ==
    /\ Controller("put", IF slot + 1 < NTasks THEN "enqueue" ELSE "wait")
    /\ jobs' = [jobs EXCEPT ![slot] = IF qClosed THEN "dropped" ELSE "queued"]
    /\ todo' = [todo EXCEPT ![slot] = Share(slot)]
    /\ slot' = IF slot + 1 < NTasks THEN slot + 1 ELSE 0
    /\ UNCHANGED <<tVars, aVars, xVars, mVars, evmStop, vcur, vstart, batch, raised, pVars, eVars,
                   woken>>

\* cs_wp_tsk_wait for one task after the other; then the list is destroyed
CtlWait ==
    /\ Controller("wait", IF slot + 1 < NTasks THEN "wait" ELSE "signal")
    /\ jobs[slot] = "done"
    /\ slot' = slot + 1
    /\ UNCHANGED <<tVars, aVars, xVars, mVars, evmStop, vcur, vstart, batch, jVars, pVars, eVars,
                   woken>>

\* _signal_event_completion
CtlSignal ==
    /\ Controller("signal", "sync")
    /\ lastCompletion' = vcur
    /\ epc' = IF epc = "events_waiting" THEN "events_woken" ELSE epc
    /\ UNCHANGED <<tVars, aVars, xVars, evmRunning, startTime, evmStop, vcur, vstart, batch, slot,
                   jVars, pVars, estop, ecur, woken>>

CtlExit ==
    /\ Controller("exit", "ended")
    /\ evmRunning' = FALSE
    /\ UNCHANGED <<tVars, aVars, xVars, startTime, lastCompletion, evmStop, vcur, vstart, batch,
                   slot, jVars, pVars, eVars, woken>>

CtlStep ==
    \/ CtlBegin \/ CtlSync \/ CtlSynced \/ CtlShouldStop \/ CtlPop
    \/ CtlEnqueue \/ CtlPut \/ CtlWait \/ CtlSignal \/ CtlExit

(***************************************************************************)
(* _ev_worker raises the events of its share one by one                    *)
(***************************************************************************)
ThrowEvent(c) ==
    /\ jobs[c] = "queued" /\ todo[c] # <<>>
    /\ raised' = [raised EXCEPT ![Head(todo[c])] = Append(@, clock)]
    /\ todo' = [todo EXCEPT ![c] = Tail(@)]
    /\ UserCode
    /\ evmStop' \in {evmStop, evmStop \/ UserStops}
    /\ UNCHANGED <<tVars, aVars, mVars, vVars, jobs, pVars, eVars, woken>>

WorkerDone(c) ==
    /\ jobs[c] = "queued" /\ todo[c] = <<>>
    /\ jobs' = [jobs EXCEPT ![c] = "done"]
    /\ UNCHANGED <<tVars, aVars, xVars, mVars, evmStop, vVars, todo, raised, pVars, eVars, woken>>

\* a thread that was woken in cs_time_sync goes on
TimerWake(a) ==
    /\ Timer!Wake(a)
    /\ UNCHANGED <<aVars, xVars, mVars, evmStop, vVars, jVars, pVars, eVars, woken>>

Finished == epc = "over" /\ UNCHANGED simVars

Next ==
    \/ EngineStep \/ SpuriousWake
    \/ CtlStep
    \/ \E task \in atasks : ActivityTask(task)
    \/ \E c \in Slots : ThrowEvent(c) \/ WorkerDone(c)
    \/ \E a \in Actors : TimerWake(a)
    \/ Finished

Spec == Init /\ [][Next]_simVars

(***************************************************************************)
(* Every thread goes on; tasks and handlers end.  Nothing makes a wait end *)
(* by itself.                                                              *)
(***************************************************************************)
Fairness ==
    /\ WF_simVars(EngineStep) /\ WF_simVars(CtlStep)
    /\ WF_simVars(\E task \in atasks : ActivityTask(task))
    /\ \A c \in Slots : WF_simVars(ThrowEvent(c) \/ WorkerDone(c))
    /\ \A a \in Actors : WF_simVars(TimerWake(a))

FairSpec == Spec /\ Fairness

-----------------------------------------------------------------------------
EnginePlaces == {"start", "start_evm", "after_step", "after_step_wait", "check", "sync", "syncing",
                 "user", "user_wait", "wait_events", "events_waiting", "events_woken", "stop_evm",
                 "stop_timer", "ended", "fini_lock", "fini_close", "fini_join", "over"}
ControllerPlaces == {"none", "queued", "sync", "syncing", "should_stop", "pop", "enqueue", "put",
                     "wait", "signal", "exit", "ended"}

(***************************************************************************)
(* TypeOK: the types of the engine's and the event manager's fields.       *)
(***************************************************************************)
TypeOK ==
    /\ Timer!TypeOK
    /\ epc \in EnginePlaces /\ estop \in BOOLEAN /\ ecur \in Nat
    /\ last \in [DOMAIN Acts -> Nat \cup {-1}]
    /\ atasks \subseteq UNION {{i} \X ActTasks(i) : i \in DOMAIN Acts}
    /\ \A i \in DOMAIN Acts : worked[i] \in [Items(i) -> Nat]
    /\ hasEvm \in BOOLEAN
    /\ execs \in [DOMAIN Acts -> SUBSET Nat]
    /\ tree \in [Times -> Seq(Events)] /\ nevents \in 0 .. MaxEvents /\ at \in [Events -> Times]
    /\ raised \in [Events -> Seq(Nat)]
    /\ evmStop \in BOOLEAN /\ evmRunning \in BOOLEAN /\ startTime \in Nat /\ lastCompletion \in Nat
    /\ vpc \in ControllerPlaces /\ vcur \in Nat /\ vstart \in Nat
    /\ batch \in Seq(Events) /\ slot \in 0 .. NWorkers
    /\ vpc \in {"enqueue", "put", "wait"} => slot \in Slots
    /\ jobs \in [Slots -> {"none", "queued", "done", "dropped"}] /\ todo \in [Slots -> Seq(Events)]
    /\ wpMutex \in {"free", "engine"} /\ qClosed \in BOOLEAN /\ woken \in Nat

(***************************************************************************)
(* RaisedOnTime: "Schedule an event to be raised at clock time": an event  *)
(* is raised at most once, when the clock shows its time, however the list *)
(* is divided among the workers and whatever else is scheduled meanwhile.  *)
(***************************************************************************)
RaisedOnTime == \A e \in Events : raised[e] \in {<<>>, <<at[e]>>}

\* the engine has left the timer and the event manager behind for this tick
StepOver == epc \in {"after_step", "after_step_wait", "check", "sync"}

(***************************************************************************)
(* NoEventMissed: when a step is over, every event whose time has come has *)
(* been raised: none is left in the tree and none in a worker.             *)
(***************************************************************************)
NoEventMissed ==
    StepOver => \A e \in 1 .. nevents : at[e] <= clock => raised[e] # <<>>

(***************************************************************************)
(* StepComplete: "Wait for the completion of all events for the specified  *)
(* clock value": after wait_event_completion no handler of the step is     *)
(* running any more, so AFTER_STEP activities have the step to themselves. *)
(***************************************************************************)
StepComplete == StepOver => \A c \in Slots : jobs[c] # "queued"

(***************************************************************************)
(* ActivityPeriod: nsteps is the "time between an execution of the         *)
(* function and the next one": when the termination condition is looked    *)
(* at, every activity was executed at time 1 and every nsteps from then.   *)
(***************************************************************************)
ActivityPeriod ==
    epc = "check" =>
        \A i \in DOMAIN Acts :
            Acts[i].type = "AFTER_STEP" \/ SimType = "ACTIVITY_SCAN" =>
                execs[i] = {t \in 1 .. clock : (t - 1) % Acts[i].nsteps = 0}

\* the activity was executed and none of its tasks is left
AllTasksDone(i) == last[i] >= 0 /\ \A task \in atasks : task[1] # i

(***************************************************************************)
(* EveryItemOnce: the tasks of _cs_bind_sim_activity begin at data_index   *)
(* and end at data_index + offset, a remainder is with the last of them:   *)
(* when the tasks of an activity are complete they have been given every   *)
(* item of its data, and none to two threads.                              *)
(***************************************************************************)
EveryItemOnce ==
    \A i \in DOMAIN Acts : AllTasksDone(i) => \A x \in Items(i) : worked[i][x] = 1

(***************************************************************************)
(* IndexedItemOnce: the same when a task is written as the comment of      *)
(* cs_tsk_data_t has it: "The user task should operate on data from        *)
(* data[index] to data[index+offset]".                                     *)
(***************************************************************************)
IndexedItemOnce ==
    \A i \in DOMAIN Acts : AllTasksDone(i) =>
        \A x \in Items(i) :
            Cardinality({c \in ActTasks(i) : x \in IndexBlock(Acts[i].items, NThreads, c)}) = 1

(***************************************************************************)
(* EndAssert: the assert at the end of _engine_main_loop: nobody moves the *)
(* clock after the engine's last look at it.                               *)
(***************************************************************************)
EndAssert == epc \in {"stop_evm", "stop_timer", "ended", "fini_lock", "fini_close", "fini_join",
                      "over"} => ecur = clock

(***************************************************************************)
(* DrainedAtEnd: an event driven simulation ends only when every event was *)
(* raised, those scheduled by the last handlers included.                  *)
(***************************************************************************)
DrainedAtEnd ==
    SimType = "EVENT_DRIVEN" /\ estop => \A e \in 1 .. nevents : raised[e] # <<>>

(***************************************************************************)
(* NumEventsIsTotal: cs_evm_num_events is "The total number of scheduled   *)
(* events".                                                                *)
(***************************************************************************)
NumEventsIsTotal ==
    NumEvents = Cardinality({e \in 1 .. nevents : \E i \in DOMAIN tree[at[e]] : tree[at[e]][i] = e})

(***************************************************************************)
(* WaitEventsReturns: the engine does not wait for ever for the completion *)
(* of the events of a tick.                                                *)
(***************************************************************************)
WaitEventsReturns == (epc = "events_waiting") ~> (epc # "events_waiting")

(***************************************************************************)
(* SimulationEnds: cs_sim_start and cs_engine_fini return: engine,         *)
(* controller, workers and timer never all wait for one another.           *)
(***************************************************************************)
SimulationEnds == <>(epc = "over")

\* the engine waits: in cs_time_sync, in wait_event_completion, in cs_wp_tsk_wait
\* of _loop_activity, and in cs_wp_shutdown for the mutex and for the threads
EngineWaits ==
    \/ epc = "syncing" /\ tpc["engine"] # "out"
    \/ epc = "events_waiting"
    \/ epc \in {"after_step_wait", "user_wait"} /\ atasks # {}
    \/ epc = "fini_lock" /\ wpMutex # "free"
    \/ epc = "fini_join" /\ (vpc # "ended" \/ \E c \in Slots : jobs[c] = "queued")

\* the controller waits: in cs_time_sync, for wp_mutex, in cs_wp_tsk_wait
ControllerWaits ==
    \/ vpc \in {"none", "ended"}
    \/ vpc = "syncing" /\ tpc["controller"] # "out"
    \/ vpc = "enqueue" /\ wpMutex # "free"
    \/ vpc = "wait" /\ jobs[slot] # "done"

\* each of the two waits, no task is left that could run, and nobody was woken
Stuck ==
    /\ EngineWaits /\ ControllerWaits
    /\ atasks = {} /\ \A c \in Slots : jobs[c] # "queued"
    /\ \A a \in Actors : tpc[a] # "woken"

(***************************************************************************)
(* StuckOnlyAtEnd: engine, controller, workers and timer never all wait    *)
(* for one another, except for one reason: the simulation has ended, there *)
(* are events for its last tick, and the controller hands them to a pool   *)
(* that cs_engine_fini is shutting down.                                   *)
(***************************************************************************)
StuckOnlyAtEnd ==
    Stuck => /\ estop /\ epc = "fini_join" /\ vpc \in {"enqueue", "wait"}
             /\ \E e \in 1 .. nevents : at[e] = ecur

(***************************************************************************)
(* ImplementsStepwise: what goes on between two ticks, on the controller,  *)
(* the event workers, the engine and its pool, is a step of                *)
(* StepwiseSimulation: "Schedule an event to be raised at clock time" for  *)
(* each event, and no tick while one that is due is open.                  *)
(***************************************************************************)
Stepwise == INSTANCE StepwiseSimulation
    WITH Event <- Events, Time <- Times, now <- clock, time <- [e \in 1 .. nevents |-> at[e]]

ImplementsStepwise == Stepwise!Spec
=============================================================================
