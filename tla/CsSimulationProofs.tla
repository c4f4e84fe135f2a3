------------------------- MODULE CsSimulationProofs -------------------------
(***************************************************************************)
(* Proofs about the whole simulation of CsSimulation: the engine, the      *)
(* event controller and its workers, and the timer they meet on, for any   *)
(* activities, any number of threads and of event workers, and any events. *)
(*                                                                         *)
(* Some theorems assume that pthread_cond_wait in wait_event_completion    *)
(* only returns after a signal (MaxSpurious = 0), that user code schedules *)
(* events for later than now (0 \notin Delays), or that there is as much   *)
(* data as threads: with the constants of SimSpurious, SimOverdue and      *)
(* SimFewItems the properties fail otherwise.  Those about deadlock assume *)
(* no network runtime, no handler that stops the controller, and that      *)
(* raising starts with the first tick (SimNetRuntime, UserStops = TRUE in  *)
(* SimEventDriven, SimStartLate).                                          *)
(***************************************************************************)
EXTENDS CsSimulation, CsSharesProofs, FiniteSetTheorems, SequenceTheorems, WellFoundedInduction

\* the controller has a list of events in hand
InBatch == vpc \in {"enqueue", "put", "wait"}

\* the engine has stopped the timer
Stopped == epc \in {"ended", "fini_lock", "fini_close", "fini_join", "over"}

\* which steps change the timer, the activities, the tree, ...
LEMMA TimerCases ==
    ASSUME [Next]_simVars
    PROVE  \/ UNCHANGED tVars
           \/ SimStart \/ EngineSync \/ CtlSync \/ StopTimer \/ \E a \in Actors : TimerWake(a)
<1>1. EngineStep => UNCHANGED tVars \/ SimStart \/ EngineSync \/ StopTimer
  BY DEF EngineStep, FirstEvent, StartController, AfterStep, AfterStepDone, CheckTermination,
         EngineSynced, UserStep, UserStepDone, WaitEvents, EventsWoken, StopController, FiniStop,
         FiniLock, FiniClose, FiniJoin
<1>2. CtlStep => UNCHANGED tVars \/ CtlSync
  BY DEF CtlStep, CtlBegin, CtlSynced, CtlShouldStop, CtlPop, CtlEnqueue, CtlPut, CtlWait,
         CtlSignal, CtlExit
<1>3. ASSUME NEW task \in atasks, ActivityTask(task)
      PROVE  UNCHANGED tVars
  BY <1>3 DEF ActivityTask
<1>4. ASSUME NEW c \in Slots, ThrowEvent(c) \/ WorkerDone(c)
      PROVE  UNCHANGED tVars
  BY <1>4 DEF ThrowEvent, WorkerDone
<1>5. SpuriousWake \/ Finished \/ UNCHANGED simVars => UNCHANGED tVars
  BY DEF SpuriousWake, Finished, simVars
<1> QED
  BY <1>1, <1>2, <1>3, <1>4, <1>5 DEF Next

LEMMA ActivityCases ==
    ASSUME [Next]_simVars
    PROVE  \/ UNCHANGED aVars
           \/ AfterStep \/ UserStep \/ \E task \in atasks : ActivityTask(task)
<1>1. EngineStep => UNCHANGED aVars \/ AfterStep \/ UserStep
  BY DEF EngineStep, FirstEvent, SimStart, StartController, AfterStepDone, CheckTermination,
         EngineSync, EngineSynced, UserStepDone, WaitEvents, EventsWoken, StopController,
         StopTimer, FiniStop, FiniLock, FiniClose, FiniJoin
<1>2. CtlStep => UNCHANGED aVars
  BY DEF CtlStep, CtlBegin, CtlSync, CtlSynced, CtlShouldStop, CtlPop, CtlEnqueue, CtlPut, CtlWait,
         CtlSignal, CtlExit
<1>3. ASSUME NEW c \in Slots, ThrowEvent(c) \/ WorkerDone(c)
      PROVE  UNCHANGED aVars
  BY <1>3 DEF ThrowEvent, WorkerDone
<1>4. ASSUME NEW a \in Actors, TimerWake(a)
      PROVE  UNCHANGED aVars
  BY <1>4 DEF TimerWake
<1>5. SpuriousWake \/ Finished \/ UNCHANGED simVars => UNCHANGED aVars
  BY DEF SpuriousWake, Finished, simVars
<1> QED
  BY <1>1, <1>2, <1>3, <1>4, <1>5 DEF Next

LEMMA TreeCases ==
    ASSUME [Next]_simVars
    PROVE  \/ UNCHANGED <<xVars, raised>>
           \/ FirstEvent \/ CtlPop
           \/ \E task \in atasks : ActivityTask(task)
           \/ \E c \in Slots : ThrowEvent(c)
<1>1. EngineStep => UNCHANGED <<xVars, raised>> \/ FirstEvent
  BY DEF EngineStep, SimStart, StartController, AfterStep, AfterStepDone, CheckTermination,
         EngineSync, EngineSynced, UserStep, UserStepDone, WaitEvents, EventsWoken, StopController,
         StopTimer, FiniStop, FiniLock, FiniClose, FiniJoin, jVars
<1>2. CtlStep => UNCHANGED <<xVars, raised>> \/ CtlPop
  BY DEF CtlStep, CtlBegin, CtlSync, CtlSynced, CtlShouldStop, CtlEnqueue, CtlPut, CtlWait,
         CtlSignal, CtlExit, jVars
<1>3. ASSUME NEW c \in Slots, WorkerDone(c)
      PROVE  UNCHANGED <<xVars, raised>>
  BY <1>3 DEF WorkerDone
<1>4. ASSUME NEW a \in Actors, TimerWake(a)
      PROVE  UNCHANGED <<xVars, raised>>
  BY <1>4 DEF TimerWake, jVars
<1>5. SpuriousWake \/ Finished \/ UNCHANGED simVars => UNCHANGED <<xVars, raised>>
  BY DEF SpuriousWake, Finished, simVars, jVars
<1> QED
  BY <1>1, <1>2, <1>3, <1>4, <1>5 DEF Next

LEMMA ControllerCases ==
    ASSUME [Next]_simVars
    PROVE  \/ UNCHANGED <<vVars, jobs, todo>>
           \/ StartController \/ CtlStep \/ \E c \in Slots : ThrowEvent(c) \/ WorkerDone(c)
<1>1. EngineStep => UNCHANGED <<vVars, jobs, todo>> \/ StartController
  BY DEF EngineStep, FirstEvent, SimStart, AfterStep, AfterStepDone, CheckTermination,
         EngineSync, EngineSynced, UserStep, UserStepDone, WaitEvents, EventsWoken, StopController,
         StopTimer, FiniStop, FiniLock, FiniClose, FiniJoin, jVars
<1>2. ASSUME NEW task \in atasks, ActivityTask(task)
      PROVE  UNCHANGED <<vVars, jobs, todo>>
  BY <1>2 DEF ActivityTask, jVars
<1>3. ASSUME NEW a \in Actors, TimerWake(a)
      PROVE  UNCHANGED <<vVars, jobs, todo>>
  BY <1>3 DEF TimerWake, jVars
<1>4. SpuriousWake \/ Finished \/ UNCHANGED simVars => UNCHANGED <<vVars, jobs, todo>>
  BY DEF SpuriousWake, Finished, simVars, jVars
<1> QED
  BY <1>1, <1>2, <1>3, <1>4 DEF Next

LEMMA EngineCases ==
    ASSUME [Next]_simVars
    PROVE  \/ UNCHANGED eVars
           \/ EngineStep \/ SpuriousWake \/ CtlSignal
<1>1. CtlStep => UNCHANGED eVars \/ CtlSignal
  BY DEF CtlStep, CtlBegin, CtlSync, CtlSynced, CtlShouldStop, CtlPop, CtlEnqueue, CtlPut, CtlWait,
         CtlExit
<1>2. ASSUME NEW task \in atasks, ActivityTask(task)
      PROVE  UNCHANGED eVars
  BY <1>2 DEF ActivityTask
<1>3. ASSUME NEW c \in Slots, ThrowEvent(c) \/ WorkerDone(c)
      PROVE  UNCHANGED eVars
  BY <1>3 DEF ThrowEvent, WorkerDone
<1>4. ASSUME NEW a \in Actors, TimerWake(a)
      PROVE  UNCHANGED eVars
  BY <1>4 DEF TimerWake
<1>5. Finished \/ UNCHANGED simVars => UNCHANGED eVars
  BY DEF Finished, simVars
<1> QED
  BY <1>1, <1>2, <1>3, <1>4, <1>5 DEF Next

-----------------------------------------------------------------------------
(***************************************************************************)
(* Types, part by part                                                     *)
(***************************************************************************)
EngineType ==
    /\ epc \in EnginePlaces /\ estop \in BOOLEAN /\ ecur \in Nat /\ hasEvm \in BOOLEAN
    /\ evmStop \in BOOLEAN /\ evmRunning \in BOOLEAN /\ startTime \in Nat /\ lastCompletion \in Nat
    /\ wpMutex \in {"free", "engine"} /\ qClosed \in BOOLEAN /\ woken \in Nat

ActivityType ==
    /\ last \in [DOMAIN Acts -> Nat \cup {-1}]
    /\ atasks \subseteq UNION {{i} \X ActTasks(i) : i \in DOMAIN Acts}
    /\ DOMAIN worked = DOMAIN Acts /\ \A i \in DOMAIN Acts : worked[i] \in [Items(i) -> Nat]
    /\ execs \in [DOMAIN Acts -> SUBSET Nat]

TreeType ==
    /\ tree \in [Times -> Seq(Events)] /\ nevents \in 0 .. MaxEvents /\ at \in [Events -> Times]
    /\ raised \in [Events -> Seq(Nat)]

ControllerType ==
    /\ vpc \in ControllerPlaces /\ vcur \in Nat /\ vstart \in Nat
    /\ batch \in Seq(Events) /\ slot \in 0 .. NWorkers
    /\ InBatch => batch # <<>> /\ slot < NTasks
    /\ jobs \in [Slots -> {"none", "queued", "done", "dropped"}] /\ todo \in [Slots -> Seq(Events)]

TypeInv == Timer!TypeOK /\ EngineType /\ ActivityType /\ TreeType /\ ControllerType

\* there are no more tasks than workers
LEMMA FewTasks ==
    ASSUME batch \in Seq(Events)
    PROVE  NTasks \in 0 .. NWorkers /\ NTasks \in 0 .. Len(batch) /\ (batch # <<>> => NTasks > 0)
<1>1. Len(batch) \in Nat /\ NWorkers \in Nat \ {0} /\ (batch # <<>> => Len(batch) > 0)
  BY SimAssumption, EmptySeq, LenProperties
<1> QED
  BY <1>1 DEF NTasks, EvTasks

LEMMA TypeInvOK == TypeInv => TypeOK
<1> SUFFICES ASSUME TypeInv PROVE TypeOK
  OBVIOUS
<1>1. vpc \in {"enqueue", "put", "wait"} => slot \in Slots
  <2> SUFFICES ASSUME InBatch PROVE slot \in Slots
    BY DEF InBatch
  <2>1. batch \in Seq(Events) /\ slot \in Nat /\ slot < NTasks
    BY DEF TypeInv, ControllerType
  <2>2. NTasks \in 0 .. NWorkers
    BY <2>1, FewTasks
  <2> QED
    BY <2>1, <2>2, SimAssumption DEF Slots
<1> QED
  BY <1>1 DEF TypeInv, TypeOK, EngineType, ActivityType, TreeType, ControllerType

LEMMA TypeInit == Init => TypeInv
<1> SUFFICES ASSUME Init PROVE TypeInv
  OBVIOUS
<1>1. Timer!TypeOK
  BY DEF Init, Timer!Init, Timer!TypeOK, Actors
<1>2. EngineType
  BY SimAssumption DEF Init, EngineType, EnginePlaces
<1>3. ActivityType
  BY DEF Init, ActivityType
<1>4. TreeType
  BY SimAssumption DEF Init, TreeType, Times, Events
<1>5. ControllerType
  BY SimAssumption DEF Init, ControllerType, ControllerPlaces, InBatch
<1> QED
  BY <1>1, <1>2, <1>3, <1>4, <1>5 DEF TypeInv

\* the places of the four callers of the timer
LEMMA TimerCalls ==
    ASSUME [Next]_simVars
    PROVE  \/ UNCHANGED tVars
           \/ epc = "start" /\ Timer!SetNsync(NActors)
           \/ epc = "sync" /\ Timer!TimeSync("engine")
           \/ vpc = "sync" /\ Timer!TimeSync("controller")
           \/ epc = "stop_timer" /\ Timer!TimeStop
           \/ \E a \in Actors : Timer!Wake(a)
BY TimerCases DEF SimStart, EngineSync, CtlSync, StopTimer, TimerWake, Engine, Controller

LEMMA TimerTypeStep ==
    ASSUME TypeInv, [Next]_simVars
    PROVE  Timer!TypeOK'
<1> USE DEF Timer!TypeOK, Timer!timerFields
<1>0. Timer!TypeOK /\ hasEvm \in BOOLEAN /\ NetRuntime \in BOOLEAN /\ Actors # {}
  BY SimAssumption DEF TypeInv, EngineType, Actors
<1>1. CASE UNCHANGED tVars
  BY <1>0, <1>1 DEF tVars
<1>2. CASE Timer!SetNsync(NActors)
  BY <1>0, <1>2 DEF Timer!SetNsync, NActors
<1>3. ASSUME NEW a \in Actors, Timer!TimeSyncRefused(a)
      PROVE  Timer!TypeOK'
  BY <1>0, <1>3 DEF Timer!TimeSyncRefused
<1>4. ASSUME NEW a \in Actors, Timer!TimeSyncTick(a)
      PROVE  Timer!TypeOK'
  BY <1>0, <1>4 DEF Timer!TimeSyncTick, Timer!Woken
<1>5. ASSUME NEW a \in Actors, Timer!TimeSyncWait(a)
      PROVE  Timer!TypeOK'
  BY <1>0, <1>5 DEF Timer!TimeSyncWait
<1>6. CASE Timer!TimeStop
  BY <1>0, <1>6 DEF Timer!TimeStop, Timer!Woken
<1>7. ASSUME NEW a \in Actors, Timer!Wake(a)
      PROVE  Timer!TypeOK'
  BY <1>0, <1>7 DEF Timer!Wake
<1>8. ASSUME NEW a \in Actors, Timer!TimeSync(a)
      PROVE  Timer!TypeOK'
  BY <1>3, <1>4, <1>5, <1>8 DEF Timer!TimeSync
<1> HIDE DEF Timer!TypeOK
<1>9. "engine" \in Actors /\ "controller" \in Actors
  BY DEF Actors
<1> QED
  BY <1>1, <1>2, <1>6, <1>7, <1>8, <1>9, TimerCalls

LEMMA EngineTypeStep ==
    ASSUME TypeInv, [Next]_simVars
    PROVE  EngineType'
<1> USE DEF EngineType, eVars, aVars, mVars, pVars
<1>0. EngineType /\ clock \in Nat /\ vcur \in Nat
  BY DEF TypeInv, Timer!TypeOK, ControllerType
<1>1. ASSUME EngineStep
      PROVE  EngineType'
  <2> USE DEF Engine, EnginePlaces
  <2>1. CASE FirstEvent \/ SimStart \/ StartController
    BY <1>0, <2>1 DEF FirstEvent, SimStart, StartController
  <2>2. CASE AfterStep \/ AfterStepDone \/ UserStep \/ UserStepDone
    BY <1>0, <2>2 DEF AfterStep, AfterStepDone, UserStep, UserStepDone, LoopActivity, AfterUser
  <2>3. CASE CheckTermination
    BY <1>0, <2>3 DEF CheckTermination
  <2>4. CASE EngineSync \/ EngineSynced
    BY <1>0, <2>4 DEF EngineSync, EngineSynced, AfterSync, AfterUser
  <2>5. CASE WaitEvents \/ EventsWoken
    BY <1>0, <2>5 DEF WaitEvents, EventsWoken
  <2>6. CASE StopController \/ StopTimer \/ FiniStop
    BY <1>0, <2>6 DEF StopController, StopTimer, FiniStop
  <2>7. CASE FiniLock \/ FiniClose \/ FiniJoin
    BY <1>0, <2>7 DEF FiniLock, FiniClose, FiniJoin
  <2> QED
    BY <1>1, <2>1, <2>2, <2>3, <2>4, <2>5, <2>6, <2>7 DEF EngineStep
<1>2. ASSUME CtlStep
      PROVE  EngineType'
  <2>1. CASE CtlBegin \/ CtlSync \/ CtlSynced \/ CtlShouldStop \/ CtlPop
    BY <1>0, <2>1 DEF CtlBegin, CtlSync, CtlSynced, CtlShouldStop, CtlPop
  <2>2. CASE CtlEnqueue \/ CtlPut \/ CtlWait \/ CtlExit
    BY <1>0, <2>2 DEF CtlEnqueue, CtlPut, CtlWait, CtlExit
  <2>3. CASE CtlSignal
    BY <1>0, <2>3 DEF CtlSignal, EnginePlaces
  <2> QED
    BY <1>2, <2>1, <2>2, <2>3 DEF CtlStep
<1>3. ASSUME NEW task \in atasks, ActivityTask(task)
      PROVE  EngineType'
  BY <1>0, <1>3 DEF ActivityTask
<1>4. ASSUME NEW c \in Slots, ThrowEvent(c)
      PROVE  EngineType'
  BY <1>0, <1>4, SimAssumption DEF ThrowEvent
<1>5. ASSUME NEW c \in Slots, WorkerDone(c)
      PROVE  EngineType'
  BY <1>0, <1>5 DEF WorkerDone
<1>6. ASSUME NEW a \in Actors, TimerWake(a)
      PROVE  EngineType'
  BY <1>0, <1>6 DEF TimerWake
<1>7. CASE SpuriousWake
  BY <1>0, <1>7 DEF SpuriousWake, Engine, EnginePlaces
<1>8. CASE Finished \/ UNCHANGED simVars
  BY <1>0, <1>8 DEF Finished, simVars
<1> HIDE DEF EngineType
<1> QED
  BY <1>1, <1>2, <1>3, <1>4, <1>5, <1>6, <1>7, <1>8 DEF Next

\* what a task or a handler of the user does to the tree
LEMMA ScheduleAdds ==
    ASSUME TreeType, NEW t, Schedule(t)
    PROVE  /\ t \in Times /\ nevents + 1 \in Events
           /\ nevents' = nevents + 1
           /\ at' = [at EXCEPT ![nevents + 1] = t]
           /\ tree' \in [Times -> Seq(Events)]
           /\ \A u \in Times : u # t => tree'[u] = tree[u]
           /\ Len(tree'[t]) = Len(tree[t]) + 1
           /\ \A i \in 1 .. Len(tree[t]) : tree'[t][i] = tree[t][i]
           /\ tree'[t][Len(tree[t]) + 1] = nevents + 1
<1>1. t \in Times /\ nevents + 1 \in Events /\ nevents' = nevents + 1
  BY SimAssumption DEF Schedule, TreeType, Events
<1>2. tree[t] \in Seq(Events) /\ tree' = [tree EXCEPT ![t] = Append(tree[t], nevents + 1)]
  BY <1>1 DEF Schedule, TreeType
<1> DEFINE s == Append(tree[t], nevents + 1)
<1>3. /\ s \in Seq(Events) /\ Len(s) = Len(tree[t]) + 1
      /\ \A i \in 1 .. Len(tree[t]) : s[i] = tree[t][i]
      /\ s[Len(tree[t]) + 1] = nevents + 1
  BY <1>1, <1>2, AppendProperties
<1>4. tree'[t] = s /\ \A u \in Times : u # t => tree'[u] = tree[u]
  BY <1>1, <1>2 DEF TreeType
<1>5. tree' \in [Times -> Seq(Events)]
  BY <1>2, <1>3 DEF TreeType
<1> HIDE DEF s
<1> QED
  BY <1>1, <1>3, <1>4, <1>5 DEF Schedule

\* the four ways in which the tree changes
LEMMA TreeMoves ==
    ASSUME TypeInv, [Next]_simVars
    PROVE  \/ UNCHANGED <<xVars, raised>>
           \/ /\ UNCHANGED raised
              /\ hasEvm
              /\ \/ epc = "start" /\ \E i \in DOMAIN InitTimes : Schedule(InitTimes[i])
                 \/ atasks # {} /\ \E d \in Delays : Schedule(clock + d)
           \/ CtlPop /\ UNCHANGED <<nevents, at, raised>>
           \/ \E c \in Slots : ThrowEvent(c)
<1>1. CASE FirstEvent
  <2>1. nevents + 1 \in DOMAIN InitTimes
    <3>1. nevents \in Nat /\ InitTimes \in Seq(Times) /\ nevents < Len(InitTimes)
      BY <1>1, SimAssumption DEF FirstEvent, TypeInv, TreeType
    <3>2. DOMAIN InitTimes = 1 .. Len(InitTimes) /\ Len(InitTimes) \in Nat
      BY <3>1, LenProperties
    <3> QED
      BY <3>1, <3>2
  <2> QED
    BY <1>1, <2>1 DEF FirstEvent, Engine, jVars
<1>2. CASE CtlPop
  BY <1>2 DEF CtlPop, jVars
<1>3. ASSUME NEW task \in atasks, ActivityTask(task)
      PROVE  \/ UNCHANGED <<xVars, raised>>
             \/ /\ UNCHANGED raised /\ hasEvm
                /\ atasks # {} /\ \E d \in Delays : Schedule(clock + d)
  BY <1>3 DEF ActivityTask, UserCode, jVars
<1> QED
  BY <1>1, <1>2, <1>3, TreeCases

LEMMA ScheduleTypes ==
    ASSUME TreeType, NEW t, Schedule(t), raised' \in [Events -> Seq(Nat)]
    PROVE  TreeType'
<1>1. t \in Times /\ nevents + 1 \in Events /\ nevents' = nevents + 1
      /\ at' = [at EXCEPT ![nevents + 1] = t] /\ tree' \in [Times -> Seq(Events)]
  BY ScheduleAdds
<1>2. nevents' \in 0 .. MaxEvents
  BY <1>1, SimAssumption DEF Events
<1> QED
  BY <1>1, <1>2 DEF TreeType

LEMMA ThrowTypes ==
    ASSUME TypeInv, NEW c \in Slots, ThrowEvent(c)
    PROVE  /\ Head(todo[c]) \in Events /\ Tail(todo[c]) \in Seq(Events)
           /\ Len(Tail(todo[c])) = Len(todo[c]) - 1 /\ Len(todo[c]) \in Nat \ {0}
           /\ \A i \in 1 .. Len(todo[c]) - 1 : Tail(todo[c])[i] = todo[c][i + 1]
           /\ Head(todo[c]) = todo[c][1]
           /\ todo' = [todo EXCEPT ![c] = Tail(todo[c])]
           /\ raised' = [raised EXCEPT ![Head(todo[c])] = Append(raised[Head(todo[c])], clock)]
           /\ raised' \in [Events -> Seq(Nat)]
<1>1. todo[c] \in Seq(Events) /\ todo[c] # <<>> /\ clock \in Nat /\ raised \in [Events -> Seq(Nat)]
  BY DEF ThrowEvent, TypeInv, ControllerType, TreeType, Timer!TypeOK
<1>2. /\ Head(todo[c]) \in Events /\ Tail(todo[c]) \in Seq(Events)
      /\ Len(Tail(todo[c])) = Len(todo[c]) - 1 /\ Len(todo[c]) \in Nat \ {0}
      /\ \A i \in 1 .. Len(Tail(todo[c])) : Tail(todo[c])[i] = todo[c][i + 1]
  BY <1>1, HeadTailProperties, EmptySeq
<1>3. /\ todo' = [todo EXCEPT ![c] = Tail(todo[c])]
      /\ raised' = [raised EXCEPT ![Head(todo[c])] = Append(raised[Head(todo[c])], clock)]
  BY DEF ThrowEvent, TypeInv, ControllerType
<1>4. Append(raised[Head(todo[c])], clock) \in Seq(Nat)
  BY <1>1, <1>2, AppendProperties
<1>5. raised' \in [Events -> Seq(Nat)]
  BY <1>1, <1>2, <1>3, <1>4
<1>6. Head(todo[c]) = todo[c][1]
  BY <1>1
<1> QED
  BY <1>2, <1>3, <1>5, <1>6

LEMMA TreeTypeStep ==
    ASSUME TypeInv, [Next]_simVars
    PROVE  TreeType'
<1>0. TreeType /\ batch \in Seq(Events)
  BY DEF TypeInv, ControllerType
<1>1. CASE UNCHANGED <<xVars, raised>>
  BY <1>0, <1>1 DEF TreeType, xVars
<1>2. ASSUME NEW t, Schedule(t), UNCHANGED raised
      PROVE  TreeType'
  <2>1. raised' \in [Events -> Seq(Nat)]
    BY <1>0, <1>2 DEF TreeType
  <2> QED
    BY <1>0, <1>2, <2>1, ScheduleTypes
<1>3. ASSUME CtlPop, UNCHANGED <<nevents, at, raised>>
      PROVE  TreeType'
  <2>1. tree' = [t \in Times |-> IF t = vcur THEN <<>> ELSE tree[t]]
    BY <1>3 DEF CtlPop
  <2> QED
    BY <1>0, <1>3, <2>1, EmptySeq DEF TreeType
<1>4. ASSUME NEW c \in Slots, ThrowEvent(c)
      PROVE  TreeType'
  <2>1. raised' \in [Events -> Seq(Nat)]
    BY <1>4, ThrowTypes
  <2>2. UNCHANGED xVars \/ \E t : Schedule(t)
    BY <1>4 DEF ThrowEvent, UserCode
  <2>3. CASE UNCHANGED xVars
    BY <1>0, <2>1, <2>3 DEF TreeType, xVars
  <2> QED
    BY <1>0, <2>1, <2>2, <2>3, ScheduleTypes
<1> QED
  BY <1>1, <1>2, <1>3, <1>4, TreeMoves

LEMMA ActivityTypeStep ==
    ASSUME TypeInv, [Next]_simVars
    PROVE  ActivityType'
<1>0. ActivityType /\ clock \in Nat
  BY DEF TypeInv, Timer!TypeOK
<1>1. CASE UNCHANGED aVars
  BY <1>0, <1>1 DEF ActivityType, aVars
<1>2. ASSUME NEW atype, LoopActivity(atype)
      PROVE  ActivityType'
  <2> DEFINE due == IF clock <= 0 THEN {} ELSE Due(atype)
  <2>1. due \subseteq DOMAIN Acts
    BY DEF Due
  <2>2. /\ last' = [i \in DOMAIN Acts |-> IF i \in due THEN clock ELSE last[i]]
        /\ execs' = [i \in DOMAIN Acts |-> IF i \in due THEN execs[i] \cup {clock} ELSE execs[i]]
        /\ atasks' = UNION {{i} \X ActTasks(i) : i \in due}
        /\ worked' = [i \in DOMAIN Acts |->
                        IF i \in due THEN [x \in Items(i) |-> 0] ELSE worked[i]]
    BY <1>2 DEF LoopActivity
  <2> HIDE DEF due
  <2>3. last' \in [DOMAIN Acts -> Nat \cup {-1}]
    BY <1>0, <2>2 DEF ActivityType
  <2>4. execs' \in [DOMAIN Acts -> SUBSET Nat]
    BY <1>0, <2>2 DEF ActivityType
  <2>5. atasks' \subseteq UNION {{i} \X ActTasks(i) : i \in DOMAIN Acts}
    BY <2>1, <2>2
  <2>6. DOMAIN worked' = DOMAIN Acts /\ \A i \in DOMAIN Acts : worked'[i] \in [Items(i) -> Nat]
    BY <1>0, <2>2 DEF ActivityType
  <2> QED
    BY <2>3, <2>4, <2>5, <2>6 DEF ActivityType
<1>3. ASSUME NEW task \in atasks, ActivityTask(task)
      PROVE  ActivityType'
  <2> DEFINE k == task[1]
             new == [x \in Items(k) |-> worked[k][x] +
                        (IF x \in Block(Acts[k].items, NThreads, task[2]) THEN 1 ELSE 0)]
  <2>1. k \in DOMAIN Acts
    BY <1>0 DEF ActivityType
  <2>2. worked' = [worked EXCEPT ![k] = new] /\ atasks' = atasks \ {task} /\ UNCHANGED <<last, execs>>
    BY <1>3 DEF ActivityTask
  <2>3. new \in [Items(k) -> Nat]
    BY <1>0, <2>1 DEF ActivityType
  <2> HIDE DEF new, k
  <2>4. DOMAIN worked' = DOMAIN Acts /\ \A i \in DOMAIN Acts : worked'[i] \in [Items(i) -> Nat]
    BY <1>0, <2>1, <2>2, <2>3 DEF ActivityType
  <2> QED
    BY <1>0, <2>2, <2>4 DEF ActivityType
<1> QED
  BY <1>1, <1>2, <1>3, ActivityCases DEF AfterStep, UserStep

\* the share of a task is a part of the list
LEMMA ShareTypes ==
    ASSUME batch \in Seq(Events), batch # <<>>, NEW c \in 0 .. NTasks - 1
    PROVE  /\ Guard(c) \in 1 .. Len(batch) /\ NumOf(c) \in Nat \ {0}
           /\ Guard(c) + NumOf(c) - 1 \in 1 .. Len(batch)
           /\ Share(c) \in Seq(Events) /\ Len(Share(c)) = NumOf(c)
           /\ \A i \in 1 .. NumOf(c) : Share(c)[i] = batch[Guard(c) + i - 1]
<1>1. Len(batch) \in Nat \ {0} /\ NWorkers \in Nat \ {0}
  BY SimAssumption, EmptySeq
<1>2. /\ Guard(c) \in 1 .. Len(batch) /\ NumOf(c) \in Nat \ {0}
      /\ Guard(c) + NumOf(c) - 1 \in 1 .. Len(batch)
  BY <1>1, SharesWithin DEF NTasks, Guard, NumOf
<1> DEFINE m == Guard(c)
           l == Guard(c) + NumOf(c) - 1
<1>3. Share(c) = SubSeq(batch, m, l)
  BY DEF Share
<1>4. m \in Int /\ l \in Int /\ \A i \in m .. l : batch[i] \in Events
  BY <1>2, LenProperties
<1>5. /\ Share(c) \in Seq(Events) /\ Len(Share(c)) = IF m <= l THEN l - m + 1 ELSE 0
      /\ \A i \in 1 .. l - m + 1 : Share(c)[i] = batch[m + i - 1]
  BY <1>3, <1>4, SubSeqProperties
<1> QED
  BY <1>2, <1>5

LEMMA ControllerTypeStep ==
    ASSUME TypeInv, [Next]_simVars
    PROVE  ControllerType'
<1> USE DEF ControllerType, ControllerPlaces, InBatch, NTasks
<1>0. ControllerType /\ clock \in Nat /\ startTime \in Nat /\ tree \in [Times -> Seq(Events)]
  BY DEF TypeInv, Timer!TypeOK, EngineType, TreeType
<1>1. CASE UNCHANGED <<vVars, jobs, todo>>
  BY <1>0, <1>1 DEF vVars
<1>2. CASE StartController
  BY <1>0, <1>2 DEF StartController, Controller, jVars
<1>3. CASE CtlBegin \/ CtlSync \/ CtlSynced \/ CtlShouldStop
  BY <1>0, <1>3 DEF CtlBegin, CtlSync, CtlSynced, CtlShouldStop, Controller, jVars
<1>4. CASE CtlPop
  <2>1. batch' \in Seq(Events) /\ slot' = 0
    BY <1>0, <1>4, EmptySeq DEF CtlPop, Listed
  <2>2. vpc' \in {"signal", "enqueue"} /\ (vpc' = "enqueue" => batch' # <<>>)
    BY <1>4 DEF CtlPop, Controller
  <2>3. batch' # <<>> => 0 < NTasks'
    <3>1. Len(batch') \in Nat /\ (batch' # <<>> => Len(batch') > 0) /\ NWorkers \in Nat \ {0}
      BY <2>1, SimAssumption, EmptySeq, LenProperties
    <3> QED
      BY <3>1 DEF EvTasks
  <2>4. UNCHANGED <<vcur, vstart, jobs, todo>>
    BY <1>4 DEF CtlPop, jVars
  <2> HIDE DEF NTasks
  <2>5. slot' \in 0 .. NWorkers
    BY <2>1, SimAssumption
  <2> QED
    BY <1>0, <2>1, <2>2, <2>3, <2>4, <2>5
<1>5. CASE CtlEnqueue
  BY <1>0, <1>5 DEF CtlEnqueue, Controller, jVars
<1>6. CASE CtlPut
  <2> HIDE DEF NTasks
  <2>1. vpc = "put" /\ slot \in Nat /\ slot < NTasks /\ batch # <<>> /\ NTasks \in 0 .. NWorkers
    BY <1>0, <1>6, FewTasks DEF CtlPut, Controller
  <2>2. /\ vpc' = IF slot + 1 < NTasks THEN "enqueue" ELSE "wait"
        /\ slot' = IF slot + 1 < NTasks THEN slot + 1 ELSE 0
        /\ UNCHANGED <<vcur, vstart, batch>>
        /\ jobs' = [jobs EXCEPT ![slot] = IF qClosed THEN "dropped" ELSE "queued"]
        /\ todo' = [todo EXCEPT ![slot] = Share(slot)]
    BY <1>6 DEF CtlPut, Controller
  <2>3. NTasks' = NTasks
    BY <2>2 DEF NTasks
  <2>4. slot' \in 0 .. NWorkers /\ slot' < NTasks
    BY <2>1, <2>2, SimAssumption
  <2>5. Share(slot) \in Seq(Events)
    <3>1. slot \in 0 .. NTasks - 1
      BY <2>1
    <3> QED
      BY <1>0, <2>1, <3>1, ShareTypes
  <2>6. jobs' \in [Slots -> {"none", "queued", "done", "dropped"}] /\ todo' \in [Slots -> Seq(Events)]
    BY <1>0, <2>2, <2>5
  <2> QED
    BY <1>0, <2>1, <2>2, <2>3, <2>4, <2>6
<1>7. CASE CtlWait
  <2> HIDE DEF NTasks
  <2>1. vpc = "wait" /\ slot \in Nat /\ slot < NTasks /\ batch # <<>> /\ NTasks \in 0 .. NWorkers
    BY <1>0, <1>7, FewTasks DEF CtlWait, Controller
  <2>2. /\ vpc' = IF slot + 1 < NTasks THEN "wait" ELSE "signal"
        /\ slot' = slot + 1 /\ UNCHANGED <<vcur, vstart, batch, jobs, todo>>
    BY <1>7 DEF CtlWait, Controller, jVars
  <2>3. NTasks' = NTasks
    BY <2>2 DEF NTasks
  <2>4. slot' \in 0 .. NWorkers /\ (vpc' = "wait" => slot' < NTasks)
    BY <2>1, <2>2, SimAssumption
  <2> QED
    BY <1>0, <2>1, <2>2, <2>3, <2>4
<1>8. CASE CtlSignal \/ CtlExit
  BY <1>0, <1>8 DEF CtlSignal, CtlExit, Controller, jVars
<1>9. ASSUME NEW c \in Slots, ThrowEvent(c)
      PROVE  ControllerType'
  <2>1. todo' = [todo EXCEPT ![c] = Tail(todo[c])] /\ Tail(todo[c]) \in Seq(Events)
    BY <1>9, ThrowTypes
  <2> QED
    BY <1>0, <1>9, <2>1 DEF ThrowEvent, vVars
<1>10. ASSUME NEW c \in Slots, WorkerDone(c)
       PROVE  ControllerType'
  BY <1>0, <1>10 DEF WorkerDone, vVars
<1> HIDE DEF ControllerType
<1> QED
  BY <1>1, <1>2, <1>3, <1>4, <1>5, <1>6, <1>7, <1>8, <1>9, <1>10, ControllerCases DEF CtlStep

\* No step spoils a type.
LEMMA TypeStep ==
    ASSUME TypeInv, [Next]_simVars
    PROVE  TypeInv'
BY TimerTypeStep, EngineTypeStep, ActivityTypeStep, TreeTypeStep, ControllerTypeStep DEF TypeInv

LEMMA TypeAlways == Spec => []TypeInv
<1>1. TypeInv /\ [Next]_simVars => TypeInv'
  BY TypeStep
<1> QED
  BY <1>1, TypeInit, PTL DEF Spec

(***************************************************************************)
(* TypeCorrect: the fields of the engine and of the event manager keep     *)
(* their types; the controller never counts past its tasks and never gives *)
(* a worker a piece of the list that lies outside of it.                   *)
(***************************************************************************)
THEOREM TypeCorrect == Spec => []TypeOK
BY TypeAlways, TypeInvOK, PTL

-----------------------------------------------------------------------------
(***************************************************************************)
(* The meeting of engine and controller on the timer.  sync counts those   *)
(* who wait, so the clock moves only when the engine and, if there is an   *)
(* event manager, the controller are both in cs_time_sync: while the       *)
(* engine is elsewhere the clock is what it read last, and while the       *)
(* controller handles a tick the clock stands at that tick.                *)
(***************************************************************************)
Handling == vpc \in {"should_stop", "pop", "enqueue", "put", "wait", "signal"}

\* the engine is in cs_time_sync and the tick it waited for has come
Passed == epc = "syncing" /\ tpc["engine"] # "waiting"

Waits(a) == IF tpc[a] = "waiting" THEN 1 ELSE 0

MeetInv ==
    /\ n_sync = IF epc = "start" THEN 2 ELSE NActors
    /\ stop = IF Stopped THEN 1 ELSE 0
    /\ epc # "syncing" => tpc["engine"] = "out"
    /\ vpc # "syncing" => tpc["controller"] = "out"
    /\ vpc # "none" \/ epc = "start_evm" => hasEvm
    /\ stop = 0 => sync = Waits("engine") + Waits("controller") /\ sync < n_sync
    /\ stop = 1 => \A a \in Actors : tpc[a] # "waiting"
    /\ clock = IF Passed THEN ecur + 1 ELSE ecur
    /\ Handling => vcur = clock

\* the steps of the engine that neither enter nor leave the timer
LEMMA EngineElsewhere ==
    ASSUME TypeInv, EngineStep \/ SpuriousWake
    PROVE  \/ SimStart \/ EngineSync \/ EngineSynced \/ StopTimer
           \/ /\ UNCHANGED <<clock, sync, n_sync, stop, tpc, ecur, hasEvm, vcur>>
              /\ epc # "syncing" /\ epc' \notin {"syncing", "start_evm"}
              /\ epc = "start" <=> epc' = "start"
              /\ Stopped <=> Stopped'
              /\ vpc' = vpc \/ (epc = "start_evm" /\ vpc = "none" /\ vpc' = "queued")
<1> USE DEF Engine, Stopped, tVars, aVars, vVars
<1>1. CASE FirstEvent \/ StartController
  BY <1>1 DEF FirstEvent, StartController
<1>2. CASE AfterStep \/ AfterStepDone \/ UserStep
  BY <1>2 DEF AfterStep, AfterStepDone, UserStep, LoopActivity
<1>3. CASE CheckTermination \/ UserStepDone \/ StopController
  BY <1>3 DEF CheckTermination, UserStepDone, AfterUser, StopController
<1>4. CASE WaitEvents \/ EventsWoken \/ SpuriousWake
  BY <1>4 DEF WaitEvents, EventsWoken, SpuriousWake
<1>5. CASE FiniStop \/ FiniLock \/ FiniClose \/ FiniJoin
  BY <1>5 DEF FiniStop, FiniLock, FiniClose, FiniJoin
<1> QED
  BY <1>1, <1>2, <1>3, <1>4, <1>5 DEF EngineStep

LEMMA NActorsValue ==
    ASSUME TypeInv
    PROVE  NActors \in 1 .. 3 /\ (hasEvm => NActors > 1)
BY SimAssumption DEF NActors, TypeInv, EngineType

LEMMA MeetStep ==
    ASSUME TypeInv, MeetInv, [Next]_simVars
    PROVE  MeetInv'
<1> USE DEF MeetInv, Passed, Waits, Handling, Stopped
<1>0. /\ clock \in Nat /\ sync \in Nat /\ n_sync \in Nat /\ stop \in {0, 1}
      /\ tpc \in [{"engine", "controller"} -> {"out", "waiting", "woken"}] /\ ecur \in Nat
      /\ Actors = {"engine", "controller"} /\ hasEvm \in BOOLEAN
  BY DEF TypeInv, Timer!TypeOK, EngineType, Actors
\* steps that leave the timer alone
<1>1. ASSUME UNCHANGED <<clock, sync, n_sync, stop, tpc, ecur, hasEvm, vcur>>,
             epc # "syncing", epc' \notin {"syncing", "start_evm"},
             epc = "start" <=> epc' = "start", Stopped <=> Stopped',
             vpc' = vpc \/ (epc = "start_evm" /\ vpc = "none" /\ vpc' = "queued")
      PROVE  MeetInv'
  BY <1>0, <1>1 DEF NActors
<1>2. ASSUME UNCHANGED <<clock, sync, n_sync, stop, tpc, eVars, hasEvm, vcur, vpc>>
      PROVE  MeetInv'
  BY <1>0, <1>2 DEF NActors, eVars
<1>3. CASE EngineSynced
  BY <1>0, <1>3 DEF EngineSynced, Engine, AfterSync, AfterUser, tVars, aVars, vVars, NActors
<1>4. ASSUME CtlStep, UNCHANGED tVars
      PROVE  MeetInv'
  <2> USE DEF Controller, tVars, aVars, eVars, NActors
  <2>1. CASE CtlBegin \/ CtlSynced
    BY <1>0, <1>4, <2>1 DEF CtlBegin, CtlSynced
  <2>2. CASE CtlShouldStop \/ CtlPop \/ CtlEnqueue \/ CtlPut \/ CtlWait \/ CtlExit
    BY <1>0, <2>2 DEF CtlShouldStop, CtlPop, CtlEnqueue, CtlPut, CtlWait, CtlExit
  <2>3. CASE CtlSignal
    BY <1>0, <2>3 DEF CtlSignal
  <2>4. CASE CtlSync
    <3>1. UNCHANGED <<clock, sync, n_sync, stop, tpc, epc, ecur, hasEvm, vcur>> /\ vpc = "sync" /\ vpc' = "syncing"
      BY <1>4, <2>4 DEF CtlSync
    <3> QED
      BY <1>0, <3>1
  <2> QED
    BY <1>4, <2>1, <2>2, <2>3, <2>4 DEF CtlStep
\* steps on the timer
<1>5. CASE SimStart
  <2>1. /\ n_sync' = NActors /\ UNCHANGED <<clock, sync, stop, tpc, ecur, hasEvm, vcur, vpc>>
        /\ epc = "start" /\ epc' = IF hasEvm THEN "start_evm" ELSE "after_step"
    BY <1>5 DEF SimStart, Engine, Timer!SetNsync, aVars, vVars
  <2>2. NActors' = NActors
    BY <2>1 DEF NActors
  <2> QED
    BY <1>0, <2>1, <2>2, NActorsValue
<1>6. CASE EngineSync
  <2>1. /\ epc = "sync" /\ epc' = "syncing" /\ UNCHANGED <<ecur, hasEvm, vcur, vpc>>
        /\ Timer!TimeSync("engine")
    BY <1>6 DEF EngineSync, Engine, aVars, vVars
  <2>2. NActors' = NActors
    BY <2>1 DEF NActors
  <2>3. stop = 0 /\ sync < n_sync /\ tpc["engine"] = "out"
    BY <2>1
  <2>4. CASE Timer!TimeSyncRefused("engine")
    BY <1>0, <2>3, <2>4 DEF Timer!TimeSyncRefused
  <2>5. CASE Timer!TimeSyncTick("engine")
    <3>1. /\ clock' = clock + 1 /\ sync' = 0 /\ sync + 1 = n_sync /\ UNCHANGED <<n_sync, stop>>
          /\ \A a \in Actors : tpc'[a] = IF tpc[a] = "waiting" THEN "woken" ELSE tpc[a]
      BY <2>5 DEF Timer!TimeSyncTick, Timer!Woken
    <3>2. ~Handling
      BY <1>0, <2>1, <2>3, <3>1, NActorsValue
    <3> QED
      BY <1>0, <2>1, <2>2, <2>3, <3>1, <3>2
  <2>6. CASE Timer!TimeSyncWait("engine")
    <3>1. /\ clock' = clock /\ sync' = sync + 1 /\ sync + 1 # n_sync /\ UNCHANGED <<n_sync, stop>>
          /\ tpc' = [tpc EXCEPT !["engine"] = "waiting"]
      BY <2>6 DEF Timer!TimeSyncWait
    <3> QED
      BY <1>0, <2>1, <2>2, <2>3, <3>1
  <2> QED
    BY <2>1, <2>4, <2>5, <2>6 DEF Timer!TimeSync
<1>7. CASE CtlSync
  <2>1. /\ vpc = "sync" /\ vpc' = "syncing" /\ UNCHANGED <<epc, ecur, hasEvm, vcur>>
        /\ Timer!TimeSync("controller")
    BY <1>7 DEF CtlSync, Controller, aVars, eVars
  <2>2. NActors' = NActors
    BY <2>1 DEF NActors
  <2>3. CASE Timer!TimeSyncRefused("controller")
    <3>1. UNCHANGED <<clock, sync, n_sync, stop, tpc>>
      BY <2>3 DEF Timer!TimeSyncRefused, Timer!timerFields
    <3> QED
      BY <1>0, <2>1, <2>2, <3>1
  <2>4. CASE Timer!TimeSyncTick("controller")
    <3>1. /\ clock' = clock + 1 /\ sync' = 0 /\ sync + 1 = n_sync /\ UNCHANGED <<n_sync, stop>>
          /\ \A a \in Actors : tpc'[a] = IF tpc[a] = "waiting" THEN "woken" ELSE tpc[a]
          /\ stop = 0
      BY <2>4 DEF Timer!TimeSyncTick, Timer!Woken
    <3>2. tpc["engine"] = "waiting"
      <4>1. hasEvm /\ tpc["controller"] = "out" /\ sync = Waits("engine") + Waits("controller")
        BY <2>1, <3>1
      <4>2. n_sync > 1
        BY <1>0, <4>1, NActorsValue
      <4>3. Waits("controller") = 0 /\ (tpc["engine"] # "waiting" => Waits("engine") = 0)
        BY <4>1
      <4> HIDE DEF MeetInv, Waits
      <4> QED
        BY <1>0, <3>1, <4>1, <4>2, <4>3
    <3> QED
      BY <1>0, <2>1, <2>2, <3>1, <3>2
  <2>5. CASE Timer!TimeSyncWait("controller")
    <3>1. /\ clock' = clock /\ sync' = sync + 1 /\ sync + 1 # n_sync /\ UNCHANGED <<n_sync, stop>>
          /\ tpc' = [tpc EXCEPT !["controller"] = "waiting"] /\ stop = 0
      BY <2>5 DEF Timer!TimeSyncWait
    <3>2. tpc'["engine"] = tpc["engine"] /\ tpc'["controller"] = "waiting"
      BY <1>0, <3>1
    <3>3. sync = Waits("engine") + Waits("controller") /\ tpc["controller"] = "out" /\ sync < n_sync
      BY <2>1, <3>1
    <3>4. sync' = Waits("engine")' + Waits("controller")' /\ sync' < n_sync'
      <4>1. /\ Waits("controller") = 0 /\ Waits("controller")' = 1 /\ Waits("engine")' = Waits("engine")
            /\ Waits("engine") \in {0, 1}
        BY <3>2, <3>3
      <4> HIDE DEF MeetInv, Waits
      <4> QED
        BY <1>0, <3>1, <3>3, <4>1
    <3>5. UNCHANGED <<epc, ecur, hasEvm, vcur, clock, n_sync, stop>> /\ vpc = "sync" /\ vpc' = "syncing"
      BY <2>1, <3>1
    <3>6. Passed' <=> Passed
      BY <3>2, <3>5
    <3>7. stop = 0 /\ ~Handling'
      BY <3>1, <3>5
    <3>8. Stopped' <=> Stopped
      BY <3>5
    <3> HIDE DEF Passed, Waits, Handling, Stopped
    <3> QED
      BY <2>2, <3>2, <3>4, <3>5, <3>6, <3>7, <3>8
  <2> QED
    BY <2>1, <2>3, <2>4, <2>5 DEF Timer!TimeSync
<1>8. CASE StopTimer
  <2>1. /\ epc = "stop_timer" /\ epc' = "ended" /\ UNCHANGED <<ecur, hasEvm, vcur, vpc>>
        /\ stop' = 1 /\ UNCHANGED <<clock, sync, n_sync>>
        /\ \A a \in Actors : tpc'[a] = IF tpc[a] = "waiting" THEN "woken" ELSE tpc[a]
    BY <1>8 DEF StopTimer, Engine, Timer!TimeStop, Timer!Woken, aVars, vVars
  <2>2. NActors' = NActors
    BY <2>1 DEF NActors
  <2> QED
    BY <1>0, <2>1, <2>2
<1>9. ASSUME NEW a \in Actors, TimerWake(a)
      PROVE  MeetInv'
  <2>1. /\ tpc[a] = "woken" /\ tpc' = [tpc EXCEPT ![a] = "out"]
        /\ UNCHANGED <<clock, sync, n_sync, stop, epc, ecur, hasEvm, vcur, vpc>>
    BY <1>9 DEF TimerWake, Timer!Wake, Timer!timerFields, eVars, aVars, vVars
  <2>2. NActors' = NActors
    BY <2>1 DEF NActors
  <2> QED
    BY <1>0, <2>1, <2>2
\* nothing of this changes
<1>10. ASSUME NEW task \in atasks, ActivityTask(task)
       PROVE  UNCHANGED <<clock, sync, n_sync, stop, tpc, eVars, hasEvm, vcur, vpc>>
  BY <1>10 DEF ActivityTask, tVars, vVars
<1>11. ASSUME NEW c \in Slots, ThrowEvent(c) \/ WorkerDone(c)
       PROVE  UNCHANGED <<clock, sync, n_sync, stop, tpc, eVars, hasEvm, vcur, vpc>>
  BY <1>11 DEF ThrowEvent, WorkerDone, tVars, vVars, aVars
<1>12. ASSUME Finished \/ UNCHANGED simVars
       PROVE  UNCHANGED <<clock, sync, n_sync, stop, tpc, eVars, hasEvm, vcur, vpc>>
  BY <1>12 DEF Finished, simVars, tVars, vVars, aVars
<1>13. CtlStep => CtlSync \/ UNCHANGED tVars
  BY DEF CtlStep, CtlBegin, CtlSynced, CtlShouldStop, CtlPop, CtlEnqueue, CtlPut, CtlWait,
         CtlSignal, CtlExit
<1> HIDE DEF MeetInv, Passed, Waits, Handling, Stopped
<1>14. ASSUME EngineStep \/ SpuriousWake
       PROVE  MeetInv'
  BY <1>1, <1>3, <1>5, <1>6, <1>8, <1>14, EngineElsewhere
<1> QED
  BY <1>2, <1>4, <1>7, <1>9, <1>10, <1>11, <1>12, <1>13, <1>14 DEF Next

LEMMA MeetAlways == Spec => [](TypeInv /\ MeetInv)
<1>1. Init => MeetInv
  BY SimAssumption DEF Init, Timer!Init, MeetInv, Passed, Waits, Handling, Stopped, Actors
<1>2. TypeInv /\ MeetInv /\ [Next]_simVars => MeetInv'
  BY MeetStep
<1> QED
  BY <1>1, <1>2, TypeAlways, PTL DEF Spec

(***************************************************************************)
(* EndAssertHolds: the assert at the end of _engine_main_loop never fails: *)
(* whatever the controller and the user's handlers do, the clock has not   *)
(* moved since the engine read it for the last time.                       *)
(***************************************************************************)
THEOREM EndAssertHolds == Spec => []EndAssert
<1>1. TypeInv /\ MeetInv => EndAssert
  BY DEF MeetInv, EndAssert, Passed
<1> QED
  BY <1>1, MeetAlways, PTL

-----------------------------------------------------------------------------
(***************************************************************************)
(* The tasks of the controller: a task is queued only while the controller *)
(* has the list in hand, and what it has still to raise is the end of its  *)
(* share of the list.                                                      *)
(***************************************************************************)
Enqueued(c) == c < NTasks /\ (vpc = "wait" \/ c < slot)

EndOf(c) == Guard(c) + NumOf(c) - 1

ShareInv ==
    /\ ~InBatch => \A c \in Slots : jobs[c] # "queued"
    /\ InBatch =>
          /\ \A c \in Slots : jobs[c] = "queued" => Enqueued(c)
          /\ vpc = "wait" => \A c \in Slots : c < slot => jobs[c] = "done"
          /\ \A c \in Slots : Enqueued(c) =>
                /\ jobs[c] = "done" => todo[c] = <<>>
                /\ Len(todo[c]) <= NumOf(c)
                /\ \A j \in 1 .. Len(todo[c]) : todo[c][j] = batch[EndOf(c) - Len(todo[c]) + j]

\* the slots are numbers, and the tasks of a list have slots
LEMMA SlotsAreNumbers ==
    ASSUME TypeInv
    PROVE  /\ Slots \subseteq Nat /\ slot \in Nat /\ NTasks \in Nat
           /\ \A c \in Nat : c < NTasks => c \in Slots
           /\ \A c \in Slots : Len(todo[c]) \in Nat
<1>1. batch \in Seq(Events) /\ slot \in Nat /\ todo \in [Slots -> Seq(Events)]
  BY DEF TypeInv, ControllerType
<1>2. NTasks \in 0 .. NWorkers /\ NWorkers \in Nat
  BY <1>1, FewTasks, SimAssumption
<1>3. \A c \in Slots : Len(todo[c]) \in Nat
  BY <1>1, LenProperties
<1>4. Slots \subseteq Nat /\ \A c \in Nat : c < NTasks => c \in Slots
  BY <1>2 DEF Slots
<1> QED
  BY <1>1, <1>2, <1>3, <1>4

\* while a list is in hand, where the share of each task lies
LEMMA EndOfTypes ==
    ASSUME TypeInv, InBatch, NEW c \in Slots, c < NTasks
    PROVE  /\ Guard(c) \in 1 .. Len(batch) /\ NumOf(c) \in Nat \ {0} /\ EndOf(c) \in 1 .. Len(batch)
           /\ c \in 0 .. NTasks - 1
           /\ EvShare(Len(batch), NWorkers, c) = Guard(c) .. EndOf(c)
<1>1. batch \in Seq(Events) /\ batch # <<>>
  BY DEF TypeInv, ControllerType
<1>2. c \in 0 .. NTasks - 1
  BY SlotsAreNumbers
<1> QED
  BY <1>1, <1>2, ShareTypes DEF EndOf, EvShare, Guard, NumOf

LEMMA ShareStep ==
    ASSUME TypeInv, ShareInv, [Next]_simVars
    PROVE  ShareInv'
<1>0. /\ Slots \subseteq Nat /\ slot \in Nat /\ NTasks \in Nat
      /\ jobs \in [Slots -> {"none", "queued", "done", "dropped"}] /\ todo \in [Slots -> Seq(Events)]
      /\ \A c \in Slots : Len(todo[c]) \in Nat
  BY SlotsAreNumbers DEF TypeInv, ControllerType
<1>1. ASSUME UNCHANGED batch
      PROVE  NTasks' = NTasks /\ \A c \in Slots : EndOf(c)' = EndOf(c) /\ NumOf(c)' = NumOf(c)
  BY <1>1 DEF NTasks, EndOf, Guard, NumOf
<1>2. ASSUME UNCHANGED <<jobs, todo, batch, slot>>, vpc' = vpc \/ (InBatch /\ InBatch' /\ vpc # "wait" /\ vpc' # "wait")
      PROVE  ShareInv'
  <2>1. (InBatch' <=> InBatch) /\ (vpc' = "wait" <=> vpc = "wait")
    BY <1>2 DEF InBatch
  <2>2. \A c \in Slots : Enqueued(c)' <=> Enqueued(c)
    BY <1>1, <1>2, <2>1 DEF Enqueued
  <2> QED
    BY <1>1, <1>2, <2>1, <2>2 DEF ShareInv
<1>3. ASSUME ~InBatch, ~InBatch', UNCHANGED jobs
      PROVE  ShareInv'
  BY <1>3 DEF ShareInv
<1>4. CASE UNCHANGED <<vVars, jobs, todo>>
  BY <1>2, <1>4 DEF vVars
<1>5. CASE StartController
  <2>1. UNCHANGED <<jobs, todo, batch, slot>> /\ (vpc' = vpc \/ (vpc = "none" /\ vpc' = "queued"))
    BY <1>5 DEF StartController, jVars
  <2> QED
    BY <1>2, <1>3, <2>1 DEF InBatch
<1>6. CASE CtlBegin \/ CtlSync \/ CtlSynced \/ CtlShouldStop \/ CtlSignal \/ CtlExit
  <2>1. ~InBatch /\ ~InBatch' /\ UNCHANGED jobs
    BY <1>6 DEF CtlBegin, CtlSync, CtlSynced, CtlShouldStop, CtlSignal, CtlExit, Controller, InBatch, jVars
  <2> QED
    BY <1>3, <2>1
<1>7. CASE CtlPop
  <2>1. ~InBatch /\ vpc' # "wait" /\ slot' = 0 /\ UNCHANGED jobs
    BY <1>7 DEF CtlPop, Controller, InBatch, jVars
  <2>2. \A c \in Slots : ~Enqueued(c)'
    BY <1>0, <2>1 DEF Enqueued
  <2>3. \A c \in Slots : jobs'[c] # "queued"
    BY <2>1 DEF ShareInv
  <2> QED
    BY <2>1, <2>2, <2>3 DEF ShareInv
<1>8. CASE CtlEnqueue
  BY <1>2, <1>8 DEF CtlEnqueue, Controller, InBatch, jVars
<1>9. CASE CtlPut
  <2>1. /\ vpc = "put" /\ InBatch /\ InBatch'
        /\ vpc' = IF slot + 1 < NTasks THEN "enqueue" ELSE "wait"
        /\ slot' = IF slot + 1 < NTasks THEN slot + 1 ELSE 0
        /\ UNCHANGED batch
        /\ jobs' = [jobs EXCEPT ![slot] = IF qClosed THEN "dropped" ELSE "queued"]
        /\ todo' = [todo EXCEPT ![slot] = Share(slot)]
    BY <1>9 DEF CtlPut, Controller, InBatch
  <2>2. slot < NTasks /\ batch \in Seq(Events) /\ batch # <<>>
    BY <2>1 DEF TypeInv, ControllerType
  <2>3. slot \in Slots /\ slot \in 0 .. NTasks - 1
    BY <1>0, <2>2, SlotsAreNumbers
  <2>4. \A c \in Slots : Enqueued(c)' <=> Enqueued(c) \/ c = slot
    BY <1>0, <1>1, <2>1, <2>2 DEF Enqueued
  <2>5. ASSUME NEW c \in Slots, c # slot
        PROVE  /\ jobs'[c] = jobs[c] /\ todo'[c] = todo[c]
    BY <1>0, <2>1, <2>5
  <2>6. /\ jobs'[slot] # "done" /\ todo'[slot] = Share(slot)
    BY <1>0, <2>1, <2>3
  <2>7. /\ Len(todo'[slot]) <= NumOf(slot)
        /\ \A j \in 1 .. Len(todo'[slot]) : todo'[slot][j] = batch[EndOf(slot) - Len(todo'[slot]) + j]
    <3>1. /\ Guard(slot) \in 1 .. Len(batch) /\ NumOf(slot) \in Nat \ {0} /\ Len(Share(slot)) = NumOf(slot)
          /\ \A i \in 1 .. NumOf(slot) : Share(slot)[i] = batch[Guard(slot) + i - 1]
      BY <2>2, <2>3, ShareTypes
    <3>2. Guard(slot) \in Int
      BY <3>1, <2>2, LenProperties
    <3>3. \A j \in Nat : EndOf(slot) - NumOf(slot) + j = Guard(slot) + j - 1
      BY <3>1, <3>2 DEF EndOf
    <3>4. ASSUME NEW j \in 1 .. NumOf(slot)
          PROVE  Share(slot)[j] = batch[EndOf(slot) - NumOf(slot) + j]
      <4>1. j \in Nat
        BY <3>1
      <4>2. EndOf(slot) - NumOf(slot) + j = Guard(slot) + j - 1
        BY <3>3, <4>1
      <4> QED
        BY <3>1, <4>2
    <3>5. NumOf(slot) <= NumOf(slot)
      BY <3>1
    <3> QED
      BY <2>6, <3>1, <3>4, <3>5
  <2>8. \A c \in Slots : jobs'[c] = "queued" => Enqueued(c)'
    BY <2>1, <2>4, <2>5 DEF ShareInv
  <2>9. vpc' = "wait" => \A c \in Slots : c < slot' => jobs'[c] = "done"
    BY <1>0, <2>1
  <2>10. ASSUME NEW c \in Slots, Enqueued(c)'
         PROVE  /\ jobs'[c] = "done" => todo'[c] = <<>>
                /\ Len(todo'[c]) <= NumOf(c)
                /\ \A j \in 1 .. Len(todo'[c]) : todo'[c][j] = batch[EndOf(c) - Len(todo'[c]) + j]
    <3>1. CASE c = slot
      BY <2>6, <2>7, <3>1
    <3>2. CASE c # slot
      BY <2>1, <2>4, <2>5, <2>10, <3>2 DEF ShareInv
    <3> QED
      BY <3>1, <3>2
  <2>11. batch' = batch /\ \A c \in Slots : EndOf(c)' = EndOf(c) /\ NumOf(c)' = NumOf(c)
    BY <1>1, <2>1
  <2> QED
    BY <2>1, <2>8, <2>9, <2>10, <2>11 DEF ShareInv
<1>10. CASE CtlWait
  <2>1. /\ vpc = "wait" /\ InBatch /\ vpc' = IF slot + 1 < NTasks THEN "wait" ELSE "signal"
        /\ slot' = slot + 1 /\ UNCHANGED <<batch, jobs, todo>> /\ jobs[slot] = "done"
    BY <1>10 DEF CtlWait, Controller, InBatch, jVars
  <2>2. \A c \in Slots : c < slot + 1 => jobs[c] = "done"
    <3>1. \A c \in Slots : c < slot => jobs[c] = "done"
      BY <2>1 DEF ShareInv
    <3>2. \A c \in Slots : c < slot + 1 => c < slot \/ c = slot
      BY <1>0
    <3> QED
      BY <2>1, <3>1, <3>2
  <2>3. CASE slot + 1 < NTasks
    <3>1. InBatch' /\ vpc' = "wait"
      BY <2>1, <2>3 DEF InBatch
    <3>2. \A c \in Slots : Enqueued(c)' <=> Enqueued(c)
      BY <1>1, <2>1, <3>1 DEF Enqueued
    <3> QED
      BY <1>1, <2>1, <2>2, <3>1, <3>2 DEF ShareInv
  <2>4. CASE ~(slot + 1 < NTasks)
    <3>1. ~InBatch'
      BY <2>1, <2>4 DEF InBatch
    <3>2. \A c \in Slots : jobs[c] = "queued" => c < NTasks
      BY <2>1 DEF ShareInv, Enqueued
    <3>3. \A c \in Slots : jobs[c] # "queued"
      BY <1>0, <2>2, <2>4, <3>2
    <3> QED
      BY <2>1, <3>1, <3>3 DEF ShareInv
  <2> QED
    BY <2>3, <2>4
<1>11. ASSUME NEW c \in Slots, ThrowEvent(c)
       PROVE  ShareInv'
  <2>1. /\ jobs[c] = "queued" /\ UNCHANGED <<vpc, slot, batch, jobs>>
        /\ todo' = [todo EXCEPT ![c] = Tail(todo[c])]
        /\ Len(Tail(todo[c])) = Len(todo[c]) - 1 /\ Len(todo[c]) \in Nat \ {0}
        /\ \A i \in 1 .. Len(todo[c]) - 1 : Tail(todo[c])[i] = todo[c][i + 1]
    BY <1>11, ThrowTypes DEF ThrowEvent, vVars
  <2>2. InBatch /\ InBatch' /\ Enqueued(c) /\ \A d \in Slots : Enqueued(d)' <=> Enqueued(d)
    BY <1>1, <2>1 DEF ShareInv, InBatch, Enqueued
  <2>3. NumOf(c) \in Nat /\ EndOf(c) \in Int
    <3>1. c < NTasks
      BY <2>2 DEF Enqueued
    <3>2. Len(batch) \in Nat
      BY LenProperties DEF TypeInv, ControllerType
    <3> QED
      BY <2>2, <3>1, <3>2, EndOfTypes
  <2>4. /\ Len(Tail(todo[c])) <= NumOf(c)
        /\ \A j \in 1 .. Len(Tail(todo[c])) : Tail(todo[c])[j] = batch[EndOf(c) - Len(Tail(todo[c])) + j]
    <3>1. /\ Len(todo[c]) <= NumOf(c)
          /\ \A j \in 1 .. Len(todo[c]) : todo[c][j] = batch[EndOf(c) - Len(todo[c]) + j]
      BY <2>2 DEF ShareInv
    <3> DEFINE n == Len(todo[c])
               rest == Tail(todo[c])
    <3>0. n \in Nat \ {0} /\ Len(rest) = n - 1 /\ \A i \in 1 .. n - 1 : rest[i] = todo[c][i + 1]
      BY <2>1
    <3> HIDE DEF n, rest
    <3>2. ASSUME NEW j \in 1 .. Len(rest)
          PROVE  rest[j] = batch[EndOf(c) - Len(rest) + j]
      <4>1. j + 1 \in 1 .. n /\ j \in 1 .. n - 1
        BY <3>0
      <4>2. EndOf(c) - n + (j + 1) = EndOf(c) - Len(rest) + j
        BY <2>3, <3>0
      <4> QED
        BY <3>0, <3>1, <4>1, <4>2 DEF n
    <3>3. Len(rest) <= NumOf(c)
      BY <2>3, <3>0, <3>1 DEF n
    <3> QED
      BY <3>2, <3>3 DEF rest
  <2>5. ASSUME NEW d \in Slots, Enqueued(d)
        PROVE  /\ jobs'[d] = "done" => todo'[d] = <<>>
               /\ Len(todo'[d]) <= NumOf(d)
               /\ \A j \in 1 .. Len(todo'[d]) : todo'[d][j] = batch[EndOf(d) - Len(todo'[d]) + j]
    <3>1. CASE d = c
      <4>1. todo'[c] = Tail(todo[c])
        BY <1>0, <2>1
      <4> QED
        BY <2>1, <2>4, <3>1, <4>1, ZenonT(60)
    <3>2. CASE d # c
      <4>1. todo'[d] = todo[d]
        BY <1>0, <2>1, <3>2
      <4>2. /\ jobs[d] = "done" => todo[d] = <<>>
            /\ Len(todo[d]) <= NumOf(d)
            /\ \A j \in 1 .. Len(todo[d]) : todo[d][j] = batch[EndOf(d) - Len(todo[d]) + j]
        BY <2>2, <2>5 DEF ShareInv
      <4> QED
        BY <2>1, <4>1, <4>2
    <3> QED
      BY <3>1, <3>2
  <2> QED
    BY <1>1, <2>1, <2>2, <2>5 DEF ShareInv
<1>12. ASSUME NEW c \in Slots, WorkerDone(c)
       PROVE  ShareInv'
  <2>1. /\ jobs[c] = "queued" /\ todo[c] = <<>> /\ UNCHANGED <<vpc, slot, batch, todo>>
        /\ jobs' = [jobs EXCEPT ![c] = "done"]
    BY <1>12 DEF WorkerDone, vVars
  <2>2. InBatch /\ InBatch' /\ \A d \in Slots : Enqueued(d)' <=> Enqueued(d)
    BY <1>1, <2>1 DEF ShareInv, InBatch, Enqueued
  <2>3. \A d \in Slots : jobs'[d] = IF d = c THEN "done" ELSE jobs[d]
    BY <1>0, <2>1
  <2> QED
    BY <1>1, <2>1, <2>2, <2>3 DEF ShareInv
<1> QED
  BY <1>4, <1>5, <1>6, <1>7, <1>8, <1>9, <1>10, <1>11, <1>12, ControllerCases DEF CtlStep

LEMMA ShareAlways == Spec => [](TypeInv /\ MeetInv /\ ShareInv)
<1>1. Init => ShareInv
  BY DEF Init, ShareInv, InBatch
<1>2. TypeInv /\ ShareInv /\ [Next]_simVars => ShareInv'
  BY ShareStep
<1> QED
  BY <1>1, <1>2, MeetAlways, PTL DEF Spec

-----------------------------------------------------------------------------
(***************************************************************************)
(* The events.  The lists of the tree and the list in hand hold events of  *)
(* their time, each event once ...                                         *)
(***************************************************************************)
PlaceInv ==
    /\ \A t \in Times : \A i \in 1 .. Len(tree[t]) :
          tree[t][i] <= nevents /\ at[tree[t][i]] = t
    /\ \A t \in Times : \A i, j \in 1 .. Len(tree[t]) : tree[t][i] = tree[t][j] => i = j
    /\ InBatch => \A i \in 1 .. Len(batch) : batch[i] <= nevents /\ at[batch[i]] = vcur
    /\ InBatch => \A i, j \in 1 .. Len(batch) : batch[i] = batch[j] => i = j
    /\ InBatch => \A i \in 1 .. Len(batch) :
                     \A t \in Times : \A j \in 1 .. Len(tree[t]) : tree[t][j] # batch[i]

(***************************************************************************)
(* ... an event in the tree was not raised, and one that was not raised is *)
(* in the tree or in the list in hand, so none is lost ...                 *)
(***************************************************************************)
EventInv ==
    /\ \A t \in Times : \A i \in 1 .. Len(tree[t]) : raised[tree[t][i]] = <<>>
    /\ \A e \in Events : e > nevents => raised[e] = <<>>
    /\ RaisedOnTime
    /\ \A e \in 1 .. nevents : raised[e] = <<>> =>
          \/ \E i \in 1 .. Len(tree[at[e]]) : tree[at[e]][i] = e
          \/ InBatch /\ \E i \in 1 .. Len(batch) : batch[i] = e

(***************************************************************************)
(* ... and of the list in hand each task has raised the beginning of its   *)
(* share.                                                                  *)
(***************************************************************************)
HandRaised(c, i) == Enqueued(c) /\ i <= EndOf(c) - Len(todo[c])

HandInv ==
    InBatch => \A c \in 0 .. NTasks - 1 : \A i \in EvShare(Len(batch), NWorkers, c) :
                  raised[batch[i]] = IF HandRaised(c, i) THEN <<vcur>> ELSE <<>>

\* at most one event, a new one, is added at the end of the list of its time
Grown ==
    /\ nevents' \in {nevents, nevents + 1}
    /\ \A e \in 1 .. nevents : at'[e] = at[e]
    /\ \A t \in Times :
          /\ Len(tree'[t]) \in {Len(tree[t]), Len(tree[t]) + 1}
          /\ \A i \in 1 .. Len(tree[t]) : tree'[t][i] = tree[t][i]
          /\ Len(tree'[t]) = Len(tree[t]) + 1 =>
                nevents' = nevents + 1 /\ tree'[t][Len(tree[t]) + 1] = nevents + 1 /\ at'[nevents + 1] = t
    /\ nevents' = nevents + 1 =>
          /\ nevents + 1 \in Events /\ at'[nevents + 1] \in Times
          /\ Len(tree'[at'[nevents + 1]]) = Len(tree[at'[nevents + 1]]) + 1

LEMMA TreeNumbers ==
    ASSUME TypeInv
    PROVE  /\ nevents \in Nat /\ Events \subseteq Nat \ {0} /\ 1 .. nevents \subseteq Events
           /\ \A t \in Times : /\ Len(tree[t]) \in Nat
                               /\ \A i \in 1 .. Len(tree[t]) : tree[t][i] \in Events
           /\ Len(batch) \in Nat /\ \A i \in 1 .. Len(batch) : batch[i] \in Events
           /\ \A e \in Events : at[e] \in Times
<1>1. /\ nevents \in 0 .. MaxEvents /\ tree \in [Times -> Seq(Events)] /\ batch \in Seq(Events)
      /\ at \in [Events -> Times] /\ MaxEvents \in Nat
  BY SimAssumption DEF TypeInv, TreeType, ControllerType
<1>2. nevents \in Nat /\ Events \subseteq Nat \ {0} /\ 1 .. nevents \subseteq Events
  BY <1>1 DEF Events
<1>3. ASSUME NEW t \in Times
      PROVE  Len(tree[t]) \in Nat /\ \A i \in 1 .. Len(tree[t]) : tree[t][i] \in Events
  <2>1. tree[t] \in Seq(Events)
    BY <1>1
  <2> QED
    BY <2>1, LenProperties
<1>4. Len(batch) \in Nat /\ \A i \in 1 .. Len(batch) : batch[i] \in Events
  BY <1>1, LenProperties
<1> QED
  BY <1>1, <1>2, <1>3, <1>4

LEMMA UserGrows ==
    ASSUME TypeInv, UNCHANGED xVars \/ \E t : Schedule(t)
    PROVE  Grown
<1>0. TreeType
  BY DEF TypeInv
<1>1. CASE UNCHANGED xVars
  <2>1. nevents \in Nat /\ \A t \in Times : Len(tree[t]) \in Nat
    BY TreeNumbers
  <2>2. tree' = tree /\ nevents' = nevents /\ at' = at
    BY <1>1 DEF xVars
  <2>3. \A t \in Times : Len(tree[t]) # Len(tree[t]) + 1
    BY <2>1
  <2>4. nevents # nevents + 1
    BY <2>1
  <2> QED
    BY <2>2, <2>3, <2>4 DEF Grown
<1>2. ASSUME NEW t, Schedule(t)
      PROVE  Grown
  <2>1. /\ t \in Times /\ nevents + 1 \in Events
        /\ nevents' = nevents + 1
        /\ at' = [at EXCEPT ![nevents + 1] = t]
        /\ \A u \in Times : u # t => tree'[u] = tree[u]
        /\ Len(tree'[t]) = Len(tree[t]) + 1
        /\ \A i \in 1 .. Len(tree[t]) : tree'[t][i] = tree[t][i]
        /\ tree'[t][Len(tree[t]) + 1] = nevents + 1
    BY <1>0, <1>2, ScheduleAdds
  <2>2. nevents \in Nat /\ \A u \in Times : Len(tree[u]) \in Nat
    BY TreeNumbers
  <2>3. at'[nevents + 1] = t /\ \A e \in 1 .. nevents : at'[e] = at[e]
    <3>1. at \in [Events -> Times] /\ 1 .. nevents \subseteq Events
      BY <1>0, TreeNumbers DEF TreeType
    <3>2. \A e \in 1 .. nevents : e # nevents + 1
      BY <2>2
    <3> QED
      BY <2>1, <3>1, <3>2
  <2>4. ASSUME NEW u \in Times
        PROVE  /\ Len(tree'[u]) \in {Len(tree[u]), Len(tree[u]) + 1}
               /\ \A i \in 1 .. Len(tree[u]) : tree'[u][i] = tree[u][i]
               /\ Len(tree'[u]) = Len(tree[u]) + 1 =>
                     nevents' = nevents + 1 /\ tree'[u][Len(tree[u]) + 1] = nevents + 1 /\ at'[nevents + 1] = u
    <3>1. CASE u = t
      BY <2>1, <2>3, <3>1
    <3>2. CASE u # t
      <4>1. tree'[u] = tree[u] /\ Len(tree[u]) # Len(tree[u]) + 1
        BY <2>1, <2>2, <3>2
      <4> QED
        BY <4>1
    <3> QED
      BY <3>1, <3>2
  <2>5. /\ nevents + 1 \in Events /\ at'[nevents + 1] \in Times
        /\ Len(tree'[at'[nevents + 1]]) = Len(tree[at'[nevents + 1]]) + 1
    BY <2>1, <2>3
  <2>6. nevents' \in {nevents, nevents + 1}
    BY <2>1
  <2> QED
    BY <2>3, <2>4, <2>5, <2>6 DEF Grown
<1> QED
  BY <1>1, <1>2

\* an entry of the tree after it has grown is an old one or the new event
LEMMA GrownEntry ==
    ASSUME TypeInv, Grown, NEW t \in Times, NEW i \in 1 .. Len(tree'[t])
    PROVE  \/ i \in 1 .. Len(tree[t]) /\ tree'[t][i] = tree[t][i]
           \/ /\ i = Len(tree[t]) + 1 /\ tree'[t][i] = nevents + 1 /\ nevents' = nevents + 1
              /\ at'[nevents + 1] = t
<1>1. Len(tree[t]) \in Nat
  BY TreeNumbers
<1>2. /\ Len(tree'[t]) \in {Len(tree[t]), Len(tree[t]) + 1}
      /\ \A j \in 1 .. Len(tree[t]) : tree'[t][j] = tree[t][j]
      /\ Len(tree'[t]) = Len(tree[t]) + 1 =>
            nevents' = nevents + 1 /\ tree'[t][Len(tree[t]) + 1] = nevents + 1 /\ at'[nevents + 1] = t
  BY DEF Grown
<1>3. CASE i \in 1 .. Len(tree[t])
  BY <1>2, <1>3
<1>4. CASE i \notin 1 .. Len(tree[t])
  <2>1. Len(tree'[t]) = Len(tree[t]) + 1 /\ i = Len(tree[t]) + 1
    BY <1>1, <1>2, <1>4
  <2> QED
    BY <1>2, <2>1
<1> QED
  BY <1>3, <1>4

LEMMA PlaceGrows ==
    ASSUME TypeInv, PlaceInv, Grown, UNCHANGED <<vpc, batch, vcur>>
    PROVE  PlaceInv'
<1>0. /\ nevents \in Nat /\ nevents' \in {nevents, nevents + 1}
      /\ \A e \in 1 .. nevents : at'[e] = at[e]
      /\ Events \subseteq Nat \ {0} /\ (InBatch' <=> InBatch)
      /\ \A i \in 1 .. Len(batch) : batch[i] \in Events
  BY TreeNumbers DEF Grown, InBatch
<1>1. ASSUME NEW t \in Times, NEW i \in 1 .. Len(tree[t])
      PROVE  tree[t][i] \in 1 .. nevents /\ at'[tree[t][i]] = t
  <2>1. tree[t][i] \in Events /\ tree[t][i] <= nevents /\ at[tree[t][i]] = t
    BY TreeNumbers DEF PlaceInv
  <2>2. tree[t][i] \in 1 .. nevents
    <3>1. nevents \in Nat /\ tree[t][i] \in Nat \ {0} /\ tree[t][i] <= nevents
      BY <1>0, <2>1
    <3> QED
      BY <3>1
  <2> QED
    BY <1>0, <2>1, <2>2
<1>2. ASSUME NEW t \in Times, NEW i \in 1 .. Len(tree'[t])
      PROVE  tree'[t][i] <= nevents' /\ at'[tree'[t][i]] = t
  <2>1. CASE i \in 1 .. Len(tree[t]) /\ tree'[t][i] = tree[t][i]
    <3>1. tree[t][i] \in 1 .. nevents /\ at'[tree[t][i]] = t
      BY <1>1, <2>1
    <3>2. tree[t][i] <= nevents'
      BY <1>0, <3>1
    <3> QED
      BY <2>1, <3>1, <3>2
  <2>2. CASE tree'[t][i] = nevents + 1 /\ nevents' = nevents + 1 /\ at'[nevents + 1] = t
    BY <1>0, <2>2
  <2> QED
    BY <2>1, <2>2, GrownEntry
<1>3. ASSUME NEW t \in Times, NEW i \in 1 .. Len(tree'[t]), NEW j \in 1 .. Len(tree'[t]),
             tree'[t][i] = tree'[t][j]
      PROVE  i = j
  <2>1. \/ i \in 1 .. Len(tree[t]) /\ tree'[t][i] = tree[t][i]
        \/ i = Len(tree[t]) + 1 /\ tree'[t][i] = nevents + 1
    BY GrownEntry
  <2>2. \/ j \in 1 .. Len(tree[t]) /\ tree'[t][j] = tree[t][j]
        \/ j = Len(tree[t]) + 1 /\ tree'[t][j] = nevents + 1
    BY GrownEntry
  <2>3. ASSUME NEW k \in 1 .. Len(tree[t])
        PROVE  tree[t][k] # nevents + 1
    <3>1. tree[t][k] \in 1 .. nevents
      BY <1>1
    <3> QED
      BY <1>0, <3>1
  <2>4. \A k, l \in 1 .. Len(tree[t]) : tree[t][k] = tree[t][l] => k = l
    BY DEF PlaceInv
  <2>5. CASE i \in 1 .. Len(tree[t]) /\ tree'[t][i] = tree[t][i]
    BY <1>3, <2>2, <2>3, <2>4, <2>5
  <2>6. CASE i = Len(tree[t]) + 1 /\ tree'[t][i] = nevents + 1
    BY <1>3, <2>2, <2>3, <2>6
  <2> QED
    BY <2>1, <2>5, <2>6
<1>4. ASSUME InBatch, NEW i \in 1 .. Len(batch)
      PROVE  /\ batch[i] <= nevents' /\ at'[batch[i]] = vcur
             /\ \A t \in Times : \A j \in 1 .. Len(tree'[t]) : tree'[t][j] # batch[i]
  <2>1. batch[i] \in Events /\ batch[i] <= nevents /\ at[batch[i]] = vcur
    BY <1>0, <1>4 DEF PlaceInv
  <2>2. batch[i] \in 1 .. nevents
    <3>1. nevents \in Nat /\ batch[i] \in Nat \ {0} /\ batch[i] <= nevents
      BY <1>0, <2>1
    <3> QED
      BY <3>1
  <2>3. batch[i] # nevents + 1 /\ batch[i] <= nevents'
    BY <1>0, <2>2
  <2>4. \A t \in Times : \A j \in 1 .. Len(tree[t]) : tree[t][j] # batch[i]
    BY <1>4 DEF PlaceInv
  <2> QED
    BY <1>0, <2>1, <2>2, <2>3, <2>4, GrownEntry
<1>5. InBatch => \A i, j \in 1 .. Len(batch) : batch[i] = batch[j] => i = j
  BY DEF PlaceInv
<1> QED
  BY <1>0, <1>2, <1>3, <1>4, <1>5 DEF PlaceInv

LEMMA PlaceSame ==
    ASSUME PlaceInv, UNCHANGED xVars, InBatch' => InBatch /\ UNCHANGED <<batch, vcur>>
    PROVE  PlaceInv'
BY DEF PlaceInv, xVars

\* pop_events: what it takes, and what it leaves
LEMMA PopTakes ==
    ASSUME TypeInv, CtlPop
    PROVE  /\ ~InBatch /\ vpc' # "wait" /\ (InBatch' <=> batch' # <<>>) /\ slot' = 0
           /\ UNCHANGED <<nevents, at, raised, vcur, todo, jobs>>
           /\ batch' # <<>> => vcur \in Times /\ batch' = tree[vcur]
           /\ vcur \in Times => batch' = tree[vcur] /\ tree'[vcur] = <<>>
           /\ \A t \in Times : t # vcur => tree'[t] = tree[t]
<1>1. /\ batch' = Listed(vcur) /\ tree' = [t \in Times |-> IF t = vcur THEN <<>> ELSE tree[t]]
      /\ vpc' = IF Listed(vcur) = <<>> THEN "signal" ELSE "enqueue"
      /\ vpc = "pop" /\ slot' = 0 /\ UNCHANGED <<nevents, at, raised, vcur, todo, jobs>>
  BY DEF CtlPop, Controller, jVars
<1> QED
  BY <1>1 DEF Listed, InBatch

LEMMA PlaceStep ==
    ASSUME TypeInv, PlaceInv, [Next]_simVars
    PROVE  PlaceInv'
<1>1. ASSUME UNCHANGED xVars
      PROVE  PlaceInv'
  <2>1. CASE UNCHANGED <<vVars, jobs, todo>>
    BY <1>1, <2>1, PlaceSame DEF vVars, InBatch
  <2>2. CASE StartController
    BY <1>1, <2>2, PlaceSame DEF StartController, InBatch
  <2>3. CASE CtlBegin \/ CtlSync \/ CtlSynced \/ CtlShouldStop \/ CtlSignal \/ CtlExit
    <3>1. ~InBatch'
      BY <2>3 DEF CtlBegin, CtlSync, CtlSynced, CtlShouldStop, CtlSignal, CtlExit, Controller, InBatch
    <3> QED
      BY <1>1, <3>1, PlaceSame
  <2>4. CASE CtlEnqueue \/ CtlPut \/ CtlWait
    <3>1. InBatch /\ UNCHANGED <<batch, vcur>>
      BY <2>4 DEF CtlEnqueue, CtlPut, CtlWait, Controller, InBatch
    <3> QED
      BY <1>1, <3>1, PlaceSame
  <2>5. CASE CtlPop
    <3>1. UNCHANGED tree
      BY <1>1 DEF xVars
    <3>2. InBatch' => vcur \in Times /\ batch' = <<>>
      BY <2>5, <3>1, PopTakes
    <3>3. ~InBatch'
      BY <2>5, <3>2, PopTakes
    <3> QED
      BY <1>1, <3>3, PlaceSame
  <2>6. ASSUME NEW c \in Slots, ThrowEvent(c) \/ WorkerDone(c)
        PROVE  PlaceInv'
    <3>1. UNCHANGED <<vpc, batch, vcur>>
      BY <2>6 DEF ThrowEvent, WorkerDone, vVars
    <3> QED
      BY <1>1, <3>1, PlaceSame DEF InBatch
  <2> QED
    BY <2>1, <2>2, <2>3, <2>4, <2>5, <2>6, ControllerCases DEF CtlStep
<1>2. ASSUME CtlPop
      PROVE  PlaceInv'
  <2> USE <1>2, PopTakes
  <2>1. /\ \A t \in Times : Len(tree[t]) \in Nat
        /\ Len(<<>>) = 0 /\ \A i : i \notin 1 .. 0
    BY TreeNumbers, EmptySeq
  <2>2. ASSUME NEW t \in Times, NEW i \in 1 .. Len(tree'[t])
        PROVE  t # vcur /\ tree'[t] = tree[t]
    BY <2>1
  <2>3. /\ \A t \in Times : \A i \in 1 .. Len(tree'[t]) : tree'[t][i] <= nevents' /\ at'[tree'[t][i]] = t
        /\ \A t \in Times : \A i, j \in 1 .. Len(tree'[t]) : tree'[t][i] = tree'[t][j] => i = j
    BY <2>2, SMTT(60) DEF PlaceInv
  <2>4. ASSUME InBatch'
        PROVE  /\ \A i \in 1 .. Len(batch') : batch'[i] <= nevents' /\ at'[batch'[i]] = vcur'
               /\ \A i, j \in 1 .. Len(batch') : batch'[i] = batch'[j] => i = j
               /\ \A i \in 1 .. Len(batch') :
                     \A t \in Times : \A j \in 1 .. Len(tree'[t]) : tree'[t][j] # batch'[i]
    <3>1. vcur \in Times /\ batch' = tree[vcur] /\ UNCHANGED <<nevents, at, vcur>>
      BY <2>4
    <3>2. \A i \in 1 .. Len(batch') : batch'[i] <= nevents /\ at[batch'[i]] = vcur
      BY <3>1 DEF PlaceInv
    <3>3. \A i, j \in 1 .. Len(batch') : batch'[i] = batch'[j] => i = j
      BY <3>1 DEF PlaceInv
    <3>4. ASSUME NEW t \in Times, NEW j \in 1 .. Len(tree'[t])
          PROVE  at[tree'[t][j]] # vcur
      BY <2>2 DEF PlaceInv
    <3> QED
      BY <3>1, <3>2, <3>3, <3>4, SMTT(60)
  <2> QED
    BY <2>3, <2>4 DEF PlaceInv
<1>3. ASSUME UNCHANGED raised, \E t : Schedule(t), epc = "start" \/ atasks # {}
      PROVE  PlaceInv'
  <2>1. UNCHANGED <<vpc, batch, vcur>>
    <3>1. CASE FirstEvent
      BY <3>1 DEF FirstEvent, vVars
    <3>2. ASSUME NEW task \in atasks, ActivityTask(task)
          PROVE  UNCHANGED <<vpc, batch, vcur>>
      BY <3>2 DEF ActivityTask, vVars
    <3>3. ASSUME NEW c \in Slots, ThrowEvent(c)
          PROVE  UNCHANGED <<vpc, batch, vcur>>
      BY <3>3 DEF ThrowEvent, vVars
    <3>4. ~CtlPop
      <4> SUFFICES ASSUME CtlPop PROVE FALSE
        OBVIOUS
      <4>1. UNCHANGED nevents
        BY PopTakes
      <4>2. nevents' = nevents + 1 /\ nevents \in Nat
        BY <1>3, TreeNumbers DEF Schedule
      <4> QED
        BY <4>1, <4>2
    <3>5. ~UNCHANGED xVars
      <4>1. nevents' = nevents + 1 /\ nevents \in Nat
        BY <1>3, TreeNumbers DEF Schedule
      <4> QED
        BY <4>1 DEF xVars
    <3> QED
      BY <3>1, <3>2, <3>3, <3>4, <3>5, TreeCases
  <2> QED
    BY <1>3, <2>1, UserGrows, PlaceGrows
<1>4. ASSUME NEW c \in Slots, ThrowEvent(c)
      PROVE  PlaceInv'
  <2>1. UNCHANGED <<vpc, batch, vcur>> /\ (UNCHANGED xVars \/ \E t : Schedule(t))
    BY <1>4 DEF ThrowEvent, vVars, UserCode
  <2> QED
    BY <2>1, UserGrows, PlaceGrows
<1> QED
  BY <1>1, <1>2, <1>3, <1>4, TreeMoves

\* the event that a worker raises: the first of the rest of its share
LEMMA ThrownEvent ==
    ASSUME TypeInv, MeetInv, ShareInv, PlaceInv, HandInv, NEW c \in Slots, ThrowEvent(c)
    PROVE  LET i == EndOf(c) - Len(todo[c]) + 1
           IN  /\ InBatch /\ Enqueued(c) /\ c \in 0 .. NTasks - 1
               /\ i \in EvShare(Len(batch), NWorkers, c) /\ i \in 1 .. Len(batch)
               /\ Head(todo[c]) = batch[i] /\ batch[i] \in 1 .. nevents
               /\ at[batch[i]] = vcur /\ raised[batch[i]] = <<>>
               /\ raised' = [raised EXCEPT ![batch[i]] = <<vcur>>]
<1> DEFINE n == Len(todo[c])
           i == EndOf(c) - n + 1
<1>1. InBatch /\ Enqueued(c) /\ c < NTasks
  BY DEF ThrowEvent, ShareInv, Enqueued
<1>2. /\ Guard(c) \in 1 .. Len(batch) /\ NumOf(c) \in Nat \ {0} /\ EndOf(c) \in 1 .. Len(batch)
      /\ c \in 0 .. NTasks - 1 /\ EvShare(Len(batch), NWorkers, c) = Guard(c) .. EndOf(c)
  BY <1>1, EndOfTypes
<1>3. /\ n \in Nat \ {0} /\ n <= NumOf(c) /\ Head(todo[c]) = todo[c][1]
      /\ \A j \in 1 .. n : todo[c][j] = batch[EndOf(c) - n + j]
      /\ raised' = [raised EXCEPT ![Head(todo[c])] = Append(raised[Head(todo[c])], clock)]
  BY <1>1, ThrowTypes DEF ShareInv
<1>4. Len(batch) \in Nat /\ EndOf(c) = Guard(c) + NumOf(c) - 1
  BY TreeNumbers DEF EndOf
<1>5. i \in Guard(c) .. EndOf(c) /\ i \in 1 .. Len(batch) /\ ~(i <= EndOf(c) - n)
  <2> HIDE DEF n
  <2> QED
    BY <1>2, <1>3, <1>4
<1>6. Head(todo[c]) = batch[i]
  <2>1. 1 \in 1 .. n
    BY <1>3
  <2> QED
    BY <1>3, <2>1
<1> HIDE DEF i
<1>7. batch[i] \in Events /\ batch[i] <= nevents /\ at[batch[i]] = vcur
  BY <1>1, <1>5, TreeNumbers DEF PlaceInv
<1>8. batch[i] \in 1 .. nevents
  <2>1. nevents \in Nat /\ batch[i] \in Nat \ {0}
    BY <1>7, TreeNumbers
  <2> QED
    BY <1>7, <2>1
<1>9. raised[batch[i]] = <<>>
  <2>1. ~HandRaised(c, i)
    BY <1>5 DEF HandRaised
  <2> QED
    BY <1>1, <1>2, <1>5, <2>1 DEF HandInv
<1>10. vcur = clock
  BY <1>1 DEF MeetInv, Handling, InBatch
<1>11. raised' = [raised EXCEPT ![batch[i]] = <<vcur>>]
  <2>1. Append(raised[batch[i]], clock) = <<vcur>>
    BY <1>9, <1>10
  <2> QED
    BY <1>3, <1>6, <2>1
<1> QED
  BY <1>1, <1>2, <1>5, <1>6, <1>7, <1>8, <1>9, <1>11 DEF i

\* T is what is raised in this step
LEMMA EventGrows ==
    ASSUME TypeInv, PlaceInv, EventInv, Grown, InBatch' <=> InBatch, UNCHANGED batch,
           NEW T, T \subseteq 1 .. nevents,
           \A e \in T : raised'[e] = <<at[e]>>,
           \A e \in Events : e \notin T => raised'[e] = raised[e],
           \A e \in T : \A t \in Times : \A i \in 1 .. Len(tree[t]) : tree[t][i] # e
    PROVE  EventInv'
<1>0. /\ nevents \in Nat /\ nevents' \in {nevents, nevents + 1}
      /\ \A e \in 1 .. nevents : at'[e] = at[e]
      /\ Events \subseteq Nat \ {0} /\ 1 .. nevents \subseteq Events
  BY TreeNumbers DEF Grown
<1>1. ASSUME NEW e \in Events, e > nevents
      PROVE  raised'[e] = <<>>
  <2>1. e \notin T
    BY <1>0, <1>1
  <2> QED
    BY <1>1, <2>1 DEF EventInv
<1>2. ASSUME NEW t \in Times, NEW i \in 1 .. Len(tree'[t])
      PROVE  raised'[tree'[t][i]] = <<>>
  <2>1. CASE i \in 1 .. Len(tree[t]) /\ tree'[t][i] = tree[t][i]
    <3>1. tree[t][i] \in Events /\ tree[t][i] \notin T /\ raised[tree[t][i]] = <<>>
      BY <2>1, TreeNumbers DEF EventInv
    <3> QED
      BY <2>1, <3>1
  <2>2. CASE tree'[t][i] = nevents + 1 /\ nevents' = nevents + 1
    <3>1. nevents + 1 \in Events /\ nevents + 1 > nevents
      BY <1>0, <2>2 DEF Grown
    <3> QED
      BY <1>1, <2>2, <3>1
  <2> QED
    BY <2>1, <2>2, GrownEntry
<1>3. ASSUME NEW e \in Events, e > nevents'
      PROVE  raised'[e] = <<>>
  <2>1. e > nevents
    BY <1>0, <1>3
  <2> QED
    BY <1>1, <2>1
<1>4. ASSUME NEW e \in Events
      PROVE  raised'[e] \in {<<>>, <<at'[e]>>}
  <2>1. CASE e \in T
    BY <1>0, <2>1
  <2>2. CASE e \notin T /\ e \in 1 .. nevents
    BY <1>0, <2>2 DEF EventInv, RaisedOnTime
  <2>3. CASE e \notin 1 .. nevents
    <3>1. e > nevents
      BY <1>0, <2>3
    <3> QED
      BY <1>1, <3>1
  <2> QED
    BY <2>1, <2>2, <2>3
<1>5. ASSUME NEW e \in 1 .. nevents', raised'[e] = <<>>
      PROVE  \/ \E i \in 1 .. Len(tree'[at'[e]]) : tree'[at'[e]][i] = e
             \/ InBatch /\ \E i \in 1 .. Len(batch) : batch[i] = e
  <2>1. CASE e \in 1 .. nevents
    <3>1. e \notin T /\ e \in Events /\ at'[e] = at[e]
      <4>1. \A d : <<d>> # <<>>
        OBVIOUS
      <4> QED
        BY <1>0, <1>5, <2>1, <4>1
    <3>2. \/ \E i \in 1 .. Len(tree[at[e]]) : tree[at[e]][i] = e
          \/ InBatch /\ \E i \in 1 .. Len(batch) : batch[i] = e
      BY <1>5, <2>1, <3>1 DEF EventInv
    <3>3. ASSUME NEW i \in 1 .. Len(tree[at[e]]), tree[at[e]][i] = e
          PROVE  i \in 1 .. Len(tree'[at'[e]]) /\ tree'[at'[e]][i] = e
      <4>1. at[e] \in Times
        BY <3>1, TreeNumbers
      <4>2. /\ Len(tree[at[e]]) \in Nat /\ Len(tree'[at[e]]) \in {Len(tree[at[e]]), Len(tree[at[e]]) + 1}
            /\ tree'[at[e]][i] = tree[at[e]][i]
        BY <4>1, TreeNumbers DEF Grown
      <4>3. i \in 1 .. Len(tree'[at[e]])
        BY <4>2
      <4> QED
        BY <3>1, <3>3, <4>2, <4>3
    <3> QED
      BY <3>2, <3>3
  <2>2. CASE e \notin 1 .. nevents
    <3>1. e = nevents + 1 /\ nevents' = nevents + 1
      BY <1>0, <2>2
    <3> DEFINE u == at'[nevents + 1]
    <3>2. u \in Times /\ Len(tree'[u]) = Len(tree[u]) + 1 /\ tree'[u][Len(tree[u]) + 1] = nevents + 1
      BY <3>1 DEF Grown
    <3>3. Len(tree[u]) \in Nat
      BY <3>2, TreeNumbers
    <3>4. Len(tree[u]) + 1 \in 1 .. Len(tree'[u])
      BY <3>2, <3>3
    <3> QED
      BY <3>1, <3>2, <3>4
  <2> QED
    BY <2>1, <2>2
<1>6. RaisedOnTime'
  BY <1>4 DEF RaisedOnTime
<1> QED
  BY <1>2, <1>3, <1>5, <1>6 DEF EventInv

\* the list in hand changes only when it is taken out of the tree and when it is done
LEMMA BatchCases ==
    ASSUME [Next]_simVars
    PROVE  \/ CtlPop \/ CtlWait
           \/ UNCHANGED batch /\ (InBatch' <=> InBatch)
<1>1. CASE UNCHANGED <<vVars, jobs, todo>>
  BY <1>1 DEF vVars, InBatch
<1>2. CASE StartController
  BY <1>2 DEF StartController, InBatch
<1>3. CASE CtlBegin \/ CtlSync \/ CtlSynced \/ CtlShouldStop \/ CtlSignal \/ CtlExit
  BY <1>3 DEF CtlBegin, CtlSync, CtlSynced, CtlShouldStop, CtlSignal, CtlExit, Controller, InBatch
<1>4. CASE CtlEnqueue \/ CtlPut
  BY <1>4 DEF CtlEnqueue, CtlPut, Controller, InBatch
<1>5. ASSUME NEW c \in Slots, ThrowEvent(c) \/ WorkerDone(c)
      PROVE  UNCHANGED batch /\ (InBatch' <=> InBatch)
  BY <1>5 DEF ThrowEvent, WorkerDone, vVars, InBatch
<1> QED
  BY <1>1, <1>2, <1>3, <1>4, <1>5, ControllerCases DEF CtlStep

\* when the controller has waited for every task, every event of the list was raised
LEMMA AllRaised ==
    ASSUME TypeInv, ShareInv, HandInv, CtlWait, ~InBatch'
    PROVE  \A i \in 1 .. Len(batch) : raised[batch[i]] = <<vcur>>
<1>0. /\ Slots \subseteq Nat /\ slot \in Nat /\ NTasks \in Nat
      /\ \A c \in Nat : c < NTasks => c \in Slots
  BY SlotsAreNumbers
<1>1. vpc = "wait" /\ InBatch /\ jobs[slot] = "done" /\ ~(slot + 1 < NTasks)
  BY DEF CtlWait, Controller, InBatch
<1>2. ASSUME NEW c \in 0 .. NTasks - 1
      PROVE  c \in Slots /\ Enqueued(c) /\ todo[c] = <<>>
  <2>1. c \in Slots /\ c \in Nat /\ c < NTasks
    BY <1>0
  <2>2. c < slot \/ c = slot
    BY <1>0, <1>1, <2>1
  <2>3. Enqueued(c) /\ jobs[c] = "done"
    BY <1>1, <2>1, <2>2 DEF Enqueued, ShareInv
  <2> QED
    BY <1>1, <2>1, <2>3 DEF ShareInv
<1>3. ASSUME NEW i \in 1 .. Len(batch)
      PROVE  raised[batch[i]] = <<vcur>>
  <2>1. Len(batch) \in Nat /\ NWorkers \in Nat \ {0}
    BY TreeNumbers, SimAssumption
  <2>2. PICK c \in 0 .. NTasks - 1 : i \in EvShare(Len(batch), NWorkers, c)
    BY <2>1, EventSharesPartition DEF NTasks
  <2>3. i \in Guard(c) .. EndOf(c) /\ EndOf(c) \in 1 .. Len(batch) /\ Guard(c) \in 1 .. Len(batch)
    <3>1. c \in Slots /\ c < NTasks
      BY <1>0, <1>2
    <3> QED
      BY <1>1, <2>2, <3>1, EndOfTypes
  <2>4. HandRaised(c, i)
    <3>1. Enqueued(c) /\ Len(todo[c]) = 0
      BY <1>2, EmptySeq
    <3>2. i <= EndOf(c) - 0
      BY <2>1, <2>3
    <3> QED
      BY <3>1, <3>2 DEF HandRaised
  <2> QED
    BY <1>1, <2>2, <2>4 DEF HandInv
<1> QED
  BY <1>3

LEMMA EventStep ==
    ASSUME TypeInv, MeetInv, ShareInv, PlaceInv, EventInv, HandInv, [Next]_simVars
    PROVE  EventInv'
<1>1. ASSUME UNCHANGED raised, UNCHANGED xVars \/ \E t : Schedule(t),
             UNCHANGED batch, InBatch' <=> InBatch
      PROVE  EventInv'
  <2>1. Grown
    BY <1>1, UserGrows
  <2> DEFINE T == {}
  <2>2. /\ T \subseteq 1 .. nevents /\ \A e \in T : raised'[e] = <<at[e]>>
        /\ \A e \in Events : e \notin T => raised'[e] = raised[e]
        /\ \A e \in T : \A t \in Times : \A i \in 1 .. Len(tree[t]) : tree[t][i] # e
    BY <1>1
  <2> HIDE DEF T
  <2> QED
    BY <1>1, <2>1, <2>2, EventGrows
<1>2. ASSUME NEW c \in Slots, ThrowEvent(c)
      PROVE  EventInv'
  <2>1. UNCHANGED batch /\ (InBatch' <=> InBatch) /\ Grown
    <3>1. UNCHANGED batch /\ (InBatch' <=> InBatch) /\ (UNCHANGED xVars \/ \E t : Schedule(t))
      BY <1>2 DEF ThrowEvent, vVars, InBatch, UserCode
    <3> QED
      BY <3>1, UserGrows
  <2> DEFINE i == EndOf(c) - Len(todo[c]) + 1
             T == {batch[i]}
  <2>2. /\ InBatch /\ i \in 1 .. Len(batch) /\ batch[i] \in 1 .. nevents /\ at[batch[i]] = vcur
        /\ raised' = [raised EXCEPT ![batch[i]] = <<vcur>>]
    BY <1>2, ThrownEvent
  <2> HIDE DEF i
  <2>3. raised \in [Events -> Seq(Nat)] /\ 1 .. nevents \subseteq Events
    BY TreeNumbers DEF TypeInv, TreeType
  <2>4. /\ T \subseteq 1 .. nevents /\ \A e \in T : raised'[e] = <<at[e]>>
        /\ \A e \in Events : e \notin T => raised'[e] = raised[e]
    BY <2>2, <2>3
  <2>5. \A e \in T : \A t \in Times : \A j \in 1 .. Len(tree[t]) : tree[t][j] # e
    BY <2>2 DEF PlaceInv
  <2> HIDE DEF T
  <2> QED
    BY <2>1, <2>4, <2>5, EventGrows
<1>3. CASE CtlPop
  <2> USE <1>3, PopTakes
  <2>1. ASSUME NEW t \in Times, NEW i \in 1 .. Len(tree'[t])
        PROVE  raised'[tree'[t][i]] = <<>>
    <3>1. t # vcur
      <4>1. Len(<<>>) = 0 /\ i \notin 1 .. 0
        BY EmptySeq
      <4> QED
        BY <4>1
    <3>2. tree'[t] = tree[t] /\ raised' = raised
      BY <3>1
    <3> QED
      BY <3>2 DEF EventInv
  <2>2. RaisedOnTime' /\ \A e \in Events : e > nevents' => raised'[e] = <<>>
    BY DEF EventInv, RaisedOnTime
  <2>3. ASSUME NEW e \in 1 .. nevents, raised[e] = <<>>
        PROVE  \/ \E i \in 1 .. Len(tree'[at[e]]) : tree'[at[e]][i] = e
               \/ InBatch' /\ \E i \in 1 .. Len(batch') : batch'[i] = e
    <3>1. at[e] \in Times
      BY TreeNumbers
    <3>2. PICK i \in 1 .. Len(tree[at[e]]) : tree[at[e]][i] = e
      BY <2>3 DEF EventInv
    <3>3. CASE at[e] = vcur
      <4>1. batch' = tree[at[e]]
        BY <3>1, <3>3
      <4>2. batch' # <<>>
        <5>1. Len(<<>>) = 0 /\ i \notin 1 .. 0
          BY EmptySeq
        <5> QED
          BY <4>1, <5>1
      <4> QED
        BY <3>2, <4>1, <4>2
    <3>4. CASE at[e] # vcur
      BY <3>1, <3>2, <3>4
    <3> QED
      BY <3>3, <3>4
  <2>4. UNCHANGED <<nevents, at, raised>>
    OBVIOUS
  <2> QED
    BY <2>1, <2>2, <2>3, <2>4 DEF EventInv
<1>4. CASE CtlWait
  <2>1. UNCHANGED <<tree, nevents, at, raised, batch>> /\ InBatch
    BY <1>4 DEF CtlWait, Controller, xVars, jVars, InBatch
  <2>2. CASE InBatch'
    BY <1>1, <2>1, <2>2 DEF xVars
  <2>3. CASE ~InBatch'
    <3>1. \A i \in 1 .. Len(batch) : raised[batch[i]] = <<vcur>>
      BY <1>4, <2>3, AllRaised
    <3>2. \A d : <<d>> # <<>>
      OBVIOUS
    <3>3. \A e \in 1 .. nevents : raised[e] = <<>> => \E i \in 1 .. Len(tree[at[e]]) : tree[at[e]][i] = e
      BY <3>1, <3>2 DEF EventInv
    <3>4. RaisedOnTime'
      BY <2>1 DEF EventInv, RaisedOnTime
    <3> QED
      BY <2>1, <3>3, <3>4 DEF EventInv
  <2> QED
    BY <2>2, <2>3
<1>5. ASSUME UNCHANGED batch, InBatch' <=> InBatch
      PROVE  EventInv'
  BY <1>1, <1>2, <1>3, <1>5, TreeMoves
<1> QED
  BY <1>3, <1>4, <1>5, BatchCases

\* of an end of a share, one event less is left out but for the next one
LEMMA OneLess ==
    ASSUME NEW i \in Int, NEW end \in Int, NEW left \in Nat, i # end - left + 1
    PROVE  i <= end - (left - 1) <=> i <= end - left
OBVIOUS

LEMMA HandStep ==
    ASSUME TypeInv, MeetInv, ShareInv, PlaceInv, EventInv, HandInv, [Next]_simVars
    PROVE  HandInv'
<1>1. ASSUME UNCHANGED <<batch, todo, vcur, raised>>, InBatch' => InBatch,
             InBatch' => \A c \in 0 .. NTasks - 1 : Enqueued(c)' <=> Enqueued(c)
      PROVE  HandInv'
  <2>1. NTasks' = NTasks /\ \A c : EndOf(c)' = EndOf(c)
    BY <1>1 DEF NTasks, EndOf, Guard, NumOf
  <2>2. InBatch' => \A c \in 0 .. NTasks - 1 : \A i : HandRaised(c, i)' <=> HandRaised(c, i)
    BY <1>1, <2>1 DEF HandRaised
  <2> QED
    BY <1>1, <2>1, <2>2 DEF HandInv
<1>2. CASE CtlPop
  <2> SUFFICES ASSUME InBatch', NEW c \in 0 .. NTasks' - 1, NEW i \in EvShare(Len(batch'), NWorkers, c)
               PROVE  raised'[batch'[i]] = <<>> /\ ~HandRaised(c, i)'
    BY DEF HandInv
  <2>1. /\ vcur \in Times /\ batch' = tree[vcur] /\ batch' # <<>> /\ raised' = raised
        /\ slot' = 0 /\ vpc' # "wait"
    BY <1>2, PopTakes
  <2>2. Len(batch') \in Nat \ {0} /\ NWorkers \in Nat \ {0}
    <3>1. batch' \in Seq(Events)
      BY <2>1 DEF TypeInv, TreeType
    <3> QED
      BY <2>1, <3>1, EmptySeq, SimAssumption
  <2>3. i \in 1 .. Len(batch') /\ c \in Nat
    BY <2>2, SharesInside DEF NTasks
  <2>4. raised'[batch'[i]] = <<>>
    BY <2>1, <2>3 DEF EventInv
  <2>5. ~Enqueued(c)'
    BY <2>1, <2>3 DEF Enqueued
  <2> QED
    BY <2>4, <2>5 DEF HandRaised
<1>3. CASE CtlPut
  <2>1. /\ vpc = "put" /\ InBatch /\ InBatch'
        /\ vpc' = IF slot + 1 < NTasks THEN "enqueue" ELSE "wait"
        /\ slot' = IF slot + 1 < NTasks THEN slot + 1 ELSE 0
        /\ UNCHANGED <<batch, raised, vcur>> /\ todo' = [todo EXCEPT ![slot] = Share(slot)]
    BY <1>3 DEF CtlPut, Controller, InBatch
  <2>2. slot \in Nat /\ slot < NTasks /\ NTasks \in Nat /\ slot \in Slots /\ batch \in Seq(Events) /\ batch # <<>>
    BY <2>1, SlotsAreNumbers DEF TypeInv, ControllerType
  <2>3. NTasks' = NTasks /\ \A c : EndOf(c)' = EndOf(c)
    BY <2>1 DEF NTasks, EndOf, Guard, NumOf
  <2>4. ASSUME NEW c \in 0 .. NTasks - 1
        PROVE  Enqueued(c)' <=> Enqueued(c) \/ c = slot
    BY <2>1, <2>2, <2>3 DEF Enqueued
  <2>5. ASSUME NEW c \in 0 .. NTasks - 1, NEW i \in EvShare(Len(batch), NWorkers, c)
        PROVE  HandRaised(c, i)' <=> HandRaised(c, i)
    <3>0. c \in Slots
      BY SlotsAreNumbers
    <3>1. CASE c = slot
      <4>1. ~Enqueued(slot)
        BY <2>1, <2>2 DEF Enqueued
      <4>2. todo'[slot] = Share(slot) /\ Len(Share(slot)) = NumOf(slot) /\ NumOf(slot) \in Nat
        BY <2>1, <2>2, <3>1, ShareTypes DEF TypeInv, ControllerType
      <4>3. i \in Guard(slot) .. EndOf(slot) /\ EndOf(slot) = Guard(slot) + NumOf(slot) - 1 /\ Guard(slot) \in Int
        <5>1. Len(batch) \in Nat
          BY TreeNumbers
        <5> QED
          BY <2>1, <2>2, <2>5, <3>1, <5>1, EndOfTypes DEF EndOf
      <4>4. ~(i <= EndOf(slot) - Len(todo'[slot]))
        BY <4>2, <4>3
      <4> QED
        BY <2>3, <3>1, <4>1, <4>4 DEF HandRaised
    <3>2. CASE c # slot
      <4>1. todo'[c] = todo[c]
        BY <2>1, <3>2, <3>0 DEF TypeInv, ControllerType
      <4> QED
        BY <2>3, <2>4, <3>2, <4>1 DEF HandRaised
    <3> QED
      BY <3>1, <3>2
  <2> QED
    BY <2>1, <2>3, <2>5 DEF HandInv
<1>4. CASE CtlWait
  <2>1. UNCHANGED <<batch, todo, vcur, raised>> /\ vpc = "wait" /\ InBatch /\ (InBatch' => vpc' = "wait")
    BY <1>4 DEF CtlWait, Controller, InBatch, jVars
  <2>2. InBatch' => \A c \in 0 .. NTasks - 1 : Enqueued(c)' <=> Enqueued(c)
    BY <2>1 DEF Enqueued, NTasks
  <2> QED
    BY <1>1, <2>1, <2>2
<1>5. CASE CtlEnqueue
  <2>1. UNCHANGED <<batch, todo, vcur, raised, slot>> /\ vpc = "enqueue" /\ vpc' = "put"
    BY <1>5 DEF CtlEnqueue, Controller, jVars
  <2> QED
    BY <1>1, <2>1 DEF Enqueued, NTasks, InBatch
<1>6. CASE CtlBegin \/ CtlSync \/ CtlSynced \/ CtlShouldStop \/ CtlSignal \/ CtlExit
  <2>1. ~InBatch'
    BY <1>6 DEF CtlBegin, CtlSync, CtlSynced, CtlShouldStop, CtlSignal, CtlExit, Controller, InBatch
  <2> QED
    BY <2>1 DEF HandInv
<1>7. ASSUME NEW c \in Slots, ThrowEvent(c)
      PROVE  HandInv'
  <2> DEFINE k == EndOf(c) - Len(todo[c]) + 1
             n == Len(batch)
  <2>1. /\ InBatch /\ Enqueued(c) /\ c \in 0 .. NTasks - 1
        /\ k \in EvShare(n, NWorkers, c) /\ k \in 1 .. n /\ batch[k] \in 1 .. nevents
        /\ raised' = [raised EXCEPT ![batch[k]] = <<vcur>>]
    BY <1>7, ThrownEvent
  <2>2. /\ UNCHANGED <<batch, vcur, vpc, slot>>
        /\ todo' = [todo EXCEPT ![c] = Tail(todo[c])] /\ Len(Tail(todo[c])) = Len(todo[c]) - 1
        /\ Len(todo[c]) \in Nat
    BY <1>7, ThrowTypes DEF ThrowEvent, vVars
  <2>3. NTasks' = NTasks /\ \A d : EndOf(d)' = EndOf(d) /\ (Enqueued(d)' <=> Enqueued(d))
    BY <2>2 DEF NTasks, EndOf, Guard, NumOf, Enqueued
  <2>4. n \in Nat \ {0} /\ NWorkers \in Nat \ {0} /\ InBatch'
    <3>1. batch \in Seq(Events) /\ batch # <<>>
      BY <2>1 DEF TypeInv, ControllerType
    <3> QED
      BY <2>1, <2>2, <3>1, EmptySeq, SimAssumption DEF InBatch
  <2>5. /\ todo'[c] = Tail(todo[c])
        /\ \A d \in Slots : d # c => todo'[d] = todo[d]
    BY <2>2 DEF TypeInv, ControllerType
  <2>6. EndOf(c) \in Int
    <3>1. c < NTasks
      BY <2>1 DEF Enqueued
    <3> QED
      BY <2>1, <2>4, <3>1, EndOfTypes
  <2>7. ASSUME NEW d \in 0 .. NTasks - 1, NEW i \in EvShare(n, NWorkers, d)
        PROVE  raised'[batch[i]] = IF HandRaised(d, i)' THEN <<vcur>> ELSE <<>>
    <3>0. i \in 1 .. n /\ d \in Slots
      BY <2>4, SharesInside, SlotsAreNumbers DEF NTasks
    <3>1. raised[batch[i]] = IF HandRaised(d, i) THEN <<vcur>> ELSE <<>>
      BY <2>1 DEF HandInv
    <3>2. raised \in [Events -> Seq(Nat)] /\ batch[i] \in Events /\ batch[k] \in Events
      BY <2>1, <3>0, TreeNumbers DEF TypeInv, TreeType
    <3>3. CASE i = k
      <4>1. d = c
        <5>1. PICK b \in 0 .. NTasks - 1 : \A a \in 0 .. NTasks - 1 : k \in EvShare(n, NWorkers, a) => a = b
          BY <2>1, <2>4, EventSharesPartition DEF NTasks
        <5> QED
          BY <2>1, <3>3, <5>1
      <4>2. HandRaised(c, i)'
        <5>1. i <= EndOf(c) - (Len(todo[c]) - 1)
          BY <2>2, <2>6, <3>3
        <5> QED
          BY <2>1, <2>2, <2>3, <2>5, <5>1 DEF HandRaised
      <4>3. raised'[batch[k]] = <<vcur>>
        <5> HIDE DEF k
        <5> QED
          BY <2>1, <3>2
      <4> QED
        BY <3>3, <4>1, <4>2, <4>3
    <3>4. CASE i # k
      <4>1. raised'[batch[i]] = raised[batch[i]]
        <5>1. batch[i] # batch[k]
          <6>1. \A a, b \in 1 .. n : batch[a] = batch[b] => a = b
            BY <2>1 DEF PlaceInv
          <6> QED
            BY <2>1, <3>0, <3>4, <6>1
        <5> QED
          BY <2>1, <3>2, <5>1
      <4>2. HandRaised(d, i)' <=> HandRaised(d, i)
        <5>1. CASE d # c
          BY <2>3, <2>5, <3>0, <5>1 DEF HandRaised
        <5>2. CASE d = c
          <6>1. i <= EndOf(c) - (Len(todo[c]) - 1) <=> i <= EndOf(c) - Len(todo[c])
            <7>1. i \in Int
              BY <2>4, <3>0
            <7>2. i # EndOf(c) - Len(todo[c]) + 1
              BY <3>4
            <7> QED
              BY <2>2, <2>6, <7>1, <7>2, OneLess
          <6> QED
            BY <2>2, <2>3, <2>5, <5>2, <6>1 DEF HandRaised
        <5> QED
          BY <5>1, <5>2
      <4> QED
        BY <3>1, <4>1, <4>2
    <3> QED
      BY <3>3, <3>4
  <2> QED
    BY <2>2, <2>3, <2>7 DEF HandInv
<1>8. ASSUME NEW c \in Slots, WorkerDone(c)
      PROVE  HandInv'
  <2>1. UNCHANGED <<batch, todo, vcur, raised, vpc, slot>>
    BY <1>8 DEF WorkerDone, vVars
  <2> QED
    BY <1>1, <2>1 DEF Enqueued, NTasks, InBatch
<1>9. ASSUME UNCHANGED <<vVars, jobs, todo>> \/ StartController
      PROVE  HandInv' \/ ~UNCHANGED raised
  <2>1. UNCHANGED <<batch, todo, vcur, slot>> /\ (vpc' = vpc \/ ~InBatch')
    BY <1>9 DEF vVars, jVars, StartController, InBatch
  <2> QED
    BY <1>1, <2>1 DEF Enqueued, NTasks, InBatch, HandInv
<1>10. UNCHANGED raised \/ \E c \in Slots : ThrowEvent(c)
  BY TreeMoves
<1> QED
  BY <1>2, <1>3, <1>4, <1>5, <1>6, <1>7, <1>8, <1>9, <1>10, ControllerCases DEF CtlStep

EventsInv == TypeInv /\ MeetInv /\ ShareInv /\ PlaceInv /\ EventInv /\ HandInv

LEMMA EventsAlways == Spec => []EventsInv
<1>1. Init => PlaceInv /\ EventInv /\ HandInv
  <2> SUFFICES ASSUME Init PROVE PlaceInv /\ EventInv /\ HandInv
    OBVIOUS
  <2>1. nevents = 0 /\ ~InBatch /\ \A t \in Times : tree[t] = <<>>
    BY DEF Init, InBatch
  <2>2. \A t \in Times : \A i : i \notin 1 .. Len(tree[t])
    BY <2>1, EmptySeq
  <2> QED
    BY <2>1, <2>2 DEF Init, PlaceInv, EventInv, HandInv, RaisedOnTime
<1>2. EventsInv /\ [Next]_simVars => EventsInv'
  BY TypeStep, MeetStep, ShareStep, PlaceStep, EventStep, HandStep DEF EventsInv
<1>3. Spec => TypeInv /\ MeetInv /\ ShareInv
  BY ShareAlways, PTL
<1> QED
  BY <1>1, <1>2, <1>3, PTL DEF Spec, EventsInv

(***************************************************************************)
(* OnTime: every event is raised at most once and only when the clock      *)
(* shows its time: for any number of events and of event workers, with     *)
(* handlers and activities that schedule further events, for any time they *)
(* like, while the events of a tick are raised, and whoever stops first.   *)
(***************************************************************************)
THEOREM OnTime == Spec => []RaisedOnTime
<1>1. EventsInv => RaisedOnTime
  BY DEF EventsInv, EventInv
<1> QED
  BY <1>1, EventsAlways, PTL

-----------------------------------------------------------------------------
(***************************************************************************)
(* The completion protocol of wait_event_completion.  While the engine is  *)
(* between that and its next cs_time_sync, last_completion is the clock;   *)
(* while the controller handles a tick it is one less.  So the engine      *)
(* never runs its AFTER_STEP activities beside the handlers of the step.   *)
(***************************************************************************)
Settled ==
    \/ epc \in {"start", "start_evm", "events_woken", "after_step", "after_step_wait", "check", "sync"}
    \/ epc = "syncing" /\ ~Passed

StepInv ==
    /\ lastCompletion <= clock
    /\ hasEvm /\ Settled => lastCompletion = clock
    /\ hasEvm /\ (epc = "stop_timer" \/ Stopped) => evmStop
    /\ vpc \in {"pop", "enqueue", "put", "wait", "signal"} => lastCompletion + 1 = clock
    /\ vpc = "should_stop" /\ ~evmStop => lastCompletion + 1 = clock
    /\ vpc = "syncing" /\ tpc["controller"] # "waiting" /\ stop = 0 => lastCompletion + 1 = clock
    /\ epc = "start" => clock = 0

\* who else is in cs_time_sync when the clock moves
LEMMA TickMeets ==
    ASSUME TypeInv, MeetInv
    PROVE  /\ epc = "sync" /\ Timer!TimeSyncTick("engine") /\ hasEvm =>
                 vpc = "syncing" /\ tpc["controller"] = "waiting"
           /\ epc = "sync" /\ Timer!TimeSyncTick("engine") /\ ~hasEvm => vpc = "none"
           /\ vpc = "sync" /\ Timer!TimeSyncTick("controller") =>
                 epc = "syncing" /\ tpc["engine"] = "waiting"
<1>0. sync \in Nat /\ n_sync \in Nat
  BY DEF TypeInv, Timer!TypeOK
<1>1. ASSUME epc = "sync", Timer!TimeSyncTick("engine"), hasEvm
      PROVE  vpc = "syncing" /\ tpc["controller"] = "waiting"
  <2>1. /\ stop = 0 /\ sync + 1 = n_sync /\ tpc["engine"] = "out" /\ n_sync = NActors
        /\ sync = Waits("engine") + Waits("controller")
    BY <1>1 DEF Timer!TimeSyncTick, MeetInv
  <2>2. Waits("engine") = 0 /\ (tpc["controller"] # "waiting" => Waits("controller") = 0)
    BY <2>1 DEF Waits
  <2>3. tpc["controller"] = "waiting"
    BY <1>0, <1>1, <2>1, <2>2, NActorsValue
  <2> QED
    BY <2>3 DEF MeetInv
<1>2. ASSUME vpc = "sync", Timer!TimeSyncTick("controller")
      PROVE  epc = "syncing" /\ tpc["engine"] = "waiting"
  <2>1. /\ stop = 0 /\ sync + 1 = n_sync /\ tpc["controller"] = "out" /\ hasEvm
        /\ n_sync = (IF epc = "start" THEN 2 ELSE NActors)
        /\ sync = Waits("engine") + Waits("controller")
    BY <1>2 DEF Timer!TimeSyncTick, MeetInv
  <2>2. Waits("controller") = 0 /\ (tpc["engine"] # "waiting" => Waits("engine") = 0)
    BY <2>1 DEF Waits
  <2>3. tpc["engine"] = "waiting"
    BY <1>0, <2>1, <2>2, NActorsValue
  <2> QED
    BY <2>3 DEF MeetInv
<1>3. ~hasEvm => vpc = "none"
  BY DEF MeetInv
<1> QED
  BY <1>1, <1>2, <1>3

LEMMA StepStep ==
    ASSUME MaxSpurious = 0, TypeInv, MeetInv, StepInv, [Next]_simVars
    PROVE  StepInv'
<1> USE DEF StepInv, Settled, Passed, Stopped
<1>0. /\ clock \in Nat /\ ecur \in Nat /\ lastCompletion \in Nat /\ vcur \in Nat /\ stop \in {0, 1}
      /\ tpc \in [{"engine", "controller"} -> {"out", "waiting", "woken"}] /\ woken \in Nat
      /\ Actors = {"engine", "controller"} /\ hasEvm \in BOOLEAN /\ evmStop \in BOOLEAN
  BY DEF TypeInv, Timer!TypeOK, EngineType, ControllerType, Actors
<1>1. ASSUME UNCHANGED <<clock, stop, tpc, epc, hasEvm, lastCompletion, vpc>>, evmStop => evmStop'
      PROVE  StepInv'
  BY <1>1
<1>2. CASE FirstEvent \/ AfterStep \/ AfterStepDone \/ CheckTermination \/ EventsWoken
  <2>1. /\ UNCHANGED <<clock, stop, tpc, hasEvm, lastCompletion, vpc, evmStop>>
        /\ epc' = "start" => epc = "start"
        /\ Settled /\ Settled' /\ epc' # "stop_timer" /\ ~Stopped'
    BY <1>2 DEF FirstEvent, AfterStep, AfterStepDone, CheckTermination, EventsWoken, LoopActivity,
                Engine, tVars, aVars, mVars, vVars
  <2> HIDE DEF Settled, Stopped
  <2> QED
    BY <2>1
<1>3. CASE UserStep \/ UserStepDone
  <2>1. /\ UNCHANGED <<clock, stop, tpc, hasEvm, lastCompletion, vpc, evmStop>>
        /\ hasEvm => ~Settled'
        /\ epc' # "start" /\ epc' # "stop_timer" /\ ~Stopped'
    BY <1>3 DEF UserStep, UserStepDone, LoopActivity, AfterUser, Engine, tVars, aVars, mVars, vVars
  <2> HIDE DEF Settled, Stopped
  <2> QED
    BY <2>1
<1>4. CASE WaitEvents
  <2>1. /\ UNCHANGED <<clock, stop, tpc, hasEvm, lastCompletion, vpc, evmStop>> /\ epc = "wait_events"
        /\ epc' = IF lastCompletion < ecur THEN "events_waiting" ELSE "after_step"
    BY <1>4 DEF WaitEvents, Engine, tVars, aVars, mVars, vVars
  <2>2. clock = ecur
    BY <2>1 DEF MeetInv
  <2> QED
    BY <1>0, <2>1, <2>2
<1>5. CASE SpuriousWake
  BY <1>0, <1>5 DEF SpuriousWake
<1>6. CASE SimStart \/ StartController
  <2>1. /\ UNCHANGED <<clock, stop, tpc, hasEvm, lastCompletion, evmStop>>
        /\ Settled /\ Settled' /\ epc' # "start" /\ epc' # "stop_timer" /\ ~Stopped'
        /\ vpc' = vpc \/ vpc' = "queued"
    BY <1>6 DEF SimStart, StartController, Engine, Timer!SetNsync, tVars, aVars, mVars, vVars
  <2> HIDE DEF Settled, Stopped
  <2> QED
    BY <2>1
<1>7. CASE EngineSynced
  <2>1. /\ UNCHANGED <<clock, stop, tpc, hasEvm, lastCompletion, vpc, evmStop>>
        /\ hasEvm => ~Settled' /\ epc' # "stop_timer"
        /\ epc' # "start" /\ ~Stopped'
    BY <1>7 DEF EngineSynced, AfterSync, AfterUser, Engine, tVars, aVars, mVars, vVars
  <2> HIDE DEF Settled, Stopped
  <2> QED
    BY <2>1
<1>8. CASE StopController
  <2>1. /\ UNCHANGED <<clock, stop, tpc, hasEvm, lastCompletion, vpc>> /\ evmStop' = TRUE
        /\ ~Settled' /\ epc' # "start"
    BY <1>8 DEF StopController, Engine, tVars, aVars, mVars, vVars
  <2> HIDE DEF Settled, Stopped
  <2> QED
    BY <2>1
<1>9. CASE FiniStop \/ FiniLock \/ FiniClose \/ FiniJoin
  <2>1. /\ UNCHANGED <<clock, stop, tpc, hasEvm, lastCompletion, vpc>> /\ (evmStop => evmStop')
        /\ ~Settled' /\ epc' # "start" /\ Stopped
    BY <1>9 DEF FiniStop, FiniLock, FiniClose, FiniJoin, Engine, tVars, aVars, mVars, vVars
  <2> HIDE DEF Settled, Stopped
  <2> QED
    BY <2>1
<1>10. CASE StopTimer
  <2>1. /\ UNCHANGED <<clock, hasEvm, lastCompletion, vpc, evmStop>> /\ stop' = 1
        /\ epc = "stop_timer" /\ ~Settled' /\ epc' # "start"
    BY <1>10 DEF StopTimer, Engine, Timer!TimeStop, aVars, mVars, vVars
  <2> HIDE DEF Settled, Stopped
  <2> QED
    BY <2>1
<1>11. CASE EngineSync
  <2>1. /\ epc = "sync" /\ epc' = "syncing" /\ UNCHANGED <<hasEvm, lastCompletion, vpc, evmStop>>
        /\ Timer!TimeSync("engine")
    BY <1>11 DEF EngineSync, Engine, aVars, mVars, vVars
  <2>2. CASE Timer!TimeSyncRefused("engine")
    <3>1. stop = 0 /\ sync < n_sync /\ sync \in Nat /\ n_sync \in Nat
      BY <2>1 DEF MeetInv, TypeInv, Timer!TypeOK
    <3> QED
      BY <2>2, <3>1 DEF Timer!TimeSyncRefused
  <2>3. CASE Timer!TimeSyncTick("engine")
    <3>1. /\ clock' = clock + 1 /\ UNCHANGED stop /\ stop = 0 /\ tpc["engine"] = "out"
          /\ tpc'["engine"] # "waiting"
      BY <1>0, <2>3 DEF Timer!TimeSyncTick, Timer!Woken
    <3>2. (hasEvm => vpc = "syncing") /\ (~hasEvm => vpc = "none")
      <4> HIDE DEF StepInv, Settled, Passed, Stopped
      <4> QED
        BY <2>1, <2>3, TickMeets
    <3>3. hasEvm => lastCompletion = clock
      BY <2>1
    <3>4. ~Settled' /\ ~Stopped' /\ epc' # "stop_timer" /\ epc' # "start"
      BY <2>1, <3>1
    <3>5. vpc = "syncing" => hasEvm
      BY DEF MeetInv
    <3> HIDE DEF Settled, Stopped, Passed
    <3> QED
      BY <1>0, <2>1, <3>1, <3>2, <3>3, <3>4, <3>5
  <2>4. CASE Timer!TimeSyncWait("engine")
    <3>1. UNCHANGED <<clock, stop>> /\ tpc' = [tpc EXCEPT !["engine"] = "waiting"]
      BY <2>4 DEF Timer!TimeSyncWait
    <3>2. tpc'["engine"] = "waiting" /\ tpc'["controller"] = tpc["controller"]
      BY <1>0, <3>1
    <3> QED
      BY <2>1, <3>1, <3>2
  <2> QED
    BY <2>1, <2>2, <2>3, <2>4 DEF Timer!TimeSync
<1>12. CASE CtlSync
  <2>1. /\ vpc = "sync" /\ vpc' = "syncing" /\ UNCHANGED <<epc, hasEvm, lastCompletion, evmStop>>
        /\ Timer!TimeSync("controller")
    BY <1>12 DEF CtlSync, Controller, aVars, mVars, eVars
  <2>2. CASE Timer!TimeSyncRefused("controller")
    <3>1. stop = 1
      <4>1. stop = 0 => sync < n_sync /\ sync \in Nat /\ n_sync \in Nat
        BY DEF MeetInv, TypeInv, Timer!TypeOK
      <4> QED
        BY <1>0, <2>2, <4>1 DEF Timer!TimeSyncRefused
    <3>2. UNCHANGED <<clock, stop, tpc>>
      BY <2>2 DEF Timer!TimeSyncRefused, Timer!timerFields
    <3> QED
      BY <2>1, <3>1, <3>2
  <2>3. CASE Timer!TimeSyncTick("controller")
    <3>1. /\ clock' = clock + 1 /\ UNCHANGED stop /\ stop = 0
          /\ tpc'["engine"] = IF tpc["engine"] = "waiting" THEN "woken" ELSE tpc["engine"]
      BY <1>0, <2>3 DEF Timer!TimeSyncTick, Timer!Woken
    <3>2. epc = "syncing" /\ tpc["engine"] = "waiting" /\ hasEvm
      BY <2>1, <2>3, TickMeets DEF MeetInv
    <3>3. lastCompletion = clock
      BY <3>2
    <3>4. ~Settled' /\ ~Stopped' /\ epc' # "stop_timer" /\ epc' # "start"
      BY <2>1, <3>1, <3>2
    <3> HIDE DEF Settled, Stopped, Passed
    <3> QED
      BY <1>0, <2>1, <3>1, <3>3, <3>4
  <2>4. CASE Timer!TimeSyncWait("controller")
    <3>1. UNCHANGED <<clock, stop>> /\ tpc' = [tpc EXCEPT !["controller"] = "waiting"]
      BY <2>4 DEF Timer!TimeSyncWait
    <3>2. tpc'["controller"] = "waiting" /\ tpc'["engine"] = tpc["engine"]
      BY <1>0, <3>1
    <3> QED
      BY <2>1, <3>1, <3>2
  <2> QED
    BY <2>1, <2>2, <2>3, <2>4 DEF Timer!TimeSync
<1>13. CASE CtlBegin \/ CtlShouldStop \/ CtlPop \/ CtlEnqueue \/ CtlPut \/ CtlWait \/ CtlExit
  BY <1>13 DEF CtlBegin, CtlShouldStop, CtlPop, CtlEnqueue, CtlPut, CtlWait, CtlExit,
               Controller, tVars, aVars, mVars, eVars
<1>14. CASE CtlSynced
  <2>1. /\ vpc = "syncing" /\ vpc' \in {"exit", "should_stop"} /\ tpc["controller"] = "out"
        /\ UNCHANGED <<clock, stop, tpc, epc, hasEvm, lastCompletion, evmStop>>
    BY <1>14 DEF CtlSynced, Controller, tVars, aVars, mVars, eVars
  <2>2. stop = 1 => evmStop
    BY <2>1 DEF MeetInv
  <2> QED
    BY <1>0, <2>1, <2>2
<1>15. CASE CtlSignal
  <2>1. /\ vpc = "signal" /\ vpc' = "sync" /\ lastCompletion' = vcur
        /\ epc' = (IF epc = "events_waiting" THEN "events_woken" ELSE epc)
        /\ UNCHANGED <<clock, stop, tpc, hasEvm, evmStop>>
    BY <1>15 DEF CtlSignal, Controller, tVars, aVars
  <2>2. vcur = clock
    BY <2>1 DEF MeetInv, Handling
  <2> QED
    BY <1>0, <2>1, <2>2
<1>16. ASSUME NEW a \in Actors, TimerWake(a)
       PROVE  StepInv'
  <2>1. /\ tpc[a] = "woken" /\ tpc' = [tpc EXCEPT ![a] = "out"]
        /\ UNCHANGED <<clock, stop, epc, hasEvm, lastCompletion, vpc, evmStop>>
    BY <1>16 DEF TimerWake, Timer!Wake, Timer!timerFields, eVars, aVars, mVars, vVars
  <2>2. \A b \in Actors : tpc'[b] = "waiting" <=> tpc[b] = "waiting"
    BY <1>0, <2>1
  <2> QED
    BY <1>0, <2>1, <2>2
<1>17. ASSUME NEW task \in atasks, ActivityTask(task)
       PROVE  StepInv'
  BY <1>1, <1>17 DEF ActivityTask, tVars, eVars, mVars, vVars
<1>18. ASSUME NEW c \in Slots, ThrowEvent(c) \/ WorkerDone(c)
       PROVE  StepInv'
  <2>1. UNCHANGED <<clock, stop, tpc, epc, hasEvm, lastCompletion, vpc>> /\ (evmStop => evmStop')
    BY <1>18 DEF ThrowEvent, WorkerDone, tVars, eVars, mVars, vVars, aVars
  <2> QED
    BY <1>1, <2>1
<1>19. CASE Finished \/ UNCHANGED simVars
  BY <1>1, <1>19 DEF Finished, simVars, tVars, eVars, mVars, vVars, aVars
<1> HIDE DEF StepInv, Settled, Passed, Stopped
<1> QED
  BY <1>2, <1>3, <1>4, <1>5, <1>6, <1>7, <1>8, <1>9, <1>10, <1>11, <1>12, <1>13, <1>14, <1>15,
     <1>16, <1>17, <1>18, <1>19 DEF Next, EngineStep, CtlStep

LEMMA StepAlways == ASSUME MaxSpurious = 0 PROVE Spec => [](EventsInv /\ StepInv)
<1>1. Init => StepInv
  BY DEF Init, Timer!Init, StepInv, Settled, Passed, Stopped
<1>2. EventsInv /\ StepInv /\ [Next]_simVars => StepInv'
  BY StepStep DEF EventsInv
<1> QED
  BY <1>1, <1>2, EventsAlways, PTL DEF Spec

\* while the engine is in its part of a step the controller has no list in hand
LEMMA NoBatch ==
    ASSUME EventsInv, StepInv, Settled
    PROVE  ~InBatch
<1>1. clock \in Nat /\ lastCompletion \in Nat
  BY DEF EventsInv, TypeInv, Timer!TypeOK, EngineType
<1>2. CASE hasEvm
  <2>1. lastCompletion = clock
    BY <1>2 DEF StepInv
  <2> QED
    BY <1>1, <2>1 DEF StepInv, InBatch
<1>3. CASE ~hasEvm
  BY <1>3 DEF EventsInv, MeetInv, InBatch
<1> QED
  BY <1>2, <1>3

(***************************************************************************)
(* StepIsComplete: if pthread_cond_wait returns only after a signal, the   *)
(* engine leaves wait_event_completion only when no handler of the step is *)
(* running, whatever the times of the events, and even when a handler      *)
(* stops the controller or the controller begins to raise events late.     *)
(***************************************************************************)
THEOREM StepIsComplete == ASSUME MaxSpurious = 0 PROVE Spec => []StepComplete
<1>1. EventsInv /\ StepInv => StepComplete
  BY NoBatch DEF EventsInv, ShareInv, StepComplete, StepOver, Settled
<1> QED
  BY <1>1, StepAlways, PTL

-----------------------------------------------------------------------------
(***************************************************************************)
(* When events are scheduled for later than now, the tree holds no list    *)
(* for a time that is over: neither for a tick that was completed nor for  *)
(* the one whose list the controller took out.                             *)
(***************************************************************************)
Later ==
    /\ 0 \notin Delays
    /\ \A i \in DOMAIN InitTimes : InitTimes[i] > 0

Over(t) ==
    \/ t <= lastCompletion
    \/ vpc \in {"enqueue", "put", "wait", "signal"} /\ t <= vcur

OverdueInv ==
    /\ \A t \in Times : Over(t) => tree[t] = <<>>
    /\ ~hasEvm => nevents = 0

\* only pop_events adds to what is over
LEMMA OverGrows ==
    ASSUME TypeInv, [Next]_simVars, ~CtlPop, NEW t \in Times, Over(t)'
    PROVE  Over(t)
<1> USE DEF Over
<1>1. CASE UNCHANGED <<lastCompletion, vpc, vcur>>
  BY <1>1
<1>2. CASE CtlSignal
  BY <1>2 DEF CtlSignal, Controller
<1>3. CASE CtlBegin \/ CtlSync \/ CtlSynced \/ CtlShouldStop \/ CtlEnqueue \/ CtlPut \/ CtlWait \/ CtlExit
  <2>1. UNCHANGED lastCompletion
    BY <1>3 DEF CtlBegin, CtlSync, CtlSynced, CtlShouldStop, CtlEnqueue, CtlPut, CtlWait, CtlExit, mVars
  <2>2. /\ vpc' \in {"enqueue", "put", "wait", "signal"} => vpc \in {"enqueue", "put", "wait", "signal"}
        /\ vpc \in {"enqueue", "put", "wait", "signal"} => UNCHANGED vcur
    BY <1>3 DEF CtlBegin, CtlSync, CtlSynced, CtlShouldStop, CtlEnqueue, CtlPut, CtlWait, CtlExit, Controller
  <2>3. CASE t <= lastCompletion'
    BY <2>1, <2>3
  <2>4. CASE vpc' \in {"enqueue", "put", "wait", "signal"} /\ t <= vcur'
    BY <2>2, <2>4
  <2> QED
    BY <2>3, <2>4
<1>4. CASE StartController
  BY <1>4 DEF StartController
<1>5. CASE EngineStep /\ ~StartController
  BY <1>1, <1>5 DEF EngineStep, FirstEvent, SimStart, AfterStep, AfterStepDone, CheckTermination,
         EngineSync, EngineSynced, UserStep, UserStepDone, WaitEvents, EventsWoken, StopController,
         StopTimer, FiniStop, FiniLock, FiniClose, FiniJoin, vVars, mVars
<1>6. ASSUME NEW task \in atasks, ActivityTask(task)
      PROVE  UNCHANGED <<lastCompletion, vpc, vcur>>
  BY <1>6 DEF ActivityTask, vVars, mVars
<1>7. ASSUME NEW c \in Slots, ThrowEvent(c) \/ WorkerDone(c)
      PROVE  UNCHANGED <<lastCompletion, vpc, vcur>>
  BY <1>7 DEF ThrowEvent, WorkerDone, vVars, mVars
<1>8. ASSUME NEW a \in Actors, TimerWake(a)
      PROVE  UNCHANGED <<lastCompletion, vpc, vcur>>
  BY <1>8 DEF TimerWake, vVars, mVars
<1>9. SpuriousWake \/ Finished \/ UNCHANGED simVars => UNCHANGED <<lastCompletion, vpc, vcur>>
  BY DEF SpuriousWake, Finished, simVars, vVars, mVars
<1> HIDE DEF Over
<1> QED
  BY <1>1, <1>2, <1>3, <1>4, <1>5, <1>6, <1>7, <1>8, <1>9 DEF Next, CtlStep

\* user code schedules for later than now, so for what is not over
LEMMA LaterThanNow ==
    ASSUME Later, TypeInv, epc = "start" => clock = 0, NEW u,
           \/ epc = "start" /\ \E i \in DOMAIN InitTimes : u = InitTimes[i]
           \/ \E d \in Delays : u = clock + d
    PROVE  u \in Nat /\ u > clock
<1>0. clock \in Nat
  BY DEF TypeInv, Timer!TypeOK
<1>1. ASSUME epc = "start", NEW i \in DOMAIN InitTimes, u = InitTimes[i]
      PROVE  u \in Nat /\ u > clock
  <2>1. InitTimes[i] \in Times
    BY SimAssumption
  <2> QED
    BY <1>0, <1>1, <2>1 DEF Later, Times
<1>2. ASSUME NEW d \in Delays, u = clock + d
      PROVE  u \in Nat /\ u > clock
  <2>1. d \in Nat /\ d # 0
    BY SimAssumption DEF Later
  <2> QED
    BY <1>0, <1>2, <2>1
<1> QED
  BY <1>1, <1>2

LEMMA LaterAdds ==
    ASSUME Later, EventsInv, StepInv, NEW u,
           \/ epc = "start" /\ \E i \in DOMAIN InitTimes : u = InitTimes[i]
           \/ \E d \in Delays : u = clock + d
    PROVE  ~Over(u)
<1>1. /\ clock \in Nat /\ lastCompletion \in Nat /\ lastCompletion <= clock
      /\ vpc \in {"enqueue", "put", "wait", "signal"} => vcur = clock
  BY DEF EventsInv, TypeInv, Timer!TypeOK, EngineType, StepInv, MeetInv, Handling
<1>2. u \in Nat /\ u > clock
  BY LaterThanNow DEF EventsInv, StepInv
<1> QED
  BY <1>1, <1>2 DEF Over

LEMMA OverdueStep ==
    ASSUME Later, EventsInv, StepInv, OverdueInv, [Next]_simVars
    PROVE  OverdueInv'
<1>0. TypeInv /\ MeetInv
  BY DEF EventsInv
<1>1. UNCHANGED hasEvm
  BY ActivityCases DEF aVars, AfterStep, UserStep, ActivityTask, LoopActivity
<1>2. ASSUME UNCHANGED xVars, ~CtlPop
      PROVE  OverdueInv'
  BY <1>0, <1>1, <1>2, OverGrows DEF OverdueInv, xVars
<1>3. ASSUME hasEvm, ~CtlPop, NEW u, Schedule(u), ~Over(u)
      PROVE  OverdueInv'
  <2>1. u \in Times /\ \A t \in Times : t # u => tree'[t] = tree[t]
    BY <1>0, <1>3, ScheduleAdds DEF TypeInv
  <2>2. ASSUME NEW t \in Times, Over(t)'
        PROVE  tree'[t] = <<>>
    <3>1. Over(t)
      BY <1>0, <1>3, <2>2, OverGrows
    <3> QED
      BY <1>3, <2>1, <3>1 DEF OverdueInv
  <2> QED
    BY <1>1, <1>3, <2>2 DEF OverdueInv
<1>4. ASSUME CtlPop
      PROVE  OverdueInv'
  <2>1. /\ UNCHANGED <<nevents, vcur>>
        /\ vcur \in Times => tree'[vcur] = <<>>
        /\ \A t \in Times : t # vcur => tree'[t] = tree[t]
    BY <1>0, <1>4, PopTakes
  <2>2. vpc = "pop" /\ UNCHANGED lastCompletion
    BY <1>4 DEF CtlPop, Controller, mVars
  <2>3. lastCompletion \in Nat /\ vcur = lastCompletion + 1
    BY <1>0, <2>2 DEF StepInv, MeetInv, Handling, TypeInv, EngineType
  <2>4. ASSUME NEW t \in Times, Over(t)'
        PROVE  tree'[t] = <<>>
    <3>1. t \in Nat
      BY DEF Times
    <3>2. t <= lastCompletion \/ t = vcur
      BY <2>1, <2>2, <2>3, <2>4, <3>1 DEF Over
    <3>3. CASE t = vcur
      BY <2>1, <3>3
    <3>4. CASE t # vcur
      BY <2>1, <3>2, <3>4 DEF OverdueInv, Over
    <3> QED
      BY <3>3, <3>4
  <2> QED
    BY <1>1, <2>1, <2>4 DEF OverdueInv
<1>5. ASSUME NEW c \in Slots, ThrowEvent(c)
      PROVE  UNCHANGED xVars \/ (hasEvm /\ \E d \in Delays : Schedule(clock + d))
  BY <1>5 DEF ThrowEvent, UserCode
<1>6. ASSUME hasEvm, ~CtlPop, epc = "start", NEW i \in DOMAIN InitTimes, Schedule(InitTimes[i])
      PROVE  OverdueInv'
  <2>1. ~Over(InitTimes[i])
    BY <1>6, LaterAdds
  <2> QED
    BY <1>3, <1>6, <2>1
<1>7. ASSUME hasEvm, ~CtlPop, NEW d \in Delays, Schedule(clock + d)
      PROVE  OverdueInv'
  <2>1. ~Over(clock + d)
    BY LaterAdds
  <2> QED
    BY <1>3, <1>7, <2>1
<1> QED
  BY <1>0, <1>2, <1>4, <1>5, <1>6, <1>7, TreeMoves

LEMMA OverdueAlways ==
    ASSUME MaxSpurious = 0, Later
    PROVE  Spec => [](EventsInv /\ StepInv /\ OverdueInv)
<1>1. Init => OverdueInv
  BY DEF Init, OverdueInv
<1>2. EventsInv /\ StepInv /\ OverdueInv /\ [Next]_simVars => OverdueInv'
  BY OverdueStep
<1> QED
  BY <1>1, <1>2, StepAlways, PTL DEF Spec

\* once the engine has passed wait_event_completion nothing that is due is open
LEMMA DueIsRaised ==
    ASSUME EventsInv, StepInv, OverdueInv, Settled, NEW e \in 1 .. nevents, at[e] <= clock
    PROVE  raised[e] # <<>>
<1>1. ~InBatch
  BY NoBatch
<1>2. e \in Events /\ at[e] \in Times /\ nevents \in Nat
  BY TreeNumbers DEF EventsInv
<1>3. hasEvm /\ lastCompletion = clock
  <2>1. nevents # 0
    BY <1>2
  <2> QED
    BY <2>1 DEF OverdueInv, StepInv
<1>4. tree[at[e]] = <<>>
  <2>1. Over(at[e])
    BY <1>3 DEF Over
  <2> QED
    BY <1>2, <2>1 DEF OverdueInv
<1>5. Len(tree[at[e]]) = 0
  BY <1>4
<1>6. ~\E i \in 1 .. Len(tree[at[e]]) : tree[at[e]][i] = e
  BY <1>5
<1> QED
  BY <1>1, <1>6 DEF EventsInv, EventInv

(***************************************************************************)
(* NothingMissed: when wait_event_completion has returned, every event     *)
(* whose time has come was raised, those included that handlers and        *)
(* activities scheduled meanwhile and those whose list was divided among   *)
(* any number of workers.                                                  *)
(***************************************************************************)
THEOREM NothingMissed == ASSUME MaxSpurious = 0, Later PROVE Spec => []NoEventMissed
<1>1. StepOver => Settled
  BY DEF StepOver, Settled
<1>2. EventsInv /\ StepInv /\ OverdueInv => NoEventMissed
  BY <1>1, DueIsRaised DEF NoEventMissed
<1> QED
  BY <1>2, OverdueAlways, PTL

-----------------------------------------------------------------------------
(***************************************************************************)
(* A simulation is a stepwise one.  What engine, controller, workers and   *)
(* tasks do between two ticks is a stutter of StepwiseSimulation, unless   *)
(* it schedules or raises an event.  The clock ticks when engine and       *)
(* controller, if there is one, are at the timer, and nothing that is due  *)
(* is open then.  There are two reasons for this, each of them enough: the *)
(* engine has waited for the completion of the events, or the controller,  *)
(* which raises from time 1 on, comes to the timer only when it is through *)
(* with the list of the tick.  So it holds in spite of spurious wakeups    *)
(* too, with which the engine's wait may be worth nothing.                 *)
(***************************************************************************)
Meeting ==
    /\ epc = "sync" \/ (epc = "syncing" /\ ~Passed)
    /\ hasEvm => vpc = "sync" \/ (vpc = "syncing" /\ tpc["controller"] = "waiting")

TickReady ==
    /\ Meeting => \A e \in 1 .. nevents : at[e] <= clock => raised[e] # <<>>
    /\ epc = "start" => clock = 0

\* the first reason
LEMMA EngineWaited ==
    ASSUME EventsInv, StepInv, OverdueInv
    PROVE  TickReady
<1>1. Meeting => Settled
  BY DEF Meeting, Settled
<1> QED
  BY <1>1, DueIsRaised DEF TickReady, StepInv

\* the second: of the times up to the clock the controller has still to look
\* at the last one at most, between its return from cs_time_sync and pop_events
Served(t) ==
    \/ t = 0 \/ t < clock
    \/ /\ t = clock
       /\ vpc \notin {"should_stop", "pop", "exit", "ended"}
       /\ vpc = "syncing" => tpc["controller"] = "waiting"

RoundInv ==
    /\ \A t \in Times : Served(t) => tree[t] = <<>>
    /\ ~hasEvm => nevents = 0
    /\ startTime <= 1 /\ vstart <= 1
    /\ epc = "start" => clock = 0

LEMMA ControllerThrough ==
    ASSUME EventsInv, RoundInv
    PROVE  TickReady
<1>1. ASSUME Meeting, NEW e \in 1 .. nevents, at[e] <= clock
      PROVE  raised[e] # <<>>
  <2>1. e \in Events /\ at[e] \in Times /\ nevents \in Nat
    BY TreeNumbers DEF EventsInv
  <2>2. hasEvm
    <3>1. nevents # 0
      BY <2>1
    <3> QED
      BY <3>1 DEF RoundInv
  <2>3. vpc = "sync" \/ (vpc = "syncing" /\ tpc["controller"] = "waiting")
    BY <1>1, <2>2 DEF Meeting
  <2>4. Served(at[e])
    <3>1. at[e] \in Nat /\ clock \in Nat
      <4>1. clock \in Nat
        BY DEF EventsInv, TypeInv, Timer!TypeOK
      <4> QED
        BY <2>1, <4>1 DEF Times
    <3>2. at[e] < clock \/ at[e] = clock
      BY <1>1, <3>1
    <3> QED
      BY <2>3, <3>2 DEF Served
  <2>5. tree[at[e]] = <<>>
    BY <2>1, <2>4 DEF RoundInv
  <2>6. Len(tree[at[e]]) = 0
    BY <2>5
  <2>7. ~\E i \in 1 .. Len(tree[at[e]]) : tree[at[e]][i] = e
    BY <2>6
  <2>8. ~InBatch
    BY <2>3 DEF InBatch
  <2> QED
    BY <2>7, <2>8 DEF EventsInv, EventInv
<1> QED
  BY <1>1 DEF TickReady, RoundInv

\* the two who can move the clock find the other one at the timer
LEMMA ClockMeets ==
    ASSUME TypeInv, MeetInv, [Next]_simVars, clock' # clock
    PROVE  /\ Meeting /\ clock' = clock + 1
           /\ UNCHANGED <<xVars, raised, vstart, startTime, hasEvm>>
           /\ epc' = "syncing"
           /\ vpc' = vpc \/ (vpc = "sync" /\ vpc' = "syncing")
           /\ hasEvm => vpc' = "syncing" /\ tpc'["controller"] # "waiting"
<1>0. tpc \in [{"engine", "controller"} -> {"out", "waiting", "woken"}]
  BY DEF TypeInv, Timer!TypeOK, Actors
<1>1. EngineSync \/ CtlSync
  BY TimerCases DEF tVars, SimStart, StopTimer, TimerWake, Timer!SetNsync, Timer!TimeStop,
                    Timer!Wake, Timer!timerFields
<1>2. UNCHANGED <<xVars, raised, vstart, startTime, hasEvm>>
  BY <1>1 DEF EngineSync, CtlSync, jVars, vVars, mVars, aVars
<1>3. CASE EngineSync
  <2>1. epc = "sync" /\ epc' = "syncing" /\ vpc' = vpc /\ Timer!TimeSync("engine")
    BY <1>3 DEF EngineSync, Engine, vVars
  <2>2. Timer!TimeSyncTick("engine")
    BY <2>1 DEF Timer!TimeSync, Timer!TimeSyncRefused, Timer!TimeSyncWait, Timer!timerFields
  <2>3. clock' = clock + 1 /\ tpc' = Timer!Woken
    BY <2>2 DEF Timer!TimeSyncTick
  <2>4. hasEvm => vpc = "syncing" /\ tpc["controller"] = "waiting"
    BY <2>1, <2>2, TickMeets
  <2>5. hasEvm => tpc'["controller"] # "waiting"
    BY <1>0, <2>3 DEF Timer!Woken, Actors
  <2> QED
    BY <1>2, <2>1, <2>3, <2>4, <2>5 DEF Meeting
<1>4. CASE CtlSync
  <2>1. vpc = "sync" /\ vpc' = "syncing" /\ epc' = epc /\ Timer!TimeSync("controller")
    BY <1>4 DEF CtlSync, Controller, eVars
  <2>2. Timer!TimeSyncTick("controller")
    BY <2>1 DEF Timer!TimeSync, Timer!TimeSyncRefused, Timer!TimeSyncWait, Timer!timerFields
  <2>3. clock' = clock + 1 /\ tpc' = Timer!Woken
    BY <2>2 DEF Timer!TimeSyncTick
  <2>4. epc = "syncing" /\ tpc["engine"] = "waiting"
    BY <2>1, <2>2, TickMeets
  <2>5. tpc'["controller"] # "waiting"
    BY <1>0, <2>3 DEF Timer!Woken, Actors
  <2> QED
    BY <1>2, <2>1, <2>3, <2>4, <2>5 DEF Meeting, Passed
<1> QED
  BY <1>1, <1>3, <1>4

\* only the tick and pop_events change what is served, the tick to what was
LEMMA ServedStays ==
    ASSUME TypeInv, MeetInv, RoundInv, [Next]_simVars, ~CtlPop, NEW t \in Times, hasEvm, Served(t)'
    PROVE  Served(t)
<1>0. /\ clock \in Nat /\ t \in Nat
      /\ tpc \in [{"engine", "controller"} -> {"out", "waiting", "woken"}]
  BY DEF TypeInv, Timer!TypeOK, Times, Actors
<1>1. CASE clock' # clock
  <2>1. /\ Meeting /\ clock' = clock + 1
        /\ vpc' = "syncing" /\ tpc'["controller"] # "waiting"
    BY <1>1, ClockMeets
  <2>2. t = 0 \/ t < clock + 1
    BY <2>1 DEF Served
  <2>3. t = 0 \/ t < clock \/ t = clock
    BY <1>0, <2>2
  <2>4. vpc = "sync" \/ (vpc = "syncing" /\ tpc["controller"] = "waiting")
    BY <2>1 DEF Meeting
  <2> QED
    BY <2>3, <2>4 DEF Served
<1>2. CASE clock' = clock
  <2>0. CASE t = 0 \/ t < clock
    BY <2>0 DEF Served
  <2> SUFFICES ASSUME t = clock, ~(t = 0),
                      vpc' \notin {"should_stop", "pop", "exit", "ended"},
                      vpc' = "syncing" => tpc'["controller"] = "waiting"
               PROVE  /\ vpc \notin {"should_stop", "pop", "exit", "ended"}
                      /\ vpc = "syncing" => tpc["controller"] = "waiting"
    BY <1>2, <2>0 DEF Served
  <2>1. ASSUME vpc' = vpc, tpc'["controller"] = "waiting" => tpc["controller"] = "waiting"
        PROVE  /\ vpc \notin {"should_stop", "pop", "exit", "ended"}
               /\ vpc = "syncing" => tpc["controller"] = "waiting"
    BY <2>1
  <2>2. CASE CtlSync
    BY <2>2 DEF CtlSync, Controller
  <2>3. CASE CtlShouldStop
    <3>1. /\ vpc = "should_stop"
          /\ vpc' = IF evmStop THEN "exit" ELSE IF vstart > vcur THEN "sync" ELSE "pop"
      BY <2>3 DEF CtlShouldStop, Controller
    <3>2. vcur = clock /\ vstart \in Nat /\ vstart <= 1
      BY <3>1 DEF MeetInv, Handling, RoundInv, TypeInv, ControllerType
    <3>3. ~(vstart > vcur)
      BY <1>0, <3>2
    <3> QED
      BY <3>1, <3>3
  <2>4. CASE CtlSynced
    <3>1. vpc' \in {"exit", "should_stop"}
      BY <2>4 DEF CtlSynced, Controller
    <3> QED
      BY <3>1
  <2>5. CASE CtlBegin \/ CtlEnqueue \/ CtlPut \/ CtlWait \/ CtlSignal \/ CtlExit
    BY <2>5 DEF CtlBegin, CtlEnqueue, CtlPut, CtlWait, CtlSignal, CtlExit, Controller
  <2>6. CASE StartController
    BY <2>1, <2>6 DEF StartController, tVars
  <2>7. CASE UNCHANGED vVars /\ ~CtlSync
    <3>1. tpc'["controller"] = "waiting" => tpc["controller"] = "waiting"
      <4>1. CASE UNCHANGED tVars \/ SimStart
        BY <4>1 DEF tVars, SimStart, Timer!SetNsync
      <4>2. CASE EngineSync
        <5>1. Timer!TimeSyncWait("engine") \/ Timer!TimeSyncRefused("engine")
          BY <1>0, <1>2, <4>2 DEF EngineSync, Timer!TimeSync, Timer!TimeSyncTick
        <5> QED
          BY <1>0, <5>1 DEF Timer!TimeSyncWait, Timer!TimeSyncRefused
      <4>3. CASE StopTimer
        BY <1>0, <4>3 DEF StopTimer, Timer!TimeStop, Timer!Woken, Actors
      <4>4. ASSUME NEW a \in Actors, TimerWake(a)
            PROVE  tpc'["controller"] = "waiting" => tpc["controller"] = "waiting"
        BY <1>0, <4>4 DEF TimerWake, Timer!Wake
      <4> QED
        BY <2>7, <4>1, <4>2, <4>3, <4>4, TimerCases
    <3> QED
      BY <2>1, <2>7, <3>1 DEF vVars
  <2>8. ASSUME NEW c \in Slots, ThrowEvent(c) \/ WorkerDone(c)
        PROVE  UNCHANGED vVars /\ (~CtlSync \/ CtlSync)
    BY <2>8 DEF ThrowEvent, WorkerDone
  <2> QED
    BY <2>2, <2>3, <2>4, <2>5, <2>6, <2>7, <2>8, ControllerCases DEF CtlStep
<1> QED
  BY <1>1, <1>2

LEMMA RoundStep ==
    ASSUME Later, TypeInv, MeetInv, PlaceInv, RoundInv, [Next]_simVars
    PROVE  RoundInv'
<1>0. /\ UNCHANGED hasEvm /\ hasEvm \in BOOLEAN
  BY ActivityCases DEF aVars, AfterStep, UserStep, ActivityTask, LoopActivity, TypeInv, EngineType
<1>1. epc' = "start" => clock' = 0
  <2> SUFFICES ASSUME epc' = "start" PROVE clock' = 0
    OBVIOUS
  <2>1. clock' = clock
    BY ClockMeets
  <2>2. epc = "start"
    <3>1. UNCHANGED eVars => epc = "start"
      BY DEF eVars
    <3>2. EngineStep => epc = "start"
      BY DEF EngineStep, Engine, FirstEvent, SimStart, StartController, AfterStep, AfterStepDone,
             CheckTermination, EngineSync, EngineSynced, AfterSync, AfterUser, UserStep,
             UserStepDone, WaitEvents, EventsWoken, StopController, StopTimer, FiniStop, FiniLock,
             FiniClose, FiniJoin
    <3>3. SpuriousWake \/ CtlSignal => epc = "start"
      BY DEF SpuriousWake, CtlSignal, Engine
    <3> QED
      BY <3>1, <3>2, <3>3, EngineCases
  <2> QED
    BY <2>1, <2>2 DEF RoundInv
<1>2. startTime' <= 1 /\ vstart' <= 1
  <2>1. CASE StartController
    BY <2>1 DEF StartController, RoundInv
  <2>2. CASE CtlStep
    BY <2>2 DEF CtlStep, CtlBegin, CtlSync, CtlSynced, CtlShouldStop, CtlPop, CtlEnqueue, CtlPut,
                CtlWait, CtlSignal, CtlExit, mVars, RoundInv
  <2>3. CASE EngineStep /\ ~StartController
    BY <2>3 DEF EngineStep, FirstEvent, SimStart, AfterStep, AfterStepDone, CheckTermination,
                EngineSync, EngineSynced, UserStep, UserStepDone, WaitEvents, EventsWoken,
                StopController, StopTimer, FiniStop, FiniLock, FiniClose, FiniJoin, vVars, mVars,
                RoundInv
  <2>4. ASSUME NEW task \in atasks, ActivityTask(task)
        PROVE  UNCHANGED <<startTime, vstart>>
    BY <2>4 DEF ActivityTask, vVars, mVars
  <2>5. ASSUME NEW c \in Slots, ThrowEvent(c) \/ WorkerDone(c)
        PROVE  UNCHANGED <<startTime, vstart>>
    BY <2>5 DEF ThrowEvent, WorkerDone, vVars, mVars
  <2>6. ASSUME NEW a \in Actors, TimerWake(a)
        PROVE  UNCHANGED <<startTime, vstart>>
    BY <2>6 DEF TimerWake, vVars, mVars
  <2>7. SpuriousWake \/ Finished \/ UNCHANGED simVars => UNCHANGED <<startTime, vstart>>
    BY DEF SpuriousWake, Finished, simVars, vVars, mVars
  <2> QED
    BY <2>1, <2>2, <2>3, <2>4, <2>5, <2>6, <2>7 DEF Next, RoundInv
<1>3. ASSUME UNCHANGED xVars, ~CtlPop
      PROVE  RoundInv'
  <2>1. CASE hasEvm
    BY <1>0, <1>1, <1>2, <1>3, <2>1, ServedStays DEF RoundInv, xVars
  <2>2. CASE ~hasEvm
    <3>1. ASSUME NEW t \in Times
          PROVE  tree[t] = <<>>
      <4>1. tree[t] \in Seq(Events) /\ Len(tree[t]) \in Nat
        BY LenProperties DEF TypeInv, TreeType
      <4>2. 1 \notin 1 .. Len(tree[t])
        <5>1. ASSUME 1 \in 1 .. Len(tree[t]) PROVE FALSE
          <6>1. tree[t][1] <= nevents /\ tree[t][1] \in Nat \ {0} /\ nevents = 0
            BY <2>2, <5>1, TreeNumbers DEF PlaceInv, RoundInv
          <6> QED
            BY <6>1
        <5> QED
          BY <5>1
      <4>3. Len(tree[t]) = 0
        BY <4>1, <4>2
      <4> QED
        BY <4>1, <4>3, EmptySeq
    <3> QED
      BY <1>0, <1>1, <1>2, <1>3, <2>2, <3>1 DEF RoundInv, xVars
  <2> QED
    BY <2>1, <2>2
<1>4. ASSUME hasEvm, ~CtlPop, NEW u, Schedule(u),
             \/ epc = "start" /\ \E i \in DOMAIN InitTimes : u = InitTimes[i]
             \/ \E d \in Delays : u = clock + d
      PROVE  RoundInv'
  <2>1. u \in Nat /\ u > clock
    BY <1>4, LaterThanNow DEF RoundInv
  <2>2. ~Served(u)
    <3>1. clock \in Nat
      BY DEF TypeInv, Timer!TypeOK
    <3> QED
      BY <2>1, <3>1 DEF Served
  <2>3. u \in Times /\ \A t \in Times : t # u => tree'[t] = tree[t]
    BY <1>4, ScheduleAdds DEF TypeInv
  <2>4. ASSUME NEW t \in Times, Served(t)'
        PROVE  tree'[t] = <<>>
    <3>1. Served(t)
      BY <1>4, <2>4, ServedStays
    <3> QED
      BY <2>2, <2>3, <3>1 DEF RoundInv
  <2> QED
    BY <1>0, <1>1, <1>2, <1>4, <2>4 DEF RoundInv
<1>5. ASSUME CtlPop
      PROVE  RoundInv'
  <2>1. /\ UNCHANGED <<nevents, vcur>>
        /\ vcur \in Times => tree'[vcur] = <<>>
        /\ \A t \in Times : t # vcur => tree'[t] = tree[t]
    BY <1>5, PopTakes
  <2>2. vpc = "pop" /\ UNCHANGED clock /\ vcur = clock /\ hasEvm
    BY <1>5 DEF CtlPop, Controller, MeetInv, Handling, tVars
  <2>3. ASSUME NEW t \in Times, Served(t)'
        PROVE  tree'[t] = <<>>
    <3>1. CASE t = vcur
      BY <2>1, <3>1
    <3>2. CASE t # vcur
      <4>1. Served(t)
        BY <2>2, <2>3, <3>2 DEF Served
      <4> QED
        BY <2>1, <3>2, <4>1 DEF RoundInv
    <3> QED
      BY <3>1, <3>2
  <2> QED
    BY <1>0, <1>1, <1>2, <2>2, <2>3 DEF RoundInv
<1>6. ASSUME NEW c \in Slots, ThrowEvent(c)
      PROVE  UNCHANGED xVars \/ (hasEvm /\ \E d \in Delays : Schedule(clock + d))
  BY <1>6 DEF ThrowEvent, UserCode
<1>7. ASSUME hasEvm, ~CtlPop, epc = "start", NEW i \in DOMAIN InitTimes, Schedule(InitTimes[i])
      PROVE  RoundInv'
  BY <1>4, <1>7
<1>8. ASSUME hasEvm, ~CtlPop, NEW d \in Delays, Schedule(clock + d)
      PROVE  RoundInv'
  BY <1>4, <1>8
<1> QED
  BY <1>3, <1>5, <1>6, <1>7, <1>8, TreeMoves

LEMMA RoundAlways ==
    ASSUME Later, StartRaising <= 1
    PROVE  Spec => [](EventsInv /\ RoundInv)
<1>1. Init => RoundInv
  BY DEF Init, Timer!Init, RoundInv
<1>2. EventsInv /\ RoundInv /\ [Next]_simVars => RoundInv'
  BY RoundStep DEF EventsInv
<1> QED
  BY <1>1, <1>2, EventsAlways, PTL DEF Spec

\* a step that moves the clock is a tick
LEMMA ClockTicks ==
    ASSUME EventsInv, TickReady, [Next]_simVars, clock' # clock
    PROVE  Stepwise!Tick
<1>0. TypeInv /\ MeetInv
  BY DEF EventsInv
<1>1. Meeting /\ clock' = clock + 1 /\ UNCHANGED <<xVars, raised>>
  BY <1>0, ClockMeets
<1>2. ASSUME NEW e \in 1 .. nevents, raised[e] = <<>>
      PROVE  at[e] > clock
  <2>1. at[e] \in Nat /\ clock \in Nat
    <3>1. at[e] \in Times
      BY <1>0, TreeNumbers
    <3> QED
      BY <1>0, <3>1 DEF Times, TypeInv, Timer!TypeOK
  <2>2. ~(at[e] <= clock)
    BY <1>1, <1>2 DEF TickReady
  <2> QED
    BY <2>1, <2>2
<1>3. UNCHANGED [e \in 1 .. nevents |-> at[e]]
  BY <1>1 DEF xVars
<1> QED
  BY <1>1, <1>2, <1>3 DEF Stepwise!Tick, Stepwise!Open

\* cs_evm_schedule_event makes a new event known, for later than now
LEMMA ScheduleIsAdd ==
    ASSUME EventsInv, NEW u, Schedule(u), u > clock
    PROVE  nevents + 1 \in Events /\ u \in Times /\ Stepwise!Add(nevents + 1, u)
<1>1. /\ u \in Times /\ nevents + 1 \in Events /\ nevents' = nevents + 1
      /\ at' = [at EXCEPT ![nevents + 1] = u]
  BY ScheduleAdds DEF EventsInv, TypeInv
<1>2. nevents \in Nat /\ 1 .. nevents \subseteq Events /\ at \in [Events -> Times]
  BY TreeNumbers DEF EventsInv, TypeInv, TreeType
<1>3. nevents + 1 \notin 1 .. nevents /\ 1 .. nevents' = (1 .. nevents) \cup {nevents + 1}
  BY <1>1, <1>2
<1>4. \A f \in 1 .. nevents' : at'[f] = IF f = nevents + 1 THEN u ELSE at[f]
  BY <1>1, <1>2, <1>3
<1>5. [e \in 1 .. nevents' |-> at'[e]]
        = [f \in (1 .. nevents) \cup {nevents + 1} |->
             IF f = nevents + 1 THEN u ELSE [e \in 1 .. nevents |-> at[e]][f]]
  BY <1>3, <1>4
<1> QED
  BY <1>1, <1>3, <1>5 DEF Stepwise!Add

\* _ev_worker raises an event that is open and due
LEMMA ThrowIsRaise ==
    ASSUME Later, EventsInv, TickReady, NEW c \in Slots, ThrowEvent(c)
    PROVE  \E e \in Events : Stepwise!Raise(e)
<1>0. TypeInv /\ MeetInv
  BY DEF EventsInv
<1>1. PICK e \in 1 .. nevents : /\ InBatch /\ at[e] = vcur /\ raised[e] = <<>>
                                /\ raised' = [raised EXCEPT ![e] = <<vcur>>]
  BY ThrownEvent DEF EventsInv
<1>2. vcur = clock
  BY <1>0, <1>1 DEF MeetInv, Handling, InBatch
<1>3. UNCHANGED clock
  BY DEF ThrowEvent, tVars
<1>4. CASE UNCHANGED xVars
  <2>1. UNCHANGED [f \in 1 .. nevents |-> at[f]]
    BY <1>4 DEF xVars
  <2> QED
    BY <1>0, <1>1, <1>2, <1>3, <2>1, TreeNumbers DEF Stepwise!Raise, Stepwise!Open
<1>5. ASSUME NEW d \in Delays, Schedule(clock + d)
      PROVE  \E f \in Events : Stepwise!Raise(f)
  <2>1. clock + d > clock
    BY <1>0, LaterThanNow DEF TickReady
  <2>2. \E f \in Events, t \in Times : Stepwise!Add(f, t)
    BY <1>5, <2>1, ScheduleIsAdd
  <2> QED
    BY <1>0, <1>1, <1>2, <1>3, <2>2, TreeNumbers DEF Stepwise!Raise, Stepwise!Open
<1> QED
  BY <1>4, <1>5 DEF ThrowEvent, UserCode

LEMMA StepwiseStep ==
    ASSUME Later, EventsInv, TickReady, [Next]_simVars
    PROVE  [Stepwise!Next]_(Stepwise!stepwiseVars)
<1>0. TypeInv
  BY DEF EventsInv
<1>1. CASE clock' # clock
  BY <1>1, ClockTicks DEF Stepwise!Next
<1>2. ASSUME UNCHANGED <<clock, nevents, at, raised>>
      PROVE  UNCHANGED Stepwise!stepwiseVars
  BY <1>2 DEF Stepwise!stepwiseVars
<1>3. ASSUME UNCHANGED <<clock, raised>>, NEW u, Schedule(u),
             \/ epc = "start" /\ \E i \in DOMAIN InitTimes : u = InitTimes[i]
             \/ \E d \in Delays : u = clock + d
      PROVE  Stepwise!Next
  <2>1. u > clock
    BY <1>0, <1>3, LaterThanNow DEF TickReady
  <2>2. nevents + 1 \in Events /\ u \in Times /\ Stepwise!Add(nevents + 1, u)
    BY <1>3, <2>1, ScheduleIsAdd
  <2> QED
    BY <1>3, <2>2 DEF Stepwise!Next, Stepwise!Schedule
<1>4. ASSUME NEW c \in Slots, ThrowEvent(c)
      PROVE  Stepwise!Next
  BY <1>4, ThrowIsRaise DEF Stepwise!Next
<1>5. CASE UNCHANGED clock
  <2>1. CASE UNCHANGED <<xVars, raised>>
    BY <1>2, <1>5, <2>1 DEF xVars
  <2>2. CASE CtlPop /\ UNCHANGED <<nevents, at, raised>>
    BY <1>2, <1>5, <2>2
  <2>3. ASSUME UNCHANGED raised, epc = "start", NEW i \in DOMAIN InitTimes, Schedule(InitTimes[i])
        PROVE  Stepwise!Next
    BY <1>3, <1>5, <2>3
  <2>4. ASSUME UNCHANGED raised, NEW d \in Delays, Schedule(clock + d)
        PROVE  Stepwise!Next
    BY <1>3, <1>5, <2>4
  <2> QED
    BY <1>0, <1>4, <2>1, <2>2, <2>3, <2>4, TreeMoves
<1> QED
  BY <1>1, <1>5

LEMMA ReadyAlways ==
    ASSUME Later, MaxSpurious = 0 \/ StartRaising <= 1
    PROVE  Spec => [](EventsInv /\ TickReady)
<1>1. CASE MaxSpurious = 0
  <2>1. EventsInv /\ StepInv /\ OverdueInv => EventsInv /\ TickReady
    BY EngineWaited
  <2>2. Spec => [](EventsInv /\ StepInv /\ OverdueInv)
    BY <1>1, OverdueAlways
  <2> QED
    BY <2>1, <2>2, PTL
<1>2. CASE StartRaising <= 1
  <2>1. EventsInv /\ RoundInv => EventsInv /\ TickReady
    BY ControllerThrough
  <2>2. Spec => [](EventsInv /\ RoundInv)
    BY <1>2, RoundAlways
  <2> QED
    BY <2>1, <2>2, PTL
<1> QED
  BY <1>1, <1>2

(***************************************************************************)
(* IsStepwise: the whole simulation implements StepwiseSimulation: the     *)
(* clock never ticks while an event that is due is open, in a handler, in  *)
(* a worker or in the tree, and each event is raised once, at its time,    *)
(* whatever is done with more than one thread: the list in pieces on the   *)
(* workers, the handlers and tasks that schedule meanwhile, the two who    *)
(* meet on the timer, and the end.  Either nothing but a signal may end    *)
(* the engine's wait, or the controller is to raise events from time 1 on, *)
(* as cs_sim_start has it.                                                 *)
(***************************************************************************)
THEOREM IsStepwise ==
    ASSUME Later, MaxSpurious = 0 \/ StartRaising <= 1
    PROVE  Spec => ImplementsStepwise
<1>1. Init => Stepwise!Init
  <2> SUFFICES ASSUME Init PROVE Stepwise!Init
    OBVIOUS
  <2>1. clock = 0 /\ nevents = 0 /\ raised = [e \in Events |-> <<>>]
    BY DEF Init, Timer!Init
  <2>2. 1 .. nevents = {}
    BY <2>1
  <2> QED
    BY <2>1, <2>2 DEF Stepwise!Init
<1>2. EventsInv /\ TickReady /\ [Next]_simVars => [Stepwise!Next]_(Stepwise!stepwiseVars)
  BY StepwiseStep
<1> QED
  BY <1>1, <1>2, ReadyAlways, PTL DEF Spec, ImplementsStepwise, Stepwise!Spec

-----------------------------------------------------------------------------
(***************************************************************************)
(* cs_evm_num_events counts wrong when the lists differ in length, but it  *)
(* is 0 only when the tree is empty: that is all the engine asks of it.    *)
(***************************************************************************)
LEMMA LeastNumber ==
    ASSUME NEW S, S \subseteq Nat, S # {}
    PROVE  \E m \in S : \A u \in S : m <= u
<1> DEFINE R == OpToRel(<, Nat)
<1>1. IsWellFoundedOn(R, Nat)
  BY NatLessThanWellFounded, Zenon
<1>2. \A x, y \in Nat : <<x, y>> \in R <=> x < y
  BY DEF OpToRel
<1> HIDE DEF R
<1>3. PICK m \in S : \A u \in S : ~ (<<u, m>> \in R)
  BY <1>1, WFMin
<1>4. \A u \in S : ~ (u < m)
  BY <1>2, <1>3
<1> QED
  BY <1>4

LEMMA EarliestList ==
    ASSUME Scheduled # {}
    PROVE  First \in Scheduled
<1>1. Scheduled \subseteq Nat
  BY DEF Scheduled, Times
<1> HIDE DEF Scheduled
<1>2. \E t \in Scheduled : \A u \in Scheduled : t <= u
  BY <1>1, LeastNumber
<1> QED
  BY <1>2 DEF First

LEMMA ProductPositive ==
    ASSUME NEW a \in Nat \ {0}, NEW b \in Nat \ {0}
    PROVE  a * b > 0
OBVIOUS

LEMMA NumEventsZero ==
    ASSUME TypeInv, ~(NumEvents > 0)
    PROVE  \A t \in Times : tree[t] = <<>>
<1> SUFFICES ASSUME Scheduled # {} PROVE FALSE
  BY DEF Scheduled
<1>1. First \in Times /\ tree[First] # <<>> /\ tree[First] \in Seq(Events)
  BY EarliestList DEF Scheduled, TypeInv, TreeType
<1>2. Len(tree[First]) \in Nat \ {0}
  BY <1>1, EmptySeq, LenProperties
<1>3. Cardinality(Scheduled) \in Nat \ {0}
  <2>1. IsFiniteSet(Times)
    BY SimAssumption, FS_Interval DEF Times
  <2>2. IsFiniteSet(Scheduled)
    BY <2>1, FS_Subset DEF Scheduled
  <2> QED
    BY <2>2, FS_CardinalityType, FS_EmptySet
<1>4. Cardinality(Scheduled) * Len(tree[First]) > 0
  BY <1>2, <1>3, ProductPositive
<1> QED
  BY <1>4 DEF NumEvents

(***************************************************************************)
(* Outside _loop_activity no activity task is left.                        *)
(***************************************************************************)
TaskInv == epc \notin {"after_step_wait", "user_wait"} => atasks = {}

LEMMA TaskStep ==
    ASSUME TaskInv, [Next]_simVars
    PROVE  TaskInv'
<1>1. CASE AfterStep \/ UserStep
  BY <1>1 DEF AfterStep, UserStep, Engine, TaskInv
<1>2. CASE AfterStepDone \/ UserStepDone
  BY <1>2 DEF AfterStepDone, UserStepDone, aVars, TaskInv
<1>3. ASSUME NEW task \in atasks, ActivityTask(task)
      PROVE  TaskInv'
  BY <1>3 DEF ActivityTask, eVars, TaskInv
<1>4. ASSUME UNCHANGED aVars, ~AfterStepDone, ~UserStepDone
      PROVE  TaskInv'
  <2>1. epc \in {"after_step_wait", "user_wait"} => UNCHANGED epc
    <3>1. CASE UNCHANGED eVars
      BY <3>1 DEF eVars
    <3>2. CASE CtlSignal
      BY <3>2 DEF CtlSignal
    <3>3. CASE SpuriousWake
      BY <3>3 DEF SpuriousWake, Engine
    <3>4. CASE EngineStep
      BY <1>1, <1>4, <3>4 DEF EngineStep, FirstEvent, SimStart, StartController, AfterStep,
         CheckTermination, EngineSync, EngineSynced, UserStep, WaitEvents, EventsWoken,
         StopController, StopTimer, FiniStop, FiniLock, FiniClose, FiniJoin, Engine
    <3> QED
      BY <3>1, <3>2, <3>3, <3>4, EngineCases
  <2> QED
    BY <1>4, <2>1 DEF TaskInv, aVars
<1> QED
  BY <1>1, <1>2, <1>3, <1>4, ActivityCases

LEMMA TaskAlways == Spec => []TaskInv
<1>1. Init => TaskInv
  BY DEF Init, TaskInv
<1>2. TaskInv /\ [Next]_simVars => TaskInv'
  BY TaskStep
<1> QED
  BY <1>1, <1>2, PTL DEF Spec

(***************************************************************************)
(* Once an event driven engine has found the tree empty nothing is left    *)
(* that could schedule an event: no task, no handler, and none will begin. *)
(***************************************************************************)
Ending == SimType = "EVENT_DRIVEN" /\ estop

EndInv ==
    Ending =>
        /\ epc \in {"sync", "syncing", "stop_evm", "stop_timer"} \/ Stopped
        /\ \A t \in Times : tree[t] = <<>>
        /\ atasks = {}
        /\ ~InBatch

LEMMA EndStep ==
    ASSUME EventsInv, StepInv, TaskInv, EndInv, [Next]_simVars
    PROVE  EndInv'
<1>0. TypeInv /\ MeetInv /\ ShareInv
  BY DEF EventsInv
<1>1. CASE CheckTermination
  <2>1. /\ epc = "check" /\ epc' = "sync"
        /\ UNCHANGED <<tree, atasks, vpc>>
        /\ Ending' => ~(NumEvents > 0)
    BY <1>1 DEF CheckTermination, Engine, Ending, xVars, aVars, vVars
  <2>2. ~InBatch /\ ~InBatch'
    <3>1. Settled
      BY <2>1 DEF Settled
    <3> QED
      BY <2>1, <3>1, NoBatch DEF InBatch
  <2>3. atasks = {}
    BY <2>1 DEF TaskInv
  <2>4. Ending' => \A t \in Times : tree[t] = <<>>
    BY <1>0, <2>1, NumEventsZero
  <2> QED
    BY <2>1, <2>2, <2>3, <2>4 DEF EndInv
<1>2. ASSUME ~CheckTermination, ~Ending
      PROVE  EndInv'
  <2>1. UNCHANGED estop
    <3>1. CASE UNCHANGED eVars
      BY <3>1 DEF eVars
    <3>2. CASE CtlSignal \/ SpuriousWake
      BY <3>2 DEF CtlSignal, SpuriousWake
    <3>3. CASE EngineStep
      BY <1>2, <3>3 DEF EngineStep, FirstEvent, SimStart, StartController, AfterStep,
         AfterStepDone, EngineSync, EngineSynced, UserStep, UserStepDone, WaitEvents, EventsWoken,
         StopController, StopTimer, FiniStop, FiniLock, FiniClose, FiniJoin
    <3> QED
      BY <3>1, <3>2, <3>3, EngineCases
  <2> QED
    BY <1>2, <2>1 DEF EndInv, Ending
<1>3. ASSUME ~CheckTermination, Ending
      PROVE  EndInv'
  <2>0. /\ epc \in {"sync", "syncing", "stop_evm", "stop_timer"} \/ Stopped
        /\ \A t \in Times : tree[t] = <<>>
        /\ atasks = {} /\ ~InBatch
    BY <1>3 DEF EndInv
  <2>1. epc' \in {"sync", "syncing", "stop_evm", "stop_timer"} \/ Stopped'
    <3>1. CASE UNCHANGED eVars
      BY <2>0, <3>1 DEF eVars, Stopped
    <3>2. CASE CtlSignal
      BY <2>0, <3>2 DEF CtlSignal, Stopped
    <3>3. CASE SpuriousWake
      BY <2>0, <3>3 DEF SpuriousWake, Engine, Stopped
    <3>4. CASE EngineStep
      BY <1>3, <2>0, <3>4 DEF EngineStep, FirstEvent, SimStart, StartController, AfterStep,
         AfterStepDone, EngineSync, EngineSynced, UserStep, UserStepDone, WaitEvents, EventsWoken,
         StopController, StopTimer, FiniStop, FiniLock, FiniClose, FiniJoin, Engine, AfterSync,
         Stopped, Ending
    <3> QED
      BY <3>1, <3>2, <3>3, <3>4, EngineCases
  <2>2. ASSUME NEW c \in Slots
        PROVE  ~ThrowEvent(c)
    <3>1. jobs[c] # "queued"
      BY <1>0, <2>0 DEF ShareInv
    <3> QED
      BY <3>1 DEF ThrowEvent
  <2>3. \A t \in Times : tree'[t] = <<>>
    <3>1. CASE UNCHANGED xVars
      BY <2>0, <3>1 DEF xVars
    <3>2. CASE CtlPop
      BY <2>0, <3>2 DEF CtlPop
    <3>3. epc # "start"
      BY <2>0 DEF Stopped
    <3> QED
      BY <1>0, <2>0, <2>2, <3>1, <3>2, <3>3, TreeMoves DEF xVars
  <2>4. atasks' = {}
    <3>1. ~AfterStep /\ ~UserStep
      BY <2>0 DEF AfterStep, UserStep, Engine, Stopped
    <3> QED
      BY <2>0, <3>1, ActivityCases DEF aVars
  <2>5. ~InBatch'
    <3>1. CASE CtlPop
      <4>1. Listed(vcur) = <<>>
        BY <2>0 DEF Listed
      <4> QED
        BY <3>1, <4>1 DEF CtlPop, Controller, InBatch
    <3>2. ~CtlWait
      BY <2>0 DEF CtlWait, Controller, InBatch
    <3> QED
      BY <2>0, <3>1, <3>2, BatchCases
  <2> QED
    BY <2>1, <2>3, <2>4, <2>5 DEF EndInv
<1> QED
  BY <1>1, <1>2, <1>3

LEMMA EndAlways ==
    ASSUME MaxSpurious = 0
    PROVE  Spec => [](EventsInv /\ EndInv)
<1>1. Init => EndInv
  BY DEF Init, EndInv, Ending
<1>2. EventsInv /\ StepInv /\ TaskInv /\ EndInv /\ [Next]_simVars => EndInv'
  BY EndStep
<1> QED
  BY <1>1, <1>2, StepAlways, TaskAlways, PTL DEF Spec

(***************************************************************************)
(* AllDrained: an event driven simulation does not end before every event  *)
(* was raised, even those that the handlers and the AFTER_STEP activities  *)
(* of the last tick scheduled, and although the count the engine looks at  *)
(* is wrong.  An event for a time that is over keeps the simulation going. *)
(***************************************************************************)
THEOREM AllDrained == ASSUME MaxSpurious = 0 PROVE Spec => []DrainedAtEnd
<1>1. ASSUME EventsInv, EndInv, Ending, NEW e \in 1 .. nevents
      PROVE  raised[e] # <<>>
  <2>1. e \in Events /\ at[e] \in Times
    BY <1>1, TreeNumbers DEF EventsInv
  <2>2. tree[at[e]] = <<>> /\ ~InBatch
    BY <1>1, <2>1 DEF EndInv
  <2>3. Len(tree[at[e]]) = 0
    BY <2>2
  <2>4. ~\E i \in 1 .. Len(tree[at[e]]) : tree[at[e]][i] = e
    BY <2>3
  <2> QED
    BY <1>1, <2>2, <2>4 DEF EventsInv, EventInv
<1>2. EventsInv /\ EndInv => DrainedAtEnd
  BY <1>1 DEF DrainedAtEnd, Ending
<1> QED
  BY <1>2, EndAlways, PTL

-----------------------------------------------------------------------------
(***************************************************************************)
(* The period of an activity                                               *)
(***************************************************************************)
LEMMA RemainderUnique ==
    ASSUME NEW n \in Nat \ {0}, NEW q \in Nat, NEW r \in 0 .. n - 1
    PROVE  (n * q + r) % n = r
<1> DEFINE x == n * q + r
           p == x \div n
           s == x % n
<1>0. x \in Nat /\ q * n \in Nat /\ q * n = n * q
  OBVIOUS
<1>1. p \in Nat /\ s \in 0 .. n - 1 /\ x = n * p + s
  BY <1>0, DivMod
<1>2. x = q * n + r /\ (q + 1) * n = q * n + n /\ q + 1 \in Nat
  OBVIOUS
<1> HIDE DEF x, p, s
<1>3. p * n \in Nat /\ x = p * n + s /\ (p + 1) * n = p * n + n /\ p + 1 \in Nat
  BY <1>1
<1>4. q * n <= x /\ x < (q + 1) * n
  BY <1>0, <1>2
<1>5. p * n <= x /\ x < (p + 1) * n
  BY <1>1, <1>3
<1>6. p <= q /\ q <= p
  BY <1>0, <1>1, <1>4, <1>5, BlocksApart
<1>7. p = q
  BY <1>1, <1>6
<1>8. s = r
  BY <1>0, <1>1, <1>2, <1>3, <1>7
<1> QED
  BY <1>8 DEF s, x

\* adding a multiple of n does not change whether n divides
LEMMA AddMultiple ==
    ASSUME NEW n \in Nat \ {0}, NEW a \in Nat, NEW b \in Nat, b % n = 0
    PROVE  a % n = 0 <=> (a + b) % n = 0
<1> DEFINE q == a \div n + b \div n
           r == a % n
<1>1. /\ a \div n \in Nat /\ r \in 0 .. n - 1 /\ a = n * (a \div n) + r
      /\ b \div n \in Nat /\ b = n * (b \div n)
  <2>1. b \div n \in Nat /\ b = n * (b \div n) + (b % n)
    BY DivMod
  <2>2. b = n * (b \div n)
    BY <2>1
  <2>3. a \div n \in Nat /\ r \in 0 .. n - 1 /\ a = n * (a \div n) + r
    BY DivMod
  <2> HIDE DEF r
  <2> QED
    BY <2>1, <2>2, <2>3
<1>2. q \in Nat /\ n * q = n * (a \div n) + n * (b \div n)
  BY <1>1
<1>3. a + b = n * q + r
  <2>1. n * (a \div n) \in Nat /\ n * (b \div n) \in Nat
    BY <1>1
  <2> QED
    BY <1>1, <1>2, <2>1
<1> HIDE DEF q, r
<1>4. (n * q + r) % n = r
  BY <1>1, <1>2, RemainderUnique
<1>5. (a + b) % n = r
  BY <1>3, <1>4
<1> QED
  BY <1>5 DEF r

\* the activities that the loop looks at in every step
Periodic(i) == Acts[i].type = "AFTER_STEP" \/ SimType = "ACTIVITY_SCAN"

AfterLoop == epc \in {"stop_evm", "stop_timer"} \/ Stopped

\* _loop_activity was called for the current tick
LookedAt(i) ==
    \/ Acts[i].type = "AFTER_STEP" /\ epc \in {"after_step_wait", "check", "sync"}
    \/ Acts[i].type # "AFTER_STEP" /\ epc \notin {"user", "syncing"}
    \/ epc = "syncing" /\ ~Passed

Last(i) == IF LookedAt(i) \/ clock = 0 THEN clock ELSE clock - 1

\* executed at 1 and every nsteps from then, until n
Regular(n, times, latest, nsteps) ==
    /\ times = {t \in 1 .. n : (t - 1) % nsteps = 0}
    /\ latest = -1 <=> n = 0
    /\ n > 0 => latest \in times

PeriodInv ==
    \A i \in DOMAIN Acts :
        Periodic(i) /\ ~AfterLoop => Regular(Last(i), execs[i], last[i], Acts[i].nsteps)

\* one call of _loop_activity keeps the period
LEMMA RegularStep ==
    ASSUME NEW n \in Nat \ {0}, NEW now \in Nat \ {0}, NEW times, NEW latest,
           Regular(now - 1, times, latest, n)
    PROVE  IF latest < 0 \/ (now - latest) % n = 0 THEN Regular(now, times \cup {now}, now, n)
           ELSE Regular(now, times, latest, n)
<1> DEFINE Due1 == latest < 0 \/ (now - latest) % n = 0
<1>1. /\ times = {t \in 1 .. now - 1 : (t - 1) % n = 0}
      /\ now = 1 <=> latest = -1
      /\ now > 1 => latest \in times
  BY DEF Regular
<1>2. Due1 <=> (now - 1) % n = 0
  <2>1. CASE now = 1
    <3>1. n * 0 + 0 = 0 /\ 0 \in 0 .. n - 1 /\ 0 \in Nat
      OBVIOUS
    <3>2. (n * 0 + 0) % n = 0
      BY <3>1, RemainderUnique
    <3>3. 0 % n = 0
      BY <3>1, <3>2
    <3> QED
      BY <1>1, <2>1, <3>3
  <2>2. CASE now > 1
    <3>1. latest \in 1 .. now - 1 /\ (latest - 1) % n = 0
      BY <1>1, <2>2
    <3> DEFINE a == now - latest
               b == latest - 1
    <3>2. a \in Nat /\ b \in Nat /\ a + b = now - 1 /\ b % n = 0
      BY <3>1
    <3>3. (now - latest) % n = a % n
      OBVIOUS
    <3> HIDE DEF a, b
    <3>4. a % n = 0 <=> (a + b) % n = 0
      BY <3>2, AddMultiple
    <3>5. a % n = 0 <=> (now - 1) % n = 0
      BY <3>2, <3>4
    <3> QED
      BY <3>1, <3>3, <3>5
  <2> QED
    BY <2>1, <2>2
<1>3. {t \in 1 .. now : (t - 1) % n = 0} =
         times \cup (IF (now - 1) % n = 0 THEN {now} ELSE {})
  BY <1>1
<1> HIDE DEF Due1
<1>4. CASE Due1
  <2>1. times \cup {now} = {t \in 1 .. now : (t - 1) % n = 0}
    BY <1>2, <1>3, <1>4
  <2>2. Regular(now, times \cup {now}, now, n)
    BY <2>1 DEF Regular
  <2> QED
    BY <1>4, <2>2 DEF Due1
<1>5. CASE ~Due1
  <2>1. times = {t \in 1 .. now : (t - 1) % n = 0}
    BY <1>2, <1>3, <1>5
  <2>2. now > 1
    BY <1>1, <1>5 DEF Due1
  <2>3. latest \in times /\ latest # -1
    BY <1>1, <2>2
  <2>4. Regular(now, times, latest, n)
    BY <2>1, <2>3 DEF Regular
  <2> QED
    BY <1>5, <2>4 DEF Due1
<1> QED
  BY <1>4, <1>5

LEMMA LoopKeepsPeriod ==
    ASSUME TypeInv, NEW i \in DOMAIN Acts, LoopActivity(Acts[i].type),
           Regular(IF clock = 0 THEN 0 ELSE clock - 1, execs[i], last[i], Acts[i].nsteps)
    PROVE  Regular(clock, execs'[i], last'[i], Acts[i].nsteps)
<1>1. clock \in Nat /\ Acts[i].nsteps \in Nat \ {0}
  BY SimAssumption DEF TypeInv, Timer!TypeOK
<1>2. CASE clock = 0
  <2>1. execs'[i] = execs[i] /\ last'[i] = last[i]
    BY <1>2 DEF LoopActivity
  <2> QED
    BY <1>2, <2>1
<1>3. CASE clock # 0
  <2>1. i \in Due(Acts[i].type) <=> (last[i] < 0 \/ (clock - last[i]) % Acts[i].nsteps = 0)
    BY DEF Due
  <2>2. /\ i \in Due(Acts[i].type) => execs'[i] = execs[i] \cup {clock} /\ last'[i] = clock
        /\ i \notin Due(Acts[i].type) => execs'[i] = execs[i] /\ last'[i] = last[i]
    BY <1>1, <1>3 DEF LoopActivity
  <2>3. Regular(clock - 1, execs[i], last[i], Acts[i].nsteps)
    BY <1>3
  <2>4. clock \in Nat \ {0}
    BY <1>1, <1>3
  <2> QED
    BY <1>1, <2>1, <2>2, <2>3, <2>4, RegularStep, ZenonT(60)
<1> QED
  BY <1>2, <1>3

\* a call for the other type of activity does not touch this one
LEMMA LoopOther ==
    ASSUME NEW i \in DOMAIN Acts, NEW atype, LoopActivity(atype), atype # Acts[i].type
    PROVE  execs'[i] = execs[i] /\ last'[i] = last[i]
<1>1. i \notin Due(atype)
  BY DEF Due
<1> QED
  BY <1>1 DEF LoopActivity

\* the other steps of the loop, the ticks among them, neither call
\* _loop_activity nor miss a call
LEMMA LastSame ==
    ASSUME TypeInv, MeetInv, [Next]_simVars, ~AfterStep, ~UserStep,
           NEW i \in DOMAIN Acts, Periodic(i), ~AfterLoop'
    PROVE  ~AfterLoop /\ Last(i)' = Last(i)
<1> USE DEF Passed
<1>0. /\ clock \in Nat /\ tpc \in [{"engine", "controller"} -> {"out", "waiting", "woken"}]
      /\ Actors = {"engine", "controller"}
      /\ epc # "syncing" => tpc["engine"] = "out"
      /\ epc = "sync" => stop = 0
  BY DEF TypeInv, Timer!TypeOK, Actors, MeetInv, Stopped
<1>1. ASSUME UNCHANGED clock, ~AfterLoop, LookedAt(i)' <=> LookedAt(i)
      PROVE  ~AfterLoop /\ Last(i)' = Last(i)
  <2> HIDE DEF LookedAt
  <2> QED
    BY <1>1 DEF Last
<1>2. ASSUME UNCHANGED <<clock, epc, tpc>>
      PROVE  ~AfterLoop /\ Last(i)' = Last(i)
  BY <1>1, <1>2 DEF AfterLoop, Stopped, LookedAt
<1>3. CASE FirstEvent \/ SimStart \/ StartController \/ AfterStepDone \/ CheckTermination
  <2>1. /\ UNCHANGED clock /\ ~AfterLoop
        /\ \/ epc \in {"start", "start_evm"} /\ epc' \in {"start", "start_evm", "after_step"}
           \/ epc \in {"after_step_wait", "check"} /\ epc' \in {"check", "sync"}
    BY <1>3 DEF FirstEvent, SimStart, StartController, AfterStepDone, CheckTermination, Engine,
                tVars, Timer!SetNsync, AfterLoop, Stopped
  <2>2. LookedAt(i)' <=> LookedAt(i)
    BY <2>1 DEF LookedAt
  <2> QED
    BY <1>1, <2>1, <2>2
<1>4. CASE UserStepDone \/ WaitEvents \/ EventsWoken \/ SpuriousWake
  <2>1. /\ UNCHANGED clock /\ ~AfterLoop
        /\ epc \in {"user_wait", "wait_events", "events_waiting", "events_woken"}
        /\ epc' \in {"wait_events", "events_waiting", "after_step"}
    BY <1>4 DEF UserStepDone, WaitEvents, EventsWoken, SpuriousWake, Engine, AfterUser, tVars,
                AfterLoop, Stopped
  <2>2. LookedAt(i)' <=> LookedAt(i)
    BY <2>1 DEF LookedAt
  <2> QED
    BY <1>1, <2>1, <2>2
<1>5. CASE EngineSynced
  <2>1. /\ UNCHANGED clock /\ ~AfterLoop /\ epc = "syncing" /\ tpc["engine"] = "out"
        /\ \/ SimType = "ACTIVITY_SCAN" /\ epc' = "user"
           \/ SimType # "ACTIVITY_SCAN" /\ epc' \in {"wait_events", "after_step"}
    <3>1. UNCHANGED clock /\ epc = "syncing" /\ tpc["engine"] = "out" /\ epc' = AfterSync
      BY <1>5 DEF EngineSynced, Engine, tVars
    <3>2. epc' # "stop_evm" /\ epc' # "stop_timer"
      BY DEF AfterLoop
    <3>3. \/ SimType = "ACTIVITY_SCAN" /\ epc' = "user"
          \/ SimType # "ACTIVITY_SCAN" /\ epc' \in {"wait_events", "after_step"}
      BY <3>1, <3>2 DEF AfterSync, AfterUser
    <3> QED
      BY <3>1, <3>3 DEF AfterLoop, Stopped
  <2>2. ~LookedAt(i) /\ ~LookedAt(i)'
    BY <2>1 DEF LookedAt, Periodic
  <2> QED
    BY <1>1, <2>1, <2>2
<1>6. CASE StopController \/ StopTimer \/ FiniStop \/ FiniLock \/ FiniClose \/ FiniJoin
  BY <1>6 DEF StopController, StopTimer, FiniStop, FiniLock, FiniClose, FiniJoin, Engine, AfterLoop,
              Stopped
<1>7. CASE EngineSync
  <2>1. /\ epc = "sync" /\ epc' = "syncing" /\ Timer!TimeSync("engine") /\ stop = 0
        /\ sync < n_sync /\ sync \in Nat /\ n_sync \in Nat /\ tpc["engine"] = "out"
    BY <1>0, <1>7 DEF EngineSync, Engine, MeetInv, TypeInv, Timer!TypeOK
  <2>2. ~AfterLoop /\ LookedAt(i)
    BY <2>1 DEF AfterLoop, Stopped, LookedAt
  <2>3. CASE Timer!TimeSyncTick("engine")
    <3>1. clock' = clock + 1 /\ tpc'["engine"] # "waiting"
      BY <1>0, <2>3 DEF Timer!TimeSyncTick, Timer!Woken
    <3>2. ~LookedAt(i)'
      BY <2>1, <3>1 DEF LookedAt
    <3> QED
      BY <1>0, <2>2, <3>1, <3>2 DEF Last
  <2>4. CASE Timer!TimeSyncWait("engine")
    <3>1. UNCHANGED clock /\ tpc'["engine"] = "waiting"
      BY <1>0, <2>4 DEF Timer!TimeSyncWait
    <3>2. LookedAt(i)'
      BY <2>1, <3>1 DEF LookedAt
    <3> QED
      BY <1>1, <2>2, <3>1, <3>2
  <2>5. ~Timer!TimeSyncRefused("engine")
    BY <2>1 DEF Timer!TimeSyncRefused
  <2> QED
    BY <2>1, <2>3, <2>4, <2>5 DEF Timer!TimeSync
<1>8. CASE CtlSync
  <2>1. vpc = "sync" /\ UNCHANGED epc /\ Timer!TimeSync("controller")
    BY <1>8 DEF CtlSync, Controller, eVars
  <2>2. CASE Timer!TimeSyncTick("controller")
    <3>1. epc = "syncing" /\ tpc["engine"] = "waiting"
      BY <2>1, <2>2, TickMeets
    <3>2. clock' = clock + 1 /\ tpc'["engine"] = "woken"
      BY <1>0, <2>2, <3>1 DEF Timer!TimeSyncTick, Timer!Woken
    <3>3. LookedAt(i) /\ ~LookedAt(i)' /\ ~AfterLoop
      BY <2>1, <3>1, <3>2 DEF LookedAt, AfterLoop, Stopped
    <3> QED
      BY <1>0, <3>2, <3>3 DEF Last
  <2>3. CASE Timer!TimeSyncWait("controller") \/ Timer!TimeSyncRefused("controller")
    <3>1. UNCHANGED clock /\ tpc'["engine"] = tpc["engine"]
      BY <1>0, <2>3 DEF Timer!TimeSyncWait, Timer!TimeSyncRefused, Timer!timerFields
    <3>2. ~AfterLoop /\ (LookedAt(i)' <=> LookedAt(i))
      BY <2>1, <3>1 DEF LookedAt, AfterLoop, Stopped
    <3> QED
      BY <1>1, <3>1, <3>2
  <2> QED
    BY <2>1, <2>2, <2>3 DEF Timer!TimeSync
<1>9. ASSUME NEW a \in Actors, TimerWake(a)
      PROVE  ~AfterLoop /\ Last(i)' = Last(i)
  <2>1. /\ tpc[a] = "woken" /\ tpc' = [tpc EXCEPT ![a] = "out"] /\ UNCHANGED <<clock, epc>>
    BY <1>9 DEF TimerWake, Timer!Wake, Timer!timerFields, eVars
  <2>2. tpc'["engine"] = "waiting" <=> tpc["engine"] = "waiting"
    BY <1>0, <2>1
  <2>3. ~AfterLoop /\ (LookedAt(i)' <=> LookedAt(i))
    BY <2>1, <2>2 DEF LookedAt, AfterLoop, Stopped
  <2> QED
    BY <1>1, <2>1, <2>3
<1>10. CASE CtlSignal
  <2>1. /\ UNCHANGED <<clock, tpc>>
        /\ UNCHANGED epc \/ (epc = "events_waiting" /\ epc' = "events_woken")
    BY <1>10 DEF CtlSignal, tVars
  <2>2. ~AfterLoop /\ (LookedAt(i)' <=> LookedAt(i))
    BY <2>1 DEF LookedAt, AfterLoop, Stopped
  <2> QED
    BY <1>1, <2>1, <2>2
<1>11. CASE UNCHANGED eVars /\ UNCHANGED tVars
  BY <1>2, <1>11 DEF eVars, tVars
<1> HIDE DEF Passed
<1>12. EngineStep => ~AfterLoop /\ Last(i)' = Last(i)
  BY <1>3, <1>4, <1>5, <1>6, <1>7 DEF EngineStep
<1>13. SimStart \/ EngineSync \/ StopTimer => EngineStep
  BY DEF EngineStep
<1> QED
  BY <1>4, <1>8, <1>9, <1>10, <1>11, <1>12, <1>13, TimerCases, EngineCases

LEMMA PeriodStep ==
    ASSUME TypeInv, MeetInv, PeriodInv, [Next]_simVars
    PROVE  PeriodInv'
<1> SUFFICES ASSUME NEW i \in DOMAIN Acts, Periodic(i), ~AfterLoop'
             PROVE  Regular(Last(i)', execs'[i], last'[i], Acts[i].nsteps)
  BY DEF PeriodInv, Periodic
<1>1. ~AfterLoop => Regular(Last(i), execs[i], last[i], Acts[i].nsteps)
  BY DEF PeriodInv
<1>2. CASE AfterStep
  <2>1. /\ epc = "after_step" /\ epc' = "after_step_wait" /\ UNCHANGED clock
        /\ LoopActivity("AFTER_STEP")
    BY <1>2 DEF AfterStep, Engine, tVars
  <2>2. ~AfterLoop
    BY <2>1 DEF AfterLoop, Stopped
  <2>3. CASE Acts[i].type = "AFTER_STEP"
    <3>1. ~LookedAt(i) /\ LookedAt(i)'
      BY <2>1, <2>3 DEF LookedAt
    <3>2. Last(i) = (IF clock = 0 THEN 0 ELSE clock - 1) /\ Last(i)' = clock
      BY <2>1, <3>1 DEF Last
    <3> QED
      BY <1>1, <2>1, <2>2, <2>3, <3>2, LoopKeepsPeriod
  <2>4. CASE Acts[i].type # "AFTER_STEP"
    <3>1. LookedAt(i) /\ LookedAt(i)'
      BY <2>1, <2>4 DEF LookedAt
    <3>2. Last(i)' = Last(i)
      BY <2>1, <3>1 DEF Last
    <3>3. execs'[i] = execs[i] /\ last'[i] = last[i]
      BY <2>1, <2>4, LoopOther
    <3> QED
      BY <1>1, <2>2, <3>2, <3>3
  <2> QED
    BY <2>3, <2>4
<1>3. CASE UserStep
  <2>1. /\ epc = "user" /\ epc' = "user_wait" /\ UNCHANGED clock
        /\ LoopActivity("USER")
    BY <1>3 DEF UserStep, Engine, tVars
  <2>2. ~AfterLoop
    BY <2>1 DEF AfterLoop, Stopped
  <2>3. CASE Acts[i].type = "USER"
    <3>1. ~LookedAt(i) /\ LookedAt(i)'
      BY <2>1, <2>3 DEF LookedAt
    <3>2. Last(i) = (IF clock = 0 THEN 0 ELSE clock - 1) /\ Last(i)' = clock
      BY <2>1, <3>1 DEF Last
    <3> QED
      BY <1>1, <2>1, <2>2, <2>3, <3>2, LoopKeepsPeriod
  <2>4. CASE Acts[i].type # "USER"
    <3>1. Acts[i].type = "AFTER_STEP"
      BY <2>4, SimAssumption
    <3>2. ~LookedAt(i) /\ ~LookedAt(i)'
      BY <2>1, <3>1 DEF LookedAt
    <3>3. Last(i)' = Last(i)
      BY <2>1, <3>2 DEF Last
    <3>4. execs'[i] = execs[i] /\ last'[i] = last[i]
      BY <2>1, <2>4, LoopOther
    <3> QED
      BY <1>1, <2>2, <3>3, <3>4
  <2> QED
    BY <2>3, <2>4
<1>4. CASE ~AfterStep /\ ~UserStep
  <2>1. UNCHANGED <<execs, last>>
    BY <1>4, ActivityCases DEF aVars, ActivityTask
  <2>2. ~AfterLoop /\ Last(i)' = Last(i)
    BY <1>4, LastSame
  <2> QED
    BY <1>1, <2>1, <2>2
<1> QED
  BY <1>2, <1>3, <1>4

(***************************************************************************)
(* PeriodKept: every activity is executed at time 1 and every nsteps from  *)
(* then, and at no other time, for any nsteps, in both types of simulation *)
(* and whatever the event manager does.  The clock is moved by whoever     *)
(* comes last to cs_time_sync, and the engine never misses a tick.         *)
(***************************************************************************)
THEOREM PeriodKept == Spec => []ActivityPeriod
<1>1. Init => PeriodInv
  <2> SUFFICES ASSUME Init, NEW i \in DOMAIN Acts
               PROVE  Regular(Last(i), execs[i], last[i], Acts[i].nsteps)
    BY DEF PeriodInv
  <2>1. clock = 0 /\ execs[i] = {} /\ last[i] = -1
    BY DEF Init, Timer!Init
  <2> QED
    BY <2>1 DEF Regular, Last
<1>2. TypeInv /\ MeetInv /\ PeriodInv /\ [Next]_simVars => PeriodInv'
  BY PeriodStep
<1>3. ASSUME PeriodInv, epc = "check", NEW i \in DOMAIN Acts, Periodic(i)
      PROVE  execs[i] = {t \in 1 .. clock : (t - 1) % Acts[i].nsteps = 0}
  <2>1. ~AfterLoop /\ LookedAt(i)
    BY <1>3 DEF AfterLoop, Stopped, LookedAt
  <2> QED
    BY <1>3, <2>1 DEF PeriodInv, Last, Regular
<1>4. PeriodInv => ActivityPeriod
  BY <1>3 DEF ActivityPeriod, Periodic
<1> QED
  BY <1>1, <1>2, <1>4, MeetAlways, PTL DEF Spec

-----------------------------------------------------------------------------
(***************************************************************************)
(* How the items of an activity are worked on: while the activity is       *)
(* executed, the items of a task's block were given out once if the task   *)
(* is complete, and not yet if it is not.                                  *)
(***************************************************************************)
EnoughItems == \A i \in DOMAIN Acts : NThreads <= Acts[i].items

ItemInv ==
    \A i \in DOMAIN Acts : last[i] >= 0 =>
        \A c \in ActTasks(i) : \A x \in Items(i) \cap Block(Acts[i].items, NThreads, c) :
            worked[i][x] = IF <<i, c>> \in atasks THEN 0 ELSE 1

\* the tasks divide the items
LEMMA OneTaskEach ==
    ASSUME EnoughItems, NEW i \in DOMAIN Acts, NEW x \in Items(i)
    PROVE  /\ \E c \in ActTasks(i) : x \in Block(Acts[i].items, NThreads, c)
           /\ \A c, d \in ActTasks(i) :
                 /\ x \in Block(Acts[i].items, NThreads, c)
                 /\ x \in Block(Acts[i].items, NThreads, d)
                 => c = d
<1>1. /\ Acts[i].items \in Nat /\ NThreads \in Nat \ {0} /\ NThreads <= Acts[i].items
      /\ x \in 0 .. Acts[i].items - 1
  BY SimAssumption DEF EnoughItems, Items
<1> QED
  BY <1>1, BlocksPartition DEF ActTasks

LEMMA ItemStep ==
    ASSUME EnoughItems, TypeInv, TaskInv, ItemInv, [Next]_simVars
    PROVE  ItemInv'
<1> SUFFICES ASSUME NEW i \in DOMAIN Acts, last'[i] >= 0, NEW c \in ActTasks(i),
                    NEW x \in Items(i) \cap Block(Acts[i].items, NThreads, c)
             PROVE  worked'[i][x] = IF <<i, c>> \in atasks' THEN 0 ELSE 1
  BY DEF ItemInv, ActTasks, Items
<1>1. last[i] >= 0 => worked[i][x] = IF <<i, c>> \in atasks THEN 0 ELSE 1
  BY DEF ItemInv
<1>2. ASSUME NEW atype, LoopActivity(atype), atasks = {}
      PROVE  worked'[i][x] = IF <<i, c>> \in atasks' THEN 0 ELSE 1
  <2> DEFINE due == IF clock <= 0 THEN {} ELSE Due(atype)
  <2>1. /\ last'[i] = IF i \in due THEN clock ELSE last[i]
        /\ atasks' = UNION {{j} \X ActTasks(j) : j \in due}
        /\ worked'[i] = IF i \in due THEN [y \in Items(i) |-> 0] ELSE worked[i]
    BY <1>2 DEF LoopActivity
  <2> HIDE DEF due
  <2>2. <<i, c>> \in atasks' <=> i \in due
    BY <2>1
  <2>3. CASE i \in due
    BY <2>1, <2>2, <2>3
  <2>4. CASE i \notin due
    BY <1>1, <1>2, <2>1, <2>2, <2>4
  <2> QED
    BY <2>3, <2>4
<1>3. CASE AfterStep \/ UserStep
  <2>1. atasks = {} /\ \E atype : LoopActivity(atype)
    BY <1>3 DEF AfterStep, UserStep, Engine, TaskInv
  <2> QED
    BY <1>2, <2>1
<1>4. ASSUME NEW task \in atasks, ActivityTask(task)
      PROVE  worked'[i][x] = IF <<i, c>> \in atasks' THEN 0 ELSE 1
  <2>0. PICK j \in DOMAIN Acts : task \in {j} \X ActTasks(j)
    BY DEF TypeInv, ActivityType
  <2>1. PICK d \in ActTasks(j) : task = <<j, d>>
    BY <2>0
  <2>2. /\ atasks' = atasks \ {<<j, d>>} /\ last' = last
        /\ worked' = [worked EXCEPT ![j] =
                        [y \in Items(j) |->
                           worked[j][y] + (IF y \in Block(Acts[j].items, NThreads, d) THEN 1 ELSE 0)]]
    BY <1>4, <2>1 DEF ActivityTask
  <2>3. DOMAIN worked = DOMAIN Acts /\ worked[i][x] \in Nat
    BY DEF TypeInv, ActivityType
  <2>4. CASE i # j
    BY <1>1, <2>2, <2>3, <2>4
  <2>5. CASE i = j
    <3>1. worked'[i][x] = worked[i][x] +
                            (IF x \in Block(Acts[i].items, NThreads, d) THEN 1 ELSE 0)
      BY <2>2, <2>3, <2>5
    <3>2. x \in Block(Acts[i].items, NThreads, d) <=> c = d
      BY <2>5, OneTaskEach
    <3>3. <<i, d>> \in atasks
      BY <2>1, <2>5
    <3> QED
      BY <1>1, <2>2, <2>3, <2>5, <3>1, <3>2, <3>3
  <2> QED
    BY <2>4, <2>5
<1>5. CASE UNCHANGED aVars
  BY <1>1, <1>5 DEF aVars
<1> QED
  BY <1>3, <1>4, <1>5, ActivityCases

(***************************************************************************)
(* ItemsOnce: when there is an item for every thread, the tasks of an      *)
(* execution are given each item of the activity's data exactly once, for  *)
(* any number of items and threads and in whatever order the tasks end.    *)
(***************************************************************************)
THEOREM ItemsOnce == ASSUME EnoughItems PROVE Spec => []EveryItemOnce
<1>1. Init => ItemInv
  <2> SUFFICES ASSUME Init, NEW i \in DOMAIN Acts PROVE ~(last[i] >= 0)
    BY DEF ItemInv
  <2>1. last[i] = -1
    BY DEF Init
  <2> QED
    BY <2>1
<1>2. TypeInv /\ TaskInv /\ ItemInv /\ [Next]_simVars => ItemInv'
  BY ItemStep
<1>3. ASSUME ItemInv, NEW i \in DOMAIN Acts, last[i] >= 0, \A task \in atasks : task[1] # i,
             NEW x \in Items(i)
      PROVE  worked[i][x] = 1
  <2>1. PICK c \in ActTasks(i) : x \in Block(Acts[i].items, NThreads, c)
    BY OneTaskEach
  <2>2. <<i, c>> \notin atasks
    BY <1>3
  <2> QED
    BY <1>3, <2>1, <2>2 DEF ItemInv
<1>4. ItemInv => EveryItemOnce
  BY <1>3 DEF EveryItemOnce, AllTasksDone
<1> QED
  BY <1>1, <1>2, <1>4, TypeAlways, TaskAlways, PTL DEF Spec

-----------------------------------------------------------------------------
(***************************************************************************)
(* Deadlock.  Whoever waits waits for somebody who is on its way:          *)
(* while last_completion is behind the clock the controller is between     *)
(* its return from cs_time_sync and _signal_event_completion, and it does  *)
(* not leave its loop before the engine has left its own.                  *)
(***************************************************************************)
OnItsWay == Handling \/ (vpc = "syncing" /\ tpc["controller"] # "waiting")

WayInv ==
    /\ hasEvm /\ epc \notin {"start", "start_evm"} => vpc # "none"
    /\ vpc = "none" => ~evmRunning
    /\ epc \in {"wait_events", "events_waiting", "fini_lock", "fini_close", "fini_join"} => hasEvm
    /\ evmStop \/ vpc \in {"exit", "ended"} => AfterLoop
    /\ tret["controller"] # 0 => stop = 1
    /\ AfterLoop => estop
    /\ startTime <= 1 /\ vstart <= 1
    /\ epc = "events_waiting" => lastCompletion < clock
    /\ hasEvm /\ ~AfterLoop /\ lastCompletion < clock => OnItsWay

LEMMA WayStep ==
    ASSUME TypeInv, MeetInv, WayInv, ~UserStops, [Next]_simVars
    PROVE  WayInv'
<1>0. /\ clock \in Nat /\ lastCompletion \in Nat /\ ecur \in Nat /\ startTime \in Nat
      /\ vcur \in Nat /\ vstart \in Nat /\ estop \in BOOLEAN /\ stop \in {0, 1}
      /\ hasEvm \in BOOLEAN /\ evmStop \in BOOLEAN /\ evmRunning \in BOOLEAN
      /\ tpc \in [{"engine", "controller"} -> {"out", "waiting", "woken"}]
      /\ tret \in [{"engine", "controller"} -> {0, -1}]
  BY DEF TypeInv, Timer!TypeOK, EngineType, ControllerType, Actors
<1> USE DEF WayInv, OnItsWay, AfterLoop, Stopped, Handling
\* the steps of the engine that leave the timer alone
<1>1. CASE FirstEvent \/ AfterStep \/ AfterStepDone \/ UserStep
  <2>1. /\ UNCHANGED <<clock, stop, tpc, tret, hasEvm, estop, evmStop, startTime, vstart,
                       lastCompletion, vpc>>
        /\ evmRunning' = evmRunning
        /\ \/ epc = "start" /\ epc' = "start"
           \/ epc \in {"after_step", "after_step_wait", "user"}
              /\ epc' \in {"after_step_wait", "check", "user_wait"}
    BY <1>1 DEF FirstEvent, AfterStep, AfterStepDone, UserStep, LoopActivity, Engine,
                tVars, aVars, mVars, vVars
  <2> QED
    BY <1>0, <2>1
<1>2. CASE StartController
  <2>1. /\ UNCHANGED <<clock, stop, tpc, tret, hasEvm, estop, evmStop, vstart, lastCompletion>>
        /\ epc = "start_evm" /\ epc' = "after_step" /\ startTime' \in {startTime, 1}
        /\ evmRunning' = evmRunning
        /\ (vpc # "none" /\ vpc' = vpc) \/ (vpc = "none" /\ vpc' = "queued")
    BY <1>2 DEF StartController, Engine, tVars, aVars
  <2> QED
    BY <1>0, <2>1
<1>3. CASE UserStepDone \/ CheckTermination
  <2>1. /\ UNCHANGED <<clock, stop, tpc, tret, hasEvm, evmStop, startTime, vstart,
                       lastCompletion, vpc, evmRunning>>
        /\ epc \in {"user_wait", "check"} /\ epc' \in {"wait_events", "after_step", "sync"}
        /\ epc' = "wait_events" => hasEvm
    BY <1>3 DEF UserStepDone, CheckTermination, Engine, AfterUser, tVars, aVars, mVars, vVars
  <2> QED
    BY <1>0, <2>1
<1>4. CASE EngineSynced
  BY <1>0, <1>4 DEF EngineSynced, Engine, AfterSync, AfterUser, tVars, aVars, mVars, vVars
<1>5. CASE WaitEvents
  <2>1. ecur = clock
    BY <1>0, <1>5 DEF WaitEvents, Engine, MeetInv, Passed
  <2> QED
    BY <1>0, <1>5, <2>1 DEF WaitEvents, Engine, tVars, aVars, mVars, vVars
<1>6. CASE EventsWoken \/ SpuriousWake
  BY <1>0, <1>6 DEF EventsWoken, SpuriousWake, Engine, tVars, aVars, mVars, vVars
<1>7. CASE StopController \/ FiniStop \/ FiniLock \/ FiniClose \/ FiniJoin
  BY <1>0, <1>7 DEF StopController, FiniStop, FiniLock, FiniClose, FiniJoin, Engine,
                    tVars, aVars, mVars, vVars
\* the steps on the timer
<1>8. CASE SimStart
  BY <1>0, <1>8 DEF SimStart, Engine, Timer!SetNsync, aVars, mVars, vVars
<1>9. CASE StopTimer
  BY <1>0, <1>9 DEF StopTimer, Engine, Timer!TimeStop, aVars, mVars, vVars
<1>10. ASSUME EngineSync \/ CtlSync
       PROVE  WayInv'
  <2>1. /\ UNCHANGED <<hasEvm, estop, evmStop, evmRunning, startTime, vstart, lastCompletion, stop>>
        /\ \/ epc = "sync" /\ epc' = "syncing" /\ vpc' = vpc
           \/ vpc = "sync" /\ vpc' = "syncing" /\ epc' = epc
    BY <1>10 DEF EngineSync, CtlSync, Engine, Controller, aVars, mVars, vVars, eVars,
                 Timer!TimeSync, Timer!TimeSyncRefused, Timer!TimeSyncTick, Timer!TimeSyncWait,
                 Timer!timerFields
  <2>2. tret'["controller"] # 0 => stop' = 1
    <3>1. ASSUME NEW a \in {"engine", "controller"}, Timer!TimeSync(a)
          PROVE  tret'["controller"] \in {0, tret["controller"]} \/ stop = 1
      <4>1. CASE Timer!TimeSyncRefused(a)
        <5>1. stop = 0 => sync < n_sync
          BY DEF MeetInv
        <5>2. sync \in Nat
          BY DEF TypeInv, Timer!TypeOK
        <5> QED
          BY <1>0, <4>1, <5>1, <5>2 DEF Timer!TimeSyncRefused
      <4>2. CASE Timer!TimeSyncTick(a)
        BY <1>0, <4>2 DEF Timer!TimeSyncTick
      <4>3. CASE Timer!TimeSyncWait(a)
        BY <4>3 DEF Timer!TimeSyncWait
      <4> QED
        BY <3>1, <4>1, <4>2, <4>3 DEF Timer!TimeSync
    <3>2. tret'["controller"] \in {0, tret["controller"]} \/ stop = 1
      BY <1>10, <3>1 DEF EngineSync, CtlSync
    <3> QED
      BY <2>1, <3>2
  <2>3. CASE clock' # clock
    <3>1. /\ epc' = "syncing" /\ (hasEvm => vpc' = "syncing" /\ tpc'["controller"] # "waiting")
      BY <2>3, ClockMeets
    <3> QED
      BY <1>0, <2>1, <2>2, <3>1
  <2>4. CASE clock' = clock
    <3>1. CASE EngineSync
      <4>1. tpc'["controller"] = tpc["controller"]
        BY <1>0, <2>4, <3>1 DEF EngineSync, Timer!TimeSync, Timer!TimeSyncRefused,
           Timer!TimeSyncTick, Timer!TimeSyncWait, Timer!timerFields
      <4> QED
        BY <1>0, <2>1, <2>2, <2>4, <4>1
    <3>2. CASE CtlSync
      <4>1. vpc = "sync"
        BY <3>2 DEF CtlSync, Controller
      <4> QED
        BY <1>0, <2>1, <2>2, <2>4, <4>1
    <3> QED
      BY <1>10, <3>1, <3>2
  <2> QED
    BY <2>3, <2>4
<1>11. ASSUME NEW a \in Actors, TimerWake(a)
       PROVE  WayInv'
  BY <1>0, <1>11 DEF TimerWake, Timer!Wake, Timer!timerFields, aVars, mVars, vVars, eVars, Actors
\* the controller
<1>12. CASE CtlBegin \/ CtlPop \/ CtlEnqueue \/ CtlPut \/ CtlWait \/ CtlExit
  BY <1>0, <1>12 DEF CtlBegin, CtlPop, CtlEnqueue, CtlPut, CtlWait, CtlExit, Controller,
                     tVars, aVars, mVars, eVars
<1>13. CASE CtlSynced
  <2>1. tret["controller"] < 0 => Stopped
    BY <1>0 DEF MeetInv
  <2> QED
    BY <1>0, <1>13, <2>1 DEF CtlSynced, Controller, tVars, aVars, mVars, eVars
<1>14. CASE CtlShouldStop
  <2>1. vcur = clock
    BY <1>14 DEF CtlShouldStop, Controller, MeetInv
  <2> QED
    BY <1>0, <1>14, <2>1 DEF CtlShouldStop, Controller, tVars, aVars, mVars, eVars
<1>15. CASE CtlSignal
  <2>1. vcur = clock
    BY <1>15 DEF CtlSignal, Controller, MeetInv
  <2> QED
    BY <1>0, <1>15, <2>1 DEF CtlSignal, Controller, tVars, aVars
\* tasks and workers
<1>16. ASSUME NEW task \in atasks, ActivityTask(task)
       PROVE  WayInv'
  BY <1>16 DEF ActivityTask, tVars, mVars, vVars, eVars
<1>17. ASSUME NEW c \in Slots, ThrowEvent(c) \/ WorkerDone(c)
       PROVE  WayInv'
  BY <1>0, <1>17 DEF ThrowEvent, WorkerDone, tVars, aVars, mVars, vVars, eVars
<1>18. CASE Finished \/ UNCHANGED simVars
  BY <1>18 DEF Finished, simVars, tVars, aVars, mVars, vVars, eVars
<1> QED
  BY <1>1, <1>2, <1>3, <1>4, <1>5, <1>6, <1>7, <1>8, <1>9, <1>10, <1>11, <1>12, <1>13, <1>14,
     <1>15, <1>16, <1>17, <1>18 DEF Next, EngineStep, CtlStep

LEMMA WayAlways ==
    ASSUME StartRaising <= 1, ~UserStops
    PROVE  Spec => []WayInv
<1>1. Init => WayInv
  BY SimAssumption DEF Init, Timer!Init, WayInv, AfterLoop, Stopped, Actors
<1>2. TypeInv /\ MeetInv /\ WayInv /\ [Next]_simVars => WayInv'
  BY WayStep
<1> QED
  BY <1>1, <1>2, MeetAlways, PTL DEF Spec

(***************************************************************************)
(* wp_mutex of the event manager's pool is taken for cs_wp_shutdown only,  *)
(* and a task the controller has enqueued is lost only in a closed queue.  *)
(***************************************************************************)
MutexInv ==
    /\ wpMutex = IF epc \in {"fini_close", "fini_join"} THEN "engine" ELSE "free"
    /\ qClosed => epc \in {"fini_join", "over"}

DropInv ==
    InBatch => \A c \in Slots :
                  Enqueued(c) => jobs[c] # "none" /\ (jobs[c] = "dropped" => qClosed)

LEMMA MutexStep ==
    ASSUME TypeInv, MutexInv, [Next]_simVars
    PROVE  MutexInv' /\ (qClosed => qClosed')
<1> USE DEF MutexInv, pVars
<1>1. CASE FirstEvent \/ SimStart \/ StartController \/ AfterStep \/ AfterStepDone \/ UserStep
           \/ UserStepDone \/ CheckTermination \/ EngineSync
  <2>1. UNCHANGED pVars /\ epc \notin {"fini_close", "fini_join", "over"}
        /\ epc' \notin {"fini_close", "fini_join", "over"}
    BY <1>1 DEF FirstEvent, SimStart, StartController, AfterStep, AfterStepDone, UserStep,
                UserStepDone, CheckTermination, EngineSync, Engine, AfterUser
  <2> QED
    BY <2>1
<1>2. CASE EngineSynced \/ WaitEvents \/ EventsWoken \/ SpuriousWake \/ StopController \/ StopTimer
           \/ CtlSignal
  <2>1. UNCHANGED pVars
        /\ \/ epc' = epc
           \/ /\ epc \notin {"fini_close", "fini_join", "over"}
              /\ epc' \notin {"fini_close", "fini_join", "over"}
    BY <1>2 DEF EngineSynced, WaitEvents, EventsWoken, SpuriousWake, StopController, StopTimer,
                CtlSignal, Engine, AfterSync, AfterUser
  <2> QED
    BY <2>1
<1>3. CASE FiniStop \/ FiniLock \/ FiniClose \/ FiniJoin
  BY <1>3 DEF FiniStop, FiniLock, FiniClose, FiniJoin, Engine
<1>4. ASSUME UNCHANGED <<epc, pVars>>
      PROVE  MutexInv' /\ (qClosed => qClosed')
  BY <1>4
<1>5. ~EngineStep /\ ~SpuriousWake => UNCHANGED pVars
  <2>1. CtlStep => UNCHANGED pVars
    BY DEF CtlStep, CtlBegin, CtlSync, CtlSynced, CtlShouldStop, CtlPop, CtlEnqueue, CtlPut, CtlWait,
           CtlSignal, CtlExit
  <2>2. ASSUME NEW task \in atasks, ActivityTask(task)
        PROVE  UNCHANGED pVars
    BY <2>2 DEF ActivityTask
  <2>3. ASSUME NEW c \in Slots, ThrowEvent(c) \/ WorkerDone(c)
        PROVE  UNCHANGED pVars
    BY <2>3 DEF ThrowEvent, WorkerDone
  <2>4. ASSUME NEW a \in Actors, TimerWake(a)
        PROVE  UNCHANGED pVars
    BY <2>4 DEF TimerWake
  <2>5. Finished \/ UNCHANGED simVars => UNCHANGED pVars
    BY DEF Finished, simVars
  <2> QED
    BY <2>1, <2>2, <2>3, <2>4, <2>5 DEF Next
<1> QED
  BY <1>1, <1>2, <1>3, <1>4, <1>5, EngineCases DEF EngineStep, eVars

LEMMA DropStep ==
    ASSUME TypeInv, MutexInv, DropInv, [Next]_simVars
    PROVE  DropInv'
<1>0. /\ batch \in Seq(Events) /\ slot \in Nat /\ NTasks \in Nat /\ Slots \subseteq Nat
      /\ jobs \in [Slots -> {"none", "queued", "done", "dropped"}]
  BY SlotsAreNumbers DEF TypeInv, ControllerType
<1>1. qClosed => qClosed'
  BY MutexStep
<1>2. UNCHANGED batch => NTasks' = NTasks
  BY DEF NTasks
<1>3. ASSUME UNCHANGED <<jobs, batch>>, InBatch' => InBatch,
             \A c \in Slots : InBatch' /\ Enqueued(c)' => Enqueued(c)
      PROVE  DropInv'
  BY <1>1, <1>3 DEF DropInv
<1>4. ASSUME ~InBatch'
      PROVE  DropInv'
  BY <1>4 DEF DropInv
<1>5. CASE UNCHANGED <<vVars, jobs, todo>>
  BY <1>2, <1>3, <1>5 DEF vVars, InBatch, Enqueued
<1>6. CASE StartController
  <2>1. UNCHANGED <<jobs, batch, slot>> /\ (vpc' = vpc \/ vpc' = "queued")
    BY <1>6 DEF StartController, jVars
  <2> QED
    BY <1>2, <1>3, <2>1 DEF InBatch, Enqueued
<1>7. CASE CtlBegin \/ CtlSync \/ CtlSynced \/ CtlShouldStop \/ CtlSignal \/ CtlExit
  BY <1>4, <1>7 DEF CtlBegin, CtlSync, CtlSynced, CtlShouldStop, CtlSignal, CtlExit, Controller,
                    InBatch
<1>8. CASE CtlPop
  <2>1. vpc' # "wait" /\ slot' = 0
    BY <1>8 DEF CtlPop, Controller
  <2>2. \A c \in Slots : ~Enqueued(c)'
    BY <1>0, <2>1 DEF Enqueued
  <2> QED
    BY <2>2 DEF DropInv
<1>9. CASE CtlEnqueue
  <2>1. vpc = "enqueue" /\ vpc' = "put" /\ UNCHANGED <<jobs, batch, slot>>
    BY <1>9 DEF CtlEnqueue, Controller, jVars
  <2> QED
    BY <1>2, <1>3, <2>1 DEF InBatch, Enqueued
<1>10. CASE CtlPut
  <2>1. /\ vpc = "put" /\ InBatch /\ vpc' = (IF slot + 1 < NTasks THEN "enqueue" ELSE "wait")
        /\ slot' = (IF slot + 1 < NTasks THEN slot + 1 ELSE 0) /\ UNCHANGED <<batch, qClosed>>
        /\ jobs' = [jobs EXCEPT ![slot] = IF qClosed THEN "dropped" ELSE "queued"]
    BY <1>10 DEF CtlPut, Controller, InBatch, pVars
  <2>2. slot < NTasks /\ slot \in Slots
    BY <1>0, <2>1, SlotsAreNumbers DEF TypeInv, ControllerType
  <2>3. ASSUME NEW c \in Slots, Enqueued(c)'
        PROVE  jobs'[c] # "none" /\ (jobs'[c] = "dropped" => qClosed')
    <3>1. CASE c = slot
      BY <1>0, <2>1, <2>2, <3>1
    <3>2. CASE c # slot
      <4>1. Enqueued(c)
        BY <1>0, <1>2, <2>1, <2>2, <2>3, <3>2 DEF Enqueued
      <4>2. jobs'[c] = jobs[c]
        BY <1>0, <2>1, <3>2
      <4> QED
        BY <2>1, <4>1, <4>2 DEF DropInv
    <3> QED
      BY <3>1, <3>2
  <2> QED
    BY <2>3 DEF DropInv
<1>11. CASE CtlWait
  <2>1. vpc = "wait" /\ vpc' \in {"wait", "signal"} /\ UNCHANGED <<jobs, batch>>
    BY <1>11 DEF CtlWait, Controller, jVars
  <2> QED
    BY <1>2, <1>3, <2>1 DEF InBatch, Enqueued
<1>12. ASSUME NEW c \in Slots, ThrowEvent(c) \/ WorkerDone(c)
       PROVE  DropInv'
  <2>1. /\ UNCHANGED <<vpc, batch, slot>>
        /\ jobs' = jobs \/ jobs' = [jobs EXCEPT ![c] = "done"]
    BY <1>12 DEF ThrowEvent, WorkerDone, vVars
  <2>2. \A d \in Slots : jobs'[d] \in {jobs[d], "done"}
    BY <1>0, <2>1
  <2>3. (InBatch' <=> InBatch) /\ \A d \in Slots : Enqueued(d)' <=> Enqueued(d)
    BY <1>2, <2>1 DEF InBatch, Enqueued
  <2> QED
    BY <1>1, <2>2, <2>3 DEF DropInv
<1> QED
  BY <1>5, <1>6, <1>7, <1>8, <1>9, <1>10, <1>11, <1>12, ControllerCases DEF CtlStep

LEMMA DropAlways == Spec => [](MutexInv /\ DropInv)
<1>1. Init => MutexInv /\ DropInv
  BY DEF Init, MutexInv, DropInv, InBatch
<1>2. TypeInv /\ MutexInv /\ DropInv /\ [Next]_simVars => (MutexInv /\ DropInv)'
  BY MutexStep, DropStep
<1> QED
  BY <1>1, <1>2, TypeAlways, PTL DEF Spec

\* who waits for what when nobody can go on
LEMMA StuckEnds ==
    ASSUME EventsInv, WayInv, MutexInv, DropInv, ~NetRuntime, Stuck
    PROVE  estop /\ epc = "fini_join" /\ vpc \in {"enqueue", "wait"} /\ InBatch
<1>0. /\ TypeInv /\ MeetInv
      /\ clock \in Nat /\ sync \in Nat /\ n_sync \in Nat /\ stop \in {0, 1} /\ hasEvm \in BOOLEAN
      /\ tpc \in [{"engine", "controller"} -> {"out", "waiting", "woken"}]
  BY DEF EventsInv, TypeInv, Timer!TypeOK, EngineType, Actors
<1>1. \A a \in Actors : tpc[a] \in {"out", "waiting"}
  BY <1>0 DEF Stuck, Actors
\* a task that the controller waits for was dropped by a closed queue
<1>2. ASSUME vpc = "wait", jobs[slot] # "done"
      PROVE  qClosed
  <2>1. InBatch
    BY <1>2 DEF InBatch
  <2>2. slot < NTasks /\ slot \in Slots
    BY <1>0, <2>1, SlotsAreNumbers DEF TypeInv, ControllerType
  <2>3. jobs[slot] \in {"none", "queued", "done", "dropped"}
    BY <1>0, <2>2 DEF TypeInv, ControllerType
  <2>4. jobs[slot] # "none" /\ jobs[slot] # "queued"
    BY <1>2, <2>1, <2>2 DEF DropInv, Enqueued, Stuck
  <2> QED
    BY <1>2, <2>1, <2>2, <2>3, <2>4 DEF DropInv, Enqueued
\* so the controller waits for the engine, or at the timer, or does not run
<1>3. epc \notin {"fini_close", "fini_join", "over"} =>
         vpc \in {"none", "ended"} \/ (vpc = "syncing" /\ tpc["controller"] = "waiting")
  BY <1>1, <1>2 DEF Stuck, ControllerWaits, MutexInv, Actors
<1>4. epc # "syncing"
  <2> SUFFICES ASSUME epc = "syncing" PROVE FALSE
    OBVIOUS
  <2>1. tpc["engine"] = "waiting"
    BY <1>1 DEF Stuck, EngineWaits, Actors
  <2>2. sync = 1 + Waits("controller") /\ sync < n_sync /\ n_sync = NActors
    <3>1. stop = 0 /\ n_sync = NActors
      BY <1>0 DEF MeetInv, Stopped
    <3>2. Waits("engine") = 1
      BY <2>1 DEF Waits
    <3> QED
      BY <1>0, <3>1, <3>2 DEF MeetInv
  <2>3. CASE hasEvm
    <3>1. tpc["controller"] = "waiting"
      BY <1>3, <2>3 DEF WayInv, AfterLoop, Stopped
    <3> QED
      BY <2>2, <2>3, <3>1 DEF Waits, NActors
  <2>4. CASE ~hasEvm
    BY <1>0, <2>2, <2>4 DEF Waits, NActors
  <2> QED
    BY <1>0, <2>3, <2>4
<1>5. epc # "events_waiting"
  <2> SUFFICES ASSUME epc = "events_waiting" PROVE FALSE
    OBVIOUS
  <2>1. hasEvm /\ ~AfterLoop /\ lastCompletion < clock
    BY DEF WayInv, AfterLoop, Stopped
  <2>2. OnItsWay
    BY <2>1 DEF WayInv
  <2> QED
    BY <1>3, <2>2 DEF OnItsWay, Handling
<1>6. epc = "fini_join"
  BY <1>4, <1>5 DEF Stuck, EngineWaits, MutexInv
<1>7. vpc \in {"enqueue", "wait"}
  <2>1. hasEvm /\ vpc # "none"
    BY <1>6 DEF WayInv
  <2>2. vpc # "ended"
    BY <1>6 DEF Stuck, EngineWaits
  <2>3. tpc["controller"] = "out"
    <3>1. stop = 1
      BY <1>0, <1>6 DEF MeetInv, Stopped
    <3>2. "controller" \in Actors
      BY DEF Actors
    <3> QED
      BY <1>0, <1>1, <3>1, <3>2 DEF MeetInv
  <2> QED
    BY <2>1, <2>2, <2>3 DEF Stuck, ControllerWaits
<1> QED
  BY <1>6, <1>7 DEF WayInv, AfterLoop, Stopped, InBatch

(***************************************************************************)
(* NeverStuckBefore: engine, controller, workers and timer never all wait  *)
(* for one another before the end of the simulation, and not after it      *)
(* either unless there are events for the tick in which it ends: whatever  *)
(* the times of the events, and in spite of spurious wakeups.  The three   *)
(* assumptions are needed: a network runtime is counted by the timer but   *)
(* does not come to it, a handler that stops the controller takes it away  *)
(* from the timer, and with start_raising above 1 no completion is         *)
(* signalled for the first ticks.                                          *)
(***************************************************************************)
THEOREM NeverStuckBefore ==
    ASSUME ~NetRuntime, ~UserStops, StartRaising <= 1
    PROVE  Spec => []StuckOnlyAtEnd
<1>1. ASSUME EventsInv, WayInv, MutexInv, DropInv, Stuck
      PROVE  /\ estop /\ epc = "fini_join" /\ vpc \in {"enqueue", "wait"}
             /\ \E e \in 1 .. nevents : at[e] = ecur
  <2>1. estop /\ epc = "fini_join" /\ vpc \in {"enqueue", "wait"} /\ InBatch
    BY <1>1, StuckEnds
  <2>2. batch \in Seq(Events) /\ batch # <<>>
    BY <1>1, <2>1 DEF EventsInv, TypeInv, ControllerType
  <2>3. 1 \in 1 .. Len(batch) /\ batch[1] \in Events
    <3>1. Len(batch) \in Nat /\ Len(batch) # 0 /\ batch \in [1 .. Len(batch) -> Events]
      BY <2>2, EmptySeq, LenProperties
    <3> QED
      BY <3>1
  <2>4. batch[1] <= nevents /\ at[batch[1]] = vcur
    BY <1>1, <2>1, <2>3 DEF EventsInv, PlaceInv
  <2>5. vcur = clock /\ clock = ecur
    BY <1>1, <2>1 DEF EventsInv, MeetInv, Handling, Passed
  <2>6. batch[1] \in 1 .. nevents
    <3>1. nevents \in Nat /\ batch[1] \in Nat \ {0}
      BY <1>1, <2>3, TreeNumbers DEF EventsInv
    <3> QED
      BY <2>4, <3>1
  <2> QED
    BY <2>1, <2>4, <2>5, <2>6
<1>2. EventsInv /\ WayInv /\ MutexInv /\ DropInv => StuckOnlyAtEnd
  BY <1>1 DEF StuckOnlyAtEnd
<1> QED
  BY <1>2, EventsAlways, WayAlways, DropAlways, PTL

(***************************************************************************)
(* EventDrivenNeverStuck: an event driven simulation is never stuck at     *)
(* all, if pthread_cond_wait returns only after a signal: when it ends,    *)
(* every event was raised and no handler can schedule another one.         *)
(***************************************************************************)
THEOREM EventDrivenNeverStuck ==
    ASSUME SimType = "EVENT_DRIVEN", MaxSpurious = 0, ~NetRuntime, ~UserStops, StartRaising <= 1
    PROVE  Spec => []~Stuck
<1>1. ASSUME EventsInv, EndInv, WayInv, MutexInv, DropInv, Stuck
      PROVE  FALSE
  <2>1. estop /\ InBatch
    BY <1>1, StuckEnds
  <2> QED
    BY <1>1, <2>1 DEF EndInv, Ending
<1>2. EventsInv /\ EndInv /\ WayInv /\ MutexInv /\ DropInv => ~Stuck
  BY <1>1
<1> QED
  BY <1>2, EndAlways, WayAlways, DropAlways, PTL
=============================================================================
