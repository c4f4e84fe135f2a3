------------------------- MODULE CsWorkerPoolProofs -------------------------
(***************************************************************************)
(* Proofs about CsWorkerPool, for any number of workers, clients and tasks *)
(* and any size of the task queue.                                         *)
(***************************************************************************)
EXTENDS CsWorkerPool, FiniteSetTheorems, SequenceTheorems, TLAPS

-----------------------------------------------------------------------------
(***************************************************************************)
(* Types.  TypeOK is inductive only together with CallsOK: a thread inside *)
(* a call has a task, and the controller's index is that of a worker.      *)
(***************************************************************************)
HasTask == {"new_id", "new_id_store", "lock_table", "enqueue", "insert",
            "wait_status", "wait_sem", "result"}

QueueCallsOK == \A c \in Clients : qpc[c] \in {"enq_sem", "enq_cs"} => arg[c] \in Tasks

CallsOK ==
    /\ QueueCallsOK
    /\ \A c \in Clients : pc[c] \in HasTask => ptsk[c] \in Tasks
    /\ \A w \in Workers :
          wpc[w] \in {"run", "free", "done", "exit_code", "signal"} => wtsk[w] \in Tasks
    /\ cpc \in {"wait_free", "scan", "assign", "notify"} => ctsk \in Tasks
    /\ cpc \in {"assign", "notify", "sd_post"} => cidx < NThreads

TypeInv == TypeOK /\ CallsOK

\* The pool that cs_wp_init makes has the right types.
LEMMA TypeInit == Init => TypeInv
<1> SUFFICES ASSUME Init PROVE TypeInv
  OBVIOUS
<1>1. Queue!TypeOK
  BY TasksAssumption DEF Init, Queue!Init, Queue!TypeOK, Queue!Places, Queue!Results
<1>2. TypeOK
  BY <1>1, NThreadsAssumption, TasksAssumption
     DEF Init, TypeOK, WorkerRecord, TaskRecord, WorkerPlaces, CtlPlaces, ClientPlaces
<1>3. CallsOK
  BY DEF Init, Queue!Init, CallsOK, QueueCallsOK, HasTask, Queue!Threads
<1> QED
  BY <1>2, <1>3 DEF TypeInv

\* The calls of cs_queue_enqueue, cs_queue_dequeue and cs_queue_close keep the
\* queue's types, and what the controller is given is a task.
LEMMA QueueTypes ==
    ASSUME Queue!TypeOK, QueueCallsOK
    PROVE  /\ \A c \in Clients, k \in Tasks :
                 Queue!EnqueueCall(c, k) => Queue!TypeOK' /\ QueueCallsOK'
           /\ \A c \in Clients : Queue!EnqueueSem(c) => Queue!TypeOK' /\ QueueCallsOK'
           /\ \A c \in Clients : Queue!EnqueueLocked(c) => Queue!TypeOK' /\ QueueCallsOK'
           /\ Queue!DequeueCall(Ctl) => Queue!TypeOK' /\ QueueCallsOK'
           /\ Queue!DequeueSem(Ctl) => Queue!TypeOK' /\ QueueCallsOK'
           /\ Queue!DequeueClosed(Ctl) => Queue!TypeOK' /\ QueueCallsOK'
           /\ Queue!DequeueElement(Ctl) =>
                 Queue!TypeOK' /\ QueueCallsOK' /\ ret'[Ctl] \in Tasks
           /\ Queue!Close(Owner) => Queue!TypeOK' /\ QueueCallsOK'
           /\ UNCHANGED qVars => Queue!TypeOK' /\ QueueCallsOK'
<1> USE ClientsAssumption
    DEF Queue!TypeOK, QueueCallsOK, Queue!Places, Queue!Results, Queue!Threads,
        Queue!Goto, Queue!Return, Queue!queueState, Queue!history
<1>1. ASSUME NEW c \in Clients, NEW k \in Tasks, Queue!EnqueueCall(c, k)
      PROVE  Queue!TypeOK' /\ QueueCallsOK'
  BY <1>1 DEF Queue!EnqueueCall
<1>2. ASSUME NEW c \in Clients, Queue!EnqueueSem(c)
      PROVE  Queue!TypeOK' /\ QueueCallsOK'
  BY <1>2 DEF Queue!EnqueueSem
<1>3. ASSUME NEW c \in Clients, Queue!EnqueueLocked(c)
      PROVE  Queue!TypeOK' /\ QueueCallsOK'
  <2>1. arg[c] \in Tasks /\ elems \in Seq(Tasks) /\ accepted \in Seq(Tasks) /\ qsem \in Nat
    BY <1>3 DEF Queue!EnqueueLocked
  <2>2. Append(elems, arg[c]) \in Seq(Tasks) /\ Append(accepted, arg[c]) \in Seq(Tasks)
    BY <2>1, AppendProperties
  <2>3. elems' \in Seq(Tasks) /\ accepted' \in Seq(Tasks) /\ qsem' \in Nat
    <3> HIDE DEF Queue!TypeOK, QueueCallsOK, Queue!Return
    <3>1. CASE status = "QOPENED"
      <4>1. /\ elems' = Append(elems, arg[c])
            /\ qsem' = qsem + 1
            /\ accepted' = Append(accepted, arg[c])
        BY <1>3, <3>1 DEF Queue!EnqueueLocked
      <4> QED
        BY <2>1, <2>2, <4>1
    <3>2. CASE status # "QOPENED"
      BY <1>3, <2>1, <3>2 DEF Queue!EnqueueLocked
    <3> QED
      BY <3>1, <3>2
  <2>4. UNCHANGED <<status, qlimit, arg, delivered>> /\ Queue!Return(c, OK)
    BY <1>3 DEF Queue!EnqueueLocked
  <2> QED
    BY <2>3, <2>4
<1>4. ASSUME Queue!DequeueCall(Ctl)
      PROVE  Queue!TypeOK' /\ QueueCallsOK'
  BY <1>4 DEF Queue!DequeueCall
<1>5. ASSUME Queue!DequeueSem(Ctl)
      PROVE  Queue!TypeOK' /\ QueueCallsOK'
  BY <1>5 DEF Queue!DequeueSem
<1>6. ASSUME Queue!DequeueClosed(Ctl)
      PROVE  Queue!TypeOK' /\ QueueCallsOK'
  BY <1>6 DEF Queue!DequeueClosed
<1>7. ASSUME Queue!DequeueElement(Ctl)
      PROVE  Queue!TypeOK' /\ QueueCallsOK' /\ ret'[Ctl] \in Tasks
  <2>1. Head(elems) \in Tasks /\ Tail(elems) \in Seq(Tasks)
    BY <1>7, HeadTailProperties DEF Queue!DequeueElement
  <2>2. Append(delivered, Head(elems)) \in Seq(Tasks)
    BY <2>1, AppendProperties
  <2> QED
    BY <1>7, <2>1, <2>2 DEF Queue!DequeueElement
<1>8. ASSUME Queue!Close(Owner)
      PROVE  Queue!TypeOK' /\ QueueCallsOK'
  BY <1>8 DEF Queue!Close
<1>9. ASSUME UNCHANGED qVars
      PROVE  Queue!TypeOK' /\ QueueCallsOK'
  BY <1>9 DEF qVars
<1> QED
  BY <1>1, <1>2, <1>3, <1>4, <1>5, <1>6, <1>7, <1>8, <1>9

(***************************************************************************)
(* TypeInv in parts, by the variables they are about.                      *)
(***************************************************************************)
PoolTyped ==
    /\ wpStatus \in {"READY", "WORKING"}
    /\ wpMutex \in Clients \cup {NULL} /\ tableMutex \in Clients \cup {NULL}
    /\ nstarts \in Nat /\ wpSem \in Nat /\ nextId \in Nat /\ otherId \in Nat
    /\ ntasks \in 0 .. MaxTasks
    /\ table \subseteq Tasks /\ freed \subseteq Tasks /\ returned \subseteq Tasks
    /\ runs \in [Tasks -> Nat]
TaskTyped   == tsk \in [Tasks -> TaskRecord]
RecordTyped == wrk \in [Workers -> WorkerRecord]
WorkerTyped ==
    /\ wpc \in [Workers -> WorkerPlaces]
    /\ wtsk \in [Workers -> Tasks \cup {NULL}]
    /\ \A w \in Workers :
          wpc[w] \in {"run", "free", "done", "exit_code", "signal"} => wtsk[w] \in Tasks
CtlTyped ==
    /\ cpc \in CtlPlaces /\ ctsk \in Tasks \cup {NULL} /\ cidx \in 0 .. NThreads
    /\ cpc \in {"wait_free", "scan", "assign", "notify"} => ctsk \in Tasks
    /\ cpc \in {"assign", "notify", "sd_post"} => cidx \in Workers
ClientTyped ==
    /\ pc \in [Clients -> ClientPlaces]
    /\ ptsk \in [Clients -> Tasks \cup {NULL}]
    /\ pcall \in [Clients -> {"wait", "get", "pop"}]
    /\ pres \in [Clients -> {"none", "unset", "set"}]
    /\ pid \in [Clients -> Nat]
    /\ \A c \in Clients : pc[c] \in HasTask => ptsk[c] \in Tasks

LEMMA TypeParts ==
    TypeInv <=> /\ Queue!TypeOK /\ QueueCallsOK
                /\ PoolTyped /\ TaskTyped /\ RecordTyped
                /\ WorkerTyped /\ CtlTyped /\ ClientTyped
<1>1. cidx \in 0 .. NThreads => (cidx < NThreads <=> cidx \in Workers)
  BY NThreadsAssumption DEF Workers
<1> QED
  BY <1>1 DEF TypeInv, TypeOK, CallsOK, PoolTyped, TaskTyped, RecordTyped, WorkerTyped,
              CtlTyped, ClientTyped

\* a part whose variables are unchanged still holds
LEMMA TypeFrames ==
    /\ UNCHANGED <<pVars, wpSem, tVars, runs>> => PoolTyped' = PoolTyped
    /\ UNCHANGED tsk => TaskTyped' = TaskTyped
    /\ UNCHANGED wrk => RecordTyped' = RecordTyped
    /\ UNCHANGED <<wpc, wtsk>> => WorkerTyped' = WorkerTyped
    /\ UNCHANGED cVars => CtlTyped' = CtlTyped
    /\ UNCHANGED lVars => ClientTyped' = ClientTyped
  BY DEF pVars, tVars, cVars, lVars, PoolTyped, TaskTyped, RecordTyped, WorkerTyped,
         CtlTyped, ClientTyped

\* No step breaks the types, or what is known of the calls in progress.
LEMMA TypeStep ==
    ASSUME TypeInv, [Next]_poolVars
    PROVE  TypeInv'
<1>0. /\ Queue!TypeOK /\ QueueCallsOK
      /\ PoolTyped /\ TaskTyped /\ RecordTyped /\ WorkerTyped /\ CtlTyped /\ ClientTyped
  BY TypeParts
<1>q. SUFFICES /\ Queue!TypeOK' /\ QueueCallsOK'
               /\ PoolTyped' /\ TaskTyped' /\ RecordTyped'
               /\ WorkerTyped' /\ CtlTyped' /\ ClientTyped'
  BY TypeParts, PTL
<1> DEFINE Goal == /\ Queue!TypeOK' /\ QueueCallsOK'
                   /\ PoolTyped' /\ TaskTyped' /\ RecordTyped'
                   /\ WorkerTyped' /\ CtlTyped' /\ ClientTyped'
<1> USE NThreadsAssumption, ClientsAssumption, TasksAssumption
<1>1. ASSUME nstarts < MaxStarts, Start(Owner)
      PROVE  Goal
  <2>1. PoolTyped'
    BY <1>0, <1>1 DEF Start, PoolTyped, pVars, tVars, wVars
  <2>2. WorkerTyped'
    BY <1>0, <1>1 DEF Start, WorkerTyped, WorkerPlaces
  <2>3. RecordTyped'
    BY <1>0, <1>1, ZenonT(60) DEF Start, RecordTyped, WorkerRecord
  <2>4. CtlTyped'
    BY <1>0, <1>1 DEF Start, CtlTyped, CtlPlaces, cVars, Workers
  <2> QED
    BY <1>0, <1>1, <2>1, <2>2, <2>3, <2>4, TypeFrames, QueueTypes DEF Start, pVars, tVars, wVars, cVars, lVars
<1>2. ASSUME ShutdownLock(Owner)
      PROVE  Goal
  <2>1. PoolTyped'
    BY <1>0, <1>2 DEF ShutdownLock, Goto, PoolTyped, pVars, tVars, wVars
  <2>2. ClientTyped'
    BY <1>0, <1>2 DEF ShutdownLock, Goto, ClientTyped, ClientPlaces, HasTask, lVars
  <2> QED
    BY <1>0, <1>2, <2>1, <2>2, TypeFrames, QueueTypes DEF ShutdownLock, Goto, pVars, tVars, wVars, cVars, lVars
<1>3. ASSUME ShutdownClose(Owner)
      PROVE  Goal
  <2>1. ClientTyped'
    BY <1>0, <1>3 DEF ShutdownClose, Goto, ClientTyped, ClientPlaces, HasTask, lVars
  <2> QED
    BY <1>0, <1>3, <2>1, TypeFrames, QueueTypes DEF ShutdownClose, Goto, pVars, tVars, wVars, cVars, lVars
<1>4. ASSUME ShutdownJoin(Owner)
      PROVE  Goal
  <2>1. PoolTyped'
    BY <1>0, <1>4 DEF ShutdownJoin, Goto, PoolTyped, pVars, tVars, wVars
  <2>2. ClientTyped'
    BY <1>0, <1>4 DEF ShutdownJoin, Goto, ClientTyped, ClientPlaces, HasTask, lVars
  <2> QED
    BY <1>0, <1>4, <2>1, <2>2, TypeFrames, QueueTypes DEF ShutdownJoin, Goto, pVars, tVars, wVars, cVars, lVars
<1>5. ASSUME NEW c \in Clients, EnqueueStatus(c)
      PROVE  Goal
  <2>1. PoolTyped'
    BY <1>0, <1>5 DEF EnqueueStatus, Goto, PoolTyped, pVars, tVars, wVars
  <2>2. ntasks + 1 \in Tasks
    BY <1>0, <1>5 DEF EnqueueStatus, PoolTyped, Tasks
  <2>3. ClientTyped'
    BY <1>0, <1>5, <2>2 DEF EnqueueStatus, Goto, ClientTyped, ClientPlaces, HasTask
  <2> QED
    BY <1>0, <1>5, <2>1, <2>2, <2>3, TypeFrames, QueueTypes DEF EnqueueStatus, Goto, pVars, tVars, wVars, cVars, lVars
<1>6. ASSUME NEW c \in Clients, NewIdLoad(c)
      PROVE  Goal
  <2>1. ClientTyped'
    BY <1>0, <1>6 DEF NewIdLoad, Goto, ClientTyped, ClientPlaces, HasTask, lVars, PoolTyped
  <2> QED
    BY <1>0, <1>6, <2>1, TypeFrames, QueueTypes DEF NewIdLoad, Goto, pVars, tVars, wVars, cVars, lVars
<1>7. ASSUME NEW c \in Clients, NewIdStore(c)
      PROVE  Goal
  <2>1. PoolTyped'
    BY <1>0, <1>7 DEF NewIdStore, Goto, PoolTyped, pVars, tVars, wVars, ClientTyped, HasTask
  <2>2. TaskTyped'
    BY <1>0, <1>7 DEF NewIdStore, Goto, TaskTyped, TaskRecord, ClientTyped, HasTask
  <2>3. ClientTyped'
    BY <1>0, <1>7 DEF NewIdStore, Goto, ClientTyped, ClientPlaces, HasTask, lVars
  <2> QED
    BY <1>0, <1>7, <2>1, <2>2, <2>3, TypeFrames, QueueTypes DEF NewIdStore, Goto, pVars, tVars, wVars, cVars, lVars
<1>8. ASSUME NEW c \in Clients, LockTable(c)
      PROVE  Goal
  <2>1. PoolTyped'
    BY <1>0, <1>8 DEF LockTable, Goto, PoolTyped, pVars, tVars, wVars
  <2>2. ClientTyped'
    BY <1>0, <1>8 DEF LockTable, Goto, ClientTyped, ClientPlaces, HasTask, lVars
  <2>3. ptsk[c] \in Tasks
    BY <1>0, <1>8 DEF LockTable, ClientTyped, HasTask
  <2> QED
    BY <1>0, <1>8, <2>1, <2>2, <2>3, TypeFrames, QueueTypes DEF LockTable, Goto, pVars, tVars, wVars, cVars, lVars
<1>9. ASSUME NEW c \in Clients, EnqueueSem(c)
      PROVE  Goal
  <2> QED
    BY <1>0, <1>9, TypeFrames, QueueTypes DEF EnqueueSem, pVars, tVars, wVars, cVars, lVars
<1>10. ASSUME NEW c \in Clients, EnqueueLocked(c)
      PROVE  Goal
  <2>1. ClientTyped'
    BY <1>0, <1>10 DEF EnqueueLocked, Goto, ClientTyped, ClientPlaces, HasTask, lVars
  <2> QED
    BY <1>0, <1>10, <2>1, TypeFrames, QueueTypes DEF EnqueueLocked, Goto, pVars, tVars, wVars, cVars, lVars
<1>11. ASSUME NEW c \in Clients, InsertTask(c)
      PROVE  Goal
  <2>1. PoolTyped'
    BY <1>0, <1>11 DEF InsertTask, Goto, PoolTyped, pVars, tVars, wVars, ClientTyped, HasTask
  <2>2. ClientTyped'
    BY <1>0, <1>11 DEF InsertTask, Goto, ClientTyped, ClientPlaces, HasTask, lVars
  <2> QED
    BY <1>0, <1>11, <2>1, <2>2, TypeFrames, QueueTypes DEF InsertTask, Goto, pVars, tVars, wVars, cVars, lVars
<1>12. ASSUME NEW c \in Clients, NEW call \in {"wait", "get", "pop"}, NEW k \in Tasks,
             WaitLookup(c, call, k)
      PROVE  Goal
  <2>1. ClientTyped'
    <3>1. SameId(k) \subseteq Tasks
      BY <1>0 DEF SameId, PoolTyped
    <3> QED
      BY <1>0, <1>12, <3>1 DEF WaitLookup, Goto, ClientTyped, ClientPlaces, HasTask, lVars
  <2> QED
    BY <1>0, <1>12, <2>1, TypeFrames, QueueTypes DEF WaitLookup, Goto, pVars, tVars, wVars, cVars, lVars
<1>13. ASSUME NEW c \in Clients, WaitStatus(c)
      PROVE  Goal
  <2>1. ClientTyped'
    BY <1>0, <1>13 DEF WaitStatus, WaitReturn, Goto, ClientTyped, ClientPlaces, HasTask, lVars
  <2> QED
    BY <1>0, <1>13, <2>1, TypeFrames, QueueTypes DEF WaitStatus, WaitReturn, Goto, pVars, tVars, wVars, cVars, lVars
<1>14. ASSUME NEW c \in Clients, WaitSem(c)
      PROVE  Goal
  <2>1. TaskTyped'
    BY <1>0, <1>14 DEF WaitSem, WaitReturn, Goto, TaskTyped, TaskRecord, ClientTyped, HasTask
  <2>2. ClientTyped'
    BY <1>0, <1>14 DEF WaitSem, WaitReturn, Goto, ClientTyped, ClientPlaces, HasTask, lVars
  <2> QED
    BY <1>0, <1>14, <2>1, <2>2, TypeFrames, QueueTypes DEF WaitSem, WaitReturn, Goto, pVars, tVars, wVars, cVars, lVars
<1>15. ASSUME NEW c \in Clients, GetRes(c)
      PROVE  Goal
  <2>1. ClientTyped'
    <3>1. \A k \in SameId(ptsk[c]) : tsk[k].exit \in {"unset", "set"}
      BY <1>0 DEF SameId, PoolTyped, TaskTyped, TaskRecord
    <3> QED
      BY <1>0, <1>15, <3>1 DEF GetRes, Goto, ClientTyped, ClientPlaces, HasTask, lVars
  <2> QED
    BY <1>0, <1>15, <2>1, TypeFrames, QueueTypes DEF GetRes, Goto, pVars, tVars, wVars, cVars, lVars
<1>16. ASSUME NEW c \in Clients, PopRes(c)
      PROVE  Goal
  <2>0. PICK k \in SameId(ptsk[c]) :
           /\ table' = table \ {k}
           /\ freed' = freed \cup {k}
           /\ pres' = [pres EXCEPT ![c] = tsk[k].exit]
    BY <1>16 DEF PopRes
  <2>3. k \in Tasks /\ tsk[k].exit \in {"unset", "set"}
    BY <1>0 DEF SameId, PoolTyped, TaskTyped, TaskRecord
  <2>1. PoolTyped'
    BY <1>0, <1>16, <2>0, <2>3 DEF PopRes, PoolTyped, pVars, wVars
  <2>2. ClientTyped'
    BY <1>0, <1>16, <2>0, <2>3 DEF PopRes, Goto, ClientTyped, ClientPlaces, HasTask
  <2> QED
    BY <1>0, <1>16, <2>1, <2>2, TypeFrames, QueueTypes DEF PopRes, Goto, pVars, tVars, wVars, cVars, lVars
<1>17. ASSUME CtlDequeueCall
      PROVE  Goal
  <2>1. CtlTyped'
    BY <1>0, <1>17 DEF CtlDequeueCall, CtlTyped, CtlPlaces, cVars, Workers
  <2> QED
    BY <1>0, <1>17, <2>1, TypeFrames, QueueTypes DEF CtlDequeueCall, pVars, tVars, wVars, cVars, lVars
<1>18. ASSUME CtlDequeueSem
      PROVE  Goal
  <2> QED
    BY <1>0, <1>18, TypeFrames, QueueTypes DEF CtlDequeueSem, pVars, tVars, wVars, cVars, lVars
<1>19. ASSUME CtlDequeueElement
      PROVE  Goal
  <2>1. CtlTyped'
    BY <1>0, <1>19, QueueTypes DEF CtlDequeueElement, CtlTyped, CtlPlaces, cVars
  <2> QED
    BY <1>0, <1>19, <2>1, TypeFrames, QueueTypes DEF CtlDequeueElement, pVars, tVars, wVars, cVars, lVars
<1>20. ASSUME CtlDequeueClosed
      PROVE  Goal
  <2>1. CtlTyped'
    BY <1>0, <1>20 DEF CtlDequeueClosed, CtlTyped, CtlPlaces, cVars, Workers
  <2> QED
    BY <1>0, <1>20, <2>1, TypeFrames, QueueTypes DEF CtlDequeueClosed, pVars, tVars, wVars, cVars, lVars
<1>21. ASSUME CtlWaitFree
      PROVE  Goal
  <2>1. PoolTyped'
    BY <1>0, <1>21 DEF CtlWaitFree, PoolTyped, pVars, tVars, wVars
  <2>2. CtlTyped'
    BY <1>0, <1>21 DEF CtlWaitFree, CtlTyped, CtlPlaces, cVars, Workers
  <2> QED
    BY <1>0, <1>21, <2>1, <2>2, TypeFrames, QueueTypes DEF CtlWaitFree, pVars, tVars, wVars, cVars, lVars
<1>22. ASSUME CtlScan
      PROVE  Goal
  <2>1. CtlTyped'
    BY <1>0, <1>22 DEF CtlScan, CtlTyped, CtlPlaces, cVars, Workers
  <2> QED
    BY <1>0, <1>22, <2>1, TypeFrames, QueueTypes DEF CtlScan, pVars, tVars, wVars, cVars, lVars
<1>23. ASSUME CtlAssign
      PROVE  Goal
  <2>1. RecordTyped'
    BY <1>0, <1>23, ZenonT(60) DEF CtlAssign, RecordTyped, WorkerRecord, CtlTyped
  <2>2. CtlTyped'
    BY <1>0, <1>23 DEF CtlAssign, CtlTyped, CtlPlaces, cVars, Workers
  <2> QED
    BY <1>0, <1>23, <2>1, <2>2, TypeFrames, QueueTypes DEF CtlAssign, pVars, tVars, wVars, cVars, lVars
<1>24. ASSUME CtlNotify
      PROVE  Goal
  <2>1. RecordTyped'
    BY <1>0, <1>24 DEF CtlNotify, RecordTyped, WorkerRecord, CtlTyped
  <2>2. CtlTyped'
    BY <1>0, <1>24 DEF CtlNotify, CtlTyped, CtlPlaces, cVars, Workers
  <2> QED
    BY <1>0, <1>24, <2>1, <2>2, TypeFrames, QueueTypes DEF CtlNotify, pVars, tVars, wVars, cVars, lVars
<1>25. ASSUME CtlShutdownFlag
      PROVE  Goal
  <2>1. RecordTyped'
    BY <1>0, <1>25, ZenonT(60) DEF CtlShutdownFlag, RecordTyped, WorkerRecord, CtlTyped
  <2>2. CtlTyped'
    BY <1>0, <1>25 DEF CtlShutdownFlag, CtlTyped, CtlPlaces, cVars, Workers
  <2> QED
    BY <1>0, <1>25, <2>1, <2>2, TypeFrames, QueueTypes DEF CtlShutdownFlag, pVars, tVars, wVars, cVars, lVars
<1>26. ASSUME CtlShutdownPost
      PROVE  Goal
  <2>1. RecordTyped'
    BY <1>0, <1>26 DEF CtlShutdownPost, RecordTyped, WorkerRecord, CtlTyped
  <2>2. CtlTyped'
    BY <1>0, <1>26 DEF CtlShutdownPost, CtlTyped, CtlPlaces, cVars, Workers
  <2> QED
    BY <1>0, <1>26, <2>1, <2>2, TypeFrames, QueueTypes DEF CtlShutdownPost, pVars, tVars, wVars, cVars, lVars
<1>27. ASSUME CtlJoin
      PROVE  Goal
  <2>1. CtlTyped'
    BY <1>0, <1>27 DEF CtlJoin, CtlTyped, CtlPlaces, cVars, Workers
  <2> QED
    BY <1>0, <1>27, <2>1, TypeFrames, QueueTypes DEF CtlJoin, pVars, tVars, wVars, cVars, lVars
<1>28. ASSUME NEW w \in Workers, WorkerSem(w)
      PROVE  Goal
  <2>1. RecordTyped'
    BY <1>0, <1>28 DEF WorkerSem, WGoto, RecordTyped, WorkerRecord
  <2>2. WorkerTyped'
    BY <1>0, <1>28 DEF WorkerSem, WGoto, WorkerTyped, WorkerPlaces
  <2> QED
    BY <1>0, <1>28, <2>1, <2>2, TypeFrames, QueueTypes DEF WorkerSem, WGoto, pVars, tVars, wVars, cVars, lVars
<1>29. ASSUME NEW w \in Workers, WorkerExit(w)
      PROVE  Goal
  <2>1. WorkerTyped'
    BY <1>0, <1>29 DEF WorkerExit, WGoto, WorkerTyped, WorkerPlaces
  <2> QED
    BY <1>0, <1>29, <2>1, TypeFrames, QueueTypes DEF WorkerExit, WGoto, pVars, tVars, wVars, cVars, lVars
<1>30. ASSUME NEW w \in Workers, WorkerTake(w)
      PROVE  Goal
  <2>1. RecordTyped'
    BY <1>0, <1>30 DEF WorkerTake, WGoto, RecordTyped, WorkerRecord
  <2>2. WorkerTyped'
    BY <1>0, <1>30 DEF WorkerTake, WGoto, WorkerTyped, WorkerPlaces, RecordTyped, WorkerRecord
  <2> QED
    BY <1>0, <1>30, <2>1, <2>2, TypeFrames, QueueTypes DEF WorkerTake, WGoto, pVars, tVars, wVars, cVars, lVars
<1>31. ASSUME NEW w \in Workers, WorkerRun(w)
      PROVE  Goal
  <2>1. PoolTyped'
    BY <1>0, <1>31 DEF WorkerRun, WGoto, PoolTyped, pVars, tVars, wVars, WorkerTyped
  <2>2. WorkerTyped'
    BY <1>0, <1>31 DEF WorkerRun, WGoto, WorkerTyped, WorkerPlaces
  <2> QED
    BY <1>0, <1>31, <2>1, <2>2, TypeFrames, QueueTypes DEF WorkerRun, WGoto, pVars, tVars, wVars, cVars, lVars
<1>32. ASSUME NEW w \in Workers, WorkerFree(w)
      PROVE  Goal
  <2>1. PoolTyped'
    BY <1>0, <1>32 DEF WorkerFree, WGoto, PoolTyped, pVars, tVars, wVars
  <2>2. [wrk[w] EXCEPT !.status = "WAITING", !.assigned = NULL] \in WorkerRecord
    BY <1>0 DEF RecordTyped, WorkerRecord
  <2>3. RecordTyped'
    BY <1>0, <1>32, <2>2 DEF WorkerFree, RecordTyped
  <2>4. WorkerTyped'
    BY <1>0, <1>32 DEF WorkerFree, WGoto, WorkerTyped, WorkerPlaces
  <2> QED
    BY <1>0, <1>32, <2>1, <2>2, <2>3, <2>4, TypeFrames, QueueTypes DEF WorkerFree, WGoto, pVars, tVars, wVars, cVars, lVars
<1>33. ASSUME NEW w \in Workers, WorkerDone(w)
      PROVE  Goal
  <2>1. TaskTyped'
    BY <1>0, <1>33 DEF WorkerDone, WGoto, TaskTyped, TaskRecord, WorkerTyped
  <2>2. WorkerTyped'
    BY <1>0, <1>33 DEF WorkerDone, WGoto, WorkerTyped, WorkerPlaces
  <2> QED
    BY <1>0, <1>33, <2>1, <2>2, TypeFrames, QueueTypes DEF WorkerDone, WGoto, pVars, tVars, wVars, cVars, lVars
<1>34. ASSUME NEW w \in Workers, WorkerExitCode(w)
      PROVE  Goal
  <2>1. TaskTyped'
    BY <1>0, <1>34 DEF WorkerExitCode, WGoto, TaskTyped, TaskRecord, WorkerTyped
  <2>2. WorkerTyped'
    BY <1>0, <1>34 DEF WorkerExitCode, WGoto, WorkerTyped, WorkerPlaces
  <2> QED
    BY <1>0, <1>34, <2>1, <2>2, TypeFrames, QueueTypes DEF WorkerExitCode, WGoto, pVars, tVars, wVars, cVars, lVars
<1>35. ASSUME NEW w \in Workers, WorkerSignal(w)
      PROVE  Goal
  <2>1. TaskTyped'
    BY <1>0, <1>35 DEF WorkerSignal, WGoto, TaskTyped, TaskRecord, WorkerTyped
  <2>2. WorkerTyped'
    BY <1>0, <1>35 DEF WorkerSignal, WGoto, WorkerTyped, WorkerPlaces
  <2> QED
    BY <1>0, <1>35, <2>1, <2>2, TypeFrames, QueueTypes DEF WorkerSignal, WGoto, pVars, tVars, wVars, cVars, lVars
<1>36. ASSUME UNCHANGED poolVars
      PROVE  Goal
  BY <1>0, <1>36, TypeFrames, QueueTypes DEF poolVars, wVars
<1>43. ASSUME OtherPool
       PROVE  Goal
  <2>1. PoolTyped'
    BY <1>0, <1>43 DEF OtherPool, OtherIdLoad, OtherIdStore, PoolTyped, pVars, wVars
  <2> QED
    BY <1>0, <1>43, <2>1, TypeFrames, QueueTypes
       DEF OtherPool, OtherIdLoad, OtherIdStore, pVars, wVars, cVars, lVars
<1> HIDE DEF Goal
<1>37. ASSUME NEW c \in Clients, EnqueueStep(c)
      PROVE  Goal
  BY <1>37, <1>6, <1>7, <1>8, <1>9, <1>10, <1>11 DEF EnqueueStep
<1>38. ASSUME NEW c \in Clients, ResultStep(c)
      PROVE  Goal
  BY <1>38, <1>13, <1>14, <1>15, <1>16 DEF ResultStep
<1>39. ASSUME CtlStep
      PROVE  Goal
  BY <1>39, <1>17, <1>18, <1>19, <1>20, <1>21, <1>22, <1>23, <1>24, <1>25, <1>26, <1>27
     DEF CtlStep
<1>40. ASSUME NEW w \in Workers, WorkerStep(w)
      PROVE  Goal
  BY <1>40, <1>28, <1>29, <1>30, <1>31, <1>32, <1>33, <1>34, <1>35 DEF WorkerStep
<1>41. ASSUME NEW c \in Clients, NEW k \in Tasks,
              \/ WaitLookup(c, "wait", k) \/ WaitLookup(c, "get", k) \/ WaitLookup(c, "pop", k)
      PROVE  Goal
  BY <1>41, <1>12
<1>42. Goal
  <2>1. CASE UNCHANGED poolVars
    BY <2>1, <1>36
  <2>2. CASE nstarts < MaxStarts /\ Start(Owner)
    BY <2>2, <1>1
  <2>3. CASE ShutdownLock(Owner) \/ OwnerStep(Owner)
    BY <2>3, <1>2, <1>3, <1>4 DEF OwnerStep
  <2>4. CASE \E c \in Enqueuers : EnqueueStatus(c) \/ EnqueueStep(c)
    BY <2>4, <1>5, <1>37
  <2>5. CASE \E c \in Waiters, k \in Tasks : WaitLookup(c, "wait", k)
    BY <2>5, <1>41
  <2>6. CASE \E c \in Getters, k \in Tasks : WaitLookup(c, "get", k)
    BY <2>6, <1>41
  <2>7. CASE \E c \in Poppers, k \in Tasks \ freed : WaitLookup(c, "pop", k)
    BY <2>7, <1>41
  <2>8. CASE (\E c \in Clients : ResultStep(c)) \/ CtlStep
    BY <2>8, <1>38, <1>39
  <2>9. CASE \E w \in Workers : WorkerStep(w)
    BY <2>9, <1>40
  <2>10. CASE OtherPool \/ Finished
    BY <2>10, <2>1, <1>43 DEF Finished
  <2> HIDE NThreadsAssumption, ClientsAssumption, TasksAssumption
  <2> QED
    BY <2>1, <2>2, <2>3, <2>4, <2>5, <2>6, <2>7, <2>8, <2>9, <2>10 DEF Next
<1> QED
  BY <1>42 DEF Goal

-----------------------------------------------------------------------------
(***************************************************************************)
(* The protocol between the controller and the workers.  A token of        *)
(* worker_waiting_semaphore, still in the semaphore or just taken, stands  *)
(* for a task that was assigned and notified (Armed) or for the shutdown   *)
(* command that _cs_wp_shutdown_workers posted and that the worker has not *)
(* obeyed yet (Due).                                                       *)
(***************************************************************************)
B(b) == IF b THEN 1 ELSE 0

Armed(w)  == wrk[w].status = "TSK_ASSIGNED" /\ ~(cpc = "notify" /\ cidx = w)
Posted(w) == cpc = "ended" \/ (cpc \in {"sd_flag", "sd_post"} /\ w < cidx)
Due(w)    == Posted(w) /\ wpc[w] # "exited"

WorkerInv(w) ==
    /\ wrk[w].assigned # NULL <=> wrk[w].status \in {"TSK_ASSIGNED", "WORKING"}
    /\ wpc[w] = "none" <=> cpc = "none"
    /\ wpc[w] = "none" <=> wrk[w].status = "READY"
    /\ wpc[w] \in {"run", "free"} <=> wrk[w].status = "WORKING"
    /\ wpc[w] = "exited" => wrk[w].status = "WAITING" /\ Posted(w)
    /\ cpc = "ended" => wpc[w] = "exited"
    /\ Posted(w) => wrk[w].shutdown
    /\ wrk[w].sem + B(wpc[w] = "take") = B(Armed(w)) + B(Due(w))

CtlInv ==
    /\ wpStatus = "READY" => cpc \in {"none", "ended"}
    /\ cpc = "none" => wpSem = NThreads
    /\ cpc = "scan" => \E w \in Workers : w >= cidx /\ wrk[w].status = "WAITING"
    /\ cpc = "assign" => wrk[cidx].status = "WAITING"
    /\ cpc = "notify" => wrk[cidx].status = "TSK_ASSIGNED"
    /\ cpc = "sd_post" => wrk[cidx].shutdown

DispatchInv == CtlInv /\ FreeWorkersCounted /\ \A w \in Workers : WorkerInv(w)

dispatchVars == <<wrk, wpc, cpc, cidx, wpSem, wpStatus>>

\* the steps that touch the protocol
LEMMA DispatchCases ==
    ASSUME [Next]_poolVars
    PROVE  \/ UNCHANGED dispatchVars
           \/ Start(Owner)
           \/ ShutdownJoin(Owner)
           \/ CtlStep
           \/ \E w \in Workers : WorkerStep(w)
<1> USE DEF dispatchVars, pVars, wVars, cVars
<1>1. ASSUME NEW c, EnqueueStatus(c) \/ EnqueueStep(c)
      PROVE  UNCHANGED dispatchVars
  BY <1>1 DEF EnqueueStatus, EnqueueStep, NewIdLoad, NewIdStore, LockTable, EnqueueSem,
              EnqueueLocked, InsertTask
<1>2. ASSUME NEW c, NEW call, NEW k, WaitLookup(c, call, k)
      PROVE  UNCHANGED dispatchVars
  BY <1>2 DEF WaitLookup
<1>3. ASSUME NEW c, ResultStep(c)
      PROVE  UNCHANGED dispatchVars
  BY <1>3 DEF ResultStep, WaitStatus, WaitSem, GetRes, PopRes
<1>4. ASSUME NEW c, ShutdownLock(c) \/ ShutdownClose(c)
      PROVE  UNCHANGED dispatchVars
  BY <1>4 DEF ShutdownLock, ShutdownClose
<1>5. ASSUME OtherPool \/ UNCHANGED poolVars
      PROVE  UNCHANGED dispatchVars
  BY <1>5 DEF OtherPool, OtherIdLoad, OtherIdStore, poolVars
<1> HIDE DEF dispatchVars, pVars, wVars, cVars
<1> QED
  BY <1>1, <1>2, <1>3, <1>4, <1>5 DEF Next, OwnerStep, Finished

\* what a new pool satisfies
LEMMA WorkersFinite == IsFiniteSet(Workers) /\ Cardinality(Workers) = NThreads
  BY NThreadsAssumption, FS_Interval DEF Workers

LEMMA DispatchInit == Init => DispatchInv
<1> SUFFICES ASSUME Init PROVE DispatchInv
  OBVIOUS
<1>1. CtlInv
  BY DEF Init, CtlInv
<1>2. FreeWorkersCounted
  BY DEF Init, FreeWorkersCounted
<1>3. \A w \in Workers : WorkerInv(w)
  BY DEF Init, WorkerInv, Armed, Posted, Due, B
<1> QED
  BY <1>1, <1>2, <1>3 DEF DispatchInv

\* What one step of worker v does to the protocol.
LEMMA WorkerEffect ==
    ASSUME TypeInv, NEW v \in Workers, WorkerStep(v)
    PROVE  /\ cpc' = cpc /\ cidx' = cidx /\ wpStatus' = wpStatus
           /\ wpc[v] \notin {"none", "exited"}
           /\ \A w \in Workers : w # v => wrk'[w] = wrk[w] /\ wpc'[w] = wpc[w]
           /\ wrk'[v].shutdown = wrk[v].shutdown
           /\ \/ /\ wpc[v] = "take" /\ wrk[v].status = "TSK_ASSIGNED"
                 /\ wrk'[v].status = "WORKING" /\ wpSem' = wpSem
              \/ /\ wpc[v] = "free" /\ wrk[v].status = "WORKING"
                 /\ wrk'[v].status = "WAITING" /\ wpSem' = wpSem + 1
              \/ wrk'[v].status = wrk[v].status /\ wpSem' = wpSem
<1>0. wrk \in [Workers -> WorkerRecord] /\ wpc \in [Workers -> WorkerPlaces]
  BY DEF TypeInv, TypeOK
<1> USE DEF WorkerRecord, WGoto, cVars, pVars
<1>1. CASE WorkerSem(v)
  BY <1>0, <1>1 DEF WorkerSem
<1>2. CASE WorkerExit(v)
  BY <1>0, <1>2 DEF WorkerExit
<1>3. CASE WorkerTake(v)
  BY <1>0, <1>3 DEF WorkerTake
<1>4. CASE WorkerRun(v)
  BY <1>0, <1>4 DEF WorkerRun
<1>5. CASE WorkerFree(v)
  BY <1>0, <1>5 DEF WorkerFree
<1>6. CASE WorkerDone(v) \/ WorkerExitCode(v) \/ WorkerSignal(v)
  BY <1>0, <1>6 DEF WorkerDone, WorkerExitCode, WorkerSignal
<1> QED
  BY <1>1, <1>2, <1>3, <1>4, <1>5, <1>6 DEF WorkerStep

\* No step breaks what is known of each worker.
LEMMA WorkerInvStep ==
    ASSUME TypeInv, TypeInv', DispatchInv, [Next]_poolVars
    PROVE  \A w \in Workers : WorkerInv(w)'
<1> SUFFICES ASSUME NEW w \in Workers PROVE WorkerInv(w)'
  OBVIOUS
<1>0. /\ WorkerInv(w) /\ CtlInv
      /\ wrk[w] \in WorkerRecord /\ wrk \in [Workers -> WorkerRecord]
      /\ wpc \in [Workers -> WorkerPlaces]
      /\ cidx \in 0 .. NThreads /\ cidx' \in 0 .. NThreads
      /\ NThreads \in Nat /\ w \in 0 .. NThreads - 1
      /\ cpc \in {"assign", "notify", "sd_post"} => cidx \in Workers
      /\ cpc \in {"wait_free", "scan", "assign", "notify"} => ctsk # NULL
  <2>1. WorkerInv(w) /\ CtlInv
    BY DEF DispatchInv
  <2>2. /\ wrk[w] \in WorkerRecord /\ wrk \in [Workers -> WorkerRecord]
        /\ wpc \in [Workers -> WorkerPlaces]
    BY TypeParts DEF RecordTyped, WorkerTyped
  <2>3. /\ cidx \in 0 .. NThreads
        /\ cpc \in {"assign", "notify", "sd_post"} => cidx \in Workers
        /\ cpc \in {"wait_free", "scan", "assign", "notify"} => ctsk # NULL
    BY TypeParts, TasksAssumption DEF CtlTyped
  <2>4. cidx' \in 0 .. NThreads
    BY TypeInv' DEF TypeInv, TypeOK
  <2>5. NThreads \in Nat /\ w \in 0 .. NThreads - 1
    BY NThreadsAssumption DEF Workers
  <2> QED
    BY <2>1, <2>2, <2>3, <2>4, <2>5
<1>1. ASSUME UNCHANGED <<wrk, wpc, cpc, cidx>>
      PROVE  WorkerInv(w)'
  BY <1>0, <1>1 DEF WorkerInv, Armed, Posted, Due, B
<1>2. ASSUME Start(Owner)
      PROVE  WorkerInv(w)'
  BY <1>0, <1>2 DEF Start, WorkerInv, CtlInv, Armed, Posted, Due, B, WorkerRecord
<1>3. ASSUME CtlDequeueCall \/ CtlDequeueElement \/ CtlDequeueClosed \/ CtlWaitFree \/ CtlScan
      PROVE  WorkerInv(w)'
  BY <1>0, <1>3 DEF CtlDequeueCall, CtlDequeueElement, CtlDequeueClosed, CtlWaitFree, CtlScan,
                    wVars, cVars, WorkerInv, Armed, Posted, Due, B
<1>4. ASSUME CtlDequeueSem
      PROVE  WorkerInv(w)'
  BY <1>1, <1>4 DEF CtlDequeueSem, wVars, cVars
<1>5. ASSUME CtlAssign
      PROVE  WorkerInv(w)'
  BY <1>0, <1>5 DEF CtlAssign, WorkerInv, CtlInv, Armed, Posted, Due, B, WorkerRecord
<1>6. ASSUME CtlNotify
      PROVE  WorkerInv(w)'
  BY <1>0, <1>6 DEF CtlNotify, WorkerInv, CtlInv, Armed, Posted, Due, B, WorkerRecord
<1>7. ASSUME CtlShutdownFlag
      PROVE  WorkerInv(w)'
  BY <1>0, <1>7 DEF CtlShutdownFlag, WorkerInv, Armed, Posted, Due, B, WorkerRecord
<1>8. ASSUME CtlShutdownPost
      PROVE  WorkerInv(w)'
  <2> USE DEF CtlShutdownPost, WorkerInv, CtlInv, Armed, Posted, Due, B, WorkerRecord
  <2>1. CASE w = cidx
    BY <1>0, <1>8, <2>1
  <2>2. CASE w # cidx
    <3>1. w < cidx + 1 <=> w < cidx
      BY <1>0, <2>2
    <3>2. wrk'[w] = wrk[w] /\ wpc' = wpc /\ cpc' = "sd_flag" /\ cidx' = cidx + 1
      BY <1>0, <1>8, <2>2
    <3> QED
      BY <1>0, <1>8, <3>1, <3>2
  <2> QED
    BY <2>1, <2>2
<1>9. ASSUME CtlJoin
      PROVE  WorkerInv(w)'
  BY <1>0, <1>9 DEF CtlJoin, wVars, WorkerInv, Armed, Posted, Due, B
<1>10. ASSUME NEW v \in Workers, WorkerStep(v)
       PROVE  WorkerInv(w)'
  <2>1. cpc' = cpc /\ cidx' = cidx
    BY <1>10, WorkerEffect
  <2>2. ASSUME v # w
        PROVE  wrk'[w] = wrk[w] /\ wpc'[w] = wpc[w]
    BY <1>10, <2>2, WorkerEffect
  <2>3. CASE v # w
    BY <1>0, <2>1, <2>2, <2>3 DEF WorkerInv, Armed, Posted, Due, B
  <2> USE DEF WorkerInv, CtlInv, Armed, Posted, Due, B, WorkerRecord, WGoto
  <2>4. CASE v = w /\ WorkerSem(w)
    BY <1>0, <2>1, <2>4 DEF WorkerSem
  <2>5. CASE v = w /\ WorkerExit(w)
    BY <1>0, <2>1, <2>5 DEF WorkerExit
  <2>6. CASE v = w /\ WorkerTake(w)
    BY <1>0, <2>1, <2>6 DEF WorkerTake
  <2>7. CASE v = w /\ WorkerRun(w)
    BY <1>0, <2>1, <2>7 DEF WorkerRun
  <2>8. CASE v = w /\ WorkerFree(w)
    BY <1>0, <2>1, <2>8 DEF WorkerFree
  <2>9. CASE v = w /\ (WorkerDone(w) \/ WorkerExitCode(w) \/ WorkerSignal(w))
    BY <1>0, <2>1, <2>9 DEF WorkerDone, WorkerExitCode, WorkerSignal
  <2> HIDE DEF WorkerInv
  <2> QED
    BY <1>10, <2>3, <2>4, <2>5, <2>6, <2>7, <2>8, <2>9 DEF WorkerStep
<1>11. ASSUME ShutdownJoin(Owner)
       PROVE  WorkerInv(w)'
  BY <1>1, <1>11 DEF ShutdownJoin, wVars, cVars
<1> QED
  BY <1>1, <1>2, <1>3, <1>4, <1>5, <1>6, <1>7, <1>8, <1>9, <1>10, <1>11, DispatchCases
     DEF dispatchVars, CtlStep

\* No step breaks what is known of the controller.
LEMMA CtlInvStep ==
    ASSUME TypeInv, TypeInv', DispatchInv, [Next]_poolVars
    PROVE  CtlInv'
<1>0. /\ CtlInv /\ \A w \in Workers : WorkerInv(w)
      /\ wrk \in [Workers -> WorkerRecord] /\ wpc \in [Workers -> WorkerPlaces]
      /\ wpSem \in Nat /\ cidx \in 0 .. NThreads /\ NThreads \in Nat \ {0}
      /\ cpc \in {"assign", "notify", "sd_post"} => cidx \in Workers
      /\ Workers = 0 .. NThreads - 1
  BY NThreadsAssumption, TypeParts
     DEF DispatchInv, PoolTyped, RecordTyped, WorkerTyped, CtlTyped, Workers
<1>1. ASSUME UNCHANGED dispatchVars
      PROVE  CtlInv'
  BY <1>0, <1>1 DEF dispatchVars, CtlInv
<1>2. ASSUME Start(Owner)
      PROVE  CtlInv'
  BY <1>2 DEF Start, CtlInv
<1>3. ASSUME ShutdownJoin(Owner)
      PROVE  CtlInv'
  BY <1>3 DEF ShutdownJoin, CtlInv, cVars, wVars
<1>4. ASSUME CtlDequeueCall \/ CtlDequeueElement \/ CtlDequeueClosed
      PROVE  CtlInv'
  BY <1>0, <1>4 DEF CtlDequeueCall, CtlDequeueElement, CtlDequeueClosed, CtlInv, pVars
<1>5. ASSUME CtlDequeueSem
      PROVE  UNCHANGED dispatchVars
  BY <1>5 DEF CtlDequeueSem, pVars, wVars, cVars, dispatchVars
<1>6. ASSUME CtlWaitFree
      PROVE  CtlInv'
  <2>1. cpc = "wait_free" /\ wpSem > 0
    BY <1>6 DEF CtlWaitFree
  <2>2. Cardinality(FreeWorkers) > 0
    BY <1>0, <2>1 DEF DispatchInv, FreeWorkersCounted
  <2>3. FreeWorkers # {}
    BY <2>2, FS_EmptySet
  <2>4. \E w \in Workers : w >= 0 /\ wrk[w].status = "WAITING"
    BY <1>0, <2>3 DEF FreeWorkers
  <2> QED
    BY <1>0, <1>6, <2>4 DEF CtlWaitFree, CtlInv, pVars, wVars
<1>7. ASSUME CtlScan
      PROVE  CtlInv'
  <2>1. CASE wrk[cidx].status = "WAITING"
    BY <1>0, <1>7, <2>1 DEF CtlScan, CtlInv, pVars, wVars
  <2>2. CASE wrk[cidx].status # "WAITING"
    <3>1. PICK w \in Workers : w >= cidx /\ wrk[w].status = "WAITING"
      BY <1>0, <1>7 DEF CtlScan, CtlInv
    <3>2. w >= cidx + 1
      BY <1>0, <2>2, <3>1
    <3> QED
      BY <1>0, <1>7, <2>2, <3>1, <3>2 DEF CtlScan, CtlInv, pVars, wVars
  <2> QED
    BY <2>1, <2>2
<1>8. ASSUME CtlAssign
      PROVE  CtlInv'
  BY <1>0, <1>8 DEF CtlAssign, CtlInv, pVars, WorkerRecord
<1>9. ASSUME CtlNotify
      PROVE  CtlInv'
  BY <1>0, <1>9 DEF CtlNotify, CtlInv, pVars
<1>10. ASSUME CtlShutdownFlag
       PROVE  CtlInv'
  <2>1. cidx \in Workers
    BY <1>0, <1>10 DEF CtlShutdownFlag
  <2> QED
    BY <1>0, <1>10, <2>1 DEF CtlShutdownFlag, CtlInv, pVars, WorkerRecord
<1>11. ASSUME CtlShutdownPost
       PROVE  CtlInv'
  BY <1>0, <1>11 DEF CtlShutdownPost, CtlInv, pVars
<1>12. ASSUME CtlJoin
       PROVE  CtlInv'
  BY <1>0, <1>12 DEF CtlJoin, CtlInv, pVars
<1>13. ASSUME NEW v \in Workers, WorkerStep(v)
       PROVE  CtlInv'
  <2>1. cpc' = cpc /\ cidx' = cidx /\ wpStatus' = wpStatus
    BY <1>13, WorkerEffect
  <2>2. cpc # "none"
    BY <1>0, <1>13, WorkerEffect DEF WorkerInv
  <2>3. ASSUME NEW w \in Workers, wrk[w].status = "WAITING"
        PROVE  wrk'[w].status = "WAITING"
    BY <1>13, <2>3, WorkerEffect
  <2>4. ASSUME NEW w \in Workers
        PROVE  wrk'[w].shutdown = wrk[w].shutdown
    BY <1>13, <2>4, WorkerEffect
  <2>5. ASSUME cpc = "notify"
        PROVE  wrk'[cidx].status = "TSK_ASSIGNED"
    <3>1. /\ cidx \in Workers /\ wrk[cidx].status = "TSK_ASSIGNED"
          /\ wrk[cidx].sem + B(wpc[cidx] = "take") = 0 /\ wrk[cidx].sem \in Nat
          /\ wpc[cidx] \notin {"run", "free"}
      BY <1>0, <2>5 DEF CtlInv, WorkerInv, Armed, Due, Posted, B, WorkerRecord
    <3>2. wpc[cidx] # "take"
      BY <3>1 DEF B
    <3> QED
      BY <1>13, <3>1, <3>2, WorkerEffect
  <2> QED
    BY <1>0, <2>1, <2>2, <2>3, <2>4, <2>5 DEF CtlInv
<1> QED
  BY <1>1, <1>2, <1>3, <1>4, <1>5, <1>6, <1>7, <1>8, <1>9, <1>10, <1>11, <1>12, <1>13,
     DispatchCases DEF CtlStep

\* Neither does any step miscount the free workers.
LEMMA FreeStep ==
    ASSUME TypeInv, TypeInv', DispatchInv, [Next]_poolVars
    PROVE  FreeWorkersCounted'
<1> DEFINE n == Cardinality(FreeWorkers)
<1>0. /\ CtlInv /\ \A w \in Workers : WorkerInv(w)
      /\ wrk \in [Workers -> WorkerRecord] /\ wpSem \in Nat /\ NThreads \in Nat \ {0}
      /\ cpc \in {"assign", "notify", "sd_post"} => cidx \in Workers
      /\ cpc \in CtlPlaces /\ cidx \in 0 .. NThreads
      /\ Workers = 0 .. NThreads - 1
  BY NThreadsAssumption, TypeParts
     DEF DispatchInv, PoolTyped, RecordTyped, WorkerTyped, CtlTyped, Workers
<1>1. IsFiniteSet(FreeWorkers) /\ n \in Nat
  <2>1. FreeWorkers \in SUBSET Workers
    BY DEF FreeWorkers
  <2> QED
    BY <2>1, WorkersFinite, FS_Subset, FS_CardinalityType
<1>2. cpc # "none" => wpSem + (IF cpc \in {"scan", "assign"} THEN 1 ELSE 0) = n
  BY DEF DispatchInv, FreeWorkersCounted
<1>3. ASSUME \A w \in Workers : wrk'[w].status = wrk[w].status
      PROVE  n' = n
  <2>1. FreeWorkers' = FreeWorkers
    BY <1>3 DEF FreeWorkers
  <2> QED
    BY <2>1
<1>4. SUFFICES cpc' # "none" => wpSem' + (IF cpc' \in {"scan", "assign"} THEN 1 ELSE 0) = n'
  BY DEF FreeWorkersCounted
<1>5. ASSUME UNCHANGED dispatchVars
      PROVE  cpc' # "none" => wpSem' + (IF cpc' \in {"scan", "assign"} THEN 1 ELSE 0) = n'
  <2>1. n' = n /\ cpc' = cpc /\ wpSem' = wpSem
    BY <1>3, <1>5 DEF dispatchVars
  <2> QED
    BY <1>2, <2>1
<1>6. ASSUME Start(Owner)
      PROVE  wpSem' = n' /\ cpc' = "dequeue"
  <2>1. FreeWorkers' = Workers /\ wpSem' = wpSem /\ cpc' = "dequeue"
    BY <1>0, <1>6 DEF Start, FreeWorkers, WorkerRecord
  <2>2. n' = NThreads
    BY <2>1, WorkersFinite
  <2>3. CASE cpc = "none"
    BY <1>0, <2>1, <2>2, <2>3 DEF CtlInv
  <2>4. CASE cpc = "ended"
    <3>1. FreeWorkers = Workers
      BY <1>0, <2>4 DEF FreeWorkers, WorkerInv
    <3>2. n = NThreads
      BY <3>1, WorkersFinite
    <3> QED
      BY <1>0, <1>1, <1>2, <2>1, <2>2, <2>4, <3>2
  <2> QED
    BY <1>0, <1>6, <2>3, <2>4 DEF Start, CtlInv
<1> HIDE DEF n
<1>7. ASSUME ShutdownJoin(Owner)
      PROVE  n' = n /\ cpc' = cpc /\ wpSem' = wpSem
  BY <1>3, <1>7 DEF ShutdownJoin, cVars, wVars
<1>8. ASSUME \/ CtlDequeueCall \/ CtlDequeueSem \/ CtlDequeueElement \/ CtlDequeueClosed
             \/ CtlJoin
      PROVE  n' = n /\ wpSem' = wpSem /\ cpc \notin {"none", "scan", "assign"}
             /\ cpc' \notin {"scan", "assign"}
  BY <1>3, <1>8 DEF CtlDequeueCall, CtlDequeueSem, CtlDequeueElement, CtlDequeueClosed, CtlJoin,
                    cVars, wVars
<1>9. ASSUME CtlWaitFree
      PROVE  n' = n /\ wpSem' = wpSem - 1 /\ cpc = "wait_free" /\ cpc' = "scan"
  BY <1>3, <1>9 DEF CtlWaitFree, wVars
<1>10. ASSUME CtlScan
       PROVE  n' = n /\ wpSem' = wpSem /\ cpc = "scan" /\ cpc' \in {"scan", "assign"}
  BY <1>3, <1>10 DEF CtlScan, wVars
<1>11. ASSUME CtlAssign
       PROVE  n' = n - 1 /\ wpSem' = wpSem /\ cpc = "assign" /\ cpc' = "notify"
  <2>1. cidx \in FreeWorkers
    BY <1>0, <1>11 DEF CtlAssign, CtlInv, FreeWorkers
  <2>2. FreeWorkers' = FreeWorkers \ {cidx}
    BY <1>0, <1>11, <2>1 DEF CtlAssign, FreeWorkers, WorkerRecord
  <2>3. n' = n - 1
    BY <1>1, <2>1, <2>2, FS_RemoveElement DEF n
  <2> QED
    BY <1>11, <2>3 DEF CtlAssign
<1>12. ASSUME CtlNotify \/ CtlShutdownFlag \/ CtlShutdownPost
       PROVE  n' = n /\ wpSem' = wpSem /\ cpc \notin {"none", "scan", "assign"}
              /\ cpc' \notin {"scan", "assign"}
  <2>1. \A w \in Workers : wrk'[w].status = wrk[w].status
    <3>1. cidx \in Workers
      BY <1>0, <1>12 DEF CtlNotify, CtlShutdownFlag, CtlShutdownPost
    <3>2. CASE CtlNotify
      BY <1>0, <3>1, <3>2 DEF CtlNotify, WorkerRecord
    <3>3. CASE CtlShutdownFlag
      BY <1>0, <3>1, <3>3 DEF CtlShutdownFlag, WorkerRecord
    <3>4. CASE CtlShutdownPost
      BY <1>0, <3>1, <3>4 DEF CtlShutdownPost, WorkerRecord
    <3> QED
      BY <1>12, <3>2, <3>3, <3>4
  <2> QED
    BY <1>3, <1>12, <2>1 DEF CtlNotify, CtlShutdownFlag, CtlShutdownPost
<1>13. ASSUME NEW v \in Workers, WorkerStep(v)
       PROVE  /\ cpc' = cpc /\ cpc # "none"
              /\ (n' = n + 1 /\ wpSem' = wpSem + 1) \/ (n' = n /\ wpSem' = wpSem)
  <2>1. cpc' = cpc /\ cpc # "none"
    BY <1>0, <1>13, WorkerEffect DEF WorkerInv
  <2>2. CASE wrk[v].status = "WORKING" /\ wrk'[v].status = "WAITING" /\ wpSem' = wpSem + 1
    <3>1. v \notin FreeWorkers
      BY <2>2 DEF FreeWorkers
    <3>2. FreeWorkers' = FreeWorkers \cup {v}
      BY <1>13, <2>2, WorkerEffect DEF FreeWorkers
    <3>3. n' = n + 1
      BY <1>1, <3>1, <3>2, FS_AddElement DEF n
    <3> QED
      BY <2>1, <2>2, <3>3
  <2>3. CASE /\ (wrk'[v].status = "WAITING") <=> (wrk[v].status = "WAITING")
             /\ wpSem' = wpSem
    <3>1. FreeWorkers' = FreeWorkers
      BY <1>13, <2>3, WorkerEffect DEF FreeWorkers
    <3>2. n' = n
      BY <3>1 DEF n
    <3> QED
      BY <2>1, <2>3, <3>2
  <2> QED
    BY <1>13, <2>2, <2>3, WorkerEffect
<1>14. CASE CtlStep
  <2>1. CASE CtlDequeueCall \/ CtlDequeueSem \/ CtlDequeueElement \/ CtlDequeueClosed \/ CtlJoin
    BY <1>2, <1>8, <2>1
  <2>2. CASE CtlWaitFree
    BY <1>0, <1>1, <1>2, <1>9, <2>2
  <2>3. CASE CtlScan
    BY <1>2, <1>10, <2>3
  <2>4. CASE CtlAssign
    BY <1>0, <1>1, <1>2, <1>11, <2>4
  <2>5. CASE CtlNotify \/ CtlShutdownFlag \/ CtlShutdownPost
    BY <1>2, <1>12, <2>5
  <2> QED
    BY <1>14, <2>1, <2>2, <2>3, <2>4, <2>5 DEF CtlStep
<1>15. CASE \E v \in Workers : WorkerStep(v)
  <2>1. /\ cpc' = cpc /\ cpc # "none"
        /\ (n' = n + 1 /\ wpSem' = wpSem + 1) \/ (n' = n /\ wpSem' = wpSem)
    BY <1>13, <1>15
  <2>2. CASE cpc \in {"scan", "assign"}
    BY <1>0, <1>1, <1>2, <2>1, <2>2
  <2>3. CASE cpc \notin {"scan", "assign"}
    BY <1>0, <1>1, <1>2, <2>1, <2>3
  <2> QED
    BY <2>2, <2>3
<1>16. CASE Start(Owner)
  <2>1. wpSem' = n' /\ cpc' = "dequeue"
    BY <1>6, <1>16
  <2>2. wpSem' \in Nat
    BY TypeInv' DEF TypeInv, TypeOK
  <2>3. wpSem' + 0 = wpSem'
    <3>1. \A i \in Nat : i + 0 = i
      OBVIOUS
    <3> QED
      BY <2>2, <3>1, Zenon
  <2>4. (IF cpc' \in {"scan", "assign"} THEN 1 ELSE 0) = 0
    BY <2>1
  <2>5. wpSem' + (IF cpc' \in {"scan", "assign"} THEN 1 ELSE 0) = wpSem'
    BY <2>3, <2>4, Zenon
  <2> QED
    BY <2>1, <2>5, Zenon
<1>17. CASE ShutdownJoin(Owner)
  BY <1>2, <1>7, <1>17
<1> QED
  BY <1>5, <1>14, <1>15, <1>16, <1>17, DispatchCases

-----------------------------------------------------------------------------
\* The types and the dispatch protocol hold together in every reachable state.
LEMMA DispatchAlways == Spec => [](TypeInv /\ DispatchInv)
<1>1. Init => TypeInv /\ DispatchInv
  BY TypeInit, DispatchInit
<1>2. TypeInv /\ DispatchInv /\ [Next]_poolVars => (TypeInv /\ DispatchInv)'
  <2> SUFFICES ASSUME TypeInv, DispatchInv, [Next]_poolVars
               PROVE  (TypeInv /\ DispatchInv)'
    OBVIOUS
  <2>1. TypeInv'
    BY TypeStep
  <2>2. \A w \in Workers : WorkerInv(w)'
    BY <2>1, WorkerInvStep
  <2>3. CtlInv' /\ FreeWorkersCounted'
    BY <2>1, CtlInvStep, FreeStep
  <2> QED
    BY <2>1, <2>2, <2>3 DEF DispatchInv
<1> QED
  BY <1>1, <1>2, PTL DEF Spec

(***************************************************************************)
(* TypeCorrect: the fields of the pool, its queue, its workers and its     *)
(* tasks keep their types, with any number of workers, clients and tasks.  *)
(***************************************************************************)
THEOREM TypeCorrect == Spec => []TypeOK
<1>1. TypeInv => TypeOK
  BY DEF TypeInv
<1> QED
  BY <1>1, DispatchAlways, PTL

(***************************************************************************)
(* FreeWorkersCount: workerpool_semaphore is at all times the number of    *)
(* workers in the state WAITING, less the one that the controller has      *)
(* already waited for.                                                     *)
(***************************************************************************)
THEOREM FreeWorkersCount == Spec => []FreeWorkersCounted
<1>1. DispatchInv => FreeWorkersCounted
  BY DEF DispatchInv
<1> QED
  BY <1>1, DispatchAlways, PTL

\* The search for a free worker never comes to the end of the table, and the
\* worker it finds has no task yet.
LEMMA DispatchAssertHolds == Spec => []DispatchAssert
<1>1. TypeInv /\ DispatchInv => DispatchAssert
  <2> SUFFICES ASSUME TypeInv, DispatchInv PROVE DispatchAssert
    OBVIOUS
  <2>1. ~(cpc = "scan" /\ cidx = NThreads)
    BY NThreadsAssumption DEF DispatchInv, CtlInv, Workers
  <2>2. ASSUME cpc = "assign"
        PROVE  wrk[cidx].status = "WAITING" /\ wrk[cidx].assigned = NULL
    <3>1. cidx \in Workers
      BY <2>2, TypeParts DEF CtlTyped
    <3>2. wrk[cidx].status = "WAITING"
      BY <2>2 DEF DispatchInv, CtlInv
    <3>3. WorkerInv(cidx)
      BY <3>1 DEF DispatchInv
    <3> QED
      BY <3>2, <3>3 DEF WorkerInv
  <2> QED
    BY <2>1, <2>2 DEF DispatchAssert
<1> QED
  BY <1>1, DispatchAlways, PTL

\* No worker is let through its semaphore without a task or a command, and none
\* loses its WORKING state while it runs a task.
LEMMA WorkerAssertsHold == Spec => []WorkerAsserts
<1>1. TypeInv /\ DispatchInv => WorkerAsserts
  <2> SUFFICES ASSUME TypeInv, DispatchInv, NEW w \in Workers
               PROVE  /\ wpc[w] = "take" =>
                            \/ wrk[w].assigned # NULL /\ wrk[w].status = "TSK_ASSIGNED"
                            \/ wrk[w].assigned = NULL /\ wrk[w].shutdown
                      /\ wpc[w] = "free" => wrk[w].status = "WORKING"
    BY DEF WorkerAsserts
  <2>1. WorkerInv(w) /\ wrk[w] \in WorkerRecord
    BY TypeParts DEF DispatchInv, WorkerTyped, RecordTyped
  <2> QED
    BY <2>1 DEF WorkerInv, Armed, Posted, Due, B, WorkerRecord
<1> QED
  BY <1>1, DispatchAlways, PTL

(***************************************************************************)
(* PoolAssertsHold: assert(free_worker_index>=0) in the controller and the *)
(* asserts of _cs_wp_worker_behaviour cannot fail, for any number of       *)
(* workers and in every life of the pool.                                  *)
(***************************************************************************)
THEOREM PoolAssertsHold == Spec => []PoolAsserts
<1>1. DispatchAssert /\ WorkerAsserts => PoolAsserts
  BY DEF PoolAsserts
<1> QED
  BY <1>1, DispatchAssertHolds, WorkerAssertsHold, PTL

-----------------------------------------------------------------------------
(***************************************************************************)
(* The way of a task.  It comes into the queue once (QueueInv, FreshInv),  *)
(* is then with the queue, the controller or one worker (Placed), is not   *)
(* touched before a worker runs it, and is complete when that worker lets  *)
(* go of it (Stage).                                                       *)
(***************************************************************************)
Occurs(s, k) == \E i \in 1 .. Len(s) : s[i] = k
Distinct(s)  == \A i, j \in 1 .. Len(s) : s[i] = s[j] => i = j

WithController(k) == cpc \in {"wait_free", "scan", "assign"} /\ ctsk = k
AtWorker(k, w)    == wrk[w].assigned = k \/ wtsk[w] = k
AtSomeWorker(k)   == \E w \in Workers : AtWorker(k, w)

Untouched(k) ==
    runs[k] = 0 /\ tsk[k].exit = "unset" /\ tsk[k].status # "DONE" /\ tsk[k].sem = 0
Complete(k) == runs[k] = 1 /\ tsk[k].exit = "set" /\ tsk[k].status = "DONE"

\* the places of an enqueue before its task is in the queue, and of a running worker
Fresh == {"new_id", "new_id_store", "lock_table", "enqueue"}
Busy  == {"run", "free", "done", "exit_code", "signal"}

QueueInv ==
    /\ Distinct(accepted) /\ Distinct(elems)
    /\ cpc \in {"sd_flag", "sd_post", "ended"} => status = "QCLOSED" /\ elems = <<>>

FreshInv ==
    /\ \A k \in Tasks : Occurs(accepted, k) => k <= ntasks
    /\ \A c \in Clients :
          pc[c] \in Fresh => ptsk[c] <= ntasks /\ ~Occurs(accepted, ptsk[c])
    /\ \A c, d \in Clients :
          pc[c] \in Fresh /\ pc[d] \in Fresh /\ ptsk[c] = ptsk[d] => c = d
    /\ \A c \in Clients : pc[c] = "enqueue" => arg[c] = ptsk[c]

Placed(k) ==
    /\ Occurs(elems, k) => ~WithController(k) /\ Untouched(k) /\ ~AtSomeWorker(k)
    /\ WithController(k) => Untouched(k) /\ ~AtSomeWorker(k)
    /\ \A v, w \in Workers : AtWorker(k, v) /\ AtWorker(k, w) => v = w
    /\ Untouched(k) \/ Complete(k) \/ \E w \in Workers : wtsk[w] = k
    /\ (Occurs(elems, k) \/ WithController(k) \/ AtSomeWorker(k) \/ tsk[k].exit = "set")
          <=> Occurs(accepted, k)

Stage(w) ==
    /\ wrk[w].status = "TSK_ASSIGNED" => Untouched(wrk[w].assigned)
    /\ wpc[w] \notin Busy => wtsk[w] = NULL
    /\ wpc[w] \in {"run", "free"} => wrk[w].assigned = wtsk[w]
    /\ wpc[w] = "run" => Untouched(wtsk[w])
    /\ wpc[w] \in {"free", "done", "exit_code", "signal"} =>
          runs[wtsk[w]] = 1 /\ tsk[wtsk[w]].sem = 0
    /\ wpc[w] \in {"free", "done", "exit_code"} => tsk[wtsk[w]].exit = "unset"
    /\ wpc[w] = "signal" => tsk[wtsk[w]].exit = "set"
    /\ wpc[w] \in {"free", "done"} => tsk[wtsk[w]].status # "DONE"
    /\ wpc[w] \in {"exit_code", "signal"} => tsk[wtsk[w]].status = "DONE"

TasksInv == (\A k \in Tasks : Placed(k)) /\ (\A w \in Workers : Stage(w))

WayInv == QueueInv /\ FreshInv /\ TasksInv

\* What an append adds, and that it keeps the elements distinct.
LEMMA OccursAppend ==
    ASSUME NEW S, NEW s \in Seq(S), NEW x \in S
    PROVE  /\ \A k : Occurs(Append(s, x), k) <=> Occurs(s, k) \/ k = x
           /\ Distinct(s) /\ ~Occurs(s, x) => Distinct(Append(s, x))
<1>1. /\ Len(s) \in Nat /\ Len(Append(s, x)) = Len(s) + 1
      /\ \A i \in 1 .. Len(s) : Append(s, x)[i] = s[i]
      /\ Append(s, x)[Len(s) + 1] = x
  BY LenProperties, AppendProperties
<1>2. \A i \in 1 .. Len(s) + 1 : i \in 1 .. Len(s) \/ i = Len(s) + 1
  BY <1>1
<1>3. 1 .. Len(s) \subseteq 1 .. Len(s) + 1 /\ Len(s) + 1 \in 1 .. Len(s) + 1
  BY <1>1
<1> DEFINE n == Len(s)
           t == Append(s, x)
<1>4. /\ Len(t) = n + 1 /\ \A i \in 1 .. n : t[i] = s[i]
      /\ t[n + 1] = x
      /\ \A i \in 1 .. n + 1 : i \in 1 .. n \/ i = n + 1
      /\ 1 .. n \subseteq 1 .. n + 1 /\ n + 1 \in 1 .. n + 1 /\ n = Len(s)
  BY <1>1, <1>2, <1>3
<1> HIDE DEF n, t
<1>5. ASSUME NEW k PROVE Occurs(t, k) <=> Occurs(s, k) \/ k = x
  BY <1>4, Zenon DEF Occurs
<1>6. ASSUME Distinct(s), ~Occurs(s, x) PROVE Distinct(t)
  BY <1>4, <1>6 DEF Occurs, Distinct
<1> QED
  BY <1>5, <1>6 DEF t

\* What is left when the first element is taken.
LEMMA OccursTail ==
    ASSUME NEW S, NEW s \in Seq(S), s # <<>>, Distinct(s)
    PROVE  /\ Occurs(s, Head(s))
           /\ \A k : Occurs(Tail(s), k) <=> Occurs(s, k) /\ k # Head(s)
           /\ Distinct(Tail(s))
<1>1. /\ Len(s) \in Nat \ {0} /\ Len(Tail(s)) = Len(s) - 1
      /\ \A i \in 1 .. Len(Tail(s)) : Tail(s)[i] = s[i + 1]
      /\ Head(s) = s[1]
  BY EmptySeq, LenProperties, HeadTailProperties
<1>2. 1 \in 1 .. Len(s)
  BY <1>1
<1>3. Occurs(s, Head(s))
  BY <1>1, <1>2 DEF Occurs
<1>4. ASSUME NEW k, Occurs(Tail(s), k)
      PROVE  Occurs(s, k) /\ k # Head(s)
  <2>1. PICK i \in 1 .. Len(Tail(s)) : Tail(s)[i] = k
    BY <1>4 DEF Occurs
  <2>2. s[i + 1] = k /\ i + 1 \in 1 .. Len(s) /\ i + 1 # 1
    BY <1>1, <2>1
  <2> QED
    BY <1>1, <1>2, <2>2 DEF Occurs, Distinct
<1>5. ASSUME NEW k, Occurs(s, k), k # Head(s)
      PROVE  Occurs(Tail(s), k)
  <2>1. PICK i \in 1 .. Len(s) : s[i] = k
    BY <1>5 DEF Occurs
  <2>2. i # 1
    BY <1>1, <1>5, <2>1
  <2>3. i - 1 \in 1 .. Len(Tail(s)) /\ (i - 1) + 1 = i
    BY <1>1, <2>2
  <2>4. Tail(s)[i - 1] = k
    BY <1>1, <2>1, <2>3
  <2> QED
    BY <2>3, <2>4 DEF Occurs
<1>6. Distinct(Tail(s))
  <2> SUFFICES ASSUME NEW i \in 1 .. Len(Tail(s)), NEW j \in 1 .. Len(Tail(s)),
                      Tail(s)[i] = Tail(s)[j]
               PROVE  i = j
    BY DEF Distinct
  <2>1. s[i + 1] = s[j + 1] /\ i + 1 \in 1 .. Len(s) /\ j + 1 \in 1 .. Len(s)
    BY <1>1
  <2>2. i + 1 = j + 1
    BY <2>1 DEF Distinct
  <2> QED
    BY <2>2
<1> QED
  BY <1>3, <1>4, <1>5, <1>6

(***************************************************************************)
(* What the three parts of WayInv are about; a step that keeps to a part's *)
(* frame does not disturb it.                                              *)
(***************************************************************************)
QueueFrame ==
    /\ accepted' = accepted /\ elems' = elems
    /\ status = "QCLOSED" => status' = "QCLOSED"
    /\ cpc' \in {"sd_flag", "sd_post", "ended"} => cpc \in {"sd_flag", "sd_post", "ended"}

FreshFrame ==
    /\ accepted' = accepted /\ ntasks' = ntasks
    /\ \A c \in Clients :
          /\ pc'[c] \in Fresh => pc[c] \in Fresh /\ ptsk'[c] = ptsk[c]
          /\ pc'[c] = "enqueue" =>
                arg'[c] = ptsk[c] \/ (pc[c] = "enqueue" /\ arg'[c] = arg[c])

TaskFrame ==
    /\ accepted' = accepted /\ elems' = elems
    /\ tsk' = tsk /\ runs' = runs /\ wtsk' = wtsk
    /\ \A k \in Tasks : WithController(k)' <=> WithController(k)
    /\ \A w \in Workers :
          /\ wrk'[w].assigned = wrk[w].assigned
          /\ wrk'[w].status = "TSK_ASSIGNED" => wrk[w].status = "TSK_ASSIGNED"
          /\ wpc'[w] = wpc[w] \/ (wpc[w] \notin Busy /\ wpc'[w] \notin Busy)

LEMMA KeepQueue == QueueInv /\ QueueFrame => QueueInv'
  BY DEF QueueInv, QueueFrame, Distinct

LEMMA KeepFresh == FreshInv /\ FreshFrame => FreshInv'
  BY DEF FreshInv, FreshFrame, Occurs, Fresh

LEMMA KeepTasks ==
    ASSUME TypeInv, TasksInv, TaskFrame
    PROVE  TasksInv'
<1>1. ASSUME NEW k \in Tasks
      PROVE  Placed(k)'
  <2>1. /\ Occurs(elems, k)' <=> Occurs(elems, k)
        /\ Occurs(accepted, k)' <=> Occurs(accepted, k)
        /\ WithController(k)' <=> WithController(k)
        /\ Untouched(k)' <=> Untouched(k)
        /\ Complete(k)' <=> Complete(k)
    BY DEF TaskFrame, Occurs, Untouched, Complete
  <2>2. \A w \in Workers : AtWorker(k, w)' <=> AtWorker(k, w)
    BY DEF TaskFrame, AtWorker
  <2>3. AtSomeWorker(k)' <=> AtSomeWorker(k)
    BY <2>2 DEF AtSomeWorker
  <2>4. Placed(k)
    BY DEF TasksInv
  <2>5. tsk' = tsk /\ wtsk' = wtsk
    BY DEF TaskFrame
  <2> QED
    BY <2>1, <2>2, <2>3, <2>4, <2>5 DEF Placed
<1>2. ASSUME NEW w \in Workers
      PROVE  Stage(w)'
  <2>1. Stage(w)
    BY DEF TasksInv
  <2> QED
    BY <2>1 DEF Stage, TaskFrame, Busy, Untouched
<1> QED
  BY <1>1, <1>2 DEF TasksInv

\* The steps that move no task and begin no enqueue.
LEMMA AsideSteps ==
    ASSUME TypeInv, DispatchInv, TasksInv
    PROVE  /\ Start(Owner) => QueueFrame /\ FreshFrame /\ TaskFrame
           /\ \A c \in Clients :
                 \/ ShutdownLock(c) \/ ShutdownClose(c) \/ ShutdownJoin(c)
                 \/ NewIdLoad(c) \/ LockTable(c) \/ EnqueueSem(c) \/ InsertTask(c)
                 \/ WaitStatus(c) \/ GetRes(c) \/ PopRes(c)
                 => QueueFrame /\ FreshFrame /\ TaskFrame
           /\ \A c \in Clients : \A call, k : WaitLookup(c, call, k)
                 => QueueFrame /\ FreshFrame /\ TaskFrame
           /\ \/ CtlDequeueCall \/ CtlDequeueSem \/ CtlWaitFree \/ CtlScan \/ CtlNotify
              \/ CtlShutdownFlag \/ CtlShutdownPost \/ CtlJoin
              => QueueFrame /\ FreshFrame /\ TaskFrame
           /\ \A w \in Workers : WorkerSem(w) \/ WorkerExit(w)
                 => QueueFrame /\ FreshFrame /\ TaskFrame
           /\ OtherPool \/ UNCHANGED poolVars => QueueFrame /\ FreshFrame /\ TaskFrame
<1>0. /\ wrk \in [Workers -> WorkerRecord] /\ wpc \in [Workers -> WorkerPlaces]
      /\ pc \in [Clients -> ClientPlaces] /\ ptsk \in [Clients -> Tasks \cup {NULL}]
      /\ arg \in [Clients \cup {Ctl} -> Tasks \cup {NULL}]
      /\ cpc \in {"assign", "notify", "sd_post"} => cidx \in Workers
  <2>1. Queue!Threads = Clients \cup {Ctl}
    BY ClientsAssumption DEF Queue!Threads
  <2> QED
    BY <2>1, TypeParts DEF RecordTyped, WorkerTyped, ClientTyped, CtlTyped, Queue!TypeOK
<1> USE DEF qVars, pVars, tVars, wVars, cVars, lVars, WGoto, Goto, Queue!Goto,
            Queue!queueState, Queue!history
<1>1. ASSUME NEW c \in Clients,
             \/ ShutdownLock(c) \/ ShutdownClose(c) \/ ShutdownJoin(c)
             \/ NewIdLoad(c) \/ LockTable(c) \/ EnqueueSem(c) \/ InsertTask(c)
             \/ WaitStatus(c) \/ GetRes(c) \/ PopRes(c)
      PROVE  /\ UNCHANGED <<elems, accepted, ntasks, tsk, wVars, cVars>>
             /\ status = "QCLOSED" => status' = "QCLOSED"
             /\ FreshFrame
  <2> USE DEF Fresh, FreshFrame, ClientPlaces
  <2>1. CASE ShutdownLock(c) \/ ShutdownJoin(c) \/ NewIdLoad(c) \/ InsertTask(c)
    BY <1>0, <2>1 DEF ShutdownLock, ShutdownJoin, NewIdLoad, InsertTask
  <2>2. CASE ShutdownClose(c)
    BY <1>0, <2>2 DEF ShutdownClose, Queue!Close
  <2>3. CASE LockTable(c)
    BY <1>0, <2>3 DEF LockTable, Queue!EnqueueCall
  <2>4. CASE EnqueueSem(c)
    BY <1>0, <2>4 DEF EnqueueSem, Queue!EnqueueSem
  <2>5. CASE WaitStatus(c) \/ GetRes(c) \/ PopRes(c)
    BY <1>0, <2>5 DEF WaitStatus, WaitReturn, GetRes, PopRes
  <2> QED
    BY <1>1, <2>1, <2>2, <2>3, <2>4, <2>5
<1>2. ASSUME NEW c \in Clients, NEW call, NEW k, WaitLookup(c, call, k)
      PROVE  /\ UNCHANGED <<elems, accepted, ntasks, tsk, wVars, cVars>>
             /\ status = "QCLOSED" => status' = "QCLOSED"
             /\ FreshFrame
  BY <1>0, <1>2 DEF WaitLookup, Fresh, FreshFrame, ClientPlaces
<1>3. ASSUME UNCHANGED <<elems, accepted, ntasks, tsk, wVars, cVars>>,
             status = "QCLOSED" => status' = "QCLOSED"
      PROVE  QueueFrame /\ TaskFrame
  BY <1>3 DEF QueueFrame, TaskFrame, WithController
<1>4. ASSUME \/ CtlDequeueCall \/ CtlDequeueSem \/ CtlWaitFree \/ CtlScan \/ CtlNotify
             \/ CtlShutdownFlag \/ CtlShutdownPost \/ CtlJoin
      PROVE  QueueFrame /\ FreshFrame /\ TaskFrame
  <2>1. CASE CtlDequeueCall
    BY <1>0, <2>1 DEF CtlDequeueCall, Queue!DequeueCall, QueueFrame, FreshFrame, TaskFrame,
                      WithController
  <2>2. CASE CtlDequeueSem
    BY <1>0, <2>2 DEF CtlDequeueSem, Queue!DequeueSem, QueueFrame, FreshFrame, TaskFrame,
                      WithController
  <2>3. CASE CtlWaitFree \/ CtlScan \/ CtlJoin
    BY <1>0, <2>3 DEF CtlWaitFree, CtlScan, CtlJoin, QueueFrame, FreshFrame, TaskFrame,
                      WithController
  <2>4. CASE CtlNotify \/ CtlShutdownFlag \/ CtlShutdownPost
    <3>1. cidx \in Workers
      BY <1>0, <2>4, NThreadsAssumption, TypeParts
         DEF CtlNotify, CtlShutdownFlag, CtlShutdownPost, CtlTyped, Workers
    <3>2. \A w \in Workers : /\ wrk'[w].assigned = wrk[w].assigned
                             /\ wrk'[w].status = wrk[w].status
      <4>1. CASE CtlNotify
        BY <1>0, <3>1, <4>1 DEF CtlNotify, WorkerRecord
      <4>2. CASE CtlShutdownFlag
        BY <1>0, <3>1, <4>2 DEF CtlShutdownFlag, WorkerRecord
      <4>3. CASE CtlShutdownPost
        BY <1>0, <3>1, <4>3 DEF CtlShutdownPost, WorkerRecord
      <4> QED
        BY <2>4, <4>1, <4>2, <4>3
    <3>3. /\ UNCHANGED <<qVars, tVars, tsk, wpc, wtsk, runs, lVars>>
          /\ cpc \in {"notify", "sd_flag", "sd_post"} /\ cpc' \in {"dequeue", "sd_flag", "sd_post"}
          /\ cpc' \in {"sd_flag", "sd_post"} => cpc \in {"sd_flag", "sd_post"}
      BY <2>4 DEF CtlNotify, CtlShutdownFlag, CtlShutdownPost
    <3> QED
      BY <3>2, <3>3 DEF QueueFrame, FreshFrame, TaskFrame, WithController
  <2> QED
    BY <1>4, <2>1, <2>2, <2>3, <2>4
<1>5. ASSUME NEW v \in Workers, WorkerSem(v) \/ WorkerExit(v)
      PROVE  QueueFrame /\ FreshFrame /\ TaskFrame
  <2>1. \A w \in Workers : /\ wrk'[w].assigned = wrk[w].assigned
                           /\ wrk'[w].status = wrk[w].status
                           /\ wpc'[w] = wpc[w] \/ (wpc[w] \notin Busy /\ wpc'[w] \notin Busy)
    BY <1>0, <1>5 DEF WorkerSem, WorkerExit, WorkerRecord, Busy
  <2>2. UNCHANGED <<qVars, tVars, tsk, wtsk, runs, cVars, lVars>>
    BY <1>5 DEF WorkerSem, WorkerExit
  <2> QED
    BY <2>1, <2>2 DEF QueueFrame, FreshFrame, TaskFrame, WithController
<1>6. ASSUME Start(Owner)
      PROVE  QueueFrame /\ FreshFrame /\ TaskFrame
  <2>1. cpc \in {"none", "ended"} /\ cpc' = "dequeue"
    BY <1>6 DEF Start, DispatchInv, CtlInv
  <2>2. \A w \in Workers : wpc[w] \in {"none", "exited"}
    BY <2>1 DEF DispatchInv, WorkerInv
  <2>3. \A w \in Workers : /\ wrk'[w].assigned = wrk[w].assigned
                           /\ wrk'[w].status = "WAITING"
                           /\ wpc'[w] = "sem"
    BY <1>0, <1>6 DEF Start, WorkerRecord
  <2>4. UNCHANGED <<qVars, tVars, tsk, wtsk, runs, lVars>>
    BY <1>6 DEF Start
  <2> QED
    BY <2>1, <2>2, <2>3, <2>4 DEF QueueFrame, FreshFrame, TaskFrame, WithController, Busy
<1>7. ASSUME OtherPool \/ UNCHANGED poolVars
      PROVE  QueueFrame /\ FreshFrame /\ TaskFrame
  BY <1>7 DEF OtherPool, OtherIdLoad, OtherIdStore, poolVars, QueueFrame, FreshFrame, TaskFrame, WithController
<1> HIDE DEF qVars, pVars, tVars, wVars, cVars, lVars, WGoto, Goto, Queue!Goto,
             Queue!queueState, Queue!history
<1> QED
  BY <1>1, <1>2, <1>3, <1>4, <1>5, <1>6, <1>7

\* The steps that move a task or begin an enqueue.
LEMMA WayCases ==
    ASSUME TypeInv, DispatchInv, TasksInv, [Next]_poolVars
    PROVE  \/ QueueFrame /\ FreshFrame /\ TaskFrame
           \/ \E c \in Clients : \/ EnqueueStatus(c) \/ NewIdStore(c)
                                 \/ EnqueueLocked(c) \/ WaitSem(c)
           \/ CtlDequeueElement \/ CtlDequeueClosed \/ CtlAssign
           \/ \E w \in Workers : \/ WorkerTake(w) \/ WorkerRun(w) \/ WorkerFree(w)
                                 \/ WorkerDone(w) \/ WorkerExitCode(w) \/ WorkerSignal(w)
<1>0. /\ Owner \in Clients /\ Enqueuers \subseteq Clients
      /\ Waiters \subseteq Clients /\ Getters \subseteq Clients /\ Poppers \subseteq Clients
  BY ClientsAssumption
<1>1. CASE nstarts < MaxStarts /\ Start(Owner)
  BY <1>1, AsideSteps
<1>2. CASE ShutdownLock(Owner) \/ OwnerStep(Owner)
  BY <1>0, <1>2, AsideSteps DEF OwnerStep
<1>3. CASE \E c \in Enqueuers : EnqueueStatus(c) \/ EnqueueStep(c)
  BY <1>0, <1>3, AsideSteps DEF EnqueueStep
<1>4. CASE \/ \E c \in Waiters, k \in Tasks : WaitLookup(c, "wait", k)
           \/ \E c \in Getters, k \in Tasks : WaitLookup(c, "get", k)
           \/ \E c \in Poppers, k \in Tasks \ freed : WaitLookup(c, "pop", k)
  BY <1>0, <1>4, AsideSteps
<1>5. CASE \E c \in Clients : ResultStep(c)
  BY <1>5, AsideSteps DEF ResultStep
<1>6. CASE CtlStep
  BY <1>6, AsideSteps DEF CtlStep
<1>7. CASE \E w \in Workers : WorkerStep(w)
  BY <1>7, AsideSteps DEF WorkerStep
<1>8. CASE OtherPool \/ Finished \/ UNCHANGED poolVars
  BY <1>8, AsideSteps DEF Finished
<1> QED
  BY <1>1, <1>2, <1>3, <1>4, <1>5, <1>6, <1>7, <1>8 DEF Next

\* What cs_queue_enqueue does to the queue, by a client that has not enqueued
\* its task yet.
LEMMA EnqueueEffect ==
    ASSUME TypeInv, FreshInv, NEW c \in Clients, EnqueueLocked(c)
    PROVE  /\ UNCHANGED <<status, arg, pVars, wpSem, tVars, tsk, wVars, cVars, ptsk>>
           /\ pc[c] = "enqueue" /\ pc' = [pc EXCEPT ![c] = "insert"]
           /\ ptsk[c] \in Tasks /\ ~Occurs(accepted, ptsk[c])
           /\ \/ status = "QCLOSED" /\ UNCHANGED <<elems, accepted>>
              \/ /\ status = "QOPENED"
                 /\ elems' = Append(elems, ptsk[c])
                 /\ accepted' = Append(accepted, ptsk[c])
                 /\ \A k : Occurs(elems, k)' <=> Occurs(elems, k) \/ k = ptsk[c]
                 /\ \A k : Occurs(accepted, k)' <=> Occurs(accepted, k) \/ k = ptsk[c]
                 /\ Distinct(accepted) => Distinct(accepted)'
                 /\ Distinct(elems) /\ ~Occurs(elems, ptsk[c]) => Distinct(elems)'
<1>1. /\ pc[c] = "enqueue" /\ pc' = [pc EXCEPT ![c] = "insert"]
      /\ UNCHANGED <<status, arg, pVars, wpSem, tVars, tsk, wVars, cVars, ptsk>>
      /\ IF status = "QOPENED"
         THEN elems' = Append(elems, arg[c]) /\ accepted' = Append(accepted, arg[c])
         ELSE UNCHANGED <<elems, accepted>>
  BY DEF EnqueueLocked, Queue!EnqueueLocked, Goto
<1>2. arg[c] = ptsk[c] /\ ~Occurs(accepted, ptsk[c])
  BY <1>1 DEF FreshInv, Fresh
<1>3. /\ ptsk[c] \in Tasks /\ status \in {"QOPENED", "QCLOSED"}
      /\ elems \in Seq(Tasks) /\ accepted \in Seq(Tasks)
  BY <1>1, TypeParts DEF ClientTyped, HasTask, Queue!TypeOK
<1>4. CASE status = "QOPENED"
  <2>1. elems' = Append(elems, ptsk[c]) /\ accepted' = Append(accepted, ptsk[c])
    BY <1>1, <1>2, <1>4
  <2>2. /\ \A k : Occurs(elems, k)' <=> Occurs(elems, k) \/ k = ptsk[c]
        /\ Distinct(elems) /\ ~Occurs(elems, ptsk[c]) => Distinct(elems)'
    <3>1. /\ \A k : Occurs(Append(elems, ptsk[c]), k) <=> Occurs(elems, k) \/ k = ptsk[c]
          /\ Distinct(elems) /\ ~Occurs(elems, ptsk[c]) => Distinct(Append(elems, ptsk[c]))
      BY <1>3, OccursAppend
    <3>2. \A k : Occurs(elems, k)' <=> Occurs(elems', k)
      BY DEF Occurs
    <3>3. Distinct(elems)' <=> Distinct(elems')
      BY DEF Distinct
    <3> QED
      BY <2>1, <3>1, <3>2, <3>3
  <2>3. /\ \A k : Occurs(accepted, k)' <=> Occurs(accepted, k) \/ k = ptsk[c]
        /\ Distinct(accepted) => Distinct(accepted)'
    <3>1. /\ \A k : Occurs(Append(accepted, ptsk[c]), k) <=> Occurs(accepted, k) \/ k = ptsk[c]
          /\ Distinct(accepted) => Distinct(Append(accepted, ptsk[c]))
      BY <1>2, <1>3, OccursAppend
    <3>2. \A k : Occurs(accepted, k)' <=> Occurs(accepted', k)
      BY DEF Occurs
    <3>3. Distinct(accepted)' <=> Distinct(accepted')
      BY DEF Distinct
    <3> QED
      BY <2>1, <3>1, <3>2, <3>3
  <2> HIDE DEF Occurs, Distinct
  <2> QED
    BY <1>1, <1>2, <1>3, <1>4, <2>1, <2>2, <2>3
<1>5. CASE status = "QCLOSED"
  BY <1>1, <1>2, <1>3, <1>5
<1> QED
  BY <1>3, <1>4, <1>5

\* What cs_queue_dequeue does to the queue when it gives the controller a task.
LEMMA DequeueEffect ==
    ASSUME TypeInv, QueueInv, CtlDequeueElement
    PROVE  /\ UNCHANGED <<status, arg, accepted, pVars, wpSem, tVars, tsk, wVars, lVars>>
           /\ cpc = "dequeuing" /\ cpc' = "wait_free" /\ ctsk' \in Tasks
           /\ Occurs(elems, ctsk')
           /\ \A k : Occurs(elems, k)' <=> Occurs(elems, k) /\ k # ctsk'
           /\ Distinct(elems)'
<1>1. /\ UNCHANGED <<status, arg, accepted, pVars, wpSem, tVars, tsk, wVars, lVars>>
      /\ cpc = "dequeuing" /\ cpc' = "wait_free"
      /\ elems # <<>> /\ elems' = Tail(elems)
      /\ ctsk' = ret'[Ctl] /\ ret' = [ret EXCEPT ![Ctl] = Head(elems)]
  BY DEF CtlDequeueElement, Queue!DequeueElement, Queue!Return
<1>2. elems \in Seq(Tasks) /\ Distinct(elems) /\ ret'[Ctl] = Head(elems)
  <2>1. Ctl \in Queue!Threads
    BY DEF Queue!Threads
  <2> QED
    BY <1>1, <2>1, TypeParts DEF Queue!TypeOK, QueueInv
<1>3. Head(elems) \in Tasks
  BY <1>1, <1>2, HeadTailProperties
<1>4. /\ Occurs(elems, Head(elems))
      /\ \A k : Occurs(Tail(elems), k) <=> Occurs(elems, k) /\ k # Head(elems)
      /\ Distinct(Tail(elems))
  BY <1>1, <1>2, OccursTail
<1>5. \A k : Occurs(elems, k)' <=> Occurs(elems', k)
  BY DEF Occurs
<1>6. Distinct(elems)' <=> Distinct(elems')
  BY DEF Distinct
<1> HIDE DEF Occurs, Distinct
<1> QED
  BY <1>1, <1>2, <1>3, <1>4, <1>5, <1>6

\* No step puts a task into the queue twice, or one into a queue that was drained.
LEMMA QueueInvStep ==
    ASSUME TypeInv, DispatchInv, WayInv, [Next]_poolVars
    PROVE  QueueInv'
<1>0. QueueInv /\ FreshInv /\ TasksInv
  BY DEF WayInv
<1>1. CASE QueueFrame
  BY <1>0, <1>1, KeepQueue
<1>2. ASSUME NEW c \in Clients,
             EnqueueStatus(c) \/ NewIdStore(c) \/ WaitSem(c)
      PROVE  QueueFrame
  BY <1>2 DEF EnqueueStatus, NewIdStore, WaitSem, QueueFrame, qVars, cVars
<1>3. ASSUME NEW c \in Clients, EnqueueLocked(c)
      PROVE  QueueInv'
  <2>1. CASE UNCHANGED <<elems, accepted>>
    <3>1. UNCHANGED <<status, cpc>>
      BY <1>0, <1>3, EnqueueEffect DEF cVars
    <3> QED
      BY <1>0, <2>1, <3>1 DEF QueueInv, Distinct
  <2>2. CASE status = "QOPENED" /\ ~UNCHANGED <<elems, accepted>>
    <3>1. ~Occurs(elems, ptsk[c])
      BY <1>0, <1>3, EnqueueEffect DEF TasksInv, Placed
    <3>2. Distinct(elems)' /\ Distinct(accepted)' /\ cpc' = cpc
      BY <1>0, <1>3, <2>2, <3>1, EnqueueEffect DEF QueueInv, cVars
    <3>3. cpc \notin {"sd_flag", "sd_post", "ended"}
      BY <1>0, <2>2 DEF QueueInv
    <3> QED
      BY <3>2, <3>3 DEF QueueInv
  <2> QED
    BY <1>0, <1>3, <2>1, <2>2, EnqueueEffect
<1>4. ASSUME CtlDequeueElement
      PROVE  QueueInv'
  <2>1. Distinct(elems)' /\ cpc' = "wait_free" /\ accepted' = accepted
    BY <1>0, <1>4, DequeueEffect
  <2> QED
    BY <1>0, <2>1 DEF QueueInv, Distinct
<1>5. ASSUME CtlDequeueClosed
      PROVE  QueueInv'
  BY <1>0, <1>5 DEF CtlDequeueClosed, Queue!DequeueClosed, Queue!queueState, Queue!history,
                    QueueInv, Distinct
<1>6. ASSUME CtlAssign
      PROVE  QueueFrame
  BY <1>6 DEF CtlAssign, QueueFrame, qVars
<1>7. ASSUME NEW w \in Workers,
             \/ WorkerTake(w) \/ WorkerRun(w) \/ WorkerFree(w)
             \/ WorkerDone(w) \/ WorkerExitCode(w) \/ WorkerSignal(w)
      PROVE  QueueFrame
  BY <1>7 DEF WorkerTake, WorkerRun, WorkerFree, WorkerDone, WorkerExitCode, WorkerSignal,
              QueueFrame, qVars, cVars
<1> QED
  BY <1>0, <1>1, <1>2, <1>3, <1>4, <1>5, <1>6, <1>7, WayCases

\* No step lets a task be enqueued by two clients, or by one twice.
LEMMA FreshInvStep ==
    ASSUME TypeInv, DispatchInv, WayInv, [Next]_poolVars
    PROVE  FreshInv'
<1>0. /\ QueueInv /\ FreshInv /\ TasksInv
      /\ pc \in [Clients -> ClientPlaces] /\ ptsk \in [Clients -> Tasks \cup {NULL}]
      /\ \A c \in Clients : pc[c] \in Fresh => ptsk[c] \in Tasks
      /\ ntasks \in Nat /\ Tasks \subseteq Nat
  BY TypeParts DEF WayInv, ClientTyped, PoolTyped, HasTask, Fresh, Tasks
<1>1. CASE FreshFrame
  BY <1>0, <1>1, KeepFresh
<1>2. ASSUME NEW c \in Clients, EnqueueStatus(c)
      PROVE  FreshInv'
  <2>1. /\ accepted' = accepted /\ ntasks' = ntasks + 1 /\ arg' = arg
        /\ pc' = [pc EXCEPT ![c] = "new_id"] /\ pc[c] = "idle"
        /\ ptsk' = [ptsk EXCEPT ![c] = ntasks + 1]
        /\ ntasks < MaxTasks
    BY <1>2 DEF EnqueueStatus, Goto, qVars
  <2>0. ntasks + 1 \in Tasks
    BY <1>0, <2>1, TasksAssumption DEF Tasks
  <2>2. \A k \in Tasks : Occurs(accepted, k)' <=> Occurs(accepted, k)
    BY <2>1 DEF Occurs
  <2>3. /\ \A k \in Tasks : Occurs(accepted, k) => k <= ntasks
        /\ \A d \in Clients :
              pc[d] \in Fresh => ptsk[d] <= ntasks /\ ~Occurs(accepted, ptsk[d])
        /\ \A d, e \in Clients :
              pc[d] \in Fresh /\ pc[e] \in Fresh /\ ptsk[d] = ptsk[e] => d = e
        /\ \A d \in Clients : pc[d] = "enqueue" => arg[d] = ptsk[d]
    BY <1>0 DEF FreshInv
  <2>4. \A k \in Tasks : k <= ntasks => k <= ntasks + 1 /\ k # ntasks + 1
    BY <1>0
  <2>5. ~Occurs(accepted, ntasks + 1)
    BY <2>0, <2>1, <2>3, <2>4
  <2>6. pc'[c] = "new_id" /\ ptsk'[c] = ntasks + 1
    BY <1>0, <2>1
  <2>7. \A d \in Clients : d # c => pc'[d] = pc[d] /\ ptsk'[d] = ptsk[d]
    BY <1>0, <2>1
  <2>8. \A k \in Tasks : Occurs(accepted, k)' => k <= ntasks'
    BY <2>1, <2>2, <2>3, <2>4
  <2>9. ASSUME NEW d \in Clients, pc'[d] \in Fresh
        PROVE  ptsk'[d] <= ntasks' /\ ~Occurs(accepted, ptsk[d])'
    <3>1. CASE d = c
      <4>1. ~Occurs(accepted', ntasks + 1)
        BY <2>1, <2>5
      <4> QED
        BY <1>0, <2>0, <2>1, <2>6, <3>1, <4>1 DEF Occurs
    <3>2. CASE d # c
      <4>1. pc[d] \in Fresh /\ ptsk'[d] = ptsk[d] /\ ptsk[d] \in Tasks
        BY <1>0, <2>7, <2>9, <3>2
      <4>2. ptsk[d] <= ntasks /\ ~Occurs(accepted, ptsk[d])
        BY <2>3, <4>1
      <4>3. ~Occurs(accepted, ptsk[d])'
        BY <2>1, <4>1, <4>2 DEF Occurs
      <4> QED
        BY <2>1, <2>4, <4>1, <4>2, <4>3
    <3> QED
      BY <3>1, <3>2
  <2>10. ASSUME NEW d \in Clients, NEW e \in Clients,
                pc'[d] \in Fresh, pc'[e] \in Fresh, ptsk'[d] = ptsk'[e]
         PROVE  d = e
    <3>1. ASSUME NEW f \in Clients, f # c, pc'[f] \in Fresh
          PROVE  ptsk'[f] # ntasks + 1
      BY <1>0, <2>3, <2>4, <2>7, <3>1
    <3> QED
      BY <2>3, <2>6, <2>7, <2>10, <3>1
  <2>11. \A d \in Clients : pc'[d] = "enqueue" => arg'[d] = ptsk'[d]
    BY <2>1, <2>3, <2>6, <2>7
  <2> QED
    BY <2>8, <2>9, <2>10, <2>11 DEF FreshInv
<1>3. ASSUME NEW c \in Clients, NewIdStore(c)
      PROVE  FreshFrame
  BY <1>0, <1>3 DEF NewIdStore, Goto, FreshFrame, qVars, Fresh, ClientPlaces
<1>4. ASSUME NEW c \in Clients, WaitSem(c)
      PROVE  FreshFrame
  BY <1>0, <1>4 DEF WaitSem, WaitReturn, Goto, FreshFrame, qVars, tVars, Fresh, ClientPlaces
<1>5. ASSUME NEW c \in Clients, EnqueueLocked(c)
      PROVE  FreshInv'
  <2>1. /\ ptsk' = ptsk /\ ntasks' = ntasks /\ arg' = arg
        /\ pc[c] = "enqueue" /\ pc' = [pc EXCEPT ![c] = "insert"]
        /\ ptsk[c] \in Tasks
        /\ \A k : Occurs(accepted, k)' => Occurs(accepted, k) \/ k = ptsk[c]
    <3>1. CASE UNCHANGED <<elems, accepted>>
      BY <1>0, <1>5, <3>1, EnqueueEffect DEF tVars, Occurs
    <3>2. CASE ~UNCHANGED <<elems, accepted>>
      BY <1>0, <1>5, <3>2, EnqueueEffect DEF tVars
    <3> QED
      BY <3>1, <3>2
  <2>2. \A d \in Clients : pc'[d] \in Fresh => pc[d] \in Fresh /\ d # c /\ pc'[d] = pc[d]
    BY <1>0, <2>1 DEF Fresh
  <2>3. c \in Clients /\ pc[c] \in Fresh
    BY <2>1 DEF Fresh
  <2>4. /\ \A k \in Tasks : Occurs(accepted, k) => k <= ntasks
        /\ \A d \in Clients :
              pc[d] \in Fresh => ptsk[d] <= ntasks /\ ~Occurs(accepted, ptsk[d])
        /\ \A d, e \in Clients :
              pc[d] \in Fresh /\ pc[e] \in Fresh /\ ptsk[d] = ptsk[e] => d = e
        /\ \A d \in Clients : pc[d] = "enqueue" => arg[d] = ptsk[d]
    BY <1>0 DEF FreshInv
  <2>5. \A k \in Tasks : Occurs(accepted, k)' => k <= ntasks'
    BY <2>1, <2>3, <2>4
  <2>6. ASSUME NEW d \in Clients, pc'[d] \in Fresh
        PROVE  ptsk'[d] <= ntasks' /\ ~Occurs(accepted, ptsk[d])'
    <3>1. ptsk[d] <= ntasks /\ ~Occurs(accepted, ptsk[d]) /\ ptsk[d] # ptsk[c]
      BY <2>2, <2>3, <2>4, <2>6
    <3>2. ~Occurs(accepted, ptsk[d])' <=> ~Occurs(accepted', ptsk[d])
      BY <2>1 DEF Occurs
    <3>3. Occurs(accepted', ptsk[d]) => Occurs(accepted, ptsk[d]) \/ ptsk[d] = ptsk[c]
      BY <2>1 DEF Occurs
    <3> QED
      BY <2>1, <3>1, <3>2, <3>3
  <2>7. \A d, e \in Clients :
            pc'[d] \in Fresh /\ pc'[e] \in Fresh /\ ptsk'[d] = ptsk'[e] => d = e
    BY <2>1, <2>2, <2>4
  <2>8. \A d \in Clients : pc'[d] = "enqueue" => arg'[d] = ptsk'[d]
    BY <2>1, <2>2, <2>4 DEF Fresh
  <2> QED
    BY <2>5, <2>6, <2>7, <2>8 DEF FreshInv
<1>6. ASSUME CtlDequeueElement \/ CtlDequeueClosed \/ CtlAssign
      PROVE  FreshFrame
  BY <1>6 DEF CtlDequeueElement, CtlDequeueClosed, CtlAssign, Queue!DequeueElement,
              Queue!DequeueClosed, Queue!history, Queue!queueState, FreshFrame, qVars, tVars, lVars
<1>7. ASSUME NEW w \in Workers,
             \/ WorkerTake(w) \/ WorkerRun(w) \/ WorkerFree(w)
             \/ WorkerDone(w) \/ WorkerExitCode(w) \/ WorkerSignal(w)
      PROVE  FreshFrame
  BY <1>7 DEF WorkerTake, WorkerRun, WorkerFree, WorkerDone, WorkerExitCode, WorkerSignal,
              FreshFrame, qVars, tVars, lVars
<1> QED
  BY <1>0, <1>1, <1>2, <1>3, <1>4, <1>5, <1>6, <1>7, WayCases

(***************************************************************************)
(* The same for one task, and for one worker.                              *)
(***************************************************************************)
SameData(k) == /\ tsk'[k].exit = tsk[k].exit /\ tsk'[k].status = tsk[k].status
               /\ tsk'[k].sem = tsk[k].sem /\ runs'[k] = runs[k]

SamePlace(k) ==
    /\ Occurs(elems, k)' <=> Occurs(elems, k)
    /\ Occurs(accepted, k)' <=> Occurs(accepted, k)
    /\ WithController(k)' <=> WithController(k)
    /\ \A w \in Workers : /\ AtWorker(k, w)' <=> AtWorker(k, w)
                          /\ wtsk[w] = k => wtsk'[w] = k

SameWorker(w) ==
    /\ wrk'[w].assigned = wrk[w].assigned /\ wrk'[w].status = wrk[w].status
    /\ wpc'[w] = wpc[w] /\ wtsk'[w] = wtsk[w]

LEMMA KeepPlaced ==
    ASSUME NEW k \in Tasks, Placed(k), SamePlace(k), SameData(k)
    PROVE  Placed(k)'
<1>1. AtSomeWorker(k)' <=> AtSomeWorker(k)
  BY DEF AtSomeWorker, SamePlace
<1>2. (Untouched(k)' <=> Untouched(k)) /\ (Complete(k)' <=> Complete(k))
  BY DEF SameData, Untouched, Complete
<1>3. (\E w \in Workers : wtsk[w] = k) => (\E w \in Workers : wtsk'[w] = k)
  BY DEF SamePlace
<1> QED
  BY <1>1, <1>2, <1>3 DEF Placed, SamePlace, SameData

LEMMA KeepStage ==
    ASSUME NEW w \in Workers, Stage(w), SameWorker(w),
           wpc[w] \in Busy => SameData(wtsk[w]),
           wrk[w].status = "TSK_ASSIGNED" => SameData(wrk[w].assigned)
    PROVE  Stage(w)'
  BY DEF Stage, SameWorker, SameData, Busy, Untouched

\* What a worker's place and record say of the task it has.
LEMMA WorkersTask ==
    ASSUME TypeInv, DispatchInv, TasksInv, NEW w \in Workers
    PROVE  /\ wpc[w] \in Busy => wtsk[w] \in Tasks /\ AtWorker(wtsk[w], w)
           /\ wrk[w].status = "TSK_ASSIGNED" =>
                 wrk[w].assigned \in Tasks /\ AtWorker(wrk[w].assigned, w)
           /\ wtsk[w] # NULL => wpc[w] \in Busy
           /\ wrk[w].assigned # NULL =>
                 wrk[w].status = "TSK_ASSIGNED" \/ wrk[w].assigned = wtsk[w]
<1>1. /\ wrk[w] \in WorkerRecord /\ wpc[w] \in WorkerPlaces
      /\ wpc[w] \in Busy => wtsk[w] \in Tasks
      /\ WorkerInv(w) /\ Stage(w)
  BY TypeParts DEF DispatchInv, TasksInv, RecordTyped, WorkerTyped, Busy
<1> QED
  BY <1>1 DEF WorkerInv, Stage, WorkerRecord, AtWorker

\* NewIdStore fills in a task that nobody but its client has.
LEMMA NewIdStoreKeeps ==
    ASSUME TypeInv, DispatchInv, WayInv, NEW c \in Clients, NewIdStore(c),
           NEW k0, k0 = ptsk[c]
    PROVE  TasksInv'
<1>0. /\ TasksInv /\ k0 \in Tasks /\ ~Occurs(accepted, k0)
      /\ tsk \in [Tasks -> TaskRecord]
  BY TypeParts DEF NewIdStore, WayInv, FreshInv, Fresh, ClientTyped, HasTask, TaskTyped
<1>1. /\ UNCHANGED <<elems, accepted, wrk, wpc, wtsk, runs, cpc, ctsk>>
      /\ tsk' = [tsk EXCEPT ![k0].id = pid[c], ![k0].status = "WAITING"]
  BY DEF NewIdStore, qVars, wVars, cVars
<1>2. /\ ~Occurs(elems, k0) /\ ~WithController(k0) /\ ~AtSomeWorker(k0) /\ tsk[k0].exit # "set"
      /\ Placed(k0)
  BY <1>0 DEF TasksInv, Placed
<1>3. ASSUME NEW k \in Tasks
      PROVE  SamePlace(k)
  BY <1>1 DEF SamePlace, Occurs, WithController, AtWorker
<1>4. ASSUME NEW k \in Tasks, k # k0
      PROVE  SameData(k)
  BY <1>0, <1>1, <1>4 DEF SameData
<1>5. /\ tsk'[k0].exit = tsk[k0].exit /\ tsk'[k0].sem = tsk[k0].sem
      /\ tsk'[k0].status = "WAITING" /\ runs'[k0] = runs[k0]
  BY <1>0, <1>1 DEF TaskRecord
<1>6. Placed(k0)'
  <2>1. Untouched(k0)
    BY <1>2 DEF Placed, Complete, AtSomeWorker, AtWorker
  <2>2. Untouched(k0)'
    BY <1>5, <2>1 DEF Untouched
  <2>3. AtSomeWorker(k0)' <=> AtSomeWorker(k0)
    BY <1>0, <1>3 DEF AtSomeWorker, SamePlace
  <2> QED
    BY <1>0, <1>2, <1>3, <1>5, <2>2, <2>3 DEF Placed, SamePlace
<1>7. ASSUME NEW k \in Tasks
      PROVE  Placed(k)'
  BY <1>0, <1>3, <1>4, <1>6, KeepPlaced DEF TasksInv
<1>8. ASSUME NEW w \in Workers
      PROVE  Stage(w)'
  <2>1. Stage(w) /\ SameWorker(w)
    BY <1>0, <1>1 DEF TasksInv, SameWorker
  <2>2. /\ wpc[w] \in Busy => wtsk[w] \in Tasks /\ wtsk[w] # k0
        /\ wrk[w].status = "TSK_ASSIGNED" => wrk[w].assigned \in Tasks /\ wrk[w].assigned # k0
    BY <1>0, <1>2, WorkersTask DEF AtSomeWorker
  <2> QED
    BY <1>4, <2>1, <2>2, KeepStage
<1> QED
  BY <1>7, <1>8 DEF TasksInv

\* A token of task_sem is there only when the task is complete and its worker
\* has let go of it.
LEMMA TokenMeansComplete ==
    ASSUME TypeInv, DispatchInv, TasksInv, NEW k \in Tasks, tsk[k].sem > 0
    PROVE  Complete(k) /\ \A w \in Workers : wtsk[w] # k
<1>1. ASSUME NEW w \in Workers, wtsk[w] = k
      PROVE  FALSE
  <2>1. wpc[w] \in Busy
    BY <1>1, WorkersTask, TasksAssumption
  <2>2. Stage(w)
    BY DEF TasksInv
  <2>3. tsk[k].sem = 0
    BY <1>1, <2>1, <2>2 DEF Stage, Busy, Untouched
  <2> QED
    BY <2>3
<1>2. ~Untouched(k)
  BY DEF Untouched
<1> QED
  BY <1>1, <1>2 DEF TasksInv, Placed

\* WaitSem takes the token of a complete task.
LEMMA WaitSemKeeps ==
    ASSUME TypeInv, DispatchInv, WayInv, NEW c \in Clients, WaitSem(c),
           NEW k0, k0 = ptsk[c]
    PROVE  TasksInv'
<1>0. /\ TasksInv /\ k0 \in Tasks /\ tsk \in [Tasks -> TaskRecord] /\ tsk[k0].sem > 0
  BY TypeParts DEF WaitSem, WayInv, ClientTyped, HasTask, TaskTyped
<1>1. /\ UNCHANGED <<elems, accepted, wrk, wpc, wtsk, runs, cpc, ctsk>>
      /\ tsk' = [tsk EXCEPT ![k0].sem = @ - 1]
  BY DEF WaitSem, qVars, wVars, cVars
<1>2. Complete(k0) /\ \A w \in Workers : wtsk[w] # k0
  BY <1>0, TokenMeansComplete
<1>3. ASSUME NEW k \in Tasks
      PROVE  SamePlace(k)
  BY <1>1 DEF SamePlace, Occurs, WithController, AtWorker
<1>4. ASSUME NEW k \in Tasks, k # k0
      PROVE  SameData(k)
  BY <1>0, <1>1, <1>4 DEF SameData
<1>5. /\ tsk'[k0].exit = tsk[k0].exit /\ tsk'[k0].status = tsk[k0].status
      /\ runs'[k0] = runs[k0]
  BY <1>0, <1>1 DEF TaskRecord
<1>6. Placed(k0)'
  <2>1. Complete(k0)' /\ ~Untouched(k0)
    BY <1>2, <1>5 DEF Untouched, Complete
  <2>2. AtSomeWorker(k0)' <=> AtSomeWorker(k0)
    BY <1>0, <1>3 DEF AtSomeWorker, SamePlace
  <2>3. Placed(k0)
    BY <1>0 DEF TasksInv
  <2> QED
    BY <1>0, <1>3, <1>5, <2>1, <2>2, <2>3 DEF Placed, SamePlace
<1>7. ASSUME NEW k \in Tasks
      PROVE  Placed(k)'
  BY <1>0, <1>3, <1>4, <1>6, KeepPlaced DEF TasksInv
<1>8. ASSUME NEW w \in Workers
      PROVE  Stage(w)'
  <2>1. Stage(w) /\ SameWorker(w)
    BY <1>0, <1>1 DEF TasksInv, SameWorker
  <2>2. /\ wpc[w] \in Busy => wtsk[w] \in Tasks /\ wtsk[w] # k0
        /\ wrk[w].status = "TSK_ASSIGNED" => wrk[w].assigned \in Tasks /\ wrk[w].assigned # k0
    <3>1. wrk[w].status = "TSK_ASSIGNED" => Untouched(wrk[w].assigned)
      BY <2>1 DEF Stage
    <3>2. ~Untouched(k0)
      BY <1>2 DEF Untouched, Complete
    <3> QED
      BY <1>0, <1>2, <3>1, <3>2, WorkersTask
  <2> QED
    BY <1>4, <2>1, <2>2, KeepStage
<1> QED
  BY <1>7, <1>8 DEF TasksInv

\* cs_queue_enqueue puts the task of its client into the queue, unless it is closed.
LEMMA EnqueueLockedKeeps ==
    ASSUME TypeInv, DispatchInv, WayInv, NEW c \in Clients, EnqueueLocked(c),
           NEW k0, k0 = ptsk[c]
    PROVE  TasksInv'
<1>0. QueueInv /\ FreshInv /\ TasksInv
  BY DEF WayInv
<1>1. /\ UNCHANGED <<tsk, wrk, wpc, wtsk, runs, cpc, ctsk>>
      /\ k0 \in Tasks /\ ~Occurs(accepted, k0)
  BY <1>0, EnqueueEffect DEF wVars, cVars
<1>2. CASE UNCHANGED <<elems, accepted>>
  <2>1. TaskFrame
    BY <1>1, <1>2 DEF TaskFrame, WithController
  <2> QED
    BY <1>0, <2>1, KeepTasks
<1>3. CASE ~UNCHANGED <<elems, accepted>>
  <2>1. /\ \A k : Occurs(elems, k)' <=> Occurs(elems, k) \/ k = k0
        /\ \A k : Occurs(accepted, k)' <=> Occurs(accepted, k) \/ k = k0
    BY <1>0, <1>3, EnqueueEffect
  <2>2. \A k \in Tasks : /\ WithController(k)' <=> WithController(k)
                         /\ \A w \in Workers : AtWorker(k, w)' <=> AtWorker(k, w)
                         /\ AtSomeWorker(k)' <=> AtSomeWorker(k)
                         /\ Untouched(k)' <=> Untouched(k)
                         /\ SameData(k)
    BY <1>1 DEF WithController, AtWorker, AtSomeWorker, Untouched, SameData
  <2>3. \A k \in Tasks : k # k0 => SamePlace(k)
    BY <1>1, <2>1, <2>2 DEF SamePlace
  <2>4. Placed(k0)'
    <3>1. Placed(k0)
      BY <1>0, <1>1 DEF TasksInv
    <3>2. ~WithController(k0) /\ ~AtSomeWorker(k0) /\ Untouched(k0)
      BY <1>1, <3>1 DEF Placed, Complete, AtSomeWorker, AtWorker
    <3> QED
      BY <1>1, <2>1, <2>2, <3>1, <3>2 DEF Placed
  <2>5. \A k \in Tasks : Placed(k)'
    BY <1>0, <2>2, <2>3, <2>4, KeepPlaced DEF TasksInv
  <2>6. ASSUME NEW w \in Workers
        PROVE  Stage(w)'
    <3>1. Stage(w) /\ SameWorker(w)
      BY <1>0, <1>1 DEF TasksInv, SameWorker
    <3>2. /\ wpc[w] \in Busy => SameData(wtsk[w])
          /\ wrk[w].status = "TSK_ASSIGNED" => SameData(wrk[w].assigned)
      BY <1>1 DEF SameData
    <3> QED
      BY <3>1, <3>2, KeepStage
  <2> QED
    BY <2>5, <2>6 DEF TasksInv
<1> QED
  BY <1>2, <1>3

\* cs_queue_dequeue gives the controller the first task of the queue.
LEMMA DequeueKeeps ==
    ASSUME TypeInv, DispatchInv, WayInv, CtlDequeueElement, NEW k0, k0 = ctsk'
    PROVE  TasksInv'
<1>0. QueueInv /\ FreshInv /\ TasksInv
  BY DEF WayInv
<1>1. /\ UNCHANGED <<tsk, wrk, wpc, wtsk, runs, accepted>>
      /\ cpc = "dequeuing" /\ cpc' = "wait_free" /\ k0 \in Tasks
      /\ Occurs(elems, k0)
      /\ \A k : Occurs(elems, k)' <=> Occurs(elems, k) /\ k # k0
  BY <1>0, DequeueEffect DEF wVars
<1>2. \A k \in Tasks : /\ ~WithController(k) /\ (WithController(k)' <=> k = k0)
                       /\ Occurs(accepted, k)' <=> Occurs(accepted, k)
                       /\ \A w \in Workers : AtWorker(k, w)' <=> AtWorker(k, w)
                       /\ AtSomeWorker(k)' <=> AtSomeWorker(k)
                       /\ Untouched(k)' <=> Untouched(k)
                       /\ SameData(k)
  BY <1>1 DEF WithController, AtWorker, AtSomeWorker, Untouched, SameData, Occurs
<1>3. \A k \in Tasks : k # k0 => SamePlace(k)
  BY <1>1, <1>2 DEF SamePlace
<1>4. Placed(k0)'
  <2>1. Placed(k0)
    BY <1>0, <1>1 DEF TasksInv
  <2> QED
    BY <1>1, <1>2, <2>1 DEF Placed
<1>5. \A k \in Tasks : Placed(k)'
  BY <1>0, <1>2, <1>3, <1>4, KeepPlaced DEF TasksInv
<1>6. ASSUME NEW w \in Workers
      PROVE  Stage(w)'
  <2>1. Stage(w) /\ SameWorker(w)
    BY <1>0, <1>1 DEF TasksInv, SameWorker
  <2>2. /\ wpc[w] \in Busy => SameData(wtsk[w])
        /\ wrk[w].status = "TSK_ASSIGNED" => SameData(wrk[w].assigned)
    BY <1>1 DEF SameData
  <2> QED
    BY <2>1, <2>2, KeepStage
<1> QED
  BY <1>5, <1>6 DEF TasksInv

\* _cs_wp_assign_tsk_to_worker hands the controller's task to the free worker it found.
LEMMA AssignKeeps ==
    ASSUME TypeInv, DispatchInv, WayInv, CtlAssign,
           NEW k0, k0 = ctsk, NEW v, v = cidx
    PROVE  TasksInv'
<1>0. /\ TasksInv /\ v \in Workers /\ k0 \in Tasks
      /\ wrk \in [Workers -> WorkerRecord]
      /\ wrk[v].status = "WAITING" /\ wrk[v].assigned = NULL
      /\ wpc[v] \notin {"run", "free"} /\ NULL \notin Tasks
  <2>1. cpc = "assign"
    BY DEF CtlAssign
  <2>2. v \in Workers /\ k0 \in Tasks /\ wrk \in [Workers -> WorkerRecord]
    BY <2>1, TypeParts DEF CtlTyped, RecordTyped
  <2>3. WorkerInv(v) /\ wrk[v].status = "WAITING"
    BY <2>1, <2>2 DEF DispatchInv, CtlInv
  <2> QED
    BY <2>2, <2>3, TasksAssumption DEF WorkerInv, WayInv
<1>1. /\ UNCHANGED <<elems, accepted, tsk, wpc, wtsk, runs, ctsk>>
      /\ cpc = "assign" /\ cpc' = "notify"
      /\ wrk' = [wrk EXCEPT ![v].assigned = k0, ![v].status = "TSK_ASSIGNED"]
  BY DEF CtlAssign, qVars
<1>2. /\ wrk'[v].assigned = k0 /\ wrk'[v].status = "TSK_ASSIGNED"
      /\ \A w \in Workers : w # v => wrk'[w] = wrk[w]
  BY <1>0, <1>1 DEF WorkerRecord
<1>3. WithController(k0) /\ Placed(k0)
  BY <1>0, <1>1 DEF WithController, TasksInv
<1>4. \A k \in Tasks : /\ WithController(k) => k = k0
                       /\ ~WithController(k)'
                       /\ Occurs(elems, k)' <=> Occurs(elems, k)
                       /\ Occurs(accepted, k)' <=> Occurs(accepted, k)
                       /\ Untouched(k)' <=> Untouched(k)
                       /\ Complete(k)' <=> Complete(k)
                       /\ SameData(k)
  BY <1>1 DEF WithController, Occurs, Untouched, Complete, SameData
<1>5. \A k \in Tasks, w \in Workers :
         AtWorker(k, w)' <=> AtWorker(k, w) \/ (k = k0 /\ w = v)
  BY <1>0, <1>1, <1>2 DEF AtWorker
<1>6. \A k \in Tasks : k # k0 => SamePlace(k)
  BY <1>1, <1>4, <1>5 DEF SamePlace
<1>7. Placed(k0)'
  <2>1. ~Occurs(elems, k0) /\ Untouched(k0) /\ ~AtSomeWorker(k0) /\ Occurs(accepted, k0)
    BY <1>3 DEF Placed
  <2>2. \A w \in Workers : AtWorker(k0, w)' <=> w = v
    BY <1>0, <1>5, <2>1 DEF AtSomeWorker
  <2>3. AtSomeWorker(k0)'
    BY <1>0, <2>2 DEF AtSomeWorker
  <2> QED
    BY <1>0, <1>4, <2>1, <2>2, <2>3 DEF Placed
<1>8. \A k \in Tasks : Placed(k)'
  BY <1>0, <1>4, <1>6, <1>7, KeepPlaced DEF TasksInv
<1>9. ASSUME NEW w \in Workers, w # v
      PROVE  Stage(w)'
  <2>1. Stage(w) /\ SameWorker(w)
    BY <1>0, <1>1, <1>2, <1>9 DEF TasksInv, SameWorker
  <2>2. /\ wpc[w] \in Busy => SameData(wtsk[w])
        /\ wrk[w].status = "TSK_ASSIGNED" => SameData(wrk[w].assigned)
    BY <1>1 DEF SameData
  <2> QED
    BY <2>1, <2>2, KeepStage
<1>10. Stage(v)'
  <2>1. Stage(v) /\ Untouched(k0)
    BY <1>0, <1>3 DEF TasksInv, Placed
  <2> QED
    BY <1>0, <1>1, <1>2, <2>1 DEF Stage, Untouched
<1> QED
  BY <1>8, <1>9, <1>10 DEF TasksInv

\* WorkerTake makes the assigned task the one that the worker performs.
LEMMA TakeKeeps ==
    ASSUME TypeInv, DispatchInv, TasksInv, NEW v \in Workers, WorkerTake(v)
    PROVE  TasksInv'
<1>0. /\ wrk \in [Workers -> WorkerRecord] /\ wpc \in [Workers -> WorkerPlaces]
      /\ wtsk \in [Workers -> Tasks \cup {NULL}] /\ NULL \notin Tasks
  BY TypeParts, TasksAssumption DEF RecordTyped, WorkerTyped
<1>1. /\ UNCHANGED <<elems, accepted, tsk, runs, cpc, ctsk>>
      /\ wpc[v] = "take" /\ wrk[v].status = "TSK_ASSIGNED" /\ wrk[v].assigned # NULL
      /\ wpc' = [wpc EXCEPT ![v] = "run"]
      /\ wtsk' = [wtsk EXCEPT ![v] = wrk[v].assigned]
      /\ wrk' = [wrk EXCEPT ![v].status = "WORKING"]
  BY DEF WorkerTake, WGoto, qVars, cVars
<1>2. Stage(v) /\ wtsk[v] = NULL
  BY <1>1 DEF TasksInv, Stage, Busy
<1>3. /\ wrk'[v].assigned = wrk[v].assigned /\ wrk'[v].status = "WORKING"
      /\ wtsk'[v] = wrk[v].assigned /\ wpc'[v] = "run"
      /\ \A w \in Workers : w # v => SameWorker(w)
  BY <1>0, <1>1 DEF WorkerRecord, SameWorker
<1>4. ASSUME NEW k \in Tasks
      PROVE  SamePlace(k) /\ SameData(k)
  BY <1>0, <1>1, <1>2, <1>3
     DEF SamePlace, SameData, SameWorker, Occurs, WithController, AtWorker
<1>5. \A k \in Tasks : Placed(k)'
  BY <1>4, KeepPlaced DEF TasksInv
<1>6. ASSUME NEW w \in Workers, w # v
      PROVE  Stage(w)'
  <2>1. /\ wpc[w] \in Busy => SameData(wtsk[w])
        /\ wrk[w].status = "TSK_ASSIGNED" => SameData(wrk[w].assigned)
    BY <1>1 DEF SameData
  <2> QED
    BY <1>3, <1>6, <2>1, KeepStage DEF TasksInv
<1>7. Stage(v)'
  <2>1. Untouched(wrk[v].assigned)
    BY <1>1, <1>2 DEF Stage
  <2> QED
    BY <1>1, <1>3, <2>1 DEF Stage, Untouched, Busy
<1> QED
  BY <1>5, <1>6, <1>7 DEF TasksInv

\* WorkerFree gives up the assigned task, and still has it as the performed one.
LEMMA FreeKeeps ==
    ASSUME TypeInv, DispatchInv, TasksInv, NEW v \in Workers, WorkerFree(v)
    PROVE  TasksInv'
<1>0. /\ wrk \in [Workers -> WorkerRecord] /\ wpc \in [Workers -> WorkerPlaces]
      /\ wtsk \in [Workers -> Tasks \cup {NULL}] /\ NULL \notin Tasks
  BY TypeParts, TasksAssumption DEF RecordTyped, WorkerTyped
<1>1. /\ UNCHANGED <<elems, accepted, tsk, runs, cpc, ctsk, wtsk>>
      /\ wpc[v] = "free"
      /\ wpc' = [wpc EXCEPT ![v] = "done"]
      /\ wrk' = [wrk EXCEPT ![v].status = "WAITING", ![v].assigned = NULL]
  BY DEF WorkerFree, WGoto, qVars, cVars
<1>2. Stage(v) /\ wtsk[v] = wrk[v].assigned
  BY <1>1 DEF TasksInv, Stage
<1>3. /\ wrk'[v].assigned = NULL /\ wrk'[v].status = "WAITING" /\ wpc'[v] = "done"
      /\ \A w \in Workers : w # v => SameWorker(w)
  BY <1>0, <1>1 DEF WorkerRecord, SameWorker
<1>4. ASSUME NEW k \in Tasks
      PROVE  SamePlace(k) /\ SameData(k)
  BY <1>0, <1>1, <1>2, <1>3
     DEF SamePlace, SameData, SameWorker, Occurs, WithController, AtWorker
<1>5. \A k \in Tasks : Placed(k)'
  BY <1>4, KeepPlaced DEF TasksInv
<1>6. ASSUME NEW w \in Workers, w # v
      PROVE  Stage(w)'
  <2>1. /\ wpc[w] \in Busy => SameData(wtsk[w])
        /\ wrk[w].status = "TSK_ASSIGNED" => SameData(wrk[w].assigned)
    BY <1>1 DEF SameData
  <2> QED
    BY <1>3, <1>6, <2>1, KeepStage DEF TasksInv
<1>7. Stage(v)'
  BY <1>1, <1>2, <1>3 DEF Stage, Busy
<1> QED
  BY <1>5, <1>6, <1>7 DEF TasksInv

(***************************************************************************)
(* The steps in which worker v changes the task it performs, k0: no other  *)
(* worker has k0, and a task already assigned to v for later is not k0.    *)
(***************************************************************************)
LEMMA OwnTask ==
    ASSUME TypeInv, DispatchInv, TasksInv, NEW v \in Workers, wpc[v] \in Busy,
           NEW k0, k0 = wtsk[v]
    PROVE  /\ k0 \in Tasks /\ Placed(k0) /\ Stage(v)
           /\ AtSomeWorker(k0) /\ ~Occurs(elems, k0) /\ ~WithController(k0)
           /\ Occurs(accepted, k0)
           /\ \A w \in Workers : w # v => wtsk[w] # k0 /\ wrk[w].assigned # k0
           /\ wpc[v] # "run" /\ wrk[v].status = "TSK_ASSIGNED" =>
                 wrk[v].assigned \in Tasks /\ wrk[v].assigned # k0
<1>1. k0 \in Tasks /\ AtWorker(k0, v)
  BY WorkersTask
<1>2. Placed(k0) /\ Stage(v)
  BY <1>1 DEF TasksInv
<1>3. AtSomeWorker(k0)
  BY <1>1 DEF AtSomeWorker
<1>4. \A w \in Workers : w # v => wtsk[w] # k0 /\ wrk[w].assigned # k0
  BY <1>1, <1>2 DEF Placed, AtWorker
<1>5. ASSUME wpc[v] # "run", wrk[v].status = "TSK_ASSIGNED"
      PROVE  wrk[v].assigned \in Tasks /\ wrk[v].assigned # k0
  <2>1. wrk[v].assigned \in Tasks
    BY <1>5, WorkersTask
  <2>2. runs[wrk[v].assigned] = 0 /\ runs[k0] = 1
    BY <1>2, <1>5 DEF Stage, Untouched, Busy
  <2> QED
    BY <2>1, <2>2
<1> QED
  BY <1>1, <1>2, <1>3, <1>4, <1>5 DEF Placed

LEMMA OwnTaskKeeps ==
    ASSUME TypeInv, DispatchInv, TasksInv, NEW v \in Workers, wpc[v] \in Busy,
           NEW k0, k0 = wtsk[v],
           UNCHANGED <<elems, accepted, wrk, cpc, ctsk>>,
           \A w \in Workers : w # v => wtsk'[w] = wtsk[w] /\ wpc'[w] = wpc[w],
           \A k \in Tasks : k # k0 => SameData(k),
           wtsk'[v] = k0 \/ (wtsk'[v] = NULL /\ Complete(k0)'),
           Stage(v)'
    PROVE  TasksInv'
<1>0. /\ k0 \in Tasks /\ Placed(k0) /\ NULL \notin Tasks
      /\ AtSomeWorker(k0) /\ ~Occurs(elems, k0) /\ ~WithController(k0)
      /\ Occurs(accepted, k0)
      /\ \A w \in Workers : w # v => wtsk[w] # k0 /\ wrk[w].assigned # k0
  BY OwnTask, TasksAssumption
<1>1. \A k \in Tasks : /\ Occurs(elems, k)' <=> Occurs(elems, k)
                       /\ Occurs(accepted, k)' <=> Occurs(accepted, k)
                       /\ WithController(k)' <=> WithController(k)
  BY DEF Occurs, WithController
<1>2. \A k \in Tasks : k # k0 => SamePlace(k)
  <2>1. ASSUME NEW k \in Tasks, k # k0, NEW w \in Workers
        PROVE  wtsk'[w] = k <=> wtsk[w] = k
    BY <1>0, <2>1
  <2> QED
    BY <1>1, <2>1 DEF SamePlace, AtWorker
<1>3. Placed(k0)'
  <2>1. \A w \in Workers : AtWorker(k0, w)' => w = v
    BY <1>0 DEF AtWorker
  <2>2. CASE wtsk'[v] = k0
    <3>1. AtSomeWorker(k0)' /\ \E w \in Workers : wtsk'[w] = k0
      BY <2>2 DEF AtSomeWorker, AtWorker
    <3> QED
      BY <1>0, <1>1, <2>1, <3>1 DEF Placed
  <2>3. CASE wtsk'[v] = NULL /\ Complete(k0)'
    <3>1. tsk'[k0].exit = "set"
      BY <2>3 DEF Complete
    <3> QED
      BY <1>0, <1>1, <2>1, <2>3, <3>1 DEF Placed
  <2> QED
    BY <2>2, <2>3
<1>4. \A k \in Tasks : Placed(k)'
  BY <1>2, <1>3, KeepPlaced DEF TasksInv
<1>5. ASSUME NEW w \in Workers, w # v
      PROVE  Stage(w)'
  <2>1. Stage(w) /\ SameWorker(w)
    BY <1>5 DEF TasksInv, SameWorker
  <2>2. /\ wpc[w] \in Busy => SameData(wtsk[w])
        /\ wrk[w].status = "TSK_ASSIGNED" => SameData(wrk[w].assigned)
    BY <1>0, <1>5, WorkersTask
  <2> QED
    BY <2>1, <2>2, KeepStage
<1> QED
  BY <1>4, <1>5 DEF TasksInv

\* The worker runs the task, sets its status and its exit code, and signals its end.
LEMMA PerformKeeps ==
    ASSUME TypeInv, DispatchInv, TasksInv, NEW v \in Workers,
           WorkerRun(v) \/ WorkerDone(v) \/ WorkerExitCode(v) \/ WorkerSignal(v),
           NEW k0, k0 = wtsk[v]
    PROVE  TasksInv'
<1>0. /\ wpc \in [Workers -> WorkerPlaces] /\ wtsk \in [Workers -> Tasks \cup {NULL}]
      /\ tsk \in [Tasks -> TaskRecord] /\ runs \in [Tasks -> Nat] /\ WorkerInv(v)
  BY TypeParts DEF WorkerTyped, TaskTyped, PoolTyped, DispatchInv
<1>1. wpc[v] \in Busy
  BY DEF WorkerRun, WorkerDone, WorkerExitCode, WorkerSignal, Busy
<1>2. /\ k0 \in Tasks /\ Stage(v)
      /\ wpc[v] # "run" /\ wrk[v].status = "TSK_ASSIGNED" =>
            wrk[v].assigned \in Tasks /\ wrk[v].assigned # k0
  BY <1>1, OwnTask
<1>3. /\ UNCHANGED <<elems, accepted, wrk, cpc, ctsk>>
      /\ \A w \in Workers : w # v => wtsk'[w] = wtsk[w] /\ wpc'[w] = wpc[w]
  BY <1>0 DEF WorkerRun, WorkerDone, WorkerExitCode, WorkerSignal, WGoto, qVars, cVars
<1>4. \A k \in Tasks : k # k0 => SameData(k)
  BY <1>0, <1>2 DEF WorkerRun, WorkerDone, WorkerExitCode, WorkerSignal, SameData
<1>5. wrk[v].status = "TSK_ASSIGNED" => wpc[v] # "run"
  BY <1>0 DEF WorkerInv
<1>6. ASSUME wrk'[v].status = "TSK_ASSIGNED"
      PROVE  /\ runs'[wrk'[v].assigned] = 0 /\ tsk'[wrk'[v].assigned].exit = "unset"
             /\ tsk'[wrk'[v].assigned].status # "DONE" /\ tsk'[wrk'[v].assigned].sem = 0
  <2>1. wrk[v].status = "TSK_ASSIGNED" /\ wrk'[v].assigned = wrk[v].assigned
    BY <1>3, <1>6
  <2>2. Untouched(wrk[v].assigned) /\ SameData(wrk[v].assigned)
    BY <1>2, <1>4, <1>5, <2>1 DEF Stage
  <2> QED
    BY <2>1, <2>2 DEF Untouched, SameData
<1>7. CASE WorkerRun(v)
  <2>1. /\ wpc[v] = "run" /\ wpc'[v] = "free" /\ wtsk' = wtsk /\ tsk' = tsk
        /\ runs'[k0] = runs[k0] + 1
    BY <1>0, <1>2, <1>7 DEF WorkerRun, WGoto
  <2>2. Untouched(k0) /\ wrk[v].assigned = k0
    BY <1>2, <2>1 DEF Stage
  <2>3. wtsk'[v] = k0 /\ runs'[k0] = 1 /\ wrk'[v] = wrk[v]
    BY <1>3, <2>1, <2>2 DEF Untouched
  <2>4. Stage(v)'
    BY <1>5, <2>1, <2>2, <2>3 DEF Stage, Busy, Untouched
  <2> QED
    BY <1>1, <1>3, <1>4, <2>1, <2>4, OwnTaskKeeps
<1>8. CASE WorkerDone(v)
  <2>1. /\ wpc[v] = "done" /\ wpc'[v] = "exit_code" /\ wtsk' = wtsk /\ runs' = runs
        /\ tsk'[k0].status = "DONE" /\ tsk'[k0].sem = tsk[k0].sem
        /\ tsk'[k0].exit = tsk[k0].exit
    BY <1>0, <1>2, <1>8 DEF WorkerDone, WGoto, TaskRecord
  <2>2. Stage(v)'
    BY <1>2, <1>6, <2>1 DEF Stage, Busy, Untouched
  <2> QED
    BY <1>1, <1>3, <1>4, <2>1, <2>2, OwnTaskKeeps
<1>9. CASE WorkerExitCode(v)
  <2>1. /\ wpc[v] = "exit_code" /\ wpc'[v] = "signal" /\ wtsk' = wtsk /\ runs' = runs
        /\ tsk'[k0].exit = "set" /\ tsk'[k0].sem = tsk[k0].sem
        /\ tsk'[k0].status = tsk[k0].status
    BY <1>0, <1>2, <1>9 DEF WorkerExitCode, WGoto, TaskRecord
  <2>2. Stage(v)'
    BY <1>2, <1>6, <2>1 DEF Stage, Busy, Untouched
  <2> QED
    BY <1>1, <1>3, <1>4, <2>1, <2>2, OwnTaskKeeps
<1>10. CASE WorkerSignal(v)
  <2>1. /\ wpc[v] = "signal" /\ wpc'[v] = "sem" /\ wtsk'[v] = NULL /\ runs' = runs
        /\ tsk'[k0].exit = tsk[k0].exit /\ tsk'[k0].status = tsk[k0].status
    BY <1>0, <1>2, <1>10 DEF WorkerSignal, WGoto, TaskRecord
  <2>2. Complete(k0)'
    BY <1>2, <2>1 DEF Stage, Complete
  <2>3. Stage(v)'
    BY <1>6, <2>1 DEF Stage, Busy, Untouched
  <2> QED
    BY <1>1, <1>3, <1>4, <2>1, <2>2, <2>3, OwnTaskKeeps
<1> QED
  BY <1>7, <1>8, <1>9, <1>10

\* No step of the pool loses a task, doubles it or touches it out of its turn.
LEMMA TasksInvStep ==
    ASSUME TypeInv, DispatchInv, WayInv, [Next]_poolVars
    PROVE  TasksInv'
<1>0. TasksInv
  BY DEF WayInv
<1>1. CASE TaskFrame
  BY <1>0, <1>1, KeepTasks
<1>2. ASSUME NEW c \in Clients, EnqueueStatus(c)
      PROVE  TaskFrame
  BY <1>2 DEF EnqueueStatus, TaskFrame, WithController, qVars, wVars, cVars
<1>3. ASSUME CtlDequeueClosed
      PROVE  TaskFrame
  BY <1>3 DEF CtlDequeueClosed, Queue!DequeueClosed, Queue!queueState, Queue!history,
              TaskFrame, WithController, wVars
<1>4. ASSUME NEW c \in Clients, NewIdStore(c) \/ EnqueueLocked(c) \/ WaitSem(c)
      PROVE  TasksInv'
  BY <1>4, NewIdStoreKeeps, EnqueueLockedKeeps, WaitSemKeeps
<1>5. ASSUME CtlDequeueElement \/ CtlAssign
      PROVE  TasksInv'
  BY <1>5, DequeueKeeps, AssignKeeps
<1>6. ASSUME NEW w \in Workers,
             \/ WorkerTake(w) \/ WorkerRun(w) \/ WorkerFree(w)
             \/ WorkerDone(w) \/ WorkerExitCode(w) \/ WorkerSignal(w)
      PROVE  TasksInv'
  BY <1>0, <1>6, TakeKeeps, FreeKeeps, PerformKeeps
<1> QED
  BY <1>0, <1>1, <1>2, <1>3, <1>4, <1>5, <1>6, WayCases, KeepTasks

LEMMA WayInit == Init => WayInv
<1> SUFFICES ASSUME Init PROVE WayInv
  OBVIOUS
<1>1. \A k : ~Occurs(elems, k) /\ ~Occurs(accepted, k)
  BY DEF Init, Queue!Init, Occurs
<1>2. QueueInv
  BY DEF Init, Queue!Init, QueueInv, Distinct
<1>3. FreshInv
  BY <1>1 DEF Init, FreshInv, Fresh
<1>4. ASSUME NEW k \in Tasks
      PROVE  Placed(k)
  <2>1. Untouched(k) /\ tsk[k].exit = "unset" /\ ~WithController(k)
    BY DEF Init, Untouched, WithController
  <2>2. \A w \in Workers : ~AtWorker(k, w)
    BY TasksAssumption DEF Init, AtWorker
  <2> QED
    BY <1>1, <2>1, <2>2 DEF Placed, AtSomeWorker
<1>5. ASSUME NEW w \in Workers
      PROVE  Stage(w)
  BY DEF Init, Stage, Busy
<1> QED
  BY <1>2, <1>3, <1>4, <1>5 DEF WayInv, TasksInv

\* The types, the dispatch protocol and the way of every task, in every reachable state.
LEMMA WayAlways == Spec => [](TypeInv /\ DispatchInv /\ WayInv)
<1>1. WayInv /\ TypeInv /\ DispatchInv /\ [Next]_poolVars => WayInv'
  BY QueueInvStep, FreshInvStep, TasksInvStep DEF WayInv
<1> QED
  BY <1>1, WayInit, DispatchAlways, PTL DEF Spec

-----------------------------------------------------------------------------
\* A task that is DONE has been run, and it was run once.
LEMMA RunOnce ==
    ASSUME TypeInv, DispatchInv, TasksInv, NEW k \in Tasks
    PROVE  runs[k] <= 1 /\ (tsk[k].status = "DONE" => runs[k] > 0)
<1>1. CASE Untouched(k) \/ Complete(k)
  BY <1>1 DEF Untouched, Complete
<1>2. CASE \E w \in Workers : wtsk[w] = k
  <2>1. PICK w \in Workers : wtsk[w] = k
    BY <1>2
  <2>2. wpc[w] \in Busy /\ Stage(w)
    BY <2>1, WorkersTask, TasksAssumption DEF TasksInv
  <2>3. Untouched(k) \/ runs[k] = 1
    BY <2>1, <2>2 DEF Stage, Busy
  <2> QED
    BY <2>3 DEF Untouched
<1> QED
  BY <1>1, <1>2 DEF TasksInv, Placed

\* The positions of an element of a sequence without duplicates.
LEMMA Positions ==
    ASSUME NEW S, NEW s \in Seq(S), NEW k, Distinct(s)
    PROVE  \/ ~Occurs(s, k) /\ {i \in DOMAIN s : s[i] = k} = {}
           \/ Occurs(s, k) /\ \E i \in DOMAIN s : {j \in DOMAIN s : s[j] = k} = {i}
<1>1. DOMAIN s = 1 .. Len(s)
  BY LenProperties
<1>2. CASE Occurs(s, k)
  <2>1. PICK i \in 1 .. Len(s) : s[i] = k
    BY <1>2 DEF Occurs
  <2>2. {j \in DOMAIN s : s[j] = k} = {i}
    BY <1>1, <2>1 DEF Distinct
  <2> QED
    BY <1>1, <1>2, <2>2
<1>3. CASE ~Occurs(s, k)
  BY <1>1, <1>3 DEF Occurs
<1> QED
  BY <1>2, <1>3

\* An accepted task is in one place, any other in none.
LEMMA OnePlaceInv ==
    ASSUME TypeInv, DispatchInv, WayInv, NEW k \in Tasks
    PROVE  \/ Occurs(accepted, k) /\ \E p : PlacesOf(k) = {p}
           \/ ~Occurs(accepted, k) /\ PlacesOf(k) = {}
<1> DEFINE Q == {<<"queue", i>> : i \in {j \in DOMAIN elems : elems[j] = k}}
           C == IF cpc \in {"wait_free", "scan", "assign"} /\ ctsk = k
                THEN {<<"controller", 0>>} ELSE {}
           W == {<<"worker", w>> : w \in {v \in Workers : wrk[v].assigned = k \/ wtsk[v] = k}}
           F == IF tsk[k].exit = "set" /\ \A w \in Workers : wtsk[w] # k
                THEN {<<"finished", 0>>} ELSE {}
<1>0. /\ Placed(k) /\ Distinct(elems) /\ elems \in Seq(Tasks)
      /\ \A w \in Workers : Stage(w)
      /\ NULL \notin Tasks
  BY TypeParts, TasksAssumption DEF WayInv, TasksInv, QueueInv, Queue!TypeOK
<1>1. PlacesOf(k) = Q \cup C \cup W \cup F
  BY DEF PlacesOf
<1>2. ~Occurs(elems, k) => Q = {}
  BY <1>0, Positions
<1>3. Occurs(elems, k) => \E p : Q = {p}
  <2> SUFFICES ASSUME Occurs(elems, k) PROVE \E p : Q = {p}
    OBVIOUS
  <2>1. PICK i \in DOMAIN elems : {j \in DOMAIN elems : elems[j] = k} = {i}
    BY <1>0, Positions
  <2>2. Q = {<<"queue", i>>}
    BY <2>1
  <2> QED
    BY <2>2
<1>4. (WithController(k) => C = {<<"controller", 0>>}) /\ (~WithController(k) => C = {})
  BY DEF WithController
<1>5. ~AtSomeWorker(k) => W = {}
  BY DEF AtSomeWorker, AtWorker
<1>6. AtSomeWorker(k) => \E p : W = {p}
  <2> SUFFICES ASSUME AtSomeWorker(k) PROVE \E p : W = {p}
    OBVIOUS
  <2>1. PICK v \in Workers : AtWorker(k, v)
    BY DEF AtSomeWorker
  <2>2. {w \in Workers : wrk[w].assigned = k \/ wtsk[w] = k} = {v}
    BY <1>0, <2>1 DEF Placed, AtWorker
  <2>3. W = {<<"worker", v>>}
    BY <2>2
  <2> QED
    BY <2>3
<1>7. AtSomeWorker(k) => F = {}
  <2> SUFFICES ASSUME NEW v \in Workers, AtWorker(k, v), \A w \in Workers : wtsk[w] # k
               PROVE  tsk[k].exit # "set"
    BY DEF AtSomeWorker
  <2>1. wrk[v].assigned = k /\ wtsk[v] # k
    BY DEF AtWorker
  <2>2. wrk[v].status = "TSK_ASSIGNED"
    BY <1>0, <2>1, WorkersTask DEF WayInv
  <2> QED
    BY <1>0, <2>1, <2>2 DEF Stage, Untouched
<1>8. ~AtSomeWorker(k) =>
         /\ tsk[k].exit = "set" => F = {<<"finished", 0>>}
         /\ tsk[k].exit # "set" => F = {}
  BY DEF AtSomeWorker, AtWorker
<1> HIDE DEF Q, C, W, F
<1>9. Untouched(k) => tsk[k].exit # "set"
  BY DEF Untouched
<1>10. CASE Occurs(elems, k)
  <2>1. C = {} /\ W = {} /\ F = {} /\ Occurs(accepted, k)
    BY <1>0, <1>4, <1>5, <1>8, <1>9, <1>10 DEF Placed
  <2> QED
    BY <1>1, <1>3, <1>10, <2>1
<1>11. CASE WithController(k)
  <2>1. Q = {} /\ W = {} /\ F = {} /\ Occurs(accepted, k)
    BY <1>0, <1>2, <1>5, <1>8, <1>9, <1>11 DEF Placed
  <2> QED
    BY <1>1, <1>4, <1>11, <2>1
<1>12. CASE AtSomeWorker(k)
  <2>1. Q = {} /\ C = {} /\ F = {} /\ Occurs(accepted, k)
    BY <1>0, <1>2, <1>4, <1>7, <1>12 DEF Placed
  <2> QED
    BY <1>1, <1>6, <1>12, <2>1
<1>13. CASE ~Occurs(elems, k) /\ ~WithController(k) /\ ~AtSomeWorker(k)
  <2>1. Q = {} /\ C = {} /\ W = {}
    BY <1>2, <1>4, <1>5, <1>13
  <2>2. tsk[k].exit = "set" <=> Occurs(accepted, k)
    BY <1>0, <1>13 DEF Placed
  <2>3. CASE tsk[k].exit = "set"
    BY <1>1, <1>8, <1>13, <2>1, <2>2, <2>3
  <2>4. CASE tsk[k].exit # "set"
    BY <1>1, <1>8, <1>13, <2>1, <2>2, <2>4
  <2> QED
    BY <2>3, <2>4
<1> QED
  BY <1>10, <1>11, <1>12, <1>13

(***************************************************************************)
(* OnePlace: whatever the clients do, and also after the pool was shut     *)
(* down and started again, a task that the queue accepted is in exactly    *)
(* one place, none is taken up twice or lost between the queue, the        *)
(* controller and the workers, and no task is run twice.                   *)
(***************************************************************************)
THEOREM OnePlace == Spec => []TaskInOnePlace
<1>1. TypeInv /\ DispatchInv /\ WayInv => TaskInOnePlace
  <2> SUFFICES ASSUME TypeInv, DispatchInv, WayInv, NEW k \in Tasks
               PROVE  /\ Cardinality(PlacesOf(k)) =
                            Cardinality({i \in DOMAIN accepted : accepted[i] = k})
                      /\ Cardinality(PlacesOf(k)) <= 1
                      /\ runs[k] <= 1
    BY DEF TaskInOnePlace
  <2>1. runs[k] <= 1
    BY RunOnce DEF WayInv
  <2>2. accepted \in Seq(Tasks) /\ Distinct(accepted)
    BY TypeParts DEF WayInv, QueueInv, Queue!TypeOK
  <2> DEFINE A == {i \in DOMAIN accepted : accepted[i] = k}
  <2>3. (Occurs(accepted, k) => \E i : A = {i}) /\ (~Occurs(accepted, k) => A = {})
    <3>1. \/ ~Occurs(accepted, k) /\ A = {}
          \/ Occurs(accepted, k) /\ \E i \in DOMAIN accepted :
                {j \in DOMAIN accepted : accepted[j] = k} = {i}
      BY <2>2, Positions
    <3>2. A = {j \in DOMAIN accepted : accepted[j] = k}
      OBVIOUS
    <3> HIDE DEF A
    <3> QED
      BY <3>1, <3>2
  <2> HIDE DEF A
  <2>4. CASE Occurs(accepted, k)
    <3>1. PICK p : PlacesOf(k) = {p}
      BY <2>4, OnePlaceInv
    <3>2. PICK i : A = {i}
      BY <2>3, <2>4
    <3>3. Cardinality(PlacesOf(k)) = 1 /\ Cardinality(A) = 1
      BY <3>1, <3>2, FS_Singleton
    <3> QED
      BY <2>1, <3>3 DEF A
  <2>5. CASE ~Occurs(accepted, k)
    <3>1. Cardinality(PlacesOf(k)) = 0 /\ Cardinality(A) = 0
      BY <2>3, <2>5, OnePlaceInv, FS_EmptySet
    <3> QED
      BY <2>1, <3>1 DEF A
  <2> QED
    BY <2>4, <2>5
<1> QED
  BY <1>1, WayAlways, PTL

\* Only WaitStatus and WaitSem take a client out of cs_wp_tsk_wait.
LEMMA WaitEnds ==
    ASSUME TypeInv, [Next]_poolVars, NEW c \in Clients,
           pc[c] \in {"wait_status", "wait_sem"}, pc'[c] \notin {"wait_status", "wait_sem"}
    PROVE  /\ WaitStatus(c) => tsk[ptsk[c]].status = "DONE"
           /\ WaitStatus(c) \/ WaitSem(c)
<1>0. /\ pc \in [Clients -> ClientPlaces]
      /\ Owner \in Clients /\ Enqueuers \subseteq Clients
      /\ Waiters \subseteq Clients /\ Getters \subseteq Clients /\ Poppers \subseteq Clients
  BY TypeParts, ClientsAssumption DEF ClientTyped
<1>1. WaitStatus(c) => tsk[ptsk[c]].status = "DONE"
  BY <1>0 DEF WaitStatus, Goto
<1> USE DEF Goto, lVars
<1>2. ASSUME NEW d \in Clients,
             \/ Start(d) \/ ShutdownLock(d) \/ OwnerStep(d)
             \/ EnqueueStatus(d) \/ EnqueueStep(d)
      PROVE  FALSE
  BY <1>0, <1>2 DEF Start, ShutdownLock, OwnerStep, ShutdownClose, ShutdownJoin, EnqueueStatus,
     EnqueueStep, NewIdLoad, NewIdStore, LockTable, EnqueueSem, EnqueueLocked, InsertTask
<1>3. ASSUME NEW d \in Clients, NEW call, NEW k, WaitLookup(d, call, k)
      PROVE  FALSE
  BY <1>0, <1>3 DEF WaitLookup
<1>4. ASSUME NEW d \in Clients, ResultStep(d)
      PROVE  WaitStatus(c) \/ WaitSem(c)
  BY <1>0, <1>4 DEF ResultStep, WaitStatus, WaitSem, WaitReturn, GetRes, PopRes
<1>5. ASSUME CtlStep
      PROVE  FALSE
  BY <1>5 DEF CtlStep, CtlDequeueCall, CtlDequeueSem, CtlDequeueElement, CtlDequeueClosed,
     CtlWaitFree, CtlScan, CtlAssign, CtlNotify, CtlShutdownFlag, CtlShutdownPost, CtlJoin
<1>6. ASSUME NEW w, WorkerStep(w)
      PROVE  FALSE
  BY <1>6 DEF WorkerStep, WorkerSem, WorkerExit, WorkerTake, WorkerRun, WorkerFree, WorkerDone,
     WorkerExitCode, WorkerSignal
<1>7. ASSUME OtherPool \/ Finished \/ UNCHANGED poolVars
      PROVE  FALSE
  BY <1>7 DEF OtherPool, OtherIdLoad, OtherIdStore, Finished, poolVars
<1> HIDE DEF Goto, lVars
<1> QED
  BY <1>0, <1>1, <1>2, <1>3, <1>4, <1>5, <1>6, <1>7 DEF Next

(***************************************************************************)
(* WaitIsDone: cs_wp_tsk_wait, which looks at the status of the task under *)
(* no lock and else takes a token of its semaphore, never returns to its   *)
(* caller before the task was run, however many clients wait for it.       *)
(***************************************************************************)
THEOREM WaitIsDone == Spec => WaitMeansDone
<1> DEFINE A == \A c \in Clients :
       pc[c] \in {"wait_status", "wait_sem"} /\ pc'[c] \notin {"wait_status", "wait_sem"}
          => runs[ptsk[c]] > 0 /\ tsk[ptsk[c]].status = "DONE"
<1>1. TypeInv /\ DispatchInv /\ WayInv /\ [Next]_poolVars => A
  <2> SUFFICES ASSUME TypeInv, DispatchInv, WayInv, [Next]_poolVars, NEW c \in Clients,
                      pc[c] \in {"wait_status", "wait_sem"},
                      pc'[c] \notin {"wait_status", "wait_sem"}
               PROVE  runs[ptsk[c]] > 0 /\ tsk[ptsk[c]].status = "DONE"
    OBVIOUS
  <2>1. ptsk[c] \in Tasks /\ TasksInv
    BY TypeParts DEF ClientTyped, HasTask, WayInv
  <2>2. CASE WaitStatus(c)
    BY <2>1, <2>2, WaitEnds, RunOnce
  <2>3. CASE WaitSem(c)
    <3>1. Complete(ptsk[c])
      BY <2>1, <2>3, TokenMeansComplete DEF WaitSem
    <3> QED
      BY <3>1 DEF Complete
  <2> QED
    BY <2>2, <2>3, WaitEnds
<1>2. WaitMeansDone <=> [][A]_poolVars
  BY DEF WaitMeansDone
<1> HIDE DEF A
<1> QED
  BY <1>1, <1>2, WayAlways, PTL DEF Spec

\* When the controller has ended, nothing is left to do and nobody left to do it.
LEMMA EndedMeansDone ==
    ASSUME TypeInv, DispatchInv, WayInv, cpc = "ended"
    PROVE  /\ status = "QCLOSED"
           /\ \A k \in Tasks : Occurs(accepted, k) => Complete(k)
           /\ \A w \in Workers : /\ wpc[w] = "exited" /\ wrk[w].sem = 0
                               /\ wrk[w].assigned = NULL /\ wtsk[w] = NULL
<1>1. status = "QCLOSED" /\ elems = <<>>
  BY DEF WayInv, QueueInv
<1>2. ASSUME NEW w \in Workers
      PROVE  /\ wpc[w] = "exited" /\ wrk[w].sem = 0
             /\ wrk[w].assigned = NULL /\ wtsk[w] = NULL
  <2>1. WorkerInv(w) /\ Stage(w) /\ wrk[w] \in WorkerRecord
    BY TypeParts DEF DispatchInv, WayInv, TasksInv, RecordTyped
  <2> QED
    BY <2>1 DEF WorkerInv, Stage, Busy, Armed, Due, Posted, B, WorkerRecord
<1>3. ASSUME NEW k \in Tasks, Occurs(accepted, k)
      PROVE  Complete(k)
  <2>1. Placed(k)
    BY DEF WayInv, TasksInv
  <2>2. /\ ~AtSomeWorker(k) /\ ~WithController(k) /\ ~Occurs(elems, k)
        /\ \A w \in Workers : wtsk[w] # k
    BY <1>1, <1>2, TasksAssumption DEF AtSomeWorker, AtWorker, WithController, Occurs
  <2>3. tsk[k].exit = "set"
    BY <1>3, <2>1, <2>2 DEF Placed
  <2> QED
    BY <2>1, <2>2, <2>3 DEF Placed, Untouched
<1> QED
  BY <1>1, <1>2, <1>3

\* Only the end of a shutdown makes the pool ready again.
LEMMA ReadyAgain ==
    ASSUME [Next]_poolVars, wpStatus = "WORKING", wpStatus' = "READY"
    PROVE  ShutdownJoin(Owner)
<1>1. ~UNCHANGED wpStatus
  OBVIOUS
<1>2. ~Start(Owner)
  BY DEF Start
<1>3. CtlStep => UNCHANGED wpStatus
  BY DEF CtlStep, CtlDequeueCall, CtlDequeueSem, CtlDequeueElement, CtlDequeueClosed,
         CtlWaitFree, CtlScan, CtlAssign, CtlNotify, CtlShutdownFlag, CtlShutdownPost,
         CtlJoin, pVars
<1>4. ASSUME NEW w \in Workers, WorkerStep(w)
      PROVE  UNCHANGED wpStatus
  BY <1>4 DEF WorkerStep, WorkerSem, WorkerExit, WorkerTake, WorkerRun, WorkerFree, WorkerDone,
     WorkerExitCode, WorkerSignal, pVars
<1> QED
  BY <1>1, <1>2, <1>3, <1>4, DispatchCases DEF dispatchVars

(***************************************************************************)
(* Drained: when cs_wp_shutdown returns, every task that the queue ever    *)
(* accepted has been run once and has its result, and every worker has     *)
(* ended with no token left in its semaphore, so that the pool can be      *)
(* started again.                                                          *)
(***************************************************************************)
THEOREM Drained == Spec => ShutdownDrains
<1> DEFINE A == wpStatus = "WORKING" /\ wpStatus' = "READY" =>
                   /\ \A i \in DOMAIN accepted :
                         runs[accepted[i]] = 1 /\ tsk[accepted[i]].exit = "set"
                   /\ \A w \in Workers : wpc[w] = "exited" /\ wrk[w].sem = 0
<1>1. TypeInv /\ DispatchInv /\ WayInv /\ [Next]_poolVars => A
  <2> SUFFICES ASSUME TypeInv, DispatchInv, WayInv, [Next]_poolVars,
                      wpStatus = "WORKING", wpStatus' = "READY"
               PROVE  /\ \A i \in DOMAIN accepted :
                            runs[accepted[i]] = 1 /\ tsk[accepted[i]].exit = "set"
                      /\ \A w \in Workers : wpc[w] = "exited" /\ wrk[w].sem = 0
    OBVIOUS
  <2>1. cpc = "ended"
    BY ReadyAgain DEF ShutdownJoin
  <2>2. \A w \in Workers : wpc[w] = "exited" /\ wrk[w].sem = 0
    BY <2>1, EndedMeansDone
  <2>3. ASSUME NEW i \in DOMAIN accepted
        PROVE  runs[accepted[i]] = 1 /\ tsk[accepted[i]].exit = "set"
    <3>1. accepted[i] \in Tasks /\ Occurs(accepted, accepted[i])
      <4>1. accepted \in Seq(Tasks)
        BY TypeParts DEF Queue!TypeOK
      <4> QED
        BY <4>1, LenProperties, ElementOfSeq DEF Occurs
    <3>2. Complete(accepted[i])
      BY <2>1, <3>1, EndedMeansDone
    <3> QED
      BY <3>2 DEF Complete
  <2> QED
    BY <2>2, <2>3
<1>2. ShutdownDrains <=> [][A]_poolVars
  BY DEF ShutdownDrains
<1> HIDE DEF A
<1> QED
  BY <1>1, <1>2, WayAlways, PTL DEF Spec

-----------------------------------------------------------------------------
(***************************************************************************)
(* The pool and its queue.  CsQueue bounds the elements ever accepted and  *)
(* the value of qsem; that the pool stays within these bounds is shown by  *)
(* counting: a task is accepted once, and each start allows one close.     *)
(***************************************************************************)
Running == wpStatus = "WORKING" /\ pc[Owner] # "sd_join"

CreditInv ==
    /\ nstarts <= MaxStarts
    /\ pc[Owner] \in {"sd_close", "sd_join"} => wpStatus = "WORKING"
    /\ qsem + B(Running) <= Len(accepted) + nstarts

\* As many different tasks are accepted as the sequence is long.
LEMMA AcceptedLength ==
    ASSUME NEW s \in Seq(Tasks), Distinct(s)
    PROVE  /\ Len(s) <= MaxTasks
           /\ \A k \in Tasks : ~Occurs(s, k) => Len(s) < MaxTasks
<1> DEFINE n == Len(s)
<1>1. /\ n \in Nat /\ s \in [1 .. n -> Tasks] /\ MaxTasks \in Nat
      /\ \A a, b \in 1 .. n : s[a] = s[b] => a = b
      /\ \A k \in Tasks : ~Occurs(s, k) => \A a \in 1 .. n : s[a] # k
  BY LenProperties, TasksAssumption DEF Distinct, Occurs
<1>2. \A m \in Nat : IsFiniteSet(1 .. m) /\ Cardinality(1 .. m) = m
  <2> SUFFICES ASSUME NEW m \in Nat PROVE IsFiniteSet(1 .. m) /\ Cardinality(1 .. m) = m
    OBVIOUS
  <2>1. IsFiniteSet(1 .. m) /\ Cardinality(1 .. m) = IF 1 > m THEN 0 ELSE m - 1 + 1
    BY FS_Interval
  <2> QED
    BY <2>1
<1>3. /\ IsFiniteSet(1 .. n) /\ Cardinality(1 .. n) = n
      /\ IsFiniteSet(Tasks) /\ Cardinality(Tasks) = MaxTasks
  BY <1>1, <1>2 DEF Tasks
<1> HIDE DEF n
<1>4. n <= MaxTasks
  <2>1. s \in Injection(1 .. n, Tasks)
    BY <1>1 DEF Injection, IsInjective
  <2> QED
    BY <1>3, <2>1, FS_Injection
<1>5. ASSUME NEW k \in Tasks, ~Occurs(s, k)
      PROVE  n < MaxTasks
  <2>1. \A a \in 1 .. n : s[a] \in Tasks \ {k}
    BY <1>1, <1>5
  <2>2. s \in [1 .. n -> Tasks \ {k}]
    BY <1>1, <2>1
  <2>3. s \in Injection(1 .. n, Tasks \ {k})
    BY <1>1, <2>2 DEF Injection, IsInjective
  <2>4. IsFiniteSet(Tasks \ {k}) /\ Cardinality(Tasks \ {k}) = MaxTasks - 1
    BY <1>3, <1>5, FS_RemoveElement
  <2>5. n <= MaxTasks - 1
    BY <1>3, <2>3, <2>4, FS_Injection
  <2> QED
    BY <1>1, <2>5
<1> QED
  BY <1>4, <1>5 DEF n

\* The arithmetic of the credit, once for every way a step can change it.
LEMMA CreditArithmetic ==
    ASSUME NEW q \in Nat, NEW q1 \in Nat, NEW r \in Nat, NEW r1 \in Nat,
           NEW l \in Nat, NEW s \in Nat, q + r <= l + s
    PROVE  /\ q1 <= q /\ r1 <= r => q1 + r1 <= l + s
           /\ q1 = q /\ r1 <= r + 1 => q1 + r1 <= l + (s + 1)
           /\ q1 = q + 1 /\ r = 1 /\ r1 = 0 => q1 + r1 <= l + s
           /\ q1 = q + 1 /\ r1 = r => q1 + r1 <= (l + 1) + s
OBVIOUS

\* What each step does to the fields that CreditInv counts.
LEMMA CreditCases ==
    ASSUME TypeInv, [Next]_poolVars
    PROVE  \/ /\ nstarts' = nstarts /\ wpStatus' = wpStatus /\ accepted' = accepted
              /\ qsem' <= qsem
              /\ pc'[Owner] \in {"sd_close", "sd_join"} <=> pc[Owner] \in {"sd_close", "sd_join"}
              /\ pc'[Owner] = "sd_join" <=> pc[Owner] = "sd_join"
           \/ nstarts < MaxStarts /\ Start(Owner)
           \/ ShutdownLock(Owner) \/ ShutdownClose(Owner) \/ ShutdownJoin(Owner)
           \/ \E c \in Clients : EnqueueLocked(c)
<1>0. /\ pc \in [Clients -> ClientPlaces] /\ qsem \in Nat
      /\ Owner \in Clients /\ Enqueuers \subseteq Clients
      /\ Waiters \subseteq Clients /\ Getters \subseteq Clients /\ Poppers \subseteq Clients
  BY TypeParts, ClientsAssumption DEF ClientTyped, Queue!TypeOK
<1> DEFINE Aside == /\ nstarts' = nstarts /\ wpStatus' = wpStatus /\ accepted' = accepted
                    /\ qsem' <= qsem
                    /\ pc'[Owner] \in {"sd_close", "sd_join"}
                          <=> pc[Owner] \in {"sd_close", "sd_join"}
                    /\ pc'[Owner] = "sd_join" <=> pc[Owner] = "sd_join"
<1> USE DEF Goto, pVars, qVars, lVars, Queue!queueState, Queue!history
<1>1. ASSUME NEW d \in Clients,
             \/ EnqueueStatus(d) \/ NewIdLoad(d) \/ NewIdStore(d) \/ LockTable(d)
             \/ EnqueueSem(d) \/ InsertTask(d)
      PROVE  Aside
  BY <1>0, <1>1 DEF EnqueueStatus, NewIdLoad, NewIdStore, LockTable, EnqueueSem, InsertTask,
     Queue!EnqueueCall, Queue!EnqueueSem
<1>2. ASSUME NEW d \in Clients, NEW call, NEW k, WaitLookup(d, call, k)
      PROVE  Aside
  BY <1>0, <1>2 DEF WaitLookup
<1>3. ASSUME NEW d \in Clients, ResultStep(d)
      PROVE  Aside
  BY <1>0, <1>3 DEF ResultStep, WaitStatus, WaitSem, WaitReturn, GetRes, PopRes
<1>4. ASSUME CtlStep
      PROVE  Aside
  <2>1. CASE CtlDequeueCall \/ CtlDequeueSem \/ CtlDequeueElement \/ CtlDequeueClosed
    BY <1>0, <2>1 DEF CtlDequeueCall, CtlDequeueSem, CtlDequeueElement, CtlDequeueClosed,
       Queue!DequeueCall, Queue!DequeueSem, Queue!DequeueElement, Queue!DequeueClosed
  <2>2. CASE ~(CtlDequeueCall \/ CtlDequeueSem \/ CtlDequeueElement \/ CtlDequeueClosed)
    BY <1>0, <1>4, <2>2 DEF CtlStep, CtlWaitFree, CtlScan, CtlAssign, CtlNotify,
       CtlShutdownFlag, CtlShutdownPost, CtlJoin
  <2> QED
    BY <2>1, <2>2
<1>5. ASSUME NEW w, WorkerStep(w)
      PROVE  Aside
  BY <1>0, <1>5 DEF WorkerStep, WorkerSem, WorkerExit, WorkerTake, WorkerRun, WorkerFree,
     WorkerDone, WorkerExitCode, WorkerSignal
<1>6. ASSUME OtherPool \/ Finished \/ UNCHANGED poolVars
      PROVE  Aside
  BY <1>0, <1>6 DEF OtherPool, OtherIdLoad, OtherIdStore, Finished, poolVars
<1> HIDE DEF Goto, pVars, qVars, lVars, Queue!queueState, Queue!history, Aside
<1>7. \/ Aside \/ (nstarts < MaxStarts /\ Start(Owner))
      \/ ShutdownLock(Owner) \/ ShutdownClose(Owner) \/ ShutdownJoin(Owner)
      \/ \E c \in Clients : EnqueueLocked(c)
  BY <1>0, <1>1, <1>2, <1>3, <1>4, <1>5, <1>6 DEF Next, OwnerStep, EnqueueStep
<1> QED
  BY <1>7 DEF Aside

LEMMA CreditStep ==
    ASSUME TypeInv, TypeInv', CreditInv, [Next]_poolVars
    PROVE  CreditInv'
<1> DEFINE n == Len(accepted)
           b == B(Running)
<1>0. /\ pc \in [Clients -> ClientPlaces] /\ Owner \in Clients
      /\ qsem \in Nat /\ qsem' \in Nat /\ nstarts \in Nat /\ MaxStarts \in Nat
      /\ accepted \in Seq(Tasks)
      /\ wpStatus \in {"READY", "WORKING"}
  <2>1. Queue!TypeOK /\ Queue!TypeOK'
    BY DEF TypeInv, TypeOK
  <2> QED
    BY <2>1, TypeParts, ClientsAssumption, TasksAssumption
       DEF ClientTyped, PoolTyped, Queue!TypeOK
<1>1. n \in Nat /\ n' \in Nat
  <2>1. accepted' \in Seq(Tasks)
    BY TypeInv' DEF TypeInv, TypeOK, Queue!TypeOK
  <2> QED
    BY <1>0, <2>1, LenProperties
<1>2. b \in Nat /\ b' \in Nat /\ b <= 1 /\ b' <= 1
  BY DEF B
<1>3. /\ nstarts <= MaxStarts
      /\ pc[Owner] \in {"sd_close", "sd_join"} => wpStatus = "WORKING"
      /\ qsem + b <= n + nstarts
  BY DEF CreditInv
<1>4. SUFFICES /\ nstarts' <= MaxStarts
               /\ pc'[Owner] \in {"sd_close", "sd_join"} => wpStatus' = "WORKING"
               /\ qsem' + b' <= n' + nstarts'
  BY DEF CreditInv
<1> HIDE DEF n, b
<1>a. /\ qsem' <= qsem /\ b' <= b => qsem' + b' <= n + nstarts
      /\ qsem' = qsem /\ b' <= b + 1 => qsem' + b' <= n + (nstarts + 1)
      /\ qsem' = qsem + 1 /\ b = 1 /\ b' = 0 => qsem' + b' <= n + nstarts
      /\ qsem' = qsem + 1 /\ b' = b => qsem' + b' <= (n + 1) + nstarts
  BY <1>0, <1>1, <1>2, <1>3, CreditArithmetic
<1>5. CASE /\ nstarts' = nstarts /\ wpStatus' = wpStatus /\ accepted' = accepted
           /\ qsem' <= qsem
           /\ pc'[Owner] \in {"sd_close", "sd_join"} <=> pc[Owner] \in {"sd_close", "sd_join"}
           /\ pc'[Owner] = "sd_join" <=> pc[Owner] = "sd_join"
  <2>1. b' = b /\ n' = n /\ nstarts' = nstarts /\ qsem' <= qsem
    BY <1>5 DEF Running, B, b, n
  <2>2. nstarts' <= MaxStarts /\ (pc'[Owner] \in {"sd_close", "sd_join"} => wpStatus' = "WORKING")
    BY <1>3, <1>5
  <2>3. b' <= b
    BY <1>2, <2>1
  <2>4. qsem' + b' <= n + nstarts
    BY <1>a, <2>1, <2>3
  <2> QED
    BY <2>1, <2>2, <2>4
<1>6. CASE nstarts < MaxStarts /\ Start(Owner)
  <2>1. /\ nstarts' = nstarts + 1 /\ accepted' = accepted /\ qsem' = qsem /\ pc' = pc
        /\ pc[Owner] = "idle" /\ wpStatus = "READY" /\ wpStatus' = "WORKING"
    BY <1>6 DEF Start, qVars, lVars
  <2>2. b = 0 /\ n' = n
    BY <2>1 DEF Running, B, b, n
  <2>3. nstarts' <= MaxStarts /\ (pc'[Owner] \in {"sd_close", "sd_join"} => wpStatus' = "WORKING")
    BY <1>0, <1>6, <2>1
  <2>4. b' <= b + 1
    BY <1>2, <2>2
  <2>5. qsem' + b' <= n + (nstarts + 1)
    BY <1>a, <2>1, <2>4
  <2> QED
    BY <2>1, <2>2, <2>3, <2>5
<1>7. CASE ShutdownLock(Owner)
  <2>1. /\ nstarts' = nstarts /\ accepted' = accepted /\ qsem' = qsem
        /\ pc[Owner] = "idle" /\ pc'[Owner] = "sd_close"
        /\ wpStatus = "WORKING" /\ wpStatus' = "WORKING"
    BY <1>0, <1>7 DEF ShutdownLock, Goto, qVars
  <2>2. b' = b /\ n' = n
    BY <2>1 DEF Running, B, b, n
  <2>3. qsem' <= qsem /\ b' <= b
    BY <1>0, <1>2, <2>1, <2>2
  <2>4. qsem' + b' <= n + nstarts
    BY <1>a, <2>3
  <2> QED
    BY <1>3, <2>1, <2>2, <2>4
<1>8. CASE ShutdownClose(Owner)
  <2>1. /\ nstarts' = nstarts /\ accepted' = accepted /\ qsem' = qsem + 1
        /\ pc[Owner] = "sd_close" /\ pc'[Owner] = "sd_join" /\ wpStatus' = wpStatus
    BY <1>0, <1>8 DEF ShutdownClose, Goto, pVars, Queue!Close, Queue!history
  <2>2. b = 1 /\ b' = 0 /\ n' = n
    BY <1>3, <2>1 DEF Running, B, b, n
  <2>3. qsem' + b' <= n + nstarts
    BY <1>a, <2>1, <2>2
  <2> QED
    BY <1>3, <2>1, <2>2, <2>3
<1>9. CASE ShutdownJoin(Owner)
  <2>1. /\ nstarts' = nstarts /\ accepted' = accepted /\ qsem' = qsem
        /\ pc'[Owner] = "idle" /\ wpStatus' = "READY"
    BY <1>0, <1>9 DEF ShutdownJoin, Goto, qVars
  <2>2. b' = 0 /\ n' = n
    BY <2>1 DEF Running, B, b, n
  <2>3. qsem' <= qsem /\ b' <= b
    BY <1>0, <1>2, <2>1, <2>2
  <2>4. qsem' + b' <= n + nstarts
    BY <1>a, <2>3
  <2> QED
    BY <1>3, <2>1, <2>2, <2>4
<1>10. CASE \E c \in Clients : EnqueueLocked(c)
  <2>1. PICK c \in Clients : EnqueueLocked(c)
    BY <1>10
  <2>2. /\ nstarts' = nstarts /\ wpStatus' = wpStatus
        /\ pc[c] = "enqueue" /\ pc' = [pc EXCEPT ![c] = "insert"]
        /\ \/ accepted' = accepted /\ qsem' = qsem
           \/ accepted' = Append(accepted, arg[c]) /\ qsem' = qsem + 1
    BY <2>1 DEF EnqueueLocked, Queue!EnqueueLocked, Goto, pVars
  <2>3. /\ pc'[Owner] \in {"sd_close", "sd_join"} <=> pc[Owner] \in {"sd_close", "sd_join"}
        /\ pc'[Owner] = "sd_join" <=> pc[Owner] = "sd_join"
    BY <1>0, <2>2
  <2>4. b' = b
    BY <2>2, <2>3 DEF Running, B, b, n
  <2>5. arg[c] \in Tasks
    BY <2>1, TypeParts DEF EnqueueLocked, Queue!EnqueueLocked, QueueCallsOK
  <2>6. (n' = n /\ qsem' = qsem) \/ (n' = n + 1 /\ qsem' = qsem + 1)
    BY <1>0, <2>2, <2>5, AppendProperties DEF n
  <2>7. qsem' + b' <= n' + nstarts
    <3>1. CASE n' = n /\ qsem' = qsem
      <4>1. qsem' <= qsem /\ b' <= b
        BY <1>0, <1>2, <2>4, <3>1
      <4> QED
        BY <1>a, <3>1, <4>1
    <3>2. CASE n' = n + 1 /\ qsem' = qsem + 1
      BY <1>a, <2>4, <3>2
    <3> QED
      BY <2>6, <3>1, <3>2
  <2> QED
    BY <1>3, <2>2, <2>3, <2>7
<1> QED
  BY <1>5, <1>6, <1>7, <1>8, <1>9, <1>10, CreditCases

(***************************************************************************)
(* QueueUsedRightly: every step of the pool is, for its queue, a step that *)
(* CsQueue has or no step at all, so that what is proved of CsQueue holds  *)
(* for the task queue of a pool.                                           *)
(***************************************************************************)
THEOREM QueueUsedRightly == Spec => UsesQueue
<1>1. Init => Queue!Init
  BY DEF Init
<1>2. Init => CreditInv
  <2> SUFFICES ASSUME Init PROVE CreditInv
    OBVIOUS
  <2>1. /\ nstarts = 0 /\ wpStatus = "READY" /\ qsem = 0 /\ accepted = <<>>
        /\ pc[Owner] = "idle" /\ Len(accepted) = 0 /\ MaxStarts \in Nat
    BY ClientsAssumption, TasksAssumption, EmptySeq DEF Init, Queue!Init
  <2> QED
    BY <2>1 DEF CreditInv, Running, B
<1>3. ASSUME TypeInv, WayInv, CreditInv, [Next]_poolVars
      PROVE  [Queue!Next]_(Queue!queueVars)
  <2>0. /\ Owner \in Clients /\ Enqueuers \subseteq Clients
        /\ accepted \in Seq(Tasks) /\ Distinct(accepted)
        /\ qsem \in Nat /\ MaxTasks \in Nat /\ MaxStarts \in Nat /\ nstarts \in Nat
    <3>1. Queue!TypeOK /\ PoolTyped /\ QueueInv
      BY <1>3, TypeParts DEF WayInv
    <3> QED
      BY <3>1, ClientsAssumption, TasksAssumption DEF Queue!TypeOK, PoolTyped, QueueInv
  <2>1. UNCHANGED qVars => UNCHANGED Queue!queueVars
    BY DEF qVars, Queue!queueVars
  <2>2. ASSUME NEW c \in Clients, LockTable(c)
        PROVE  Queue!Next
    <3>1. ptsk[c] \in Tasks /\ ~Occurs(accepted, ptsk[c]) /\ Queue!EnqueueCall(c, ptsk[c])
      <4>1. pc[c] = "lock_table" /\ Queue!EnqueueCall(c, ptsk[c])
        BY <2>2 DEF LockTable
      <4>2. ClientTyped /\ FreshInv
        BY <1>3, TypeParts DEF WayInv
      <4>3. ptsk[c] \in Tasks
        BY <4>1, <4>2 DEF ClientTyped, HasTask
      <4>4. ~Occurs(accepted, ptsk[c])
        BY <4>1, <4>2 DEF FreshInv, Fresh
      <4> QED
        BY <4>1, <4>3, <4>4
    <3>2. Len(accepted) < MaxTasks
      BY <2>0, <3>1, AcceptedLength
    <3> QED
      BY <3>1, <3>2 DEF Queue!Next
  <2>3. ASSUME NEW c \in Clients, EnqueueSem(c) \/ EnqueueLocked(c)
        PROVE  Queue!Next
    BY <2>3 DEF EnqueueSem, EnqueueLocked, Queue!Next, Queue!EnqueueStep
  <2>4. ASSUME CtlDequeueCall \/ CtlDequeueSem \/ CtlDequeueElement \/ CtlDequeueClosed
        PROVE  Queue!Next
    BY <2>4 DEF CtlDequeueCall, CtlDequeueSem, CtlDequeueElement, CtlDequeueClosed,
       Queue!Next, Queue!DequeueStep
  <2>5. ASSUME ShutdownClose(Owner)
        PROVE  Queue!Next
    <3>1. Queue!Close(Owner) /\ pc[Owner] = "sd_close"
      BY <2>5 DEF ShutdownClose
    <3>2. qsem + 1 <= Len(accepted) + nstarts /\ nstarts <= MaxStarts
      <4>1. B(Running) = 1
        BY <1>3, <3>1 DEF CreditInv, Running, B
      <4> QED
        BY <1>3, <4>1 DEF CreditInv
    <3>3. Len(accepted) \in Nat /\ Len(accepted) <= MaxTasks
      BY <2>0, AcceptedLength, LenProperties
    <3>4. qsem < MaxTasks + MaxStarts
      BY <2>0, <3>2, <3>3
    <3> QED
      BY <3>1, <3>4 DEF Queue!Next
  <2>6. ASSUME NEW c, \/ Start(c) \/ ShutdownLock(c) \/ ShutdownJoin(c) \/ EnqueueStatus(c)
                      \/ NewIdLoad(c) \/ NewIdStore(c) \/ InsertTask(c) \/ ResultStep(c)
        PROVE  UNCHANGED qVars
    BY <2>6 DEF Start, ShutdownLock, ShutdownJoin, EnqueueStatus, NewIdLoad, NewIdStore,
       InsertTask, ResultStep, WaitStatus, WaitSem, GetRes, PopRes
  <2>7. ASSUME NEW c, NEW call, NEW k, WaitLookup(c, call, k)
        PROVE  UNCHANGED qVars
    BY <2>7 DEF WaitLookup
  <2>8. ASSUME \/ CtlWaitFree \/ CtlScan \/ CtlAssign \/ CtlNotify
               \/ CtlShutdownFlag \/ CtlShutdownPost \/ CtlJoin
        PROVE  UNCHANGED qVars
    BY <2>8 DEF CtlWaitFree, CtlScan, CtlAssign, CtlNotify, CtlShutdownFlag, CtlShutdownPost,
       CtlJoin
  <2>9. ASSUME NEW w, WorkerStep(w)
        PROVE  UNCHANGED qVars
    BY <2>9 DEF WorkerStep, WorkerSem, WorkerExit, WorkerTake, WorkerRun, WorkerFree,
       WorkerDone, WorkerExitCode, WorkerSignal
  <2>10. ASSUME OtherPool \/ Finished \/ UNCHANGED poolVars
         PROVE  UNCHANGED qVars
    BY <2>10 DEF OtherPool, OtherIdLoad, OtherIdStore, Finished, poolVars
  <2> QED
    BY <1>3, <2>0, <2>1, <2>2, <2>3, <2>4, <2>5, <2>6, <2>7, <2>8, <2>9, <2>10
       DEF Next, OwnerStep, EnqueueStep, CtlStep
<1>4. CreditInv /\ TypeInv /\ TypeInv' /\ [Next]_poolVars => CreditInv'
  BY CreditStep
<1>5. UsesQueue <=> Queue!Init /\ [][Queue!Next]_(Queue!queueVars)
  BY DEF UsesQueue, Queue!Spec
<1> QED
  BY <1>1, <1>2, <1>3, <1>4, <1>5, WayAlways, PTL DEF Spec

-----------------------------------------------------------------------------
(***************************************************************************)
(* What is proved of CsQueue, for the threads and the bounds of a pool.    *)
(***************************************************************************)
QueueProofs == INSTANCE CsQueueProofs WITH
    Producers <- Clients, Consumers <- {Ctl}, Closers <- {Owner},
    Blocking <- Clients \cup {Ctl}, Data <- Tasks, Capacity <- QueueSize,
    MaxEnqueued <- MaxTasks, MaxQsem <- MaxTasks + MaxStarts

\* A pool meets what CsQueue assumes of its constants.
LEMMA QueueAssumptions ==
    /\ NULL \notin Tasks \cup {OK, QUEUE_FULL, NONE}
    /\ QueueSize \in Nat
    /\ Clients \cup {Ctl} \subseteq QueueProofs!Threads
    /\ QueueProofs!IsFiniteSet(QueueProofs!Threads)
<1>1. IsFiniteSet(Clients \cup {Ctl}) /\ IsFiniteSet((Clients \cup {Ctl}) \cup {Owner})
  BY ClientsAssumption, FS_AddElement
<1>2. QueueProofs!Threads = (Clients \cup {Ctl}) \cup {Owner}
  BY DEF QueueProofs!Threads
<1>3. QueueProofs!IsFiniteSet(QueueProofs!Threads)
  BY <1>1, <1>2 DEF IsFiniteSet, QueueProofs!IsFiniteSet
<1> QED
  BY <1>2, <1>3, TasksAssumption

\* A behaviour of the pool's queue is one of which CsQueueProofs speaks.
LEMMA QueueIsInstance == Queue!Spec => QueueProofs!Spec
<1>1. Queue!Init => QueueProofs!Init
  BY DEF Queue!Init, QueueProofs!Init, Queue!Threads, QueueProofs!Threads
<1>2. [Queue!Next]_(Queue!queueVars) => [QueueProofs!Next]_(QueueProofs!queueVars)
  BY DEF Queue!Next, QueueProofs!Next, Queue!queueVars, QueueProofs!queueVars,
     Queue!EnqueueStep, QueueProofs!EnqueueStep, Queue!DequeueStep, QueueProofs!DequeueStep,
     Queue!EnqueueCall, QueueProofs!EnqueueCall, Queue!EnqueueSem, QueueProofs!EnqueueSem,
     Queue!EnqueueFull, QueueProofs!EnqueueFull, Queue!EnqueueLocked, QueueProofs!EnqueueLocked,
     Queue!DequeueCall, QueueProofs!DequeueCall, Queue!DequeueSem, QueueProofs!DequeueSem,
     Queue!DequeueEmpty, QueueProofs!DequeueEmpty, Queue!DequeueClosed, QueueProofs!DequeueClosed,
     Queue!DequeueElement, QueueProofs!DequeueElement, Queue!Close, QueueProofs!Close,
     Queue!Goto, QueueProofs!Goto, Queue!Return, QueueProofs!Return,
     Queue!queueState, QueueProofs!queueState, Queue!history, QueueProofs!history
<1> QED
  BY <1>1, <1>2, PTL DEF Queue!Spec, QueueProofs!Spec

(***************************************************************************)
(* The task queue of a pool keeps the tasks in the order in which they     *)
(* were accepted and hands each out once, and neither of the assertions in *)
(* cs_queue_dequeue fails when the controller calls it.                    *)
(***************************************************************************)
THEOREM QueueOfThePool ==
    Spec => [](Queue!FifoExactlyOnce /\ Queue!HeadAssert /\ Queue!SizeIsSem)
<1>1. QueueProofs!Spec => []QueueProofs!FifoExactlyOnce
  BY QueueAssumptions, QueueProofs!FifoOrder
<1>2. QueueProofs!Spec => []QueueProofs!HeadAssert
  BY QueueAssumptions, QueueProofs!HeadAssertHolds
<1>3. QueueProofs!Spec => []QueueProofs!SizeIsSem
  <2>1. \A c1, c2 \in {Ctl} : c1 = c2
    OBVIOUS
  <2> QED
    BY <2>1, QueueAssumptions, QueueProofs!SizeAssertHolds
<1>4. /\ QueueProofs!FifoExactlyOnce => Queue!FifoExactlyOnce
      /\ QueueProofs!HeadAssert => Queue!HeadAssert
      /\ QueueProofs!SizeIsSem => Queue!SizeIsSem
  BY DEF Queue!FifoExactlyOnce, QueueProofs!FifoExactlyOnce, Queue!HeadAssert,
     QueueProofs!HeadAssert, Queue!SizeIsSem, QueueProofs!SizeIsSem,
     Queue!Threads, QueueProofs!Threads, Queue!size, QueueProofs!size
<1> QED
  BY <1>1, <1>2, <1>3, <1>4, QueueIsInstance, QueueUsedRightly, PTL DEF UsesQueue

(***************************************************************************)
(* To its clients the task queue of a pool is the bounded buffer of        *)
(* BoundedFifo.                                                            *)
(***************************************************************************)
THEOREM QueueIsFifo == Spec => Queue!ImplementsFifo
<1>1. QueueProofs!Spec => QueueProofs!ImplementsFifo
  BY QueueAssumptions, QueueProofs!Refinement
<1>2. QueueProofs!Fifo!Init => Queue!Fifo!Init
  BY DEF Queue!Fifo!Init, QueueProofs!Fifo!Init
<1>3. [QueueProofs!Fifo!Next]_(QueueProofs!Fifo!fifoVars)
         => [Queue!Fifo!Next]_(Queue!Fifo!fifoVars)
  BY DEF Queue!Fifo!Next, QueueProofs!Fifo!Next, Queue!Fifo!fifoVars, QueueProofs!Fifo!fifoVars,
     Queue!Fifo!Put, QueueProofs!Fifo!Put, Queue!Fifo!Get, QueueProofs!Fifo!Get,
     Queue!Fifo!Close, QueueProofs!Fifo!Close
<1> QED
  BY <1>1, <1>2, <1>3, QueueIsInstance, QueueUsedRightly, PTL
     DEF UsesQueue, Queue!ImplementsFifo, QueueProofs!ImplementsFifo,
         Queue!Fifo!Spec, QueueProofs!Fifo!Spec

-----------------------------------------------------------------------------
(***************************************************************************)
(* When a pool comes to rest.  A client is inside cs_queue_enqueue, and    *)
(* the controller inside cs_queue_dequeue, exactly when the pool's code    *)
(* called it, and a client keeps table_mutex from that call to the         *)
(* insertion of its task (CallsInv).  In an open queue a client knows only *)
(* tasks that the queue has accepted (KnownInv).  From the close to the    *)
(* end of the controller's loop there is a token of qsem to spare          *)
(* (TokenInv).  A task that is complete and given up by its worker has a   *)
(* token for the thread that still waits for it (SignalInv).               *)
(***************************************************************************)
Askers  == Waiters \cup Getters \cup Poppers
Looping == {"dequeue", "dequeuing", "wait_free", "scan", "assign", "notify"}

CallsInv ==
    /\ \A c \in Clients : pc[c] = "enqueue" <=> qpc[c] \in {"enq_sem", "enq_cs"}
    /\ \A c \in Clients : pc[c] # "enqueue" <=> qpc[c] = "out"
    /\ cpc = "dequeuing" <=> qpc[Ctl] \in {"deq_sem", "deq_cs"}
    /\ cpc # "dequeuing" <=> qpc[Ctl] = "out"
    /\ \A c \in Clients : pc[c] \in {"enqueue", "insert"} <=> tableMutex = c
    /\ \A c \in Clients : pc[c] \in {"sd_close", "sd_join"} => c = Owner
    /\ \A c \in Clients : pc[c] \in {"wait_status", "wait_sem", "result"} => c \in Askers

KnownInv ==
    status = "QOPENED" =>
        /\ \A k \in table : Occurs(accepted, k)
        /\ \A c \in Clients :
              pc[c] \in {"insert", "wait_status", "wait_sem"} => Occurs(accepted, ptsk[c])

TokenInv ==
    qsem + B(qpc[Ctl] = "deq_cs") >= Len(elems) + B(pc[Owner] = "sd_join" /\ cpc \in Looping)

GivenUp(k) == tsk[k].exit = "set" /\ \A w \in Workers : wtsk[w] # k

SignalInv ==
    \A c \in Clients : pc[c] = "wait_sem" /\ GivenUp(ptsk[c]) => tsk[ptsk[c]].sem > 0

RestInv == CallsInv /\ KnownInv /\ TokenInv

LEMMA ThreadTypes ==
    ASSUME TypeInv
    PROVE  /\ pc \in [Clients -> ClientPlaces] /\ ptsk \in [Clients -> Tasks \cup {NULL}]
           /\ qpc \in [Clients \cup {Ctl} -> Queue!Places]
           /\ tableMutex \in Clients \cup {NULL} /\ NULL \notin Clients
           /\ Ctl \notin Clients /\ Owner \in Clients /\ Enqueuers \subseteq Clients
           /\ Waiters \subseteq Clients /\ Getters \subseteq Clients /\ Poppers \subseteq Clients
<1>1. Clients \cup {Ctl} = Queue!Threads
  BY ClientsAssumption DEF Queue!Threads
<1> QED
  BY <1>1, TypeParts, ClientsAssumption, TasksAssumption
     DEF ClientTyped, PoolTyped, Queue!TypeOK, TypeInv, TypeOK

\* Each call of the queue's functions begins and ends where the pool calls it.
LEMMA CallsStep ==
    ASSUME TypeInv, DispatchInv, CallsInv, [Next]_poolVars
    PROVE  CallsInv'
<1>0. /\ pc \in [Clients -> ClientPlaces] /\ qpc \in [Clients \cup {Ctl} -> Queue!Places]
      /\ tableMutex \in Clients \cup {NULL} /\ NULL \notin Clients
      /\ Ctl \notin Clients /\ Owner \in Clients /\ Enqueuers \subseteq Clients
      /\ Waiters \subseteq Clients /\ Getters \subseteq Clients /\ Poppers \subseteq Clients
  BY ThreadTypes
<1> DEFINE Aside == /\ qpc' = qpc /\ tableMutex' = tableMutex
                    /\ cpc' = "dequeuing" <=> cpc = "dequeuing"
                    /\ \A c \in Clients :
                          \/ pc'[c] = pc[c]
                          \/ /\ pc[c] \notin {"enqueue", "insert"}
                             /\ pc'[c] \notin {"enqueue", "insert"}
                             /\ pc'[c] \in {"sd_close", "sd_join"} => c = Owner
                             /\ pc'[c] \in {"wait_status", "wait_sem", "result"} => c \in Askers
<1>a. Aside => CallsInv'
  BY <1>0 DEF CallsInv
<1> USE DEF Goto, qVars, pVars, tVars, cVars, lVars
<1>1. ASSUME ShutdownLock(Owner) \/ ShutdownClose(Owner) \/ ShutdownJoin(Owner)
      PROVE  Aside
  BY <1>0, <1>1 DEF ShutdownLock, ShutdownClose, ShutdownJoin, Queue!Close
<1>2. ASSUME NEW d \in Clients, EnqueueStatus(d) \/ NewIdLoad(d) \/ NewIdStore(d)
      PROVE  Aside
  BY <1>0, <1>2 DEF EnqueueStatus, NewIdLoad, NewIdStore
<1>3. ASSUME NEW d \in Askers, NEW call, NEW k, WaitLookup(d, call, k)
      PROVE  Aside
  BY <1>0, <1>3 DEF WaitLookup, Askers
<1>4. ASSUME NEW d \in Clients, ResultStep(d)
      PROVE  Aside
  <2>1. d \in Askers /\ pc[d] \in {"wait_status", "wait_sem", "result"}
    BY <1>4 DEF CallsInv, ResultStep, WaitStatus, WaitSem, GetRes, PopRes
  <2> QED
    BY <1>0, <1>4, <2>1 DEF ResultStep, WaitStatus, WaitSem, WaitReturn, GetRes, PopRes
<1>5. ASSUME \/ CtlWaitFree \/ CtlScan \/ CtlAssign \/ CtlNotify
             \/ CtlShutdownFlag \/ CtlShutdownPost \/ CtlJoin
      PROVE  Aside
  BY <1>0, <1>5 DEF CtlWaitFree, CtlScan, CtlAssign, CtlNotify, CtlShutdownFlag,
     CtlShutdownPost, CtlJoin
<1>6. ASSUME NEW w, WorkerStep(w)
      PROVE  Aside
  BY <1>6 DEF WorkerStep, WorkerSem, WorkerExit, WorkerTake, WorkerRun, WorkerFree, WorkerDone,
     WorkerExitCode, WorkerSignal
<1>7. ASSUME OtherPool \/ Finished \/ UNCHANGED poolVars
      PROVE  Aside
  BY <1>7 DEF OtherPool, OtherIdLoad, OtherIdStore, Finished, poolVars
<1> HIDE DEF Aside
<1>8. ASSUME NEW d \in Clients, LockTable(d) \/ InsertTask(d)
      PROVE  CallsInv'
  <2>1. CASE LockTable(d)
    BY <1>0, <2>1 DEF LockTable, Queue!EnqueueCall, Queue!Goto, CallsInv
  <2>2. CASE InsertTask(d)
    BY <1>0, <2>2 DEF InsertTask, CallsInv
  <2> QED
    BY <1>8, <2>1, <2>2
<1>9. ASSUME NEW d \in Clients, EnqueueSem(d) \/ EnqueueLocked(d)
      PROVE  CallsInv'
  <2>1. CASE EnqueueSem(d)
    BY <1>0, <2>1 DEF EnqueueSem, Queue!EnqueueSem, Queue!Goto, CallsInv
  <2>2. CASE EnqueueLocked(d)
    BY <1>0, <2>2 DEF EnqueueLocked, Queue!EnqueueLocked, Queue!Return, Queue!Goto, CallsInv
  <2> QED
    BY <1>9, <2>1, <2>2
<1>10. ASSUME CtlDequeueCall \/ CtlDequeueSem \/ CtlDequeueElement \/ CtlDequeueClosed
       PROVE  CallsInv'
  <2> USE DEF Queue!Return, Queue!Goto, CallsInv
  <2>1. CASE CtlDequeueCall
    BY <1>0, <2>1 DEF CtlDequeueCall, Queue!DequeueCall
  <2>2. CASE CtlDequeueSem
    BY <1>0, <2>2 DEF CtlDequeueSem, Queue!DequeueSem
  <2>3. CASE CtlDequeueElement
    BY <1>0, <2>3 DEF CtlDequeueElement, Queue!DequeueElement
  <2>4. CASE CtlDequeueClosed
    BY <1>0, <2>4 DEF CtlDequeueClosed, Queue!DequeueClosed
  <2> QED
    BY <1>10, <2>1, <2>2, <2>3, <2>4
<1>11. ASSUME Start(Owner)
       PROVE  CallsInv'
  <2>1. cpc \in {"none", "ended"} /\ cpc' = "dequeue"
    BY <1>11 DEF Start, DispatchInv, CtlInv
  <2> QED
    BY <1>11, <2>1 DEF Start, CallsInv
<1> HIDE DEF Goto, qVars, pVars, tVars, cVars, lVars
<1> QED
  BY <1>0, <1>a, <1>1, <1>2, <1>3, <1>4, <1>5, <1>6, <1>7, <1>8, <1>9, <1>10, <1>11
     DEF Next, OwnerStep, EnqueueStep, CtlStep, Askers

\* In an open queue whatever a client knows of was accepted.
LEMMA KnownStep ==
    ASSUME TypeInv, DispatchInv, WayInv, KnownInv, [Next]_poolVars
    PROVE  KnownInv'
<1>0. /\ pc \in [Clients -> ClientPlaces] /\ ptsk \in [Clients -> Tasks \cup {NULL}]
      /\ status \in {"QOPENED", "QCLOSED"}
      /\ Owner \in Clients /\ Enqueuers \subseteq Clients
      /\ Waiters \subseteq Clients /\ Getters \subseteq Clients /\ Poppers \subseteq Clients
  BY ThreadTypes, TypeParts DEF Queue!TypeOK
<1> DEFINE Known(c) == pc[c] \in {"insert", "wait_status", "wait_sem"}
           Aside == /\ accepted' = accepted
                    /\ status' = "QOPENED" => status = "QOPENED"
                    /\ table' \subseteq table
                    /\ \A c \in Clients : Known(c)' => Known(c) /\ ptsk'[c] = ptsk[c]
<1>a. Aside => KnownInv'
  BY DEF KnownInv, Occurs
<1> USE DEF Goto, qVars, pVars, tVars, cVars, lVars, Queue!queueState, Queue!history
<1>1. ASSUME \/ Start(Owner)
             \/ ShutdownLock(Owner) \/ ShutdownClose(Owner) \/ ShutdownJoin(Owner)
      PROVE  Aside
  BY <1>0, <1>1 DEF Start, ShutdownLock, ShutdownClose, ShutdownJoin, Queue!Close
<1>2. ASSUME NEW d \in Clients,
             \/ EnqueueStatus(d) \/ NewIdLoad(d) \/ NewIdStore(d) \/ LockTable(d) \/ EnqueueSem(d)
      PROVE  Aside
  BY <1>0, <1>2 DEF EnqueueStatus, NewIdLoad, NewIdStore, LockTable, EnqueueSem,
     Queue!EnqueueCall, Queue!EnqueueSem
<1>3. ASSUME NEW d \in Clients, ResultStep(d)
      PROVE  Aside
  BY <1>0, <1>3 DEF ResultStep, WaitStatus, WaitSem, WaitReturn, GetRes, PopRes
<1>4. ASSUME CtlStep
      PROVE  Aside
  <2>1. CASE CtlDequeueCall \/ CtlDequeueSem \/ CtlDequeueElement \/ CtlDequeueClosed
    BY <2>1 DEF CtlDequeueCall, CtlDequeueSem, CtlDequeueElement, CtlDequeueClosed,
       Queue!DequeueCall, Queue!DequeueSem, Queue!DequeueElement, Queue!DequeueClosed
  <2>2. CASE ~(CtlDequeueCall \/ CtlDequeueSem \/ CtlDequeueElement \/ CtlDequeueClosed)
    BY <1>4, <2>2 DEF CtlStep, CtlWaitFree, CtlScan, CtlAssign, CtlNotify, CtlShutdownFlag,
       CtlShutdownPost, CtlJoin
  <2> QED
    BY <2>1, <2>2
<1>5. ASSUME NEW w, WorkerStep(w)
      PROVE  Aside
  BY <1>5 DEF WorkerStep, WorkerSem, WorkerExit, WorkerTake, WorkerRun, WorkerFree, WorkerDone,
     WorkerExitCode, WorkerSignal
<1>6. ASSUME OtherPool \/ Finished \/ UNCHANGED poolVars
      PROVE  Aside
  BY <1>6 DEF OtherPool, OtherIdLoad, OtherIdStore, Finished, poolVars
<1> HIDE DEF Aside
<1>7. ASSUME NEW d \in Clients, EnqueueLocked(d)
      PROVE  KnownInv'
  <2>1. FreshInv /\ WayInv
    BY DEF WayInv
  <2>2. /\ UNCHANGED <<status, table, ptsk>> /\ pc' = [pc EXCEPT ![d] = "insert"]
        /\ status = "QOPENED" =>
              \A k : Occurs(accepted, k)' <=> Occurs(accepted, k) \/ k = ptsk[d]
    BY <1>7, <2>1, EnqueueEffect
  <2> QED
    BY <1>0, <2>2 DEF KnownInv
<1>8. ASSUME NEW d \in Clients, InsertTask(d)
      PROVE  KnownInv'
  BY <1>0, <1>8 DEF InsertTask, KnownInv, Occurs
<1>9. ASSUME NEW d \in Clients, NEW call, NEW k, WaitLookup(d, call, k)
      PROVE  KnownInv'
  <2>1. \A j \in SameId(k) : j \in table
    BY DEF SameId
  <2>2. UNCHANGED <<status, accepted, table>>
    BY <1>9 DEF WaitLookup
  <2>3. \A c \in Clients : Known(c)' => \/ Known(c) /\ ptsk'[c] = ptsk[c]
                                       \/ ptsk'[c] \in table
    BY <1>0, <1>9, <2>1 DEF WaitLookup
  <2> QED
    BY <2>2, <2>3 DEF KnownInv, Occurs
<1> HIDE DEF Goto, qVars, pVars, tVars, cVars, lVars, Queue!queueState, Queue!history
<1> QED
  BY <1>0, <1>a, <1>1, <1>2, <1>3, <1>4, <1>5, <1>6, <1>7, <1>8, <1>9
     DEF Next, OwnerStep, EnqueueStep

\* The arithmetic of the tokens, once for every way a step can change them.
LEMMA TokenArithmetic ==
    ASSUME NEW q \in Nat, NEW q1 \in Nat, NEW n \in Nat, NEW n1 \in Nat,
           NEW d \in Nat, NEW d1 \in Nat, NEW s \in Nat, NEW s1 \in Nat, q + d >= n + s
    PROVE  /\ q1 + d1 = q + d /\ n1 = n /\ s1 <= s => q1 + d1 >= n1 + s1
           /\ q1 = q + 1 /\ d1 = d /\ n1 = n + 1 /\ s1 <= s => q1 + d1 >= n1 + s1
           /\ q1 = q + 1 /\ d1 = d /\ n1 = n /\ s = 0 /\ s1 <= 1 => q1 + d1 >= n1 + s1
OBVIOUS

\* The token that the close adds is there until the controller leaves its loop.
LEMMA TokenStep ==
    ASSUME TypeInv, TypeInv', DispatchInv, CallsInv, TokenInv, [Next]_poolVars
    PROVE  TokenInv'
<1> DEFINE n == Len(elems)
           d == B(qpc[Ctl] = "deq_cs")
           s == B(pc[Owner] = "sd_join" /\ cpc \in Looping)
<1>0. /\ pc \in [Clients -> ClientPlaces] /\ qpc \in [Clients \cup {Ctl} -> Queue!Places]
      /\ Ctl \notin Clients /\ Owner \in Clients /\ Enqueuers \subseteq Clients
      /\ Waiters \subseteq Clients /\ Getters \subseteq Clients /\ Poppers \subseteq Clients
  BY ThreadTypes
<1>1. elems \in Seq(Tasks) /\ elems' \in Seq(Tasks) /\ qsem \in Nat /\ qsem' \in Nat
  BY DEF TypeInv, TypeOK, Queue!TypeOK
<1>2. /\ n \in Nat /\ n' \in Nat /\ d \in Nat /\ d' \in Nat /\ s \in Nat /\ s' \in Nat
      /\ s' <= 1
  BY <1>1, LenProperties DEF B
<1>3. qsem + d >= n + s
  BY DEF TokenInv
<1>4. SUFFICES qsem' + d' >= n' + s'
  BY DEF TokenInv
<1> DEFINE Aside == qsem' + d' = qsem + d /\ n' = n /\ s' <= s
<1> HIDE DEF Aside, n, d, s
<1>c1. qsem' + d' = qsem + d /\ n' = n /\ s' <= s => qsem' + d' >= n' + s'
  BY <1>1, <1>2, <1>3, TokenArithmetic
<1>c2. qsem' = qsem + 1 /\ d' = d /\ n' = n + 1 /\ s' <= s => qsem' + d' >= n' + s'
  BY <1>1, <1>2, <1>3, TokenArithmetic
<1>c3. qsem' = qsem + 1 /\ d' = d /\ n' = n /\ s = 0 /\ s' <= 1 => qsem' + d' >= n' + s'
  BY <1>1, <1>2, <1>3, TokenArithmetic
<1>c4. n' = 0 /\ s' = 0 => qsem' + d' >= n' + s'
  <2>1. \A x, y \in Nat : x + y >= 0 + 0
    OBVIOUS
  <2> QED
    BY <1>1, <1>2, <2>1, Zenon
<1>a. Aside => qsem' + d' >= n' + s'
  BY <1>c1 DEF Aside
<1>b. ASSUME UNCHANGED <<elems, qsem>>, qpc'[Ctl] = qpc[Ctl],
             pc'[Owner] = "sd_join" /\ cpc' \in Looping => pc[Owner] = "sd_join" /\ cpc \in Looping
      PROVE  Aside
  BY <1>1, <1>2, <1>b DEF B, Aside, n, d, s
<1> USE DEF Goto, qVars, pVars, tVars, cVars, lVars, Queue!queueState, Queue!history
<1>5. ASSUME Start(Owner) \/ ShutdownLock(Owner) \/ ShutdownJoin(Owner)
      PROVE  Aside
  BY <1>0, <1>b, <1>5 DEF Start, ShutdownLock, ShutdownJoin
<1>6. ASSUME NEW c \in Clients,
             \/ EnqueueStatus(c) \/ NewIdLoad(c) \/ NewIdStore(c) \/ LockTable(c) \/ EnqueueSem(c)
             \/ InsertTask(c)
      PROVE  Aside
  BY <1>0, <1>b, <1>6 DEF EnqueueStatus, NewIdLoad, NewIdStore, LockTable, EnqueueSem, InsertTask,
     Queue!EnqueueCall, Queue!EnqueueSem, Queue!Goto
<1>7. ASSUME NEW c \in Clients, NEW call, NEW k, WaitLookup(c, call, k)
      PROVE  Aside
  BY <1>0, <1>b, <1>7 DEF WaitLookup
<1>8. ASSUME NEW c \in Clients, ResultStep(c)
      PROVE  Aside
  BY <1>0, <1>b, <1>8 DEF ResultStep, WaitStatus, WaitSem, WaitReturn, GetRes, PopRes
<1>9. ASSUME \/ CtlWaitFree \/ CtlScan \/ CtlAssign \/ CtlNotify
             \/ CtlShutdownFlag \/ CtlShutdownPost \/ CtlJoin
      PROVE  Aside
  BY <1>b, <1>9 DEF CtlWaitFree, CtlScan, CtlAssign, CtlNotify, CtlShutdownFlag, CtlShutdownPost,
     CtlJoin, Looping
<1>10. ASSUME NEW w, WorkerStep(w)
       PROVE  Aside
  BY <1>b, <1>10 DEF WorkerStep, WorkerSem, WorkerExit, WorkerTake, WorkerRun, WorkerFree,
     WorkerDone, WorkerExitCode, WorkerSignal
<1>11. ASSUME OtherPool \/ Finished \/ UNCHANGED poolVars
       PROVE  Aside
  BY <1>b, <1>11 DEF OtherPool, OtherIdLoad, OtherIdStore, Finished, poolVars
<1>12. ASSUME CtlDequeueCall \/ CtlDequeueSem \/ CtlDequeueElement \/ CtlDequeueClosed
       PROVE  qsem' + d' >= n' + s'
  <2>1. CASE CtlDequeueCall
    <3>1. UNCHANGED <<elems, qsem, pc>> /\ cpc = "dequeue" /\ cpc' = "dequeuing"
      BY <2>1 DEF CtlDequeueCall, Queue!DequeueCall
    <3>2. qpc[Ctl] = "out" /\ qpc'[Ctl] = "deq_sem"
      BY <1>0, <2>1 DEF CtlDequeueCall, Queue!DequeueCall, Queue!Goto
    <3>3. d' = 0 /\ d = 0 /\ n' = n /\ s' = s
      BY <3>1, <3>2 DEF d, n, s, B, Looping
    <3> QED
      BY <1>1, <1>2, <1>3, <3>1, <3>3
  <2>2. CASE CtlDequeueSem
    <3>1. UNCHANGED <<elems, pc, cpc>> /\ qsem' = qsem - 1
      BY <2>2 DEF CtlDequeueSem, Queue!DequeueSem
    <3>2. qpc[Ctl] = "deq_sem" /\ qpc'[Ctl] = "deq_cs"
      BY <1>0, <2>2 DEF CtlDequeueSem, Queue!DequeueSem, Queue!Goto
    <3>3. d' = 1 /\ d = 0 /\ n' = n /\ s' = s
      BY <3>1, <3>2 DEF d, n, s, B
    <3> QED
      BY <1>1, <1>2, <1>3, <3>1, <3>3
  <2>3. CASE CtlDequeueElement
    <3>1. /\ elems # <<>> /\ elems' = Tail(elems) /\ qsem' = qsem /\ pc' = pc
          /\ cpc = "dequeuing" /\ cpc' = "wait_free"
      BY <2>3 DEF CtlDequeueElement, Queue!DequeueElement
    <3>2. qpc[Ctl] = "deq_cs" /\ qpc'[Ctl] = "out"
      BY <1>0, <2>3 DEF CtlDequeueElement, Queue!DequeueElement, Queue!Return, Queue!Goto
    <3>3. d' = 0 /\ d = 1 /\ s' = s
      BY <3>1, <3>2 DEF d, s, B, Looping
    <3>4. n' = n - 1
      BY <1>1, <3>1, EmptySeq, HeadTailProperties, LenProperties DEF n
    <3> QED
      BY <1>1, <1>2, <1>3, <3>1, <3>3, <3>4
  <2>4. CASE CtlDequeueClosed
    <3>1. elems' = <<>> /\ qsem' = qsem /\ cpc' = "sd_flag"
      BY <2>4 DEF CtlDequeueClosed, Queue!DequeueClosed
    <3>2. s' = 0
      BY <3>1 DEF s, B, Looping
    <3>3. n' = 0
      BY <3>1, EmptySeq DEF n
    <3> QED
      BY <1>c4, <3>2, <3>3
  <2> QED
    BY <1>12, <2>1, <2>2, <2>3, <2>4
<1>13. ASSUME ShutdownClose(Owner)
       PROVE  qsem' + d' >= n' + s'
  <2>1. qsem' = qsem + 1 /\ UNCHANGED <<elems, qpc>> /\ pc[Owner] = "sd_close"
    BY <1>13 DEF ShutdownClose, Queue!Close
  <2>2. s = 0 /\ d' = d /\ n' = n
    BY <2>1 DEF s, d, n, B
  <2> QED
    BY <1>2, <1>c3, <2>1, <2>2
<1>14. ASSUME NEW c \in Clients, EnqueueLocked(c)
       PROVE  qsem' + d' >= n' + s'
  <2>1. /\ \/ elems' = elems /\ qsem' = qsem
           \/ elems' = Append(elems, arg[c]) /\ qsem' = qsem + 1
        /\ cpc' = cpc /\ qpc[c] = "enq_cs"
        /\ qpc'[Ctl] = qpc[Ctl] /\ (pc'[Owner] = "sd_join" => pc[Owner] = "sd_join")
    BY <1>0, <1>14 DEF EnqueueLocked, Queue!EnqueueLocked, Queue!Return, Queue!Goto
  <2>2. arg[c] \in Tasks
    BY <2>1, TypeParts DEF QueueCallsOK
  <2>3. d' = d /\ s' <= s
    BY <2>1 DEF d, s, B
  <2>4. (n' = n /\ qsem' = qsem) \/ (n' = n + 1 /\ qsem' = qsem + 1)
    BY <1>1, <2>1, <2>2, AppendProperties DEF n
  <2>5. CASE n' = n /\ qsem' = qsem
    BY <1>a, <2>3, <2>5 DEF Aside
  <2>6. CASE n' = n + 1 /\ qsem' = qsem + 1
    BY <1>c2, <2>3, <2>6
  <2> QED
    BY <2>4, <2>5, <2>6
<1> HIDE DEF Goto, qVars, pVars, tVars, cVars, lVars, Queue!queueState, Queue!history
<1> QED
  BY <1>0, <1>a, <1>5, <1>6, <1>7, <1>8, <1>9, <1>10, <1>11, <1>12, <1>13, <1>14
     DEF Next, OwnerStep, EnqueueStep, CtlStep

\* A client waits at a task's semaphore only after it has looked at its status.
LEMMA WaitBegins ==
    ASSUME TypeInv, [Next]_poolVars, NEW c \in Clients, pc'[c] = "wait_sem"
    PROVE  WaitStatus(c) \/ (pc[c] = "wait_sem" /\ ptsk'[c] = ptsk[c])
<1>0. /\ pc \in [Clients -> ClientPlaces] /\ ptsk \in [Clients -> Tasks \cup {NULL}]
      /\ Owner \in Clients /\ Enqueuers \subseteq Clients
      /\ Waiters \subseteq Clients /\ Getters \subseteq Clients /\ Poppers \subseteq Clients
  BY ThreadTypes
<1> DEFINE Still == pc[c] = "wait_sem" /\ ptsk'[c] = ptsk[c]
<1> USE DEF Goto, lVars
<1>1. ASSUME NEW d \in Clients,
             \/ Start(d) \/ ShutdownLock(d) \/ OwnerStep(d)
             \/ EnqueueStatus(d) \/ EnqueueStep(d)
      PROVE  Still
  BY <1>0, <1>1 DEF Start, ShutdownLock, OwnerStep, ShutdownClose, ShutdownJoin, EnqueueStatus,
     EnqueueStep, NewIdLoad, NewIdStore, LockTable, EnqueueSem, EnqueueLocked, InsertTask
<1>2. ASSUME NEW d \in Clients, NEW call, NEW k, WaitLookup(d, call, k)
      PROVE  Still
  BY <1>0, <1>2 DEF WaitLookup
<1>3. ASSUME NEW d \in Clients, ResultStep(d)
      PROVE  WaitStatus(c) \/ Still
  BY <1>0, <1>3 DEF ResultStep, WaitStatus, WaitSem, WaitReturn, GetRes, PopRes
<1>4. ASSUME CtlStep
      PROVE  Still
  BY <1>4 DEF CtlStep, CtlDequeueCall, CtlDequeueSem, CtlDequeueElement, CtlDequeueClosed,
     CtlWaitFree, CtlScan, CtlAssign, CtlNotify, CtlShutdownFlag, CtlShutdownPost, CtlJoin
<1>5. ASSUME NEW w, WorkerStep(w)
      PROVE  Still
  BY <1>5 DEF WorkerStep, WorkerSem, WorkerExit, WorkerTake, WorkerRun, WorkerFree, WorkerDone,
     WorkerExitCode, WorkerSignal
<1>6. ASSUME OtherPool \/ Finished \/ UNCHANGED poolVars
      PROVE  Still
  BY <1>6 DEF OtherPool, OtherIdLoad, OtherIdStore, Finished, poolVars
<1> HIDE DEF Goto, lVars, Still
<1>7. WaitStatus(c) \/ Still
  BY <1>0, <1>1, <1>2, <1>3, <1>4, <1>5, <1>6 DEF Next
<1> QED
  BY <1>7 DEF Still

\* the steps that change a task, or who has it
LEMMA TaskCases ==
    ASSUME [Next]_poolVars
    PROVE  \/ tsk' = tsk /\ wtsk' = wtsk
           \/ \E d \in Clients : NewIdStore(d) \/ WaitSem(d)
           \/ \E w \in Workers : \/ WorkerTake(w) \/ WorkerDone(w)
                                 \/ WorkerExitCode(w) \/ WorkerSignal(w)
<1>0. /\ Owner \in Clients /\ Enqueuers \subseteq Clients
      /\ Waiters \subseteq Clients /\ Getters \subseteq Clients /\ Poppers \subseteq Clients
  BY ClientsAssumption
<1> DEFINE Same == tsk' = tsk /\ wtsk' = wtsk
<1> USE DEF wVars
<1>1. ASSUME NEW d,
             \/ Start(d) \/ ShutdownLock(d) \/ OwnerStep(d)
             \/ EnqueueStatus(d) \/ NewIdLoad(d) \/ LockTable(d) \/ EnqueueSem(d)
             \/ EnqueueLocked(d) \/ InsertTask(d)
      PROVE  Same
  BY <1>1 DEF Start, ShutdownLock, OwnerStep, ShutdownClose, ShutdownJoin, EnqueueStatus,
     NewIdLoad, LockTable, EnqueueSem, EnqueueLocked, InsertTask
<1>2. ASSUME NEW d, NEW call, NEW k, WaitLookup(d, call, k)
      PROVE  Same
  BY <1>2 DEF WaitLookup
<1>3. ASSUME NEW d, WaitStatus(d) \/ GetRes(d) \/ PopRes(d)
      PROVE  Same
  BY <1>3 DEF WaitStatus, GetRes, PopRes
<1>4. ASSUME CtlStep
      PROVE  Same
  BY <1>4 DEF CtlStep, CtlDequeueCall, CtlDequeueSem, CtlDequeueElement, CtlDequeueClosed,
     CtlWaitFree, CtlScan, CtlAssign, CtlNotify, CtlShutdownFlag, CtlShutdownPost, CtlJoin
<1>5. ASSUME NEW w, WorkerSem(w) \/ WorkerExit(w) \/ WorkerRun(w) \/ WorkerFree(w)
      PROVE  Same
  BY <1>5 DEF WorkerSem, WorkerExit, WorkerRun, WorkerFree
<1>6. ASSUME OtherPool \/ Finished \/ UNCHANGED poolVars
      PROVE  Same
  BY <1>6 DEF OtherPool, OtherIdLoad, OtherIdStore, Finished, poolVars
<1> HIDE DEF wVars, Same
<1>7. \/ Same
      \/ \E d \in Clients : NewIdStore(d) \/ WaitSem(d)
      \/ \E w \in Workers : \/ WorkerTake(w) \/ WorkerDone(w)
                            \/ WorkerExitCode(w) \/ WorkerSignal(w)
  BY <1>0, <1>1, <1>2, <1>3, <1>4, <1>5, <1>6
     DEF Next, EnqueueStep, ResultStep, WorkerStep
<1> QED
  BY <1>7 DEF Same

\* With one thread that asks for results, the token of a task is not taken
\* from under the thread that waits for it.
LEMMA SignalStep ==
    ASSUME \A a, b \in Askers : a = b,
           TypeInv, DispatchInv, WayInv, CallsInv, SignalInv, [Next]_poolVars
    PROVE  SignalInv'
<1> SUFFICES ASSUME NEW c \in Clients, NEW k, k = ptsk'[c], pc'[c] = "wait_sem",
                    tsk'[k].exit = "set", \A w \in Workers : wtsk'[w] # k
             PROVE  tsk'[k].sem > 0
  BY DEF SignalInv, GivenUp
<1>0. /\ tsk \in [Tasks -> TaskRecord] /\ wtsk \in [Workers -> Tasks \cup {NULL}]
      /\ pc \in [Clients -> ClientPlaces] /\ NULL \notin Tasks
  BY TypeParts, TasksAssumption DEF TaskTyped, WorkerTyped, ClientTyped
<1>1. CASE WaitStatus(c)
  <2>1. /\ ptsk[c] = k /\ tsk' = tsk /\ wtsk' = wtsk /\ pc[c] = "wait_status"
        /\ tsk[k].status # "DONE"
    BY <1>0, <1>1 DEF WaitStatus, WaitReturn, Goto, wVars
  <2>2. k \in Tasks
    BY <2>1, TypeParts DEF ClientTyped, HasTask
  <2>3. Placed(k)
    BY <2>2 DEF WayInv, TasksInv
  <2> QED
    BY <2>1, <2>3 DEF Placed, Untouched, Complete
<1>2. CASE ~WaitStatus(c)
  <2>1. pc[c] = "wait_sem" /\ ptsk[c] = k
    BY <1>2, WaitBegins
  <2>2. k \in Tasks
    BY <2>1, TypeParts DEF ClientTyped, HasTask
  <2>3. GivenUp(k) => tsk[k].sem > 0
    BY <2>1 DEF SignalInv
  <2>4. ASSUME NEW d \in Clients, WaitSem(d)
        PROVE  FALSE
    <3>1. c \in Askers /\ d \in Askers /\ pc'[d] # "wait_sem"
      BY <1>0, <2>1, <2>4 DEF CallsInv, WaitSem, WaitReturn, Goto
    <3> QED
      BY <3>1
  <2>5. CASE tsk' = tsk /\ wtsk' = wtsk
    BY <2>3, <2>5 DEF GivenUp
  <2>6. ASSUME NEW d \in Clients, NewIdStore(d)
        PROVE  tsk'[k].sem > 0
    <3>1. tsk'[k].exit = tsk[k].exit /\ tsk'[k].sem = tsk[k].sem /\ wtsk' = wtsk
      BY <1>0, <2>2, <2>6 DEF NewIdStore, TaskRecord, wVars
    <3> QED
      BY <2>3, <3>1 DEF GivenUp
  <2>7. ASSUME NEW w \in Workers, WorkerTake(w)
        PROVE  tsk'[k].sem > 0
    <3>1. wtsk[w] = NULL
      BY <2>7 DEF WayInv, TasksInv, Stage, Busy, WorkerTake
    <3>2. tsk' = tsk /\ \A v \in Workers : v # w => wtsk'[v] = wtsk[v]
      BY <1>0, <2>7 DEF WorkerTake
    <3>3. \A v \in Workers : wtsk[v] # k
      BY <1>0, <2>2, <3>1, <3>2
    <3> QED
      BY <2>3, <3>2, <3>3 DEF GivenUp
  <2>8. ASSUME NEW w \in Workers, WorkerDone(w)
        PROVE  tsk'[k].sem > 0
    <3>1. tsk'[k].exit = tsk[k].exit /\ tsk'[k].sem = tsk[k].sem /\ wtsk' = wtsk
      BY <1>0, <2>2, <2>8 DEF WorkerDone, TaskRecord
    <3> QED
      BY <2>3, <3>1 DEF GivenUp
  <2>9. ASSUME NEW w \in Workers, WorkerExitCode(w)
        PROVE  tsk'[k].sem > 0
    <3>1. wtsk' = wtsk /\ wtsk[w] # k /\ tsk'[k] = tsk[k]
      BY <1>0, <2>2, <2>9 DEF WorkerExitCode
    <3> QED
      BY <2>3, <3>1 DEF GivenUp
  <2>10. ASSUME NEW w \in Workers, WorkerSignal(w)
         PROVE  tsk'[k].sem > 0
    <3>0. \A v \in Workers : v # w => wtsk'[v] = wtsk[v]
      BY <1>0, <2>10 DEF WorkerSignal
    <3>1. CASE wtsk[w] = k
      BY <1>0, <2>2, <2>10, <3>1 DEF WorkerSignal, TaskRecord
    <3>2. CASE wtsk[w] # k
      <4>1. tsk'[k] = tsk[k] /\ \A v \in Workers : wtsk[v] # k
        BY <1>0, <2>2, <2>10, <3>0, <3>2 DEF WorkerSignal
      <4> QED
        BY <2>3, <4>1 DEF GivenUp
    <3> QED
      BY <3>1, <3>2
  <2> QED
    BY <2>4, <2>5, <2>6, <2>7, <2>8, <2>9, <2>10, TaskCases
<1> QED
  BY <1>1, <1>2

LEMMA RestInit == Init => RestInv /\ SignalInv
<1> SUFFICES ASSUME Init PROVE RestInv /\ SignalInv
  OBVIOUS
<1>1. /\ pc = [c \in Clients |-> "idle"] /\ cpc = "none" /\ tableMutex = NULL /\ table = {}
      /\ qpc = [t \in Clients \cup {Ctl} |-> "out"] /\ qsem = 0 /\ elems = <<>>
  <2>1. Queue!Threads = Clients \cup {Ctl}
    BY ClientsAssumption DEF Queue!Threads
  <2> QED
    BY <2>1 DEF Init, Queue!Init
<1>2. NULL \notin Clients /\ Owner \in Clients /\ Len(<<>>) = 0
  BY ClientsAssumption, TasksAssumption, EmptySeq
<1>3. CallsInv /\ KnownInv /\ SignalInv
  BY <1>1, <1>2 DEF CallsInv, KnownInv, SignalInv
<1>4. TokenInv
  BY <1>1, <1>2 DEF TokenInv, B, Looping
<1> QED
  BY <1>3, <1>4 DEF RestInv

LEMMA RestAlways == Spec => []RestInv
<1>1. TypeInv /\ TypeInv' /\ DispatchInv /\ WayInv /\ RestInv /\ [Next]_poolVars => RestInv'
  BY CallsStep, KnownStep, TokenStep DEF RestInv
<1> QED
  BY <1>1, RestInit, WayAlways, PTL DEF Spec

\* In a pool at rest no worker has a task or a command, and the controller has
\* ended or found nothing in the queue.
LEMMA RestOfThreads ==
    ASSUME TypeInv, DispatchInv, WayInv, RestInv, AtRest
    PROVE  /\ elems = <<>> /\ pc[Owner] # "sd_join"
           /\ cpc \in {"ended", "dequeuing"}
           /\ \A w \in Workers : wtsk[w] = NULL /\ wrk[w].assigned = NULL
<1>1. ASSUME NEW w \in Workers
      PROVE  /\ ~Armed(w) /\ ~Due(w) /\ wtsk[w] = NULL
             /\ wrk[w].status \notin {"READY", "WORKING"} \/ cpc = "none"
  <2>1. WorkerInv(w) /\ Stage(w) /\ wrk[w] \in WorkerRecord /\ WorkerWaits(w)
    BY TypeParts DEF DispatchInv, WayInv, TasksInv, RecordTyped, AtRest
  <2> QED
    BY <2>1 DEF WorkerWaits, WorkerInv, Stage, Busy, Armed, Due, B, WorkerRecord
<1>2. CtlWaits
  BY DEF AtRest
<1>3. ASSUME cpc = "wait_free", wpSem = 0
      PROVE  FALSE
  <2>1. Cardinality(FreeWorkers) = 0
    BY <1>3 DEF DispatchInv, FreeWorkersCounted
  <2>2. FreeWorkers = {}
    <3>1. IsFiniteSet(FreeWorkers)
      BY WorkersFinite, FS_Subset DEF FreeWorkers
    <3> QED
      BY <2>1, <3>1, FS_EmptySet
  <2>3. 0 \in Workers
    BY NThreadsAssumption DEF Workers
  <2>4. wrk[0] \in WorkerRecord
    BY <2>3, TypeParts DEF RecordTyped
  <2>5. wrk[0].status = "TSK_ASSIGNED"
    BY <1>1, <1>3, <2>2, <2>3, <2>4 DEF FreeWorkers, WorkerRecord
  <2> QED
    BY <1>1, <1>3, <2>3, <2>5 DEF Armed
<1>4. ASSUME cpc = "sd_flag", cidx = NThreads, NEW w \in Workers, wpc[w] # "exited"
      PROVE  FALSE
  <2>1. w < cidx
    BY <1>4, NThreadsAssumption DEF Workers
  <2> QED
    BY <1>1, <1>4, <2>1 DEF Due, Posted
<1>5. cpc = "ended" \/ (cpc = "dequeuing" /\ qpc[Ctl] = "deq_sem" /\ qsem = 0)
  BY <1>2, <1>3, <1>4 DEF CtlWaits
<1>6. CASE cpc = "ended"
  <2>1. elems = <<>>
    BY <1>6 DEF WayInv, QueueInv
  <2>2. pc[Owner] # "sd_join"
    BY <1>6, ClientsAssumption DEF AtRest, ClientWaits
  <2> QED
    BY <1>1, <1>6, <2>1, <2>2 DEF WayInv, TasksInv, DispatchInv, WorkerInv
<1>7. CASE cpc = "dequeuing" /\ qpc[Ctl] = "deq_sem" /\ qsem = 0
  <2>1. elems \in Seq(Tasks) /\ Len(elems) \in Nat
    BY LenProperties, TypeParts DEF Queue!TypeOK
  <2>2. 0 >= Len(elems) + B(pc[Owner] = "sd_join" /\ cpc \in Looping)
    BY <1>7 DEF RestInv, TokenInv, B
  <2>3. Len(elems) = 0 /\ pc[Owner] # "sd_join"
    BY <1>7, <2>1, <2>2 DEF B, Looping
  <2>4. elems = <<>>
    BY <2>1, <2>3, EmptySeq
  <2>5. ASSUME NEW w \in Workers
        PROVE  wrk[w].assigned = NULL
    <3>1. wrk[w].status \notin {"TSK_ASSIGNED", "WORKING"} /\ WorkerInv(w)
      BY <1>1, <1>7 DEF Armed, DispatchInv
    <3> QED
      BY <3>1 DEF WorkerInv
  <2> QED
    BY <1>1, <1>7, <2>3, <2>4, <2>5
<1> QED
  BY <1>5, <1>6, <1>7

LEMMA RestDone ==
    ASSUME QueueSize > 0, TypeInv, DispatchInv, WayInv, RestInv, SignalInv,
           QueueProofs!SlotsConserved
    PROVE  RestMeansDone
<1> SUFFICES ASSUME AtRest
             PROVE  /\ \A i \in DOMAIN accepted :
                          runs[accepted[i]] = 1 /\ tsk[accepted[i]].exit = "set"
                    /\ \A c \in Clients : /\ pc[c] # "sd_join"
                                          /\ status = "QOPENED" => pc[c] = "idle"
                    /\ \A c \in Clients : pc[c] = "wait_sem" =>
                          \A i \in DOMAIN accepted : accepted[i] # ptsk[c]
  BY DEF RestMeansDone
<1>1. /\ elems = <<>> /\ pc[Owner] # "sd_join"
      /\ cpc \in {"ended", "dequeuing"}
      /\ \A w \in Workers : wtsk[w] = NULL /\ wrk[w].assigned = NULL
  BY RestOfThreads
<1>2. ASSUME NEW k \in Tasks, Occurs(accepted, k)
      PROVE  Complete(k) /\ GivenUp(k)
  <2>1. Placed(k)
    BY DEF WayInv, TasksInv
  <2>2. ~AtSomeWorker(k) /\ ~WithController(k) /\ \A w \in Workers : wtsk[w] # k
    BY <1>1, TasksAssumption DEF AtSomeWorker, AtWorker, WithController
  <2>3. ~Occurs(elems, k)
    BY <1>1, EmptySeq DEF Occurs
  <2>4. tsk[k].exit = "set"
    BY <1>2, <2>1, <2>2, <2>3 DEF Placed
  <2> QED
    BY <2>1, <2>2, <2>4 DEF Placed, Untouched, GivenUp
<1>3. ASSUME NEW i \in DOMAIN accepted
      PROVE  accepted[i] \in Tasks /\ Occurs(accepted, accepted[i])
  <2>1. accepted \in Seq(Tasks)
    BY TypeParts DEF Queue!TypeOK
  <2> QED
    BY <2>1, LenProperties, ElementOfSeq DEF Occurs
<1>4. ASSUME NEW c \in Clients
      PROVE  ClientWaits(c) /\ pc[c] # "sd_join"
  BY <1>1 DEF AtRest, RestInv, CallsInv
<1>5. ASSUME NEW c \in Clients, pc[c] = "wait_sem"
      PROVE  ~Occurs(accepted, ptsk[c])
  <2>1. ptsk[c] \in Tasks /\ tsk[ptsk[c]].sem = 0
    BY <1>4, <1>5, TypeParts DEF ClientWaits, ClientTyped, HasTask
  <2> QED
    BY <1>2, <1>5, <2>1 DEF SignalInv
<1>6. ASSUME NEW c \in Clients, status = "QOPENED"
      PROVE  pc[c] = "idle"
  <2>1. \A b \in Clients : pc[b] = "enqueue" => qpc[b] = "enq_sem" /\ qlimit = 0
    BY <1>4 DEF ClientWaits
  <2>2. QueueProofs!Holders("enq_cs") = {}
    <3>1. \A b \in Clients : qpc[b] # "enq_cs"
      BY <2>1 DEF RestInv, CallsInv
    <3>2. qpc[Ctl] # "enq_cs"
      BY DEF RestInv, CallsInv
    <3> QED
      BY <3>1, <3>2, ClientsAssumption DEF QueueProofs!Holders, QueueProofs!Threads
  <2>3. QueueProofs!Cardinality(QueueProofs!Holders("enq_cs")) = 0 /\ QueueProofs!size = 0
    <3>1. QueueProofs!Cardinality({}) = 0
      BY QueueAssumptions, QueueProofs!FS_EmptySet
    <3> QED
      BY <1>1, <2>2, <3>1, EmptySeq DEF QueueProofs!size
  <2>4. qlimit > 0
    <3>1. qlimit \in Nat /\ QueueSize \in Nat
      BY TasksAssumption, TypeParts DEF Queue!TypeOK
    <3>2. QueueProofs!size + qlimit + QueueProofs!Cardinality(QueueProofs!Holders("enq_cs"))
             = QueueSize
      BY <1>6 DEF QueueProofs!SlotsConserved
    <3>3. 0 + qlimit + 0 = QueueSize
      BY <2>3, <3>2
    <3> QED
      BY <3>1, <3>3
  <2>5. \A b \in Clients : pc[b] \notin {"enqueue", "insert"}
    BY <1>4, <2>1, <2>4 DEF ClientWaits
  <2>6. tableMutex = NULL
    BY <2>5, ThreadTypes DEF RestInv, CallsInv
  <2>7. pc[c] # "wait_sem"
    BY <1>5, <1>6 DEF RestInv, KnownInv
  <2> QED
    BY <1>4, <2>5, <2>6, <2>7 DEF ClientWaits
<1>7. \A i \in DOMAIN accepted : runs[accepted[i]] = 1 /\ tsk[accepted[i]].exit = "set"
  BY <1>2, <1>3 DEF Complete
<1>8. \A c \in Clients : pc[c] = "wait_sem" => \A i \in DOMAIN accepted : accepted[i] # ptsk[c]
  BY <1>3, <1>5
<1> QED
  BY <1>4, <1>6, <1>7, <1>8

(***************************************************************************)
(* RestIsDone: a pool whose queue has room for a task, and whose results   *)
(* one thread waits for, is never stuck: when its clients, its controller  *)
(* and its workers all wait, every accepted task is complete, no shutdown  *)
(* is in progress, and in an open queue no client is in a call.            *)
(***************************************************************************)
THEOREM RestIsDone ==
    ASSUME QueueSize > 0, \A a, b \in Waiters \cup Getters \cup Poppers : a = b
    PROVE  Spec => []RestMeansDone
<1>1. \A a, b \in Askers : a = b
  BY DEF Askers
<1>2. TypeInv /\ DispatchInv /\ WayInv /\ RestInv /\ SignalInv /\ [Next]_poolVars => SignalInv'
  BY <1>1, SignalStep DEF RestInv
<1>3. QueueProofs!Spec => [](QueueProofs!SlotsConserved /\ QueueProofs!SemCountsElements)
  BY QueueAssumptions, QueueProofs!TokensAccounted
<1>4. TypeInv /\ DispatchInv /\ WayInv /\ RestInv /\ SignalInv /\ QueueProofs!SlotsConserved
         => RestMeansDone
  BY RestDone
<1> QED
  BY <1>2, <1>3, <1>4, RestInit, RestAlways, WayAlways, QueueIsInstance, QueueUsedRightly,
     PTL DEF Spec, UsesQueue

-----------------------------------------------------------------------------
(***************************************************************************)
(* Task ids.  As long as no two draws overlap the load and the store of    *)
(* the static counter are not torn apart: the counter is not behind any id *)
(* that a task of this pool has, and the next id is new.                   *)
(***************************************************************************)
NewTask  == {"new_id", "new_id_store", "lock_table", "enqueue", "insert"}
Numbered == {"lock_table", "enqueue", "insert"}

\* the tasks that are in the table or on their way into it, with an id
HasId == table \cup {ptsk[c] : c \in {d \in Clients : pc[d] \in Numbered}}

IdInv ==
    /\ \A c \in Clients : pc[c] \in NewTask => ptsk[c] <= ntasks
    /\ \A c, d \in Clients :
          pc[c] \in NewTask /\ pc[d] \in NewTask /\ ptsk[c] = ptsk[d] => c = d
    /\ \A k \in table : k <= ntasks /\ \A c \in Clients : pc[c] \in NewTask => ptsk[c] # k
    /\ \A k \in HasId : tsk[k].id <= nextId
    /\ \A j, k \in HasId : tsk[j].id = tsk[k].id => j = k
    /\ \A c \in Clients : pc[c] = "new_id_store" => pid[c] = nextId + 1
    /\ otherId # 0 => otherId = nextId + 1

\* the fields that IdInv is about; most steps leave them alone
IdFrame ==
    /\ table' \subseteq table /\ nextId' = nextId /\ ntasks' = ntasks /\ otherId' = otherId
    /\ \A k \in Tasks : tsk'[k].id = tsk[k].id
    /\ \A c \in Clients :
          \/ pc'[c] \notin NewTask
          \/ /\ pc'[c] \in NewTask /\ pc[c] \in NewTask /\ ptsk'[c] = ptsk[c]
             /\ pc'[c] = "new_id_store" => pc[c] = "new_id_store" /\ pid'[c] = pid[c]
             /\ pc'[c] \in Numbered => pc[c] \in Numbered

LEMMA IdStep ==
    ASSUME OneDraw, TypeInv, IdInv, [Next]_poolVars
    PROVE  IdInv'
<1>0. /\ pc \in [Clients -> ClientPlaces] /\ ptsk \in [Clients -> Tasks \cup {NULL}]
      /\ pid \in [Clients -> Nat] /\ nextId \in Nat /\ otherId \in Nat /\ ntasks \in Nat
      /\ tsk \in [Tasks -> TaskRecord] /\ table \subseteq Tasks /\ Tasks \subseteq Nat
      /\ \A c \in Clients : pc[c] \in NewTask => ptsk[c] \in Tasks
      /\ Owner \in Clients /\ Enqueuers \subseteq Clients
      /\ Waiters \subseteq Clients /\ Getters \subseteq Clients /\ Poppers \subseteq Clients
  BY ThreadTypes, TypeParts, TasksAssumption, SMTT(60)
     DEF ClientTyped, PoolTyped, TaskTyped, HasTask, NewTask, Tasks
<1>c. HasId \subseteq Tasks /\ \A k \in HasId : tsk[k].id \in Nat
  BY <1>0 DEF HasId, NewTask, Numbered, TaskRecord
<1>a. IdFrame => IdInv'
  <2> SUFFICES ASSUME IdFrame
               PROVE  IdInv'
    OBVIOUS
  <2>1. \A c \in Clients : pc'[c] \in NewTask =>
           /\ pc[c] \in NewTask /\ ptsk'[c] = ptsk[c]
           /\ pc'[c] = "new_id_store" => pc[c] = "new_id_store" /\ pid'[c] = pid[c]
           /\ pc'[c] \in Numbered => pc[c] \in Numbered
    BY DEF IdFrame
  <2>2. /\ nextId' = nextId /\ ntasks' = ntasks /\ otherId' = otherId /\ table' \subseteq table
        /\ \A k \in Tasks : tsk'[k].id = tsk[k].id
    BY DEF IdFrame
  <2>3. HasId' \subseteq HasId
    BY <2>1, <2>2 DEF HasId, NewTask, Numbered
  <2>4. \A k \in HasId' : tsk'[k].id <= nextId'
    BY <1>c, <2>2, <2>3 DEF IdInv
  <2>5. \A j, k \in HasId' : tsk'[j].id = tsk'[k].id => j = k
    BY <1>c, <2>2, <2>3 DEF IdInv
  <2>6. /\ \A c \in Clients : pc'[c] \in NewTask => ptsk'[c] <= ntasks'
        /\ \A c, d \in Clients :
              pc'[c] \in NewTask /\ pc'[d] \in NewTask /\ ptsk'[c] = ptsk'[d] => c = d
    BY <2>1, <2>2 DEF IdInv
  <2>7. \A k \in table' :
           k <= ntasks' /\ \A c \in Clients : pc'[c] \in NewTask => ptsk'[c] # k
    BY <2>1, <2>2 DEF IdInv
  <2>8. /\ \A c \in Clients : pc'[c] = "new_id_store" => pid'[c] = nextId' + 1
        /\ otherId' # 0 => otherId' = nextId' + 1
    BY <2>1, <2>2 DEF IdInv, NewTask
  <2> QED
    BY <2>4, <2>5, <2>6, <2>7, <2>8 DEF IdInv
<1> USE DEF Goto, qVars, tVars, lVars
<1>1. ASSUME NEW d \in Clients,
             \/ Start(d) \/ ShutdownLock(d) \/ ShutdownClose(d) \/ ShutdownJoin(d)
             \/ LockTable(d) \/ EnqueueSem(d) \/ EnqueueLocked(d)
      PROVE  IdFrame
  BY <1>0, <1>1 DEF Start, ShutdownLock, ShutdownClose, ShutdownJoin, LockTable, EnqueueSem,
     EnqueueLocked, IdFrame, NewTask, Numbered
<1>2. ASSUME NEW d \in Clients, NEW call, NEW k, WaitLookup(d, call, k)
      PROVE  IdFrame
  BY <1>0, <1>2 DEF WaitLookup, IdFrame, NewTask, Numbered
<1>3. ASSUME NEW d \in Clients, ResultStep(d)
      PROVE  IdFrame
  <2>1. CASE WaitSem(d)
    <3>1. ptsk[d] \in Tasks
      BY <2>1, TypeParts DEF WaitSem, ClientTyped, HasTask
    <3> QED
      BY <1>0, <2>1, <3>1 DEF WaitSem, WaitReturn, IdFrame, NewTask, Numbered, TaskRecord
  <2>2. CASE WaitStatus(d) \/ GetRes(d) \/ PopRes(d)
    BY <1>0, <2>2 DEF WaitStatus, WaitReturn, GetRes, PopRes, IdFrame, NewTask, Numbered
  <2> QED
    BY <1>3, <2>1, <2>2 DEF ResultStep
<1>4. ASSUME CtlStep
      PROVE  IdFrame
  BY <1>4 DEF CtlStep, CtlDequeueCall, CtlDequeueSem, CtlDequeueElement, CtlDequeueClosed,
     CtlWaitFree, CtlScan, CtlAssign, CtlNotify, CtlShutdownFlag, CtlShutdownPost, CtlJoin, IdFrame
<1>5. ASSUME NEW w \in Workers, WorkerStep(w)
      PROVE  IdFrame
  <2>1. CASE WorkerSem(w) \/ WorkerExit(w) \/ WorkerTake(w) \/ WorkerRun(w) \/ WorkerFree(w)
    BY <2>1 DEF WorkerSem, WorkerExit, WorkerTake, WorkerRun, WorkerFree, IdFrame
  <2>2. CASE WorkerDone(w) \/ WorkerExitCode(w) \/ WorkerSignal(w)
    <3>1. wtsk[w] \in Tasks
      BY <2>2, TypeParts DEF WorkerDone, WorkerExitCode, WorkerSignal, WorkerTyped
    <3> QED
      BY <1>0, <2>2, <3>1 DEF WorkerDone, WorkerExitCode, WorkerSignal, IdFrame, TaskRecord
  <2> QED
    BY <1>5, <2>1, <2>2 DEF WorkerStep
<1>6. ASSUME Finished \/ UNCHANGED poolVars
      PROVE  IdFrame
  BY <1>6 DEF Finished, poolVars, IdFrame
<1>7. ASSUME NEW d \in Enqueuers, EnqueueStatus(d)
      PROVE  IdInv'
  <2>1. /\ pc[d] = "idle" /\ pc' = [pc EXCEPT ![d] = "new_id"]
        /\ ptsk' = [ptsk EXCEPT ![d] = ntasks + 1]
        /\ ntasks' = ntasks + 1 /\ UNCHANGED <<pid, table, tsk, nextId, otherId>>
    BY <1>7 DEF EnqueueStatus
  <2>2. HasId' = HasId
    BY <1>0, <1>7, <2>1 DEF HasId, Numbered
  <2>3. /\ \A k \in HasId' : tsk'[k].id <= nextId'
        /\ \A j, k \in HasId' : tsk'[j].id = tsk'[k].id => j = k
    BY <2>1, <2>2 DEF IdInv
  <2>4. \A c \in Clients : pc'[c] \in NewTask /\ c # d =>
           pc[c] \in NewTask /\ ptsk'[c] = ptsk[c] /\ ptsk[c] <= ntasks /\ ptsk[c] \in Nat
    BY <1>0, <1>7, <2>1 DEF IdInv
  <2>5. ptsk'[d] = ntasks + 1 /\ pc'[d] = "new_id"
    BY <1>0, <1>7, <2>1
  <2>6. /\ \A c \in Clients : pc'[c] \in NewTask => ptsk'[c] <= ntasks'
        /\ \A b, c \in Clients :
              pc'[b] \in NewTask /\ pc'[c] \in NewTask /\ ptsk'[b] = ptsk'[c] => b = c
    BY <1>0, <2>1, <2>4, <2>5 DEF IdInv
  <2>7. \A k \in table' :
           k <= ntasks' /\ \A c \in Clients : pc'[c] \in NewTask => ptsk'[c] # k
    BY <1>0, <2>1, <2>4, <2>5 DEF IdInv
  <2>8. /\ \A c \in Clients : pc'[c] = "new_id_store" => pid'[c] = nextId' + 1
        /\ otherId' # 0 => otherId' = nextId' + 1
    BY <1>0, <2>1 DEF IdInv
  <2> QED
    BY <2>3, <2>6, <2>7, <2>8 DEF IdInv
<1>8. ASSUME NEW d \in Clients, NewIdLoad(d)
      PROVE  IdInv'
  <2>1. /\ pc[d] = "new_id" /\ pc' = [pc EXCEPT ![d] = "new_id_store"]
        /\ pid' = [pid EXCEPT ![d] = nextId + 1]
        /\ UNCHANGED <<ptsk, ntasks, table, tsk, nextId, otherId>>
    BY <1>8 DEF NewIdLoad
  <2>2. HasId' = HasId /\ \A c \in Clients : pc'[c] \in NewTask <=> pc[c] \in NewTask
    BY <1>0, <2>1 DEF HasId, NewTask, Numbered
  <2>3. \A c \in Clients : pc'[c] = "new_id_store" => pid'[c] = nextId' + 1
    BY <1>0, <2>1 DEF IdInv
  <2> QED
    BY <2>1, <2>2, <2>3 DEF IdInv
<1>9. ASSUME NEW d \in Clients, NewIdStore(d)
      PROVE  IdInv'
  <2>1. /\ pc[d] = "new_id_store" /\ pc' = [pc EXCEPT ![d] = "lock_table"]
        /\ nextId' = nextId + 1 /\ UNCHANGED <<ptsk, pid, ntasks, table, otherId>>
        /\ tsk' = [tsk EXCEPT ![ptsk[d]].id = pid[d], ![ptsk[d]].status = "WAITING"]
        /\ pid[d] = nextId + 1 /\ ptsk[d] \in Tasks
    BY <1>0, <1>9 DEF NewIdStore, IdInv, NewTask
  <2>2. tsk'[ptsk[d]].id = nextId + 1 /\ \A k \in Tasks : k # ptsk[d] => tsk'[k] = tsk[k]
    BY <1>0, <2>1 DEF TaskRecord
  <2>3. otherId' = 0 /\ \A c \in Clients : pc'[c] # "new_id_store"
    BY <1>0, <2>1 DEF OneDraw
  <2>4. HasId' = HasId \cup {ptsk[d]}
    BY <1>0, <2>1 DEF HasId, Numbered
  <2>5. ptsk[d] \notin HasId
    BY <1>0, <2>1 DEF HasId, IdInv, NewTask, Numbered
  <2>6. \A k \in HasId : tsk'[k].id = tsk[k].id /\ tsk[k].id <= nextId /\ tsk[k].id \in Nat
    BY <1>c, <2>2, <2>5 DEF IdInv
  <2>7. \A k \in HasId' : tsk'[k].id <= nextId'
    <3> SUFFICES ASSUME NEW k \in HasId'
                 PROVE  tsk'[k].id <= nextId + 1
      BY <2>1
    <3>1. nextId \in Nat
      BY <1>0
    <3>2. CASE k \in HasId
      BY <2>6, <3>1, <3>2
    <3>3. CASE k = ptsk[d]
      BY <2>2, <3>1, <3>3
    <3> QED
      BY <2>4, <3>2, <3>3
  <2>8. \A j, k \in HasId' : tsk'[j].id = tsk'[k].id => j = k
    <3> SUFFICES ASSUME NEW j \in HasId', NEW k \in HasId', tsk'[j].id = tsk'[k].id
                 PROVE  j = k
      OBVIOUS
    <3>1. CASE j \in HasId /\ k \in HasId
      BY <2>6, <3>1 DEF IdInv
    <3>2. CASE j = ptsk[d] \/ k = ptsk[d]
      BY <1>0, <2>2, <2>4, <2>6, <3>2
    <3> QED
      BY <2>4, <3>1, <3>2
  <2>9. \A c \in Clients : pc'[c] \in NewTask <=> pc[c] \in NewTask
    BY <1>0, <2>1 DEF NewTask
  <2> QED
    BY <2>1, <2>3, <2>7, <2>8, <2>9 DEF IdInv
<1>10. ASSUME NEW d \in Clients, InsertTask(d)
       PROVE  IdInv'
  <2>1. /\ pc[d] = "insert" /\ pc' = [pc EXCEPT ![d] = "idle"]
        /\ table' = table \cup {ptsk[d]} /\ UNCHANGED <<ptsk, pid, ntasks, tsk, nextId, otherId>>
    BY <1>10 DEF InsertTask
  <2>2. HasId' \subseteq HasId
    BY <1>0, <2>1 DEF HasId, Numbered
  <2>3. /\ \A k \in HasId' : tsk'[k].id <= nextId'
        /\ \A j, k \in HasId' : tsk'[j].id = tsk'[k].id => j = k
    BY <2>1, <2>2 DEF IdInv
  <2>4. \A c \in Clients : pc'[c] \in NewTask => pc[c] \in NewTask /\ pc'[c] = pc[c] /\ c # d
    BY <1>0, <2>1 DEF NewTask
  <2>5. \A k \in table' :
           k <= ntasks' /\ \A c \in Clients : pc'[c] \in NewTask => ptsk'[c] # k
    BY <1>0, <2>1, <2>4 DEF IdInv, NewTask
  <2>6. /\ \A c \in Clients : pc'[c] \in NewTask => ptsk'[c] <= ntasks'
        /\ \A b, c \in Clients :
              pc'[b] \in NewTask /\ pc'[c] \in NewTask /\ ptsk'[b] = ptsk'[c] => b = c
        /\ \A c \in Clients : pc'[c] = "new_id_store" => pid'[c] = nextId' + 1
        /\ otherId' # 0 => otherId' = nextId' + 1
    BY <2>1, <2>4 DEF IdInv, NewTask
  <2> QED
    BY <2>3, <2>5, <2>6 DEF IdInv
<1>11. ASSUME OtherPool
       PROVE  IdInv'
  <2>1. HasId' = HasId /\ UNCHANGED <<pc, ptsk, pid, ntasks, table, tsk>>
    BY <1>11 DEF OtherPool, OtherIdLoad, OtherIdStore, HasId
  <2>2. CASE OtherIdLoad
    BY <2>1, <2>2 DEF OtherIdLoad, IdInv
  <2>3. CASE OtherIdStore
    <3>1. /\ nextId' = nextId + 1 /\ otherId' = 0
          /\ \A c \in Clients : pc'[c] # "new_id_store"
      BY <2>1, <2>3 DEF OtherIdStore, IdInv, OneDraw
    <3>2. \A k \in HasId' : tsk'[k].id <= nextId'
      BY <1>0, <1>c, <2>1, <3>1 DEF IdInv
    <3> QED
      BY <2>1, <3>1, <3>2 DEF IdInv
  <2> QED
    BY <1>11, <2>2, <2>3 DEF OtherPool
<1> HIDE DEF Goto, qVars, tVars, lVars
<1> QED
  BY <1>0, <1>a, <1>1, <1>2, <1>3, <1>4, <1>5, <1>6, <1>7, <1>8, <1>9, <1>10, <1>11
     DEF Next, OwnerStep, EnqueueStep

(***************************************************************************)
(* IdsUnique: as long as no two calls of _cs_wp_new_tsk_id overlap, in     *)
(* this pool or with another one that draws from the same counter, "no     *)
(* duplicate can exist" when cs_wp_tsk_enqueue inserts a task into the     *)
(* table: an overlap is the only way in which its assert can fail.         *)
(***************************************************************************)
THEOREM IdsUnique == Spec /\ []OneDraw => []NoDuplicateId
<1>1. Init => IdInv
  BY DEF Init, IdInv, HasId, NewTask, Numbered
<1>2. OneDraw /\ TypeInv /\ IdInv /\ [Next]_poolVars => IdInv'
  BY IdStep
<1>3. TypeInv /\ IdInv => NoDuplicateId
  <2> SUFFICES ASSUME TypeInv, IdInv, NEW c \in Clients, pc[c] = "insert",
                      NEW j \in table, tsk[j].id = tsk[ptsk[c]].id
               PROVE  FALSE
    BY DEF NoDuplicateId, SameId
  <2>1. j \in HasId /\ ptsk[c] \in HasId /\ j # ptsk[c]
    BY DEF HasId, IdInv, NewTask, Numbered
  <2> QED
    BY <2>1 DEF IdInv
<1> QED
  BY <1>1, <1>2, <1>3, WayAlways, PTL DEF Spec

-----------------------------------------------------------------------------
(***************************************************************************)
(* The pool as a service of tasks (TaskService).                           *)
(***************************************************************************)
PoolInv == TypeInv /\ DispatchInv /\ WayInv

\* The elements of a sequence.
LEMMA SeqElements ==
    ASSUME NEW S, NEW s \in Seq(S)
    PROVE  \A k : k \in {s[i] : i \in DOMAIN s} <=> k \in S /\ Occurs(s, k)
BY LenProperties, ElementOfSeq DEF Occurs

\* What the variables of TaskService stand for, and what is known of them.
LEMMA ServiceFacts ==
    ASSUME PoolInv
    PROVE  /\ \A k : k \in AcceptedTasks <=> k \in Tasks /\ Occurs(accepted, k)
           /\ \A w \in Workers : /\ Executing[w] # NULL <=> wpc[w] = "run"
                                 /\ wpc[w] = "run" => /\ Executing[w] = wtsk[w] /\ wtsk[w] \in Tasks
                                                      /\ AtWorker(wtsk[w], w) /\ Untouched(wtsk[w])
           /\ NULL \notin Tasks
<1>1. accepted \in Seq(Tasks) /\ NULL \notin Tasks
  BY TypeParts, TasksAssumption DEF PoolInv, Queue!TypeOK
<1>2. \A k : k \in AcceptedTasks <=> k \in Tasks /\ Occurs(accepted, k)
  BY <1>1, SeqElements DEF AcceptedTasks
<1>3. ASSUME NEW w \in Workers
      PROVE  wpc[w] = "run" => wtsk[w] \in Tasks /\ AtWorker(wtsk[w], w) /\ Untouched(wtsk[w])
  BY WorkersTask DEF PoolInv, WayInv, TasksInv, Stage, Busy
<1> QED
  BY <1>1, <1>2, <1>3 DEF Executing

\* A step that moves no task, begins no wait and ends none is none of the service.
LEMMA ServiceFrame ==
    ASSUME UNCHANGED <<status, wpStatus, accepted, runs>>,
           Executing' = Executing, AwaitedTask' = AwaitedTask
    PROVE  UNCHANGED Service!serviceVars
BY DEF Service!serviceVars, Pending, AcceptedTasks, Executed

LEMMA ClientFrames ==
    ASSUME PoolInv, NEW d \in Clients,
           \/ ShutdownLock(d) \/ ShutdownClose(d) \/ ShutdownJoin(d) \/ EnqueueStatus(d)
           \/ EnqueueStep(d) \/ GetRes(d) \/ PopRes(d)
    PROVE  UNCHANGED <<runs, wpc, wtsk>> /\ AwaitedTask' = AwaitedTask
<1>0. /\ pc \in [Clients -> ClientPlaces] /\ ptsk \in [Clients -> Tasks \cup {NULL}]
  BY TypeParts DEF PoolInv, ClientTyped
<1> USE DEF Goto, wVars, lVars
<1>1. CASE ShutdownLock(d) \/ ShutdownClose(d) \/ ShutdownJoin(d)
  BY <1>0, <1>1 DEF ShutdownLock, ShutdownClose, ShutdownJoin, AwaitedTask
<1>2. CASE EnqueueStatus(d) \/ NewIdLoad(d) \/ NewIdStore(d) \/ LockTable(d)
  BY <1>0, <1>2 DEF EnqueueStatus, NewIdLoad, NewIdStore, LockTable, AwaitedTask
<1>3. CASE EnqueueSem(d) \/ EnqueueLocked(d) \/ InsertTask(d)
  BY <1>0, <1>3 DEF EnqueueSem, EnqueueLocked, InsertTask, AwaitedTask
<1>4. CASE GetRes(d) \/ PopRes(d)
  BY <1>0, <1>4 DEF GetRes, PopRes, AwaitedTask
<1> QED
  BY <1>1, <1>2, <1>3, <1>4 DEF EnqueueStep

\* cs_queue_enqueue accepts a task that is new to the service.
LEMMA EnqueueIsAccept ==
    ASSUME PoolInv, NEW c \in Clients, EnqueueLocked(c), NEW k0, k0 = ptsk[c]
    PROVE  (k0 \in Tasks /\ Service!Accept(k0)) \/ UNCHANGED Service!serviceVars
<1>0. TypeInv /\ FreshInv /\ TasksInv /\ accepted \in Seq(Tasks)
  BY TypeParts DEF PoolInv, WayInv, Queue!TypeOK
<1>1. UNCHANGED <<status, wpStatus, runs, wpc, wtsk>> /\ AwaitedTask' = AwaitedTask
  BY <1>0, EnqueueEffect, ClientFrames DEF EnqueueStep, pVars
<1>2. Executing' = Executing /\ Executed' = Executed
  BY <1>1 DEF Executing, Executed
<1>3. CASE accepted' = accepted
  BY <1>1, <1>2, <1>3, ServiceFrame
<1>4. CASE accepted' # accepted
  <2>1. /\ status = "QOPENED" /\ k0 \in Tasks /\ ~Occurs(accepted, k0)
        /\ accepted' = Append(accepted, k0)
    BY <1>0, <1>4, EnqueueEffect
  <2>2. accepted' \in Seq(Tasks) /\ \A k : Occurs(accepted', k) <=> Occurs(accepted, k) \/ k = k0
    BY <1>0, <2>1, AppendProperties, OccursAppend
  <2>3. \A k : k \in AcceptedTasks' <=> k \in AcceptedTasks \/ k = k0
    <3>1. \A k : k \in AcceptedTasks <=> k \in Tasks /\ Occurs(accepted, k)
      BY <1>0, SeqElements DEF AcceptedTasks
    <3>2. \A k : k \in AcceptedTasks' <=> k \in Tasks /\ Occurs(accepted', k)
      BY <2>2, SeqElements DEF AcceptedTasks
    <3> QED
      BY <2>1, <2>2, <3>1, <3>2
  <2>4. k0 \notin Executed /\ k0 \notin AcceptedTasks /\ \A w \in Workers : Executing[w] # k0
    <3>1. Placed(k0)
      BY <1>0, <2>1 DEF TasksInv
    <3>2. ~AtSomeWorker(k0) /\ tsk[k0].exit # "set"
      BY <2>1, <3>1 DEF Placed
    <3>3. Untouched(k0)
      BY <3>1, <3>2 DEF Placed, Complete, AtSomeWorker, AtWorker
    <3>4. \A w \in Workers : Executing[w] # k0
      BY <2>1, <3>2, ServiceFacts DEF AtSomeWorker
    <3> QED
      BY <2>1, <3>3, <3>4, ServiceFacts DEF Untouched, Executed
  <2>5. Pending' = Pending \cup {k0}
    BY <1>2, <2>3, <2>4 DEF Pending
  <2>6. k0 \notin Pending
    BY <2>4 DEF Pending
  <2> QED
    BY <1>1, <1>2, <2>1, <2>4, <2>5, <2>6 DEF Service!Accept
<1> QED
  BY <1>3, <1>4

\* A worker begins with a task that nobody else has begun with.
LEMMA TakeIsBegin ==
    ASSUME PoolInv, NEW w \in Workers, WorkerTake(w), NEW k0, k0 = wrk[w].assigned
    PROVE  k0 \in Tasks /\ Service!Begin(w, k0)
<1>1. /\ wpc[w] = "take" /\ wrk[w].status = "TSK_ASSIGNED"
      /\ wtsk' = [wtsk EXCEPT ![w] = k0] /\ wpc' = [wpc EXCEPT ![w] = "run"]
      /\ UNCHANGED <<status, accepted, wpStatus, runs, pc, ptsk>>
  BY DEF WorkerTake, WGoto, qVars, pVars, lVars
<1>2. /\ wpc \in [Workers -> WorkerPlaces] /\ wtsk \in [Workers -> Tasks \cup {NULL}]
      /\ runs \in [Tasks -> Nat] /\ wpStatus \in {"READY", "WORKING"}
      /\ WorkerInv(w) /\ CtlInv /\ Stage(w) /\ TypeInv /\ DispatchInv /\ TasksInv
  BY TypeParts DEF PoolInv, WayInv, TasksInv, DispatchInv, WorkerTyped, PoolTyped, TypeInv, TypeOK
<1>3. k0 \in Tasks /\ AtWorker(k0, w) /\ Untouched(k0)
  BY <1>1, <1>2, WorkersTask DEF Stage
<1>4. Placed(k0)
  BY <1>2, <1>3 DEF TasksInv
<1>5. Executing[w] = NULL /\ \A v \in Workers : Executing[v] # k0
  <2>1. \A v \in Workers : AtWorker(k0, v) => v = w
    BY <1>3, <1>4 DEF Placed
  <2> QED
    BY <1>1, <1>3, <2>1, ServiceFacts
<1>6. k0 \in Pending
  <2>1. Occurs(accepted, k0)
    BY <1>3, <1>4 DEF Placed, AtSomeWorker
  <2> QED
    BY <1>3, <1>5, <2>1, ServiceFacts DEF Pending, Executed, Untouched
<1>7. wpStatus = "WORKING"
  BY <1>1, <1>2 DEF WorkerInv, CtlInv
<1>8. Executing' = [Executing EXCEPT ![w] = k0]
  BY <1>1, <1>2 DEF Executing
<1>9. Executed' = Executed /\ AcceptedTasks' = AcceptedTasks /\ AwaitedTask' = AwaitedTask
  BY <1>1 DEF Executed, AcceptedTasks, AwaitedTask
<1>10. Pending' = Pending \ {k0}
  <2>1. \A k : k # NULL =>
          ((\A v \in Workers : Executing'[v] # k) <=>
           (k # k0 /\ \A v \in Workers : Executing[v] # k))
    <3>1. \A v \in Workers : Executing'[v] = IF v = w THEN k0 ELSE Executing[v]
      BY <1>8 DEF Executing
    <3>2. Executing[w] = NULL
      BY <1>5
    <3> QED
      BY <3>1, <3>2
  <2>2. NULL \notin AcceptedTasks
    BY ServiceFacts
  <2> QED
    BY <1>9, <2>1, <2>2 DEF Pending
<1> QED
  BY <1>1, <1>3, <1>5, <1>6, <1>7, <1>8, <1>9, <1>10 DEF Service!Begin

\* The task's own code is executed by the worker that has begun with it.
LEMMA RunIsFinish ==
    ASSUME PoolInv, NEW w \in Workers, WorkerRun(w)
    PROVE  Service!Finish(w)
<1> DEFINE k0 == wtsk[w]
<1>1. /\ wpc[w] = "run" /\ wpc' = [wpc EXCEPT ![w] = "free"]
      /\ runs' = [runs EXCEPT ![k0] = @ + 1]
      /\ UNCHANGED <<status, accepted, wpStatus, wtsk, pc, ptsk>>
  BY DEF WorkerRun, WGoto, qVars, pVars, lVars
<1>2. /\ wpc \in [Workers -> WorkerPlaces] /\ runs \in [Tasks -> Nat]
      /\ k0 \in Tasks /\ Executing[w] = k0 /\ k0 # NULL
  BY <1>1, TypeParts, ServiceFacts DEF PoolInv, WorkerTyped, PoolTyped
<1> HIDE DEF k0
<1>3. Executing' = [Executing EXCEPT ![w] = NULL]
  BY <1>1, <1>2 DEF Executing
<1>4. Executed' = Executed \cup {k0}
  BY <1>1, <1>2 DEF Executed
<1>5. AcceptedTasks' = AcceptedTasks /\ AwaitedTask' = AwaitedTask
  BY <1>1 DEF AcceptedTasks, AwaitedTask
<1>6. Pending' = Pending
  <2>1. \A k : k # NULL =>
          ((\A v \in Workers : Executing'[v] # k) <=> (k = k0 \/ \A v \in Workers : Executing[v] # k))
    <3>1. \A v \in Workers : Executing[v] = k0 => v = w
      <4>1. Placed(k0)
        BY <1>2 DEF PoolInv, WayInv, TasksInv
      <4> QED
        BY <1>1, <1>2, <4>1, ServiceFacts DEF Placed, k0
    <3> QED
      BY <1>2, <1>3, <3>1 DEF Executing
  <2>2. NULL \notin AcceptedTasks
    BY ServiceFacts
  <2> QED
    BY <1>2, <1>4, <1>5, <2>1, <2>2 DEF Pending
<1> QED
  BY <1>1, <1>2, <1>3, <1>4, <1>5, <1>6 DEF Service!Finish

\* cs_wp_tsk_wait takes a client to where it awaits a task, or back from there.
LEMMA WaitIsAwait ==
    ASSUME PoolInv, NEW c \in Clients
    PROVE  /\ \A call : \A k \in Tasks :
                 WaitLookup(c, call, k) =>
                    (\E j \in Tasks : Service!Await(c, j)) \/ UNCHANGED Service!serviceVars
           /\ WaitStatus(c) \/ WaitSem(c) => Service!Return(c) \/ UNCHANGED Service!serviceVars
<1>0. /\ pc \in [Clients -> ClientPlaces] /\ ptsk \in [Clients -> Tasks \cup {NULL}]
      /\ tsk \in [Tasks -> TaskRecord] /\ TypeInv /\ DispatchInv /\ TasksInv
      /\ \A d \in Clients : pc[d] \in HasTask => ptsk[d] \in Tasks
  BY TypeParts DEF PoolInv, WayInv, ClientTyped, TaskTyped
<1>1. ASSUME UNCHANGED <<status, wpStatus, accepted, runs, wpc, wtsk>>
      PROVE  UNCHANGED <<Pending, Executing, Executed>>
  BY <1>1 DEF Pending, Executing, Executed, AcceptedTasks
<1>2. ASSUME NEW call, NEW k \in Tasks, WaitLookup(c, call, k)
      PROVE  (\E j \in Tasks : Service!Await(c, j)) \/ UNCHANGED Service!serviceVars
  <2>0. SameId(k) \subseteq Tasks
    BY <1>0, TypeParts DEF SameId, PoolTyped
  <2> PICK j \in Tasks : ptsk' = [ptsk EXCEPT ![c] = j]
    BY <1>2, <2>0 DEF WaitLookup
  <2>1. /\ pc[c] = "idle" /\ ptsk' = [ptsk EXCEPT ![c] = j]
        /\ \E p \in {"wait_status", "idle", "result"} : pc' = [pc EXCEPT ![c] = p]
        /\ UNCHANGED <<status, wpStatus, accepted, runs, wpc, wtsk>>
    BY <1>2 DEF WaitLookup, Goto, qVars, pVars, wVars
  <2>2. CASE pc'[c] = "wait_status"
    <3>1. AwaitedTask[c] = NULL
      BY <2>1 DEF AwaitedTask
    <3>2. AwaitedTask' = [AwaitedTask EXCEPT ![c] = j]
      BY <1>0, <2>1, <2>2 DEF AwaitedTask
    <3> QED
      BY <1>1, <2>1, <3>1, <3>2 DEF Service!Await
  <2>3. CASE pc'[c] # "wait_status"
    <3>1. AwaitedTask' = AwaitedTask
      BY <1>0, <2>1, <2>3 DEF AwaitedTask
    <3> QED
      BY <1>1, <2>1, <3>1, ServiceFrame
  <2> QED
    BY <2>2, <2>3
<1>3. ASSUME WaitStatus(c) \/ WaitSem(c)
      PROVE  Service!Return(c) \/ UNCHANGED Service!serviceVars
  <2>1. /\ pc[c] \in {"wait_status", "wait_sem"} /\ ptsk' = ptsk /\ ptsk[c] \in Tasks
        /\ \E p \in {"wait_sem", "idle", "result"} : pc' = [pc EXCEPT ![c] = p]
        /\ UNCHANGED <<status, wpStatus, accepted, runs, wpc, wtsk>>
    BY <1>0, <1>3 DEF WaitStatus, WaitSem, WaitReturn, Goto, qVars, pVars, wVars, HasTask
  <2>2. CASE pc'[c] = "wait_sem"
    <3>1. AwaitedTask' = AwaitedTask
      BY <1>0, <2>1, <2>2 DEF AwaitedTask
    <3> QED
      BY <1>1, <2>1, <3>1, ServiceFrame
  <2>3. CASE pc'[c] # "wait_sem"
    <3>1. runs[ptsk[c]] > 0
      <4>1. CASE WaitStatus(c)
        <5>1. tsk[ptsk[c]].status = "DONE"
          BY <1>0, <2>3, <4>1 DEF WaitStatus, Goto
        <5> QED
          BY <1>0, <2>1, <5>1, RunOnce
      <4>2. CASE WaitSem(c)
        <5>1. Complete(ptsk[c])
          BY <1>0, <2>1, <4>2, TokenMeansComplete DEF WaitSem
        <5> QED
          BY <5>1 DEF Complete
      <4> QED
        BY <1>3, <4>1, <4>2
    <3>2. AwaitedTask[c] \in Executed
      BY <2>1, <3>1 DEF AwaitedTask, Executed
    <3>3. AwaitedTask' = [AwaitedTask EXCEPT ![c] = NULL]
      BY <1>0, <2>1, <2>3 DEF AwaitedTask
    <3> QED
      BY <1>1, <2>1, <3>2, <3>3 DEF Service!Return
  <2> QED
    BY <2>2, <2>3
<1> QED
  BY <1>2, <1>3

\* The owner's calls start, close and stop the service.
LEMMA OwnerIsOwner ==
    ASSUME PoolInv
    PROVE  /\ Start(Owner) => Service!Start
           /\ ShutdownClose(Owner) => Service!Close
           /\ ShutdownJoin(Owner) => Service!Stop \/ UNCHANGED Service!serviceVars
<1>0. /\ wpc \in [Workers -> WorkerPlaces] /\ wpStatus \in {"READY", "WORKING"}
      /\ DispatchInv /\ TypeInv /\ WayInv /\ Owner \in Clients
      /\ \A w \in Workers : WorkerInv(w)
  BY TypeParts, ClientsAssumption DEF PoolInv, DispatchInv, WorkerTyped, PoolTyped
<1>1. ASSUME Start(Owner)
      PROVE  Service!Start
  <2>1. /\ wpStatus = "READY" /\ wpStatus' = "WORKING" /\ wpc' = [w \in Workers |-> "sem"]
        /\ UNCHANGED <<status, accepted, runs, pc, ptsk>>
    BY <1>1 DEF Start, qVars, lVars
  <2>2. \A w \in Workers : wpc[w] \in {"none", "exited"}
    BY <1>0, <2>1 DEF DispatchInv, CtlInv, WorkerInv
  <2>3. Executing' = Executing
    BY <2>1, <2>2 DEF Executing
  <2>4. UNCHANGED <<Executed, Pending, AwaitedTask>>
    BY <2>1, <2>3 DEF Executed, Pending, AcceptedTasks, AwaitedTask
  <2> QED
    BY <2>1, <2>3, <2>4 DEF Service!Start
<1>2. ASSUME ShutdownClose(Owner)
      PROVE  Service!Close
  <2>1. /\ status' = "QCLOSED" /\ UNCHANGED <<wpStatus, accepted, runs, wpc, wtsk>>
    BY <1>2 DEF ShutdownClose, Queue!Close, Queue!history, pVars, wVars
  <2>2. AwaitedTask' = AwaitedTask
    BY <1>0, <1>2, ClientFrames
  <2>3. UNCHANGED <<Executed, Pending, Executing>>
    BY <2>1 DEF Executed, Pending, Executing, AcceptedTasks
  <2> QED
    BY <2>1, <2>2, <2>3 DEF Service!Close
<1>3. ASSUME ShutdownJoin(Owner)
      PROVE  Service!Stop \/ UNCHANGED Service!serviceVars
  <2>1. /\ cpc = "ended" /\ wpStatus' = "READY"
        /\ UNCHANGED <<status, accepted, runs, wpc, wtsk>>
    BY <1>3 DEF ShutdownJoin, qVars, wVars
  <2>2. AwaitedTask' = AwaitedTask
    BY <1>0, <1>3, ClientFrames
  <2>3. UNCHANGED <<Executed, Pending, Executing>>
    BY <2>1 DEF Executed, Pending, Executing, AcceptedTasks
  <2>4. CASE wpStatus = "READY"
    BY <2>1, <2>2, <2>3, <2>4, ServiceFrame
  <2>5. CASE wpStatus = "WORKING"
    <3>1. status = "QCLOSED" /\ \A w \in Workers : wpc[w] = "exited"
      BY <1>0, <2>1, EndedMeansDone
    <3>2. Executing = [w \in Workers |-> NULL] /\ \A w \in Workers : Executing[w] = NULL
      BY <3>1 DEF Executing
    <3>3. Pending = {}
      <4>1. ASSUME NEW k \in Pending
            PROVE  FALSE
        <5>1. k \in Tasks /\ Occurs(accepted, k) /\ ~(runs[k] > 0)
          BY <4>1, ServiceFacts DEF Pending, Executed
        <5>2. Complete(k)
          BY <1>0, <2>1, <5>1, EndedMeansDone
        <5> QED
          BY <5>1, <5>2 DEF Complete
      <4> QED
        BY <4>1
    <3> QED
      BY <2>1, <2>2, <2>3, <2>5, <3>1, <3>2, <3>3 DEF Service!Stop
  <2> QED
    BY <1>0, <2>4, <2>5
<1> QED
  BY <1>1, <1>2, <1>3

(***************************************************************************)
(* IsService: a pool implements the service of tasks: every step of its    *)
(* clients, its controller and its workers is one of the service or none.  *)
(***************************************************************************)
THEOREM IsService == Spec => ImplementsService
<1>1. Init => Service!Init
  <2> SUFFICES ASSUME Init PROVE Service!Init
    OBVIOUS
  <2>1. /\ status = "QOPENED" /\ wpStatus = "READY" /\ accepted = <<>> /\ DOMAIN accepted = {}
        /\ wpc = [w \in Workers |-> "none"] /\ pc = [c \in Clients |-> "idle"]
        /\ runs = [k \in Tasks |-> 0]
    BY EmptySeq DEF Init, Queue!Init
  <2>2. Executing = [w \in Workers |-> NULL] /\ AwaitedTask = [c \in Clients |-> NULL]
    BY <2>1 DEF Executing, AwaitedTask
  <2>3. Executed = {} /\ Pending = {}
    BY <2>1 DEF Executed, Pending, AcceptedTasks
  <2> QED
    BY <2>1, <2>2, <2>3 DEF Service!Init
<1>2. PoolInv /\ [Next]_poolVars => [Service!Next]_(Service!serviceVars)
  <2> SUFFICES ASSUME PoolInv, [Next]_poolVars
               PROVE  Service!Next \/ UNCHANGED Service!serviceVars
    OBVIOUS
  <2>0. /\ Owner \in Clients /\ Enqueuers \subseteq Clients
        /\ Waiters \subseteq Clients /\ Getters \subseteq Clients /\ Poppers \subseteq Clients
    BY ClientsAssumption
  <2>1. Start(Owner) \/ ShutdownClose(Owner) \/ ShutdownJoin(Owner)
           => Service!Next \/ UNCHANGED Service!serviceVars
    BY OwnerIsOwner DEF Service!Next
  <2>2. ASSUME NEW c \in Clients, EnqueueLocked(c)
        PROVE  Service!Next \/ UNCHANGED Service!serviceVars
    BY <2>2, EnqueueIsAccept DEF Service!Next
  <2>3. ASSUME NEW c \in Clients, NEW call, NEW k \in Tasks, WaitLookup(c, call, k)
        PROVE  Service!Next \/ UNCHANGED Service!serviceVars
    BY <2>3, WaitIsAwait DEF Service!Next
  <2>4. ASSUME NEW c \in Clients, WaitStatus(c) \/ WaitSem(c)
        PROVE  Service!Next \/ UNCHANGED Service!serviceVars
    BY <2>4, WaitIsAwait DEF Service!Next
  <2>5. ASSUME NEW w \in Workers, WorkerTake(w) \/ WorkerRun(w)
        PROVE  Service!Next
    BY <2>5, TakeIsBegin, RunIsFinish DEF Service!Next
  <2>6. ASSUME NEW c \in Clients,
               \/ ShutdownLock(c) \/ EnqueueStatus(c) \/ NewIdLoad(c) \/ NewIdStore(c)
               \/ LockTable(c) \/ EnqueueSem(c) \/ InsertTask(c) \/ GetRes(c) \/ PopRes(c)
        PROVE  UNCHANGED Service!serviceVars
    <3>1. AwaitedTask' = AwaitedTask /\ UNCHANGED <<runs, wpc, wtsk>>
      BY <2>6, ClientFrames DEF EnqueueStep
    <3>2. UNCHANGED <<status, wpStatus, accepted>>
      BY <2>6 DEF ShutdownLock, EnqueueStatus, NewIdLoad, NewIdStore, LockTable, EnqueueSem,
         InsertTask, GetRes, PopRes, qVars, pVars, Queue!EnqueueCall, Queue!EnqueueSem,
         Queue!history, Queue!queueState
    <3> QED
      BY <3>1, <3>2, ServiceFrame DEF Executing
  <2>7. ASSUME CtlStep
        PROVE  UNCHANGED Service!serviceVars
    <3>1. UNCHANGED <<wpStatus, runs, wpc, wtsk, pc, ptsk>>
      BY <2>7 DEF CtlStep, CtlDequeueCall, CtlDequeueSem, CtlDequeueElement, CtlDequeueClosed,
         CtlWaitFree, CtlScan, CtlAssign, CtlNotify, CtlShutdownFlag, CtlShutdownPost, CtlJoin,
         pVars, wVars, lVars
    <3>2. UNCHANGED <<status, accepted>>
      BY <2>7 DEF CtlStep, CtlDequeueCall, CtlDequeueSem, CtlDequeueElement, CtlDequeueClosed,
         CtlWaitFree, CtlScan, CtlAssign, CtlNotify, CtlShutdownFlag, CtlShutdownPost, CtlJoin,
         qVars, Queue!DequeueCall, Queue!DequeueSem, Queue!DequeueElement, Queue!DequeueClosed,
         Queue!history, Queue!queueState
    <3> QED
      BY <3>1, <3>2, ServiceFrame DEF Executing, AwaitedTask
  <2>8. ASSUME NEW w \in Workers,
               \/ WorkerSem(w) \/ WorkerExit(w) \/ WorkerFree(w)
               \/ WorkerDone(w) \/ WorkerExitCode(w) \/ WorkerSignal(w)
        PROVE  UNCHANGED Service!serviceVars
    <3>1. UNCHANGED <<status, wpStatus, accepted, runs, pc, ptsk>>
      BY <2>8 DEF WorkerSem, WorkerExit, WorkerFree, WorkerDone, WorkerExitCode, WorkerSignal,
         qVars, pVars, lVars
    <3>2. wpc \in [Workers -> WorkerPlaces] /\ wtsk \in [Workers -> Tasks \cup {NULL}]
      BY TypeParts DEF PoolInv, WorkerTyped
    <3>3. \A v \in Workers : /\ wpc'[v] = "run" <=> wpc[v] = "run"
                             /\ wpc[v] = "run" => wtsk'[v] = wtsk[v]
      BY <2>8, <3>2 DEF WorkerSem, WorkerExit, WorkerFree, WorkerDone, WorkerExitCode,
         WorkerSignal, WGoto
    <3>4. Executing' = Executing
      BY <3>3 DEF Executing
    <3> QED
      BY <3>1, <3>4, ServiceFrame DEF AwaitedTask
  <2>9. OtherPool \/ Finished \/ UNCHANGED poolVars => UNCHANGED Service!serviceVars
    <3>1. OtherPool \/ Finished \/ UNCHANGED poolVars
             => UNCHANGED <<status, wpStatus, accepted, runs, wpc, wtsk, pc, ptsk>>
      BY DEF OtherPool, OtherIdLoad, OtherIdStore, Finished, poolVars, qVars, pVars, wVars, lVars
    <3> QED
      BY <3>1, ServiceFrame DEF Executing, AwaitedTask
  <2> QED
    BY <2>0, <2>1, <2>2, <2>3, <2>4, <2>5, <2>6, <2>7, <2>8, <2>9
       DEF Next, OwnerStep, EnqueueStep, ResultStep, WorkerStep
<1>3. ImplementsService <=> Service!Init /\ [][Service!Next]_(Service!serviceVars)
  BY DEF ImplementsService, Service!Spec
<1>4. Spec => []PoolInv
  BY WayAlways, PTL DEF PoolInv
<1> QED
  BY <1>1, <1>2, <1>3, <1>4, PTL DEF Spec
=============================================================================
