---------------------------- MODULE CsWorkerPool ----------------------------
(***************************************************************************)
(* The worker pool of src/cs_workerpool.c: clients enqueue tasks into a    *)
(* cs_queue, one controller thread takes them out and hands each to a free *)
(* worker, the workers run them, and clients wait for single tasks.        *)
(*                                                                         *)
(* The queue is the one of CsQueue, step by step.  The other steps are the *)
(* stretches of code between two points where another thread can interfere *)
(* (a semaphore, a lock, an access without a lock).  wp_mutex and          *)
(* table_mutex are held across blocking calls and so are variables;        *)
(* worker_mutex is held only within a step.                                *)
(*                                                                         *)
(* A failed assert ends the program: the step after it is not taken, and   *)
(* the properties say that the assert holds.                               *)
(***************************************************************************)
EXTENDS Naturals, Sequences, FiniteSets

CONSTANTS
    NThreads,     \* wp->nthreads
    QueueSize,    \* tsk_queue_size
    Clients,      \* the threads that use the pool
    Owner,        \* the client that starts and shuts down the pool
    Enqueuers,    \* the clients that call cs_wp_tsk_enqueue
    Waiters,      \* the clients that call cs_wp_tsk_wait
    Getters,      \* the clients that call cs_wp_tsk_get_res
    Poppers,      \* the clients that call cs_wp_tsk_pop_res
    Ctl,          \* the controller thread
    NULL, OK, QUEUE_FULL, NONE,   \* as in CsQueue
    MaxTasks,     \* bound: how many tasks are ever allocated
    MaxStarts,    \* bound: how often the pool is started
    MaxOtherIds   \* bound: another pool draws an id only while the counter is below it

Workers == 0 .. NThreads - 1
Tasks   == 1 .. MaxTasks

ASSUME NThreadsAssumption == NThreads \in Nat \ {0}
ASSUME ClientsAssumption  ==
    /\ IsFiniteSet(Clients) /\ Ctl \notin Clients
    /\ Owner \in Clients /\ Enqueuers \subseteq Clients
    /\ Waiters \subseteq Clients /\ Getters \subseteq Clients /\ Poppers \subseteq Clients
ASSUME TasksAssumption ==
    /\ MaxTasks \in Nat /\ MaxStarts \in Nat /\ QueueSize \in Nat /\ MaxOtherIds \in Nat
    /\ NULL \notin Tasks \cup {OK, QUEUE_FULL, NONE}
    /\ NULL \notin Clients

VARIABLES
    status, elems, qsem, qlimit, qpc, arg, ret, accepted, delivered,  \* of CsQueue
    wpStatus,     \* wp->status
    wpMutex,      \* who holds wp->wp_mutex, or NULL
    wpSem,        \* the value of wp->workerpool_semaphore
    table,        \* the tasks in wp->tsk_res_tb->tsk_res_table
    tableMutex,   \* who holds table_mutex, or NULL
    nextId,       \* the static counter of _cs_wp_new_tsk_id, one for all pools
    otherId,      \* the id that an enqueuer of another pool has read, or 0
    ntasks,       \* how many tasks were allocated; they are 1 .. ntasks
    tsk,          \* per task: tsk_id, status, exit code, task_sem
    freed,        \* the tasks that _cs_wp_tsk_destroy has freed
    wrk,          \* per worker: the fields of _cs_wp_worker_data
    wpc,          \* where each worker is
    wtsk,         \* its tsk_to_perform
    cpc,          \* where the controller is
    ctsk,         \* its task_to_perform
    cidx,         \* its count or free_worker_index
    pc,           \* where each client is
    ptsk,         \* the task of the client's call in progress
    pcall,        \* which of "wait", "get" and "pop" that call is
    pres,         \* the exit code in the last result the client was given
    pid,          \* the id that the client read for a new task
    nstarts,      \* how often cs_wp_start was called
    returned,     \* history: the tasks whose enqueue returned an id
    runs          \* history: how often each task was run

qVars == <<status, elems, qsem, qlimit, qpc, arg, ret, accepted, delivered>>
pVars == <<wpStatus, wpMutex, nstarts>>
tVars == <<table, tableMutex, nextId, otherId, ntasks, freed, returned>>
wVars == <<wrk, wpc, wtsk, runs>>
cVars == <<cpc, ctsk, cidx>>
lVars == <<pc, ptsk, pcall, pres, pid>>
poolVars == <<qVars, pVars, wpSem, tVars, tsk, wVars, cVars, lVars>>

Queue == INSTANCE CsQueue WITH
    Producers <- Clients, Consumers <- {Ctl}, Closers <- {Owner},
    Blocking <- Clients \cup {Ctl}, Data <- Tasks, Capacity <- QueueSize,
    MaxEnqueued <- MaxTasks, MaxQsem <- MaxTasks + MaxStarts

Init ==
    /\ Queue!Init
    /\ wpStatus = "READY" /\ wpMutex = NULL /\ nstarts = 0
    /\ wpSem = NThreads
    /\ table = {} /\ tableMutex = NULL /\ nextId = 0 /\ otherId = 0 /\ ntasks = 0
    /\ freed = {} /\ returned = {}
    /\ tsk = [k \in Tasks |-> [id |-> 0, status |-> "NEW", exit |-> "unset", sem |-> 0]]
    /\ wrk = [w \in Workers |->
                [status |-> "READY", assigned |-> NULL, shutdown |-> FALSE, sem |-> 0]]
    /\ wpc = [w \in Workers |-> "none"]
    /\ wtsk = [w \in Workers |-> NULL]
    /\ runs = [k \in Tasks |-> 0]
    /\ cpc = "none" /\ ctsk = NULL /\ cidx = 0
    /\ pc = [c \in Clients |-> "idle"]
    /\ ptsk = [c \in Clients |-> NULL]
    /\ pcall = [c \in Clients |-> "wait"]
    /\ pres = [c \in Clients |-> "none"]
    /\ pid = [c \in Clients |-> 0]

Goto(c, place)  == pc' = [pc EXCEPT ![c] = place]
WGoto(w, place) == wpc' = [wpc EXCEPT ![w] = place]

-----------------------------------------------------------------------------
(***************************************************************************)
(* Wrong variants of the steps below, against which the properties are     *)
(* tried: each one is a slip that the code could have had.                 *)
(***************************************************************************)

\* sem_trywait instead of sem_wait
WaitSemTries(c) ==
    /\ pc[c] = "wait_sem"
    /\ tsk' = [tsk EXCEPT ![ptsk[c]].sem = IF @ > 0 THEN @ - 1 ELSE @]
    /\ Goto(c, IF pcall[c] = "wait" THEN "idle" ELSE "result")
    /\ UNCHANGED <<qVars, pVars, wpSem, tVars, wVars, cVars, ptsk, pcall, pres, pid>>

\* looks at workerpool_semaphore without taking a token
CtlWaitFreePeeks ==
    /\ cpc = "wait_free"
    /\ wpSem > 0
    /\ cpc' = "scan" /\ cidx' = 0
    /\ UNCHANGED <<qVars, pVars, wpSem, tVars, tsk, wVars, ctsk, lVars>>

\* notifies the worker it found before the task is assigned
CtlScanNotifies ==
    /\ cpc = "scan" /\ cidx < NThreads
    /\ IF wrk[cidx].status = "WAITING"
       THEN /\ cpc' = "assign" /\ UNCHANGED cidx
            /\ wrk' = [wrk EXCEPT ![cidx].sem = @ + 1]
       ELSE cidx' = cidx + 1 /\ UNCHANGED <<cpc, wrk>>
    /\ UNCHANGED <<qVars, pVars, wpSem, tVars, tsk, wpc, wtsk, runs, ctsk, lVars>>

\* forgets the post
CtlNotifyForgets ==
    /\ cpc = "notify"
    /\ cpc' = "dequeue" /\ ctsk' = NULL
    /\ UNCHANGED <<qVars, pVars, wpSem, tVars, tsk, wVars, cidx, lVars>>

\* does not look whether a task is assigned
WorkerExitAtOnce(w) ==
    /\ wpc[w] = "take"
    /\ wrk[w].shutdown
    /\ WGoto(w, "exited")
    /\ UNCHANGED <<qVars, pVars, wpSem, tVars, tsk, wrk, wtsk, runs, cVars, lVars>>

\* continue instead of break
WorkerExitContinues(w) ==
    /\ wpc[w] = "take"
    /\ wrk[w].shutdown /\ wrk[w].assigned = NULL
    /\ WGoto(w, "sem")
    /\ UNCHANGED <<qVars, pVars, wpSem, tVars, tsk, wrk, wtsk, runs, cVars, lVars>>

\* makes the queue of the last life usable again
StartReopens(c) ==
    /\ pc[c] = "idle" /\ wpMutex = NULL
    /\ wpStatus = "READY"
    /\ status' = "QOPENED"
    /\ wrk' = [w \in Workers |-> [wrk[w] EXCEPT !.status = "WAITING"]]
    /\ wpc' = [w \in Workers |-> "sem"]
    /\ cpc' = "dequeue"
    /\ wpStatus' = "WORKING"
    /\ nstarts' = nstarts + 1
    /\ UNCHANGED <<elems, qsem, qlimit, qpc, arg, ret, accepted, delivered, wpMutex, wpSem,
                   tVars, tsk, wtsk, runs, ctsk, cidx, lVars>>

\* does not reset assigned_tsk
WorkerFreeKeepsTask(w) ==
    /\ wpc[w] = "free"
    /\ wrk[w].status = "WORKING"
    /\ wrk' = [wrk EXCEPT ![w].status = "WAITING"]
    /\ wpSem' = wpSem + 1
    /\ WGoto(w, "done")
    /\ UNCHANGED <<qVars, pVars, tVars, tsk, wtsk, runs, cVars, lVars>>

\* forgets the post of workerpool_semaphore
WorkerFreeForgets(w) ==
    /\ wpc[w] = "free"
    /\ wrk[w].status = "WORKING"
    /\ wrk' = [wrk EXCEPT ![w].status = "WAITING", ![w].assigned = NULL]
    /\ WGoto(w, "done")
    /\ UNCHANGED <<qVars, pVars, wpSem, tVars, tsk, wtsk, runs, cVars, lVars>>

\* forgets the post of task_sem
WorkerSignalForgets(w) ==
    /\ wpc[w] = "signal"
    /\ WGoto(w, "sem")
    /\ wtsk' = [wtsk EXCEPT ![w] = NULL]
    /\ UNCHANGED <<qVars, pVars, wpSem, tVars, tsk, wrk, runs, cVars, lVars>>

-----------------------------------------------------------------------------
(***************************************************************************)
(* cs_wp_start, with the loop of _cs_wp_start_workers.  The whole call is  *)
(* one step: there is one owner, wp_mutex keeps every other client out,    *)
(* and the new threads first do something when a task is enqueued.         *)
(***************************************************************************)
Start(c) ==
    /\ pc[c] = "idle" /\ wpMutex = NULL
    /\ wpStatus = "READY"
    /\ wrk' = [w \in Workers |-> [wrk[w] EXCEPT !.status = "WAITING"]]
    /\ wpc' = [w \in Workers |-> "sem"]
    /\ cpc' = "dequeue"
    /\ wpStatus' = "WORKING"
    /\ nstarts' = nstarts + 1
    /\ UNCHANGED <<qVars, wpMutex, wpSem, tVars, tsk, wtsk, runs, ctsk, cidx, lVars>>

(***************************************************************************)
(* cs_wp_shutdown: lock wp_mutex, look at the status                       *)
(***************************************************************************)
ShutdownLock(c) ==
    /\ pc[c] = "idle" /\ wpMutex = NULL
    /\ wpStatus = "WORKING"
    /\ wpMutex' = c
    /\ Goto(c, "sd_close")
    /\ UNCHANGED <<qVars, wpStatus, nstarts, wpSem, tVars, tsk, wVars, cVars,
                   ptsk, pcall, pres, pid>>

ShutdownClose(c) ==
    /\ pc[c] = "sd_close"
    /\ Queue!Close(c)
    /\ Goto(c, "sd_join")
    /\ UNCHANGED <<pVars, wpSem, tVars, tsk, wVars, cVars, ptsk, pcall, pres, pid>>

\* pthread_join of the controller, then the status and the unlock
ShutdownJoin(c) ==
    /\ pc[c] = "sd_join"
    /\ cpc = "ended"
    /\ wpStatus' = "READY" /\ wpMutex' = NULL
    /\ Goto(c, "idle")
    /\ UNCHANGED <<qVars, nstarts, wpSem, tVars, tsk, wVars, cVars, ptsk, pcall, pres, pid>>

(***************************************************************************)
(* cs_wp_tsk_enqueue.  cs_wp_get_status waits for wp_mutex; a pool that is *)
(* not working refuses the task, and nothing changes.                      *)
(***************************************************************************)
EnqueueStatus(c) ==
    /\ pc[c] = "idle" /\ wpMutex = NULL
    /\ wpStatus = "WORKING"
    /\ ntasks < MaxTasks
    /\ ntasks' = ntasks + 1
    /\ ptsk' = [ptsk EXCEPT ![c] = ntasks + 1]
    /\ Goto(c, "new_id")
    /\ UNCHANGED <<qVars, pVars, wpSem, table, tableMutex, nextId, otherId, freed, returned, tsk,
                   wVars, cVars, pcall, pres, pid>>

\* _cs_wp_new_tsk_id increments a static counter under no lock: a load ...
NewIdLoad(c) ==
    /\ pc[c] = "new_id"
    /\ pid' = [pid EXCEPT ![c] = nextId + 1]
    /\ Goto(c, "new_id_store")
    /\ UNCHANGED <<qVars, pVars, wpSem, tVars, tsk, wVars, cVars, ptsk, pcall, pres>>

\* ... and a store; the task is filled in
NewIdStore(c) ==
    /\ pc[c] = "new_id_store"
    /\ nextId' = pid[c]
    /\ tsk' = [tsk EXCEPT ![ptsk[c]].id = pid[c], ![ptsk[c]].status = "WAITING"]
    /\ Goto(c, "lock_table")
    /\ UNCHANGED <<qVars, pVars, wpSem, table, tableMutex, otherId, ntasks, freed, returned,
                   wVars, cVars, ptsk, pcall, pres, pid>>

\* An enqueue into another pool of the process increments the same counter: a
\* library that simulates has two pools, the engine's and the event manager's.
OtherIdLoad ==
    /\ otherId = 0 /\ nextId < MaxOtherIds
    /\ otherId' = nextId + 1
    /\ UNCHANGED <<qVars, pVars, wpSem, table, tableMutex, nextId, ntasks, freed, returned, tsk,
                   wVars, cVars, lVars>>

OtherIdStore ==
    /\ otherId # 0
    /\ nextId' = otherId /\ otherId' = 0
    /\ UNCHANGED <<qVars, pVars, wpSem, table, tableMutex, ntasks, freed, returned, tsk,
                   wVars, cVars, lVars>>

\* table_mutex is taken and kept across the call of cs_queue_enqueue
LockTable(c) ==
    /\ pc[c] = "lock_table" /\ tableMutex = NULL
    /\ tableMutex' = c
    /\ Queue!EnqueueCall(c, ptsk[c])
    /\ Goto(c, "enqueue")
    /\ UNCHANGED <<pVars, wpSem, table, nextId, otherId, ntasks, freed, returned, tsk, wVars, cVars,
                   ptsk, pcall, pres, pid>>

EnqueueSem(c) ==
    /\ pc[c] = "enqueue"
    /\ Queue!EnqueueSem(c)
    /\ UNCHANGED <<pVars, wpSem, tVars, tsk, wVars, cVars, lVars>>

\* cs_queue_enqueue returns 0, also when the queue was closed
EnqueueLocked(c) ==
    /\ pc[c] = "enqueue"
    /\ Queue!EnqueueLocked(c)
    /\ Goto(c, "insert")
    /\ UNCHANGED <<pVars, wpSem, tVars, tsk, wVars, cVars, ptsk, pcall, pres, pid>>

\* rb_find and rb_delete compare ids
SameId(k) == {j \in table : tsk[j].id = tsk[k].id}

\* the table insertion (assert: no task has this id), the unlock, the return
InsertTask(c) ==
    /\ pc[c] = "insert"
    /\ SameId(ptsk[c]) = {}
    /\ table' = table \cup {ptsk[c]}
    /\ returned' = returned \cup {ptsk[c]}
    /\ tableMutex' = NULL
    /\ Goto(c, "idle")
    /\ UNCHANGED <<qVars, pVars, wpSem, nextId, otherId, ntasks, freed, tsk, wVars, cVars,
                   ptsk, pcall, pres, pid>>

-----------------------------------------------------------------------------
(***************************************************************************)
(* cs_wp_tsk_wait, and cs_wp_tsk_get_res and cs_wp_tsk_pop_res, which      *)
(* begin with it.  A client that asks for a result passes an id that an    *)
(* enqueue returned; cs_wp_tsk_wait returns at once for an unknown id.     *)
(* Here k stands for its id: each lookup, under table_mutex, finds the one *)
(* task in the table that has the id, which need not be k any more.        *)
(***************************************************************************)
WaitReturn(c) == Goto(c, IF pcall[c] = "wait" THEN "idle" ELSE "result")

WaitLookup(c, call, k) ==
    /\ pc[c] = "idle" /\ tableMutex = NULL
    /\ call # "wait" => k \in returned
    /\ pcall' = [pcall EXCEPT ![c] = call]
    /\ \/ /\ SameId(k) = {}
          /\ ptsk' = [ptsk EXCEPT ![c] = k]
          /\ Goto(c, IF call = "wait" THEN "idle" ELSE "result")
       \/ \E j \in SameId(k) :
             /\ ptsk' = [ptsk EXCEPT ![c] = j]
             /\ Goto(c, "wait_status")
    /\ UNCHANGED <<qVars, pVars, wpSem, tVars, tsk, wVars, cVars, pres, pid>>

\* found->status is read under no lock
WaitStatus(c) ==
    /\ pc[c] = "wait_status"
    /\ IF tsk[ptsk[c]].status = "DONE" THEN WaitReturn(c) ELSE Goto(c, "wait_sem")
    /\ UNCHANGED <<qVars, pVars, wpSem, tVars, tsk, wVars, cVars, ptsk, pcall, pres, pid>>

\* _cs_wp_wait_task_end
WaitSem(c) ==
    /\ pc[c] = "wait_sem"
    /\ tsk[ptsk[c]].sem > 0
    /\ tsk' = [tsk EXCEPT ![ptsk[c]].sem = @ - 1]
    /\ WaitReturn(c)
    /\ UNCHANGED <<qVars, pVars, wpSem, tVars, wVars, cVars, ptsk, pcall, pres, pid>>

\* the copy of the result in cs_wp_tsk_get_res, NULL when there is no such id
GetRes(c) ==
    /\ pc[c] = "result" /\ pcall[c] = "get" /\ tableMutex = NULL
    /\ \/ SameId(ptsk[c]) = {} /\ pres' = [pres EXCEPT ![c] = "none"]
       \/ \E k \in SameId(ptsk[c]) : pres' = [pres EXCEPT ![c] = tsk[k].exit]
    /\ Goto(c, "idle")
    /\ UNCHANGED <<qVars, pVars, wpSem, tVars, tsk, wVars, cVars, ptsk, pcall, pid>>

\* rb_delete, the copy and _cs_wp_tsk_destroy in cs_wp_tsk_pop_res; for an id
\* that is not in the table the code dereferences NULL
PopRes(c) ==
    /\ pc[c] = "result" /\ pcall[c] = "pop" /\ tableMutex = NULL
    /\ \E k \in SameId(ptsk[c]) :
          /\ table' = table \ {k}
          /\ freed' = freed \cup {k}
          /\ pres' = [pres EXCEPT ![c] = tsk[k].exit]
    /\ Goto(c, "idle")
    /\ UNCHANGED <<qVars, pVars, wpSem, tableMutex, nextId, otherId, ntasks, returned, tsk,
                   wVars, cVars, ptsk, pcall, pid>>

-----------------------------------------------------------------------------
(***************************************************************************)
(* _cs_wp_controller_behaviour                                             *)
(***************************************************************************)
CtlDequeueCall ==
    /\ cpc = "dequeue"
    /\ Queue!DequeueCall(Ctl)
    /\ cpc' = "dequeuing"
    /\ UNCHANGED <<pVars, wpSem, tVars, tsk, wVars, ctsk, cidx, lVars>>

CtlDequeueSem ==
    /\ cpc = "dequeuing"
    /\ Queue!DequeueSem(Ctl)
    /\ UNCHANGED <<pVars, wpSem, tVars, tsk, wVars, cVars, lVars>>

CtlDequeueElement ==
    /\ cpc = "dequeuing"
    /\ Queue!DequeueElement(Ctl)
    /\ ctsk' = ret'[Ctl]
    /\ cpc' = "wait_free"
    /\ UNCHANGED <<pVars, wpSem, tVars, tsk, wVars, cidx, lVars>>

\* NULL: break out of the loop and begin _cs_wp_shutdown_workers
CtlDequeueClosed ==
    /\ cpc = "dequeuing"
    /\ Queue!DequeueClosed(Ctl)
    /\ cpc' = "sd_flag" /\ cidx' = 0
    /\ UNCHANGED <<pVars, wpSem, tVars, tsk, wVars, ctsk, lVars>>

\* sem_wait(workerpool_semaphore)
CtlWaitFree ==
    /\ cpc = "wait_free"
    /\ wpSem > 0
    /\ wpSem' = wpSem - 1
    /\ cpc' = "scan" /\ cidx' = 0
    /\ UNCHANGED <<qVars, pVars, tVars, tsk, wVars, ctsk, lVars>>

\* one turn of the search for a free worker, which locks one worker at a time
CtlScan ==
    /\ cpc = "scan" /\ cidx < NThreads
    /\ IF wrk[cidx].status = "WAITING"
       THEN cpc' = "assign" /\ UNCHANGED cidx
       ELSE cidx' = cidx + 1 /\ UNCHANGED cpc
    /\ UNCHANGED <<qVars, pVars, wpSem, tVars, tsk, wVars, ctsk, lVars>>

\* _cs_wp_assign_tsk_to_worker
CtlAssign ==
    /\ cpc = "assign"
    /\ wrk' = [wrk EXCEPT ![cidx].assigned = ctsk, ![cidx].status = "TSK_ASSIGNED"]
    /\ cpc' = "notify"
    /\ UNCHANGED <<qVars, pVars, wpSem, tVars, tsk, wpc, wtsk, runs, ctsk, cidx, lVars>>

\* sem_post(worker_waiting_semaphore)
CtlNotify ==
    /\ cpc = "notify"
    /\ wrk' = [wrk EXCEPT ![cidx].sem = @ + 1]
    /\ cpc' = "dequeue" /\ ctsk' = NULL
    /\ UNCHANGED <<qVars, pVars, wpSem, tVars, tsk, wpc, wtsk, runs, cidx, lVars>>

\* _cs_wp_shutdown_workers: the flag of worker cidx is set under its lock ...
CtlShutdownFlag ==
    /\ cpc = "sd_flag" /\ cidx < NThreads
    /\ wrk' = [wrk EXCEPT ![cidx].shutdown = TRUE]
    /\ cpc' = "sd_post"
    /\ UNCHANGED <<qVars, pVars, wpSem, tVars, tsk, wpc, wtsk, runs, ctsk, cidx, lVars>>

\* ... and its semaphore posted after the unlock
CtlShutdownPost ==
    /\ cpc = "sd_post"
    /\ wrk' = [wrk EXCEPT ![cidx].sem = @ + 1]
    /\ cpc' = "sd_flag" /\ cidx' = cidx + 1
    /\ UNCHANGED <<qVars, pVars, wpSem, tVars, tsk, wpc, wtsk, runs, ctsk, lVars>>

\* pthread_join of all workers
CtlJoin ==
    /\ cpc = "sd_flag" /\ cidx = NThreads
    /\ \A w \in Workers : wpc[w] = "exited"
    /\ cpc' = "ended"
    /\ UNCHANGED <<qVars, pVars, wpSem, tVars, tsk, wVars, ctsk, cidx, lVars>>

-----------------------------------------------------------------------------
(***************************************************************************)
(* _cs_wp_worker_behaviour                                                 *)
(***************************************************************************)
WorkerSem(w) ==
    /\ wpc[w] = "sem"
    /\ wrk[w].sem > 0
    /\ wrk' = [wrk EXCEPT ![w].sem = @ - 1]
    /\ WGoto(w, "take")
    /\ UNCHANGED <<qVars, pVars, wpSem, tVars, tsk, wtsk, runs, cVars, lVars>>

WorkerExit(w) ==
    /\ wpc[w] = "take"
    /\ wrk[w].shutdown /\ wrk[w].assigned = NULL
    /\ WGoto(w, "exited")
    /\ UNCHANGED <<qVars, pVars, wpSem, tVars, tsk, wrk, wtsk, runs, cVars, lVars>>

WorkerTake(w) ==
    /\ wpc[w] = "take"
    /\ wrk[w].assigned # NULL /\ wrk[w].status = "TSK_ASSIGNED"
    /\ wtsk' = [wtsk EXCEPT ![w] = wrk[w].assigned]
    /\ wrk' = [wrk EXCEPT ![w].status = "WORKING"]
    /\ WGoto(w, "run")
    /\ UNCHANGED <<qVars, pVars, wpSem, tVars, tsk, runs, cVars, lVars>>

\* the task's own code
WorkerRun(w) ==
    /\ wpc[w] = "run"
    /\ runs' = [runs EXCEPT ![wtsk[w]] = @ + 1]
    /\ WGoto(w, "free")
    /\ UNCHANGED <<qVars, pVars, wpSem, tVars, tsk, wrk, wtsk, cVars, lVars>>

\* back to WAITING and the post of workerpool_semaphore, under worker_mutex
WorkerFree(w) ==
    /\ wpc[w] = "free"
    /\ wrk[w].status = "WORKING"
    /\ wrk' = [wrk EXCEPT ![w].status = "WAITING", ![w].assigned = NULL]
    /\ wpSem' = wpSem + 1
    /\ WGoto(w, "done")
    /\ UNCHANGED <<qVars, pVars, tVars, tsk, wtsk, runs, cVars, lVars>>

\* the task's status: tsk_mutex is held, but cs_wp_tsk_wait does not take it
WorkerDone(w) ==
    /\ wpc[w] = "done"
    /\ tsk' = [tsk EXCEPT ![wtsk[w]].status = "DONE"]
    /\ WGoto(w, "exit_code")
    /\ UNCHANGED <<qVars, pVars, wpSem, tVars, wrk, wtsk, runs, cVars, lVars>>

\* the exit code and the unlock of tsk_mutex
WorkerExitCode(w) ==
    /\ wpc[w] = "exit_code"
    /\ tsk' = [tsk EXCEPT ![wtsk[w]].exit = "set"]
    /\ WGoto(w, "signal")
    /\ UNCHANGED <<qVars, pVars, wpSem, tVars, wrk, wtsk, runs, cVars, lVars>>

\* _cs_wp_signal_task_end
WorkerSignal(w) ==
    /\ wpc[w] = "signal"
    /\ tsk' = [tsk EXCEPT ![wtsk[w]].sem = @ + 1]
    /\ WGoto(w, "sem")
    /\ wtsk' = [wtsk EXCEPT ![w] = NULL]
    /\ UNCHANGED <<qVars, pVars, wpSem, tVars, wrk, runs, cVars, lVars>>

-----------------------------------------------------------------------------
OwnerStep(c) == ShutdownClose(c) \/ ShutdownJoin(c)

EnqueueStep(c) == \/ NewIdLoad(c) \/ NewIdStore(c) \/ LockTable(c)
                  \/ EnqueueSem(c) \/ EnqueueLocked(c) \/ InsertTask(c)

ResultStep(c) == WaitStatus(c) \/ WaitSem(c) \/ GetRes(c) \/ PopRes(c)

CtlStep == \/ CtlDequeueCall \/ CtlDequeueSem \/ CtlDequeueElement \/ CtlDequeueClosed
           \/ CtlWaitFree \/ CtlScan \/ CtlAssign \/ CtlNotify
           \/ CtlShutdownFlag \/ CtlShutdownPost \/ CtlJoin

WorkerStep(w) == \/ WorkerSem(w) \/ WorkerExit(w) \/ WorkerTake(w) \/ WorkerRun(w)
                 \/ WorkerFree(w) \/ WorkerDone(w) \/ WorkerExitCode(w) \/ WorkerSignal(w)

OtherPool == OtherIdLoad \/ OtherIdStore

\* the pool was shut down for the last time
Finished ==
    /\ nstarts = MaxStarts /\ wpStatus = "READY"
    /\ UNCHANGED poolVars

Next ==
    \/ nstarts < MaxStarts /\ Start(Owner)
    \/ ShutdownLock(Owner) \/ OwnerStep(Owner)
    \/ \E c \in Enqueuers : EnqueueStatus(c) \/ EnqueueStep(c)
    \/ \E c \in Waiters, k \in Tasks : WaitLookup(c, "wait", k)
    \/ \E c \in Getters, k \in Tasks : WaitLookup(c, "get", k)
    \/ \E c \in Poppers, k \in Tasks \ freed : WaitLookup(c, "pop", k)
    \/ \E c \in Clients : ResultStep(c)
    \/ CtlStep
    \/ \E w \in Workers : WorkerStep(w)
    \/ OtherPool
    \/ Finished

Spec == Init /\ [][Next]_poolVars

(***************************************************************************)
(* Every thread goes on with what it is doing; nothing makes a client call.*)
(***************************************************************************)
Fairness ==
    /\ \A c \in Clients : WF_poolVars(OwnerStep(c) \/ EnqueueStep(c) \/ ResultStep(c))
    /\ WF_poolVars(CtlStep)
    /\ \A w \in Workers : WF_poolVars(WorkerStep(w))

FairSpec == Spec /\ Fairness

-----------------------------------------------------------------------------
WorkerPlaces == {"none", "sem", "take", "run", "free", "done", "exit_code", "signal", "exited"}
CtlPlaces == {"none", "dequeue", "dequeuing", "wait_free", "scan", "assign", "notify",
              "sd_flag", "sd_post", "ended"}
ClientPlaces == {"idle", "sd_close", "sd_join", "new_id", "new_id_store", "lock_table", "enqueue",
                 "insert", "wait_status", "wait_sem", "result"}
WorkerRecord == [status : {"READY", "WAITING", "TSK_ASSIGNED", "WORKING"},
                 assigned : Tasks \cup {NULL}, shutdown : BOOLEAN, sem : Nat]
TaskRecord == [id : Nat, status : {"NEW", "WAITING", "DONE"}, exit : {"unset", "set"}, sem : Nat]

(***************************************************************************)
(* TypeOK: the types of the fields of the pool, its workers and its tasks. *)
(***************************************************************************)
TypeOK ==
    /\ Queue!TypeOK
    /\ wpStatus \in {"READY", "WORKING"}
    /\ wpMutex \in Clients \cup {NULL} /\ tableMutex \in Clients \cup {NULL}
    /\ nstarts \in Nat /\ wpSem \in Nat /\ ntasks \in 0 .. MaxTasks
    /\ nextId \in Nat /\ otherId \in Nat
    /\ table \subseteq Tasks /\ freed \subseteq Tasks /\ returned \subseteq Tasks
    /\ tsk \in [Tasks -> TaskRecord]
    /\ wrk \in [Workers -> WorkerRecord]
    /\ wpc \in [Workers -> WorkerPlaces]
    /\ wtsk \in [Workers -> Tasks \cup {NULL}]
    /\ runs \in [Tasks -> Nat]
    /\ cpc \in CtlPlaces /\ ctsk \in Tasks \cup {NULL} /\ cidx \in 0 .. NThreads
    /\ pc \in [Clients -> ClientPlaces]
    /\ ptsk \in [Clients -> Tasks \cup {NULL}]
    /\ pcall \in [Clients -> {"wait", "get", "pop"}]
    /\ pres \in [Clients -> {"none", "unset", "set"}]
    /\ pid \in [Clients -> Nat]

FreeWorkers == {w \in Workers : wrk[w].status = "WAITING"}

(***************************************************************************)
(* FreeWorkersCounted: workerpool_semaphore "stores the number of free     *)
(* workers", the token that the controller holds while it looks for one    *)
(* and assigns the task included.                                          *)
(***************************************************************************)
FreeWorkersCounted ==
    cpc # "none" =>
        wpSem + (IF cpc \in {"scan", "assign"} THEN 1 ELSE 0) = Cardinality(FreeWorkers)

\* the controller's search ends at a worker that is free, and still is when the
\* task is assigned to it
DispatchAssert ==
    /\ ~(cpc = "scan" /\ cidx = NThreads)
    /\ cpc = "assign" => wrk[cidx].status = "WAITING" /\ wrk[cidx].assigned = NULL

\* what a worker finds when it wakes up, and when its task is over
WorkerAsserts ==
    \A w \in Workers :
        /\ wpc[w] = "take" =>
              \/ wrk[w].assigned # NULL /\ wrk[w].status = "TSK_ASSIGNED"
              \/ wrk[w].assigned = NULL /\ wrk[w].shutdown
        /\ wpc[w] = "free" => wrk[w].status = "WORKING"

(***************************************************************************)
(* PoolAsserts: the asserts of the controller and the workers.  The        *)
(* controller's search, which looks at one worker at a time while the      *)
(* others come and go, always finds a free worker: assert(                 *)
(* free_worker_index>=0) never fails.  A worker that was let through its   *)
(* semaphore finds either a task assigned to it or the shutdown command,   *)
(* and is still WORKING when its task is over: the four asserts of         *)
(* _cs_wp_worker_behaviour.                                                *)
(***************************************************************************)
PoolAsserts == DispatchAssert /\ WorkerAsserts

\* who has task k: the queue, the controller, a worker, or nobody any more
PlacesOf(k) ==
    {<<"queue", i>> : i \in {j \in DOMAIN elems : elems[j] = k}}
    \cup (IF cpc \in {"wait_free", "scan", "assign"} /\ ctsk = k THEN {<<"controller", 0>>} ELSE {})
    \cup {<<"worker", w>> : w \in {v \in Workers : wrk[v].assigned = k \/ wtsk[v] = k}}
    \cup (IF tsk[k].exit = "set" /\ \A w \in Workers : wtsk[w] # k THEN {<<"finished", 0>>} ELSE {})

(***************************************************************************)
(* TaskInOnePlace: a task that the queue accepted is at every moment in    *)
(* exactly one place on its way from the queue through the controller and  *)
(* one worker, and it is run at most once.                                 *)
(***************************************************************************)
TaskInOnePlace ==
    \A k \in Tasks :
        /\ Cardinality(PlacesOf(k)) = Cardinality({i \in DOMAIN accepted : accepted[i] = k})
        /\ Cardinality(PlacesOf(k)) <= 1
        /\ runs[k] <= 1

\* who waits: a client, for nothing or in one of its calls; the controller;
\* a worker
ClientWaits(c) ==
    \/ pc[c] = "idle"
    \/ pc[c] = "sd_join" /\ cpc # "ended"
    \/ pc[c] \in {"lock_table", "result"} /\ tableMutex # NULL
    \/ pc[c] = "enqueue" /\ qpc[c] = "enq_sem" /\ qlimit = 0
    \/ pc[c] = "wait_sem" /\ tsk[ptsk[c]].sem = 0

CtlWaits ==
    \/ cpc = "ended"
    \/ cpc = "dequeuing" /\ qpc[Ctl] = "deq_sem" /\ qsem = 0
    \/ cpc = "wait_free" /\ wpSem = 0
    \/ cpc = "sd_flag" /\ cidx = NThreads /\ \E w \in Workers : wpc[w] # "exited"

WorkerWaits(w) == wpc[w] = "exited" \/ (wpc[w] = "sem" /\ wrk[w].sem = 0)

\* the pool was started, and none of its threads and clients goes on by itself
AtRest ==
    /\ \A c \in Clients : ClientWaits(c)
    /\ CtlWaits
    /\ \A w \in Workers : WorkerWaits(w)

(***************************************************************************)
(* RestMeansDone: clients, controller and workers never all wait for one   *)
(* another: when nobody goes on, every task the queue had accepted was run *)
(* and is complete, no cs_wp_shutdown is in progress and, as long as the   *)
(* queue is open, no other call is: not even that of the client which      *)
(* keeps table_mutex while it waits for a slot in the queue.  A wait that  *)
(* does not end is one for a task that the closed queue has dropped.       *)
(***************************************************************************)
RestMeansDone ==
    AtRest =>
        /\ \A i \in DOMAIN accepted : runs[accepted[i]] = 1 /\ tsk[accepted[i]].exit = "set"
        /\ \A c \in Clients : pc[c] # "sd_join" /\ (status = "QOPENED" => pc[c] = "idle")
        /\ \A c \in Clients : pc[c] = "wait_sem" => \A i \in DOMAIN accepted : accepted[i] # ptsk[c]

(***************************************************************************)
(* UsesQueue: clients, controller and owner call the task queue in a way   *)
(* that CsQueue allows, never from within another call, and leave its      *)
(* fields alone between calls, in a restart too.                           *)
(***************************************************************************)
UsesQueue == Queue!Spec

(***************************************************************************)
(* ImplementsService: a pool is a service that executes each accepted task *)
(* once and on one worker ("The tsk will be executed as soon as a new      *)
(* worker is available"); cs_wp_tsk_wait returns after the task was        *)
(* executed, and cs_wp_shutdown when nothing is left to execute.           *)
(***************************************************************************)
AcceptedTasks == {accepted[i] : i \in DOMAIN accepted}
Executing   == [w \in Workers |-> IF wpc[w] = "run" THEN wtsk[w] ELSE NULL]
Executed    == {k \in Tasks : runs[k] > 0}
Pending     == {k \in AcceptedTasks \ Executed : \A w \in Workers : Executing[w] # k}
AwaitedTask == [c \in Clients |->
                  IF pc[c] \in {"wait_status", "wait_sem"} THEN ptsk[c] ELSE NULL]

Service == INSTANCE TaskService
    WITH Task <- Tasks, Client <- Clients, Worker <- Workers, NoTask <- NULL,
         open <- status = "QOPENED", working <- wpStatus = "WORKING",
         todo <- Pending, doing <- Executing, done <- Executed, awaits <- AwaitedTask

ImplementsService == Service!Spec

(***************************************************************************)
(* NoDuplicateId: "no duplicate can exist" in the task table when          *)
(* cs_wp_tsk_enqueue inserts a new task.  The calls of _cs_wp_new_tsk_id   *)
(* that could prevent it overlap; OneDraw says that none do, neither in    *)
(* this pool nor with another one.                                         *)
(***************************************************************************)
OneDraw ==
    \A c \in Clients : pc[c] = "new_id_store" =>
        otherId = 0 /\ \A d \in Clients : pc[d] = "new_id_store" => c = d

NoDuplicateId == \A c \in Clients : pc[c] = "insert" => SameId(ptsk[c]) = {}

(***************************************************************************)
(* TaskOutlivesWorker: a worker still uses a task after it has run it: it  *)
(* is to "unlock the task data" and "signal (by semaphore) that the task   *)
(* has been performed"; until then the task must not be freed.             *)
(***************************************************************************)
TaskOutlivesWorker == \A w \in Workers : wtsk[w] \notin freed

(***************************************************************************)
(* ResultIsFinal: the result that cs_wp_tsk_get_res or cs_wp_tsk_pop_res   *)
(* gives to the user code holds the task's exit code.                      *)
(***************************************************************************)
ResultIsFinal == \A c \in Clients : pres[c] # "unset"

(***************************************************************************)
(* WaitMeansDone: "Wait for a completion of a task": the call returns only *)
(* when the code of the task has been run.                                 *)
(***************************************************************************)
WaitMeansDone ==
    [][\A c \in Clients :
         pc[c] \in {"wait_status", "wait_sem"} /\ pc'[c] \notin {"wait_status", "wait_sem"}
            => runs[ptsk[c]] > 0 /\ tsk[ptsk[c]].status = "DONE"]_poolVars

(***************************************************************************)
(* ShutdownDrains: cs_wp_shutdown returns only when every task the queue   *)
(* had accepted is complete, its result set and its waiter signalled, and  *)
(* no worker is left running.                                              *)
(***************************************************************************)
ShutdownDrains ==
    [][wpStatus = "WORKING" /\ wpStatus' = "READY" =>
         /\ \A i \in DOMAIN accepted :
               runs[accepted[i]] = 1 /\ tsk[accepted[i]].exit = "set"
         /\ \A w \in Workers : wpc[w] = "exited" /\ wrk[w].sem = 0]_poolVars

(***************************************************************************)
(* EnqueuedRuns: "The tsk will be executed as soon as a new worker is      *)
(* available": a task whose id was returned is run in the end.             *)
(***************************************************************************)
EnqueuedRuns == \A k \in Tasks : (k \in returned) ~> (tsk[k].status = "DONE")

(***************************************************************************)
(* WaitReturns: the worker is to "signal to all the tsk/thread waiting for *)
(* the completion of the tsk": whoever waits for a task comes back.        *)
(***************************************************************************)
WaitReturns ==
    \A c \in Clients : (pc[c] \in {"wait_status", "wait_sem"}) ~> (pc[c] \in {"idle", "result"})

(***************************************************************************)
(* ShutdownReturns: cs_wp_shutdown comes back from joining the controller, *)
(* which in turn joins every worker.                                       *)
(***************************************************************************)
ShutdownReturns == (pc[Owner] = "sd_close") ~> (wpStatus = "READY")
=============================================================================
