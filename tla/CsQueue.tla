------------------------------ MODULE CsQueue ------------------------------
(***************************************************************************)
(* The bounded queue of src/cs_queue.c: a linked list under a mutex        *)
(* (qmutex) with two semaphores, qlimit_sem for the free slots and qsem    *)
(* for the elements.                                                       *)
(*                                                                         *)
(* An operation waits for its semaphore BEFORE it locks qmutex, so between *)
(* the two it holds a token while other threads change the queue: that is  *)
(* one step.  Everything between the lock and the unlock touches state     *)
(* that is written only under qmutex, so it is one step too.  The linked   *)
(* list is the sequence elems, head (the oldest element) first, and the    *)
(* field size is its length.                                               *)
(***************************************************************************)
EXTENDS Naturals, Sequences, FiniteSets

CONSTANTS
    Producers,     \* the threads that call cs_queue_enqueue
    Consumers,     \* the threads that call cs_queue_dequeue
    Closers,       \* the threads that call cs_queue_close
    Blocking,      \* the threads that pass a nonzero `blocking'
    Data,          \* the pointers that may be enqueued
    Capacity,      \* the `size' given to cs_queue_init
    MaxEnqueued,   \* bound: no new enqueue once that many were accepted
    MaxQsem,       \* bound: no new close once qsem is that high
    NULL,          \* what dequeue returns when there is no element
    OK,            \* the 0 that enqueue returns
    QUEUE_FULL,    \* what a non-blocking enqueue returns for want of a slot
    NONE           \* stands for the result of a thread that made no call yet

Threads == Producers \cup Consumers \cup Closers

ASSUME ThreadsAssumption  == IsFiniteSet(Threads) /\ Blocking \subseteq Threads
ASSUME CapacityAssumption == Capacity \in Nat
ASSUME NullAssumption     == NULL \notin Data \cup {OK, QUEUE_FULL, NONE}

VARIABLES
    status,      \* q->status
    elems,       \* the list from q->head to q->tail
    qsem,        \* the value of q->qsem
    qlimit,      \* the value of q->qlimit_sem
    qpc,         \* where each thread is in a call of this module
    arg,         \* the `data' of each thread's last enqueue
    ret,         \* what each thread's last call returned
    accepted,    \* history: everything linked into the list, in order
    delivered    \* history: everything unlinked from it, in order

queueState == <<status, elems, qsem, qlimit>>
history    == <<accepted, delivered>>
queueVars  == <<status, elems, qsem, qlimit, qpc, arg, ret, accepted, delivered>>

Results == Data \cup {NULL, OK, QUEUE_FULL, NONE}
Places  == {"out", "enq_sem", "enq_cs", "deq_sem", "deq_cs"}

(***************************************************************************)
(* TypeOK: the types of the fields of cs_queue and of the calls.           *)
(***************************************************************************)
TypeOK ==
    /\ status \in {"QOPENED", "QCLOSED"}
    /\ elems \in Seq(Data)
    /\ qsem \in Nat
    /\ qlimit \in Nat
    /\ qpc \in [Threads -> Places]
    /\ arg \in [Threads -> Data \cup {NULL}]
    /\ ret \in [Threads -> Results]
    /\ accepted \in Seq(Data)
    /\ delivered \in Seq(Data)

\* cs_queue_init
Init ==
    /\ status = "QOPENED"
    /\ elems = <<>>
    /\ qsem = 0
    /\ qlimit = Capacity
    /\ qpc = [t \in Threads |-> "out"]
    /\ arg = [t \in Threads |-> NULL]
    /\ ret = [t \in Threads |-> NONE]
    /\ accepted = <<>>
    /\ delivered = <<>>

\* cs_queue_size, read under qmutex
size == Len(elems)

Holders(place) == {t \in Threads : qpc[t] = place}

Goto(t, place) == qpc' = [qpc EXCEPT ![t] = place]

Return(t, r) == Goto(t, "out") /\ ret' = [ret EXCEPT ![t] = r]

-----------------------------------------------------------------------------
(***************************************************************************)
(* Wrong variants of the operations, against which the properties below    *)
(* are tried: each one is a slip that the code could have had.             *)
(***************************************************************************)

\* looks at qlimit_sem without taking the token
EnqueueSemPeeks(t) ==
    /\ qpc[t] = "enq_sem"
    /\ qlimit > 0
    /\ Goto(t, "enq_cs")
    /\ UNCHANGED <<queueState, arg, ret, history>>

\* links the new element at the head of the list
EnqueueLockedAtHead(t) ==
    /\ qpc[t] = "enq_cs"
    /\ IF status = "QOPENED"
       THEN /\ elems' = <<arg[t]>> \o elems
            /\ qsem' = qsem + 1
            /\ accepted' = Append(accepted, arg[t])
       ELSE UNCHANGED <<elems, qsem, accepted>>
    /\ Return(t, OK)
    /\ UNCHANGED <<status, qlimit, arg, delivered>>

\* looks at qsem without taking the token
DequeueSemPeeks(t) ==
    /\ qpc[t] = "deq_sem"
    /\ qsem > 0
    /\ Goto(t, "deq_cs")
    /\ UNCHANGED <<queueState, arg, ret, history>>

\* closes the queue and does not post qsem
CloseSilently(t) ==
    /\ qpc[t] = "out"
    /\ status' = "QCLOSED"
    /\ UNCHANGED <<elems, qsem, qlimit, qpc, arg, ret, history>>

-----------------------------------------------------------------------------
(***************************************************************************)
(* cs_queue_enqueue                                                        *)
(***************************************************************************)
EnqueueCall(t, d) ==
    /\ qpc[t] = "out"
    /\ Goto(t, "enq_sem")
    /\ arg' = [arg EXCEPT ![t] = d]
    /\ UNCHANGED <<queueState, ret, history>>

\* sem_wait or a successful sem_trywait on qlimit_sem
EnqueueSem(t) ==
    /\ qpc[t] = "enq_sem"
    /\ qlimit > 0
    /\ qlimit' = qlimit - 1
    /\ Goto(t, "enq_cs")
    /\ UNCHANGED <<status, elems, qsem, arg, ret, history>>

\* sem_trywait finds no slot
EnqueueFull(t) ==
    /\ qpc[t] = "enq_sem"
    /\ t \notin Blocking
    /\ qlimit = 0
    /\ Return(t, QUEUE_FULL)
    /\ UNCHANGED <<queueState, arg, history>>

\* the critical section; a closed queue drops the datum, keeps the slot's
\* token and returns 0 all the same
EnqueueLocked(t) ==
    /\ qpc[t] = "enq_cs"
    /\ IF status = "QOPENED"
       THEN /\ elems' = Append(elems, arg[t])
            /\ qsem' = qsem + 1
            /\ accepted' = Append(accepted, arg[t])
       ELSE UNCHANGED <<elems, qsem, accepted>>
    /\ Return(t, OK)
    /\ UNCHANGED <<status, qlimit, arg, delivered>>

(***************************************************************************)
(* cs_queue_dequeue                                                        *)
(***************************************************************************)
DequeueCall(t) ==
    /\ qpc[t] = "out"
    /\ Goto(t, "deq_sem")
    /\ UNCHANGED <<queueState, arg, ret, history>>

\* sem_wait or a successful sem_trywait on qsem
DequeueSem(t) ==
    /\ qpc[t] = "deq_sem"
    /\ qsem > 0
    /\ qsem' = qsem - 1
    /\ Goto(t, "deq_cs")
    /\ UNCHANGED <<status, elems, qlimit, arg, ret, history>>

\* sem_trywait finds no element
DequeueEmpty(t) ==
    /\ qpc[t] = "deq_sem"
    /\ t \notin Blocking
    /\ qsem = 0
    /\ Return(t, NULL)
    /\ UNCHANGED <<queueState, arg, history>>

\* the critical section when the queue was closed and is empty
DequeueClosed(t) ==
    /\ qpc[t] = "deq_cs"
    /\ elems = <<>>
    /\ status = "QCLOSED"
    /\ Return(t, NULL)
    /\ UNCHANGED <<queueState, arg, history>>

\* the critical section when there is an element (assert(q->head != NULL))
DequeueElement(t) ==
    /\ qpc[t] = "deq_cs"
    /\ elems # <<>>
    /\ elems' = Tail(elems)
    /\ qlimit' = qlimit + 1
    /\ delivered' = Append(delivered, Head(elems))
    /\ Return(t, Head(elems))
    /\ UNCHANGED <<status, qsem, arg, accepted>>

(***************************************************************************)
(* cs_queue_close                                                          *)
(***************************************************************************)
Close(t) ==
    /\ qpc[t] = "out"
    /\ status' = "QCLOSED"
    /\ qsem' = qsem + 1
    /\ UNCHANGED <<elems, qlimit, qpc, arg, ret, history>>

-----------------------------------------------------------------------------
EnqueueStep(t) == EnqueueSem(t) \/ EnqueueFull(t) \/ EnqueueLocked(t)

DequeueStep(t) == \/ DequeueSem(t)
                  \/ DequeueEmpty(t)
                  \/ DequeueClosed(t)
                  \/ DequeueElement(t)

Next ==
    \/ \E t \in Producers :
          \/ Len(accepted) < MaxEnqueued /\ \E d \in Data : EnqueueCall(t, d)
          \/ EnqueueStep(t)
    \/ \E t \in Consumers : DequeueCall(t) \/ DequeueStep(t)
    \/ \E t \in Closers : qsem < MaxQsem /\ Close(t)

Spec == Init /\ [][Next]_queueVars

(***************************************************************************)
(* A thread inside a call goes on with it, and the consumers call again    *)
(* and again, as the loop of the worker pool's controller does.  Nothing   *)
(* makes a producer or a closer call.                                      *)
(***************************************************************************)
Fairness ==
    /\ \A t \in Producers : WF_queueVars(EnqueueStep(t))
    /\ \A t \in Consumers : WF_queueVars(DequeueCall(t) \/ DequeueStep(t))

FairSpec == Spec /\ Fairness

-----------------------------------------------------------------------------
(***************************************************************************)
(* SlotsConserved: as long as the queue is open every slot is free, in an  *)
(* element of the list, or in the hands of a thread between sem_wait and   *)
(* the lock in cs_queue_enqueue; a closed queue can lose slots and never   *)
(* gains one.                                                              *)
(***************************************************************************)
SlotsConserved ==
    LET used == size + qlimit + Cardinality(Holders("enq_cs"))
    IN  used <= Capacity /\ (status = "QOPENED" => used = Capacity)

(***************************************************************************)
(* SemCountsElements: "the value of the semaphore indicates the number of  *)
(* element in the cs_queue", once the consumers between sem_wait(qsem) and *)
(* the lock are counted too; a closed queue has tokens to spare, which let *)
(* a consumer through to find the queue empty.                             *)
(***************************************************************************)
SemCountsElements ==
    LET tokens == qsem + Cardinality(Holders("deq_cs"))
    IN  tokens >= size /\ (status = "QOPENED" => tokens = size)

(***************************************************************************)
(* HeadAssert: a thread that got past sem_wait(qsem) finds an element or a *)
(* closed queue, whatever the other threads did before it got the lock:    *)
(* assert(q->head != NULL) in cs_queue_dequeue never fails.                *)
(***************************************************************************)
HeadAssert ==
    \A t \in Threads :
        qpc[t] = "deq_cs" => elems # <<>> \/ status = "QCLOSED"

(***************************************************************************)
(* FifoExactlyOnce: what was taken out and what is still in the list are   *)
(* together exactly what cs_queue_enqueue linked, in the same order.       *)
(***************************************************************************)
FifoExactlyOnce == accepted = delivered \o elems

(***************************************************************************)
(* SizeIsSem: the comment "thereafter, q->size == sem_getvalue()" and the  *)
(* assertion after it in cs_queue_dequeue: at the end of the critical      *)
(* section the semaphore counts the elements of an open queue.             *)
(***************************************************************************)
SizeIsSem ==
    \A t \in Threads :
        qpc[t] = "deq_cs" /\ elems # <<>> /\ status = "QOPENED"
            => size = qsem + 1

(***************************************************************************)
(* OkMeansQueued: cs_queue_enqueue returns "a value < 0 whenever something *)
(* was wrong, 0 otherwise": after a return of 0 the datum was linked.      *)
(***************************************************************************)
OkMeansQueued ==
    \A t \in Producers :
        qpc[t] = "out" /\ ret[t] = OK
            => \E i \in DOMAIN accepted : accepted[i] = arg[t]

(***************************************************************************)
(* AcceptsNothingAfterClose: "Close the queue, which thereafter will not   *)
(* accept any more element", and it is never opened again.                 *)
(***************************************************************************)
AcceptsNothingAfterClose ==
    [][status = "QCLOSED" => /\ status' = "QCLOSED"
                             /\ accepted' = accepted]_queueVars

(***************************************************************************)
(* CloseReachesConsumer: the post in cs_queue_close wakes the consumer:    *)
(* once the queue is closed, it is emptied and then a consumer is given    *)
(* NULL.                                                                   *)
(***************************************************************************)
CloseReachesConsumer ==
    (status = "QCLOSED") ~> (elems = <<>> /\ \E t \in Consumers : ret[t] = NULL)

(***************************************************************************)
(* The queue implements the bounded buffer of BoundedFifo: in particular   *)
(* the two semaphores keep the list within Capacity elements.              *)
(***************************************************************************)
Fifo == INSTANCE BoundedFifo WITH buf <- elems, open <- (status = "QOPENED")

ImplementsFifo == Fifo!Spec
=============================================================================
