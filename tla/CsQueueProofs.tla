--------------------------- MODULE CsQueueProofs ---------------------------
(***************************************************************************)
(* Proofs about CsQueue, for any number of threads, any data and any       *)
(* capacity.  The inductive invariant adds to the properties of interest   *)
(* the token accounting of the two semaphores (SlotsConserved and          *)
(* SemCountsElements) and two facts about the calls in progress.           *)
(***************************************************************************)
EXTENDS CsQueue, FiniteSetTheorems, SequenceTheorems, TLAPS

\* what a thread inside a call is known to be doing
CallsOK ==
    \A t \in Threads :
        /\ qpc[t] \in {"enq_sem", "enq_cs"} => arg[t] \in Data
        /\ qpc[t] \in {"deq_sem", "deq_cs"} => t \in Consumers

Inv == /\ TypeOK
       /\ CallsOK
       /\ SlotsConserved
       /\ SemCountsElements
       /\ FifoExactlyOnce

(***************************************************************************)
(* The number of threads at a place is a natural number, and 0 exactly     *)
(* when no thread is there.                                                *)
(***************************************************************************)
LEMMA HoldersCard ==
    ASSUME NEW place
    PROVE  /\ IsFiniteSet(Holders(place))
           /\ Cardinality(Holders(place)) \in Nat
           /\ Cardinality(Holders(place)) = 0 <=> Holders(place) = {}
<1>1. Holders(place) \in SUBSET Threads
  BY DEF Holders
<1> QED
  BY <1>1, ThreadsAssumption, FS_Subset, FS_CardinalityType, FS_EmptySet

(***************************************************************************)
(* How the number of threads at a place changes when thread t goes from    *)
(* where it is to another place.                                           *)
(***************************************************************************)
LEMMA GotoCard ==
    ASSUME TypeOK, NEW t \in Threads, NEW to, Goto(t, to), NEW place
    PROVE  /\ qpc[t] # place /\ to # place
                => Cardinality(Holders(place)') = Cardinality(Holders(place))
           /\ qpc[t] # place /\ to = place
                => Cardinality(Holders(place)') = Cardinality(Holders(place)) + 1
           /\ qpc[t] = place /\ to # place
                => Cardinality(Holders(place)') = Cardinality(Holders(place)) - 1
<1> USE DEF Goto, Holders, TypeOK
<1>1. IsFiniteSet(Holders(place)) /\ Cardinality(Holders(place)) \in Nat
  BY HoldersCard
<1>2. CASE qpc[t] # place /\ to # place
  <2>1. Holders(place)' = Holders(place)
    BY <1>2
  <2> QED
    BY <1>2, <2>1
<1>3. CASE qpc[t] # place /\ to = place
  <2>1. Holders(place)' = Holders(place) \cup {t}
    BY <1>3
  <2>2. t \notin Holders(place)
    BY <1>3
  <2>3. Cardinality(Holders(place) \cup {t}) = Cardinality(Holders(place)) + 1
    BY <1>1, <2>2, FS_AddElement
  <2> QED
    BY <1>3, <2>1, <2>3
<1>4. CASE qpc[t] = place /\ to # place
  <2>1. Holders(place)' = Holders(place) \ {t}
    BY <1>4
  <2>2. t \in Holders(place)
    BY <1>4
  <2>3. Cardinality(Holders(place) \ {t}) = Cardinality(Holders(place)) - 1
    BY <1>1, <2>2, FS_RemoveElement
  <2> QED
    BY <1>4, <2>1, <2>3
<1> QED
  BY <1>2, <1>3, <1>4

(***************************************************************************)
(* Moving the first element of one sequence to the end of another keeps    *)
(* their concatenation: what cs_queue_dequeue does to the history.         *)
(***************************************************************************)
LEMMA MoveHead ==
    ASSUME NEW S, NEW s \in Seq(S), NEW u \in Seq(S), u # <<>>
    PROVE  Append(s, Head(u)) \o Tail(u) = s \o u
<1>1. /\ Head(u) \in S /\ Tail(u) \in Seq(S)
      /\ Len(Tail(u)) = Len(u) - 1
      /\ \A i \in 1 .. Len(Tail(u)) : Tail(u)[i] = u[i+1]
  BY HeadTailProperties
<1>2. /\ Append(s, Head(u)) \in Seq(S)
      /\ Len(Append(s, Head(u))) = Len(s) + 1
  BY <1>1, AppendProperties
<1>3. /\ Append(s, Head(u)) \o Tail(u) \in Seq(S)
      /\ s \o u \in Seq(S)
  BY <1>1, <1>2, ConcatProperties
<1> QED
  BY <1>1, <1>2, <1>3, SMTT(30)

(***************************************************************************)
(* Appending to the list appends to the whole history, as in               *)
(* cs_queue_enqueue.                                                       *)
(***************************************************************************)
LEMMA AppendConcat ==
    ASSUME NEW s \in Seq(Data), NEW u \in Seq(Data), NEW e \in Data
    PROVE  Append(s \o u, e) = s \o Append(u, e)
<1>1. s \o u \in Seq(Data) /\ <<e>> \in Seq(Data)
  BY ConcatProperties
<1>2. Append(s \o u, e) = (s \o u) \o <<e>>
  BY <1>1, AppendIsConcat
<1>3. Append(u, e) = u \o <<e>>
  BY AppendIsConcat
<1> QED
  BY <1>1, <1>2, <1>3, ConcatAssociative

\* The invariant holds of the queue that cs_queue_init makes.
LEMMA InitInv == Init => Inv
<1> SUFFICES ASSUME Init PROVE Inv
  OBVIOUS
<1> USE DEF Init
<1>1. TypeOK
  BY CapacityAssumption DEF TypeOK, Places, Results
<1>2. CallsOK
  BY DEF CallsOK
<1>3. Holders("enq_cs") = {} /\ Holders("deq_cs") = {}
  BY DEF Holders
<1>4. SlotsConserved /\ SemCountsElements
  <2>1. /\ Cardinality(Holders("enq_cs")) = 0
        /\ Cardinality(Holders("deq_cs")) = 0
    BY <1>3, FS_EmptySet
  <2>2. size = 0
    BY DEF size
  <2> QED
    BY <2>1, <2>2, CapacityAssumption DEF SlotsConserved, SemCountsElements
<1>5. FifoExactlyOnce
  BY DEF FifoExactlyOnce
<1> QED
  BY <1>1, <1>2, <1>4, <1>5 DEF Inv

(***************************************************************************)
(* One lemma per part of the invariant that more than one action disturbs. *)
(* The first: no step of a queue operation breaks the types or what is     *)
(* known of the calls in progress.                                         *)
(***************************************************************************)
LEMMA TypeStep ==
    ASSUME Inv, [Next]_queueVars
    PROVE  TypeOK' /\ CallsOK'
<1> USE DEF Inv, TypeOK, CallsOK, queueState, history, Goto, Return, Places, Results, Threads
<1>1. ASSUME NEW t \in Producers, NEW d \in Data, EnqueueCall(t, d)
      PROVE  TypeOK' /\ CallsOK'
  BY <1>1 DEF EnqueueCall
<1>2. ASSUME NEW t \in Producers, EnqueueSem(t)
      PROVE  TypeOK' /\ CallsOK'
  BY <1>2 DEF EnqueueSem
<1>3. ASSUME NEW t \in Producers, EnqueueFull(t)
      PROVE  TypeOK' /\ CallsOK'
  BY <1>3 DEF EnqueueFull
<1>4. ASSUME NEW t \in Producers, EnqueueLocked(t)
      PROVE  TypeOK' /\ CallsOK'
  <2>1. arg[t] \in Data
    BY <1>4 DEF EnqueueLocked
  <2>2. Append(elems, arg[t]) \in Seq(Data) /\ Append(accepted, arg[t]) \in Seq(Data)
    BY <2>1, AppendProperties
  <2>3. elems' \in Seq(Data) /\ accepted' \in Seq(Data) /\ qsem' \in Nat
    <3>0. elems \in Seq(Data) /\ accepted \in Seq(Data) /\ qsem \in Nat
      OBVIOUS
    <3> HIDE DEF Inv, TypeOK, CallsOK, Return
    <3>1. CASE status = "QOPENED"
      <4>1. /\ elems' = Append(elems, arg[t])
            /\ qsem' = qsem + 1
            /\ accepted' = Append(accepted, arg[t])
        BY <1>4, <3>1 DEF EnqueueLocked
      <4> QED
        BY <2>2, <3>0, <4>1
    <3>2. CASE status # "QOPENED"
      BY <1>4, <3>0, <3>2 DEF EnqueueLocked
    <3> QED
      BY <3>1, <3>2
  <2>4. UNCHANGED <<status, qlimit, arg, delivered>> /\ Return(t, OK)
    BY <1>4 DEF EnqueueLocked
  <2> QED
    BY <2>3, <2>4
<1>5. ASSUME NEW t \in Consumers, DequeueCall(t)
      PROVE  TypeOK' /\ CallsOK'
  BY <1>5 DEF DequeueCall
<1>6. ASSUME NEW t \in Consumers, DequeueSem(t)
      PROVE  TypeOK' /\ CallsOK'
  BY <1>6 DEF DequeueSem
<1>7. ASSUME NEW t \in Consumers, DequeueEmpty(t) \/ DequeueClosed(t)
      PROVE  TypeOK' /\ CallsOK'
  BY <1>7 DEF DequeueEmpty, DequeueClosed
<1>8. ASSUME NEW t \in Consumers, DequeueElement(t)
      PROVE  TypeOK' /\ CallsOK'
  <2>1. Head(elems) \in Data /\ Tail(elems) \in Seq(Data)
    BY <1>8, HeadTailProperties DEF DequeueElement
  <2>2. Append(delivered, Head(elems)) \in Seq(Data)
    BY <2>1, AppendProperties
  <2> QED
    BY <1>8, <2>1, <2>2 DEF DequeueElement
<1>9. ASSUME NEW t \in Closers, Close(t)
      PROVE  TypeOK' /\ CallsOK'
  BY <1>9 DEF Close
<1>10. CASE UNCHANGED queueVars
  BY <1>10 DEF queueVars
<1> QED
  BY <1>1, <1>2, <1>3, <1>4, <1>5, <1>6, <1>7, <1>8, <1>9, <1>10
     DEF Next, EnqueueStep, DequeueStep

\* No step of a queue operation miscounts the tokens of qlimit_sem.
LEMMA SlotsStep ==
    ASSUME Inv, TypeOK', [Next]_queueVars
    PROVE  SlotsConserved'
<1> DEFINE n == Cardinality(Holders("enq_cs"))
<1>1. /\ n \in Nat /\ n' \in Nat
      /\ qlimit \in Nat /\ qlimit' \in Nat
      /\ size \in Nat /\ size' \in Nat
  <2>1. Cardinality(Holders("enq_cs")) \in Nat
    BY HoldersCard
  <2>2. Holders("enq_cs")' \in SUBSET Threads
    BY DEF Holders
  <2>3. Cardinality(Holders("enq_cs")') \in Nat
    BY <2>2, ThreadsAssumption, FS_Subset, FS_CardinalityType
  <2> QED
    BY <2>1, <2>3, LenProperties DEF Inv, TypeOK, size
<1>2. /\ size + qlimit + n <= Capacity
      /\ status = "QOPENED" => size + qlimit + n = Capacity
  BY DEF Inv, SlotsConserved
<1>3. SUFFICES /\ size' + qlimit' + n' <= Capacity
               /\ status' = "QOPENED" => size' + qlimit' + n' = Capacity
  BY DEF SlotsConserved
<1> HIDE DEF n
<1> USE CapacityAssumption
<1>n. ASSUME NEW t \in Threads, NEW to, Goto(t, to)
      PROVE  /\ qpc[t] # "enq_cs" /\ to # "enq_cs" => n' = n
             /\ qpc[t] # "enq_cs" /\ to = "enq_cs" => n' = n + 1
             /\ qpc[t] = "enq_cs" /\ to # "enq_cs" => n' = n - 1
  BY <1>n, GotoCard DEF Inv, n
<1>4. ASSUME NEW t \in Producers, NEW d \in Data, EnqueueCall(t, d)
      PROVE  n' = n /\ size' = size /\ qlimit' = qlimit /\ status' = status
  BY <1>4, <1>n DEF EnqueueCall, queueState, size, Threads
<1>5. ASSUME NEW t \in Producers, EnqueueSem(t)
      PROVE  n' = n + 1 /\ size' = size /\ qlimit' = qlimit - 1 /\ status' = status
  BY <1>5, <1>n DEF EnqueueSem, size, Threads
<1>6. ASSUME NEW t \in Producers, EnqueueFull(t)
      PROVE  n' = n /\ size' = size /\ qlimit' = qlimit /\ status' = status
  BY <1>6, <1>n DEF EnqueueFull, Return, queueState, size, Threads
<1>7. ASSUME NEW t \in Producers, EnqueueLocked(t)
      PROVE  /\ n' = n - 1 /\ qlimit' = qlimit /\ status' = status
             /\ size' = IF status = "QOPENED" THEN size + 1 ELSE size
  <2>1. n' = n - 1 /\ qlimit' = qlimit /\ status' = status
    BY <1>7, <1>n DEF EnqueueLocked, Return, Threads
  <2>2. arg[t] \in Data /\ elems \in Seq(Data)
    BY <1>7 DEF EnqueueLocked, Inv, TypeOK, CallsOK, Threads
  <2>3. Len(Append(elems, arg[t])) = Len(elems) + 1
    BY <2>2, AppendProperties
  <2>4. elems' = IF status = "QOPENED" THEN Append(elems, arg[t]) ELSE elems
    BY <1>7 DEF EnqueueLocked
  <2> QED
    BY <2>1, <2>3, <2>4 DEF size
<1>8. ASSUME NEW t \in Consumers, DequeueCall(t) \/ DequeueEmpty(t) \/ DequeueClosed(t)
      PROVE  n' = n /\ size' = size /\ qlimit' = qlimit /\ status' = status
  BY <1>8, <1>n DEF DequeueCall, DequeueEmpty, DequeueClosed, Return, queueState, size, Threads
<1>9. ASSUME NEW t \in Consumers, DequeueSem(t)
      PROVE  n' = n /\ size' = size /\ qlimit' = qlimit /\ status' = status
  BY <1>9, <1>n DEF DequeueSem, size, Threads
<1>10. ASSUME NEW t \in Consumers, DequeueElement(t)
       PROVE  n' = n /\ size' = size - 1 /\ qlimit' = qlimit + 1 /\ status' = status
  <2>1. n' = n /\ qlimit' = qlimit + 1 /\ status' = status
    BY <1>10, <1>n DEF DequeueElement, Return, Threads
  <2>2. Len(Tail(elems)) = Len(elems) - 1
    BY <1>10, HeadTailProperties DEF DequeueElement, Inv, TypeOK
  <2> QED
    BY <1>10, <2>1, <2>2 DEF DequeueElement, size
<1>11. ASSUME NEW t \in Closers, Close(t)
       PROVE  n' = n /\ size' = size /\ qlimit' = qlimit /\ status' = "QCLOSED"
  BY <1>11 DEF Close, size, n, Holders
<1>12. ASSUME UNCHANGED queueVars
       PROVE  n' = n /\ size' = size /\ qlimit' = qlimit /\ status' = status
  BY <1>12 DEF queueVars, size, n, Holders
<1>13. \/ /\ n' = n /\ size' = size /\ qlimit' = qlimit
          /\ status' = status \/ status' = "QCLOSED"
       \/ /\ n' = n + 1 /\ size' = size /\ qlimit' = qlimit - 1 /\ status' = status
       \/ /\ n' = n - 1 /\ qlimit' = qlimit /\ status' = status
          /\ size' = IF status = "QOPENED" THEN size + 1 ELSE size
       \/ n' = n /\ size' = size - 1 /\ qlimit' = qlimit + 1 /\ status' = status
  BY <1>4, <1>5, <1>6, <1>7, <1>8, <1>9, <1>10, <1>11, <1>12
     DEF Next, EnqueueStep, DequeueStep
<1>14. CASE /\ n' = n /\ size' = size /\ qlimit' = qlimit
            /\ status' = status \/ status' = "QCLOSED"
  BY <1>2, <1>14
<1>15. CASE /\ n' = n + 1 /\ size' = size /\ qlimit' = qlimit - 1 /\ status' = status
  BY <1>1, <1>2, <1>15
<1>16. CASE /\ n' = n - 1 /\ qlimit' = qlimit /\ status' = status
            /\ size' = IF status = "QOPENED" THEN size + 1 ELSE size
  BY <1>1, <1>2, <1>16
<1>17. CASE n' = n /\ size' = size - 1 /\ qlimit' = qlimit + 1 /\ status' = status
  BY <1>1, <1>2, <1>17
<1> QED
  BY <1>13, <1>14, <1>15, <1>16, <1>17

\* No step of a queue operation miscounts the tokens of qsem.
LEMMA SemStep ==
    ASSUME Inv, TypeOK', [Next]_queueVars
    PROVE  SemCountsElements'
<1> DEFINE n == Cardinality(Holders("deq_cs"))
<1>1. /\ n \in Nat /\ n' \in Nat
      /\ qsem \in Nat /\ qsem' \in Nat
      /\ size \in Nat /\ size' \in Nat
  <2>1. Cardinality(Holders("deq_cs")) \in Nat
    BY HoldersCard
  <2>2. Holders("deq_cs")' \in SUBSET Threads
    BY DEF Holders
  <2>3. Cardinality(Holders("deq_cs")') \in Nat
    BY <2>2, ThreadsAssumption, FS_Subset, FS_CardinalityType
  <2> QED
    BY <2>1, <2>3, LenProperties DEF Inv, TypeOK, size
<1>2. /\ qsem + n >= size
      /\ status = "QOPENED" => qsem + n = size
  BY DEF Inv, SemCountsElements
<1>3. SUFFICES /\ qsem' + n' >= size'
               /\ status' = "QOPENED" => qsem' + n' = size'
  BY DEF SemCountsElements
<1> HIDE DEF n
<1>n. ASSUME NEW t \in Threads, NEW to, Goto(t, to)
      PROVE  /\ qpc[t] # "deq_cs" /\ to # "deq_cs" => n' = n
             /\ qpc[t] # "deq_cs" /\ to = "deq_cs" => n' = n + 1
             /\ qpc[t] = "deq_cs" /\ to # "deq_cs" => n' = n - 1
  BY <1>n, GotoCard DEF Inv, n
<1>4. ASSUME NEW t \in Producers, NEW d \in Data, EnqueueCall(t, d)
      PROVE  n' = n /\ size' = size /\ qsem' = qsem /\ status' = status
  BY <1>4, <1>n DEF EnqueueCall, queueState, size, Threads
<1>5. ASSUME NEW t \in Producers, EnqueueSem(t) \/ EnqueueFull(t)
      PROVE  n' = n /\ size' = size /\ qsem' = qsem /\ status' = status
  BY <1>5, <1>n DEF EnqueueSem, EnqueueFull, Return, queueState, size, Threads
<1>6. ASSUME NEW t \in Producers, EnqueueLocked(t)
      PROVE  /\ n' = n /\ status' = status
             /\ \/ size' = size + 1 /\ qsem' = qsem + 1
                \/ size' = size /\ qsem' = qsem
  <2>1. n' = n /\ status' = status
    BY <1>6, <1>n DEF EnqueueLocked, Return, Threads
  <2>2. arg[t] \in Data /\ elems \in Seq(Data)
    BY <1>6 DEF EnqueueLocked, Inv, TypeOK, CallsOK, Threads
  <2>3. Len(Append(elems, arg[t])) = Len(elems) + 1
    BY <2>2, AppendProperties
  <2>4. \/ elems' = Append(elems, arg[t]) /\ qsem' = qsem + 1
        \/ elems' = elems /\ qsem' = qsem
    BY <1>6 DEF EnqueueLocked
  <2> QED
    BY <2>1, <2>3, <2>4 DEF size
<1>7. ASSUME NEW t \in Consumers, DequeueCall(t) \/ DequeueEmpty(t)
      PROVE  n' = n /\ size' = size /\ qsem' = qsem /\ status' = status
  BY <1>7, <1>n DEF DequeueCall, DequeueEmpty, Return, queueState, size, Threads
<1>8. ASSUME NEW t \in Consumers, DequeueSem(t)
      PROVE  n' = n + 1 /\ size' = size /\ qsem' = qsem - 1 /\ status' = status
  BY <1>8, <1>n DEF DequeueSem, size, Threads
<1>9. ASSUME NEW t \in Consumers, DequeueClosed(t)
      PROVE  n' = n - 1 /\ size' = 0 /\ qsem' = qsem /\ status' = "QCLOSED"
  BY <1>9, <1>n DEF DequeueClosed, Return, queueState, size, Threads
<1>10. ASSUME NEW t \in Consumers, DequeueElement(t)
       PROVE  n' = n - 1 /\ size' = size - 1 /\ qsem' = qsem /\ status' = status
  <2>1. n' = n - 1 /\ qsem' = qsem /\ status' = status
    BY <1>10, <1>n DEF DequeueElement, Return, Threads
  <2>2. Len(Tail(elems)) = Len(elems) - 1
    BY <1>10, HeadTailProperties DEF DequeueElement, Inv, TypeOK
  <2> QED
    BY <1>10, <2>1, <2>2 DEF DequeueElement, size
<1>11. ASSUME NEW t \in Closers, Close(t)
       PROVE  n' = n /\ size' = size /\ qsem' = qsem + 1 /\ status' = "QCLOSED"
  BY <1>11 DEF Close, size, n, Holders
<1>12. ASSUME UNCHANGED queueVars
       PROVE  n' = n /\ size' = size /\ qsem' = qsem /\ status' = status
  BY <1>12 DEF queueVars, size, n, Holders
<1>13. \/ n' = n /\ size' = size /\ qsem' = qsem /\ status' = status
       \/ n' = n /\ size' = size + 1 /\ qsem' = qsem + 1 /\ status' = status
       \/ n' = n + 1 /\ size' = size /\ qsem' = qsem - 1 /\ status' = status
       \/ n' = n - 1 /\ size' = 0 /\ qsem' = qsem /\ status' = "QCLOSED"
       \/ n' = n - 1 /\ size' = size - 1 /\ qsem' = qsem /\ status' = status
       \/ n' = n /\ size' = size /\ qsem' = qsem + 1 /\ status' = "QCLOSED"
  BY <1>4, <1>5, <1>6, <1>7, <1>8, <1>9, <1>10, <1>11, <1>12
     DEF Next, EnqueueStep, DequeueStep
<1>14. CASE n' = n /\ size' = size /\ qsem' = qsem /\ status' = status
  BY <1>2, <1>14
<1>15. CASE n' = n /\ size' = size + 1 /\ qsem' = qsem + 1 /\ status' = status
  BY <1>1, <1>2, <1>15
<1>16. CASE n' = n + 1 /\ size' = size /\ qsem' = qsem - 1 /\ status' = status
  BY <1>1, <1>2, <1>16
<1>17. CASE n' = n - 1 /\ size' = 0 /\ qsem' = qsem /\ status' = "QCLOSED"
  BY <1>1, <1>17
<1>18. CASE n' = n - 1 /\ size' = size - 1 /\ qsem' = qsem /\ status' = status
  BY <1>1, <1>2, <1>18
<1>19. CASE n' = n /\ size' = size /\ qsem' = qsem + 1 /\ status' = "QCLOSED"
  BY <1>1, <1>2, <1>19
<1> QED
  BY <1>13, <1>14, <1>15, <1>16, <1>17, <1>18, <1>19

\* No step of a queue operation loses, repeats or reorders an element.
LEMMA FifoStep ==
    ASSUME Inv, [Next]_queueVars
    PROVE  FifoExactlyOnce'
<1>1. accepted = delivered \o elems
  BY DEF Inv, FifoExactlyOnce
<1>2. elems \in Seq(Data) /\ delivered \in Seq(Data)
  BY DEF Inv, TypeOK
<1>3. SUFFICES accepted' = delivered' \o elems'
  BY DEF FifoExactlyOnce
<1>4. ASSUME NEW t \in Producers, EnqueueLocked(t)
      PROVE  accepted' = delivered' \o elems'
  <2>1. arg[t] \in Data
    BY <1>4 DEF EnqueueLocked, Inv, CallsOK, Threads
  <2>2. CASE status = "QOPENED"
    <3>1. /\ elems' = Append(elems, arg[t])
          /\ accepted' = Append(accepted, arg[t])
          /\ delivered' = delivered
      BY <1>4, <2>2 DEF EnqueueLocked
    <3>2. Append(delivered \o elems, arg[t]) = delivered \o Append(elems, arg[t])
      BY <1>2, <2>1, AppendConcat, Zenon
    <3> QED
      BY <1>1, <3>1, <3>2
  <2>3. CASE status # "QOPENED"
    BY <1>1, <1>4, <2>3 DEF EnqueueLocked
  <2> QED
    BY <2>2, <2>3
<1>5. ASSUME NEW t \in Consumers, DequeueElement(t)
      PROVE  accepted' = delivered' \o elems'
  <2>1. /\ elems # <<>>
        /\ elems' = Tail(elems)
        /\ delivered' = Append(delivered, Head(elems))
        /\ accepted' = accepted
    BY <1>5 DEF DequeueElement
  <2>2. Append(delivered, Head(elems)) \o Tail(elems) = delivered \o elems
    BY <1>2, <2>1, MoveHead
  <2> QED
    BY <1>1, <2>1, <2>2
<1>6. ASSUME UNCHANGED <<elems, accepted, delivered>>
      PROVE  accepted' = delivered' \o elems'
  BY <1>1, <1>6
<1>7. ASSUME NEW t, NEW d, EnqueueCall(t, d)
      PROVE  UNCHANGED <<elems, accepted, delivered>>
  BY <1>7 DEF EnqueueCall, queueState, history
<1>8. ASSUME NEW t, EnqueueSem(t) \/ EnqueueFull(t) \/ DequeueCall(t) \/ DequeueSem(t)
                    \/ DequeueEmpty(t) \/ DequeueClosed(t) \/ Close(t)
      PROVE  UNCHANGED <<elems, accepted, delivered>>
  BY <1>8 DEF EnqueueSem, EnqueueFull, DequeueCall, DequeueSem, DequeueEmpty, DequeueClosed,
              Close, queueState, history
<1>9. ASSUME UNCHANGED queueVars
      PROVE  UNCHANGED <<elems, accepted, delivered>>
  BY <1>9 DEF queueVars
<1> QED
  BY <1>4, <1>5, <1>6, <1>7, <1>8, <1>9 DEF Next, EnqueueStep, DequeueStep

\* Every step of every queue operation preserves the invariant.
LEMMA InvStep == Inv /\ [Next]_queueVars => Inv'
<1> SUFFICES ASSUME Inv, [Next]_queueVars PROVE Inv'
  OBVIOUS
<1>1. TypeOK' /\ CallsOK'
  BY TypeStep
<1>2. SlotsConserved'
  BY <1>1, SlotsStep
<1>3. SemCountsElements'
  BY <1>1, SemStep
<1>4. FifoExactlyOnce'
  BY FifoStep
<1> QED
  BY <1>1, <1>2, <1>3, <1>4 DEF Inv

\* The invariant holds in every reachable state of the queue.
LEMMA InvAlways == Spec => []Inv
  BY InitInv, InvStep, PTL DEF Spec

-----------------------------------------------------------------------------
(***************************************************************************)
(* The fields of cs_queue keep their types under any interleaving.         *)
(***************************************************************************)
THEOREM TypeCorrect == Spec => []TypeOK
<1>1. Inv => TypeOK
  BY DEF Inv
<1> QED
  BY <1>1, InvAlways, PTL

(***************************************************************************)
(* The two semaphores of cs_queue account for every slot and every element *)
(* of an open queue, tokens held between sem_wait and the lock included.   *)
(***************************************************************************)
THEOREM TokensAccounted == Spec => [](SlotsConserved /\ SemCountsElements)
<1>1. Inv => SlotsConserved /\ SemCountsElements
  BY DEF Inv
<1> QED
  BY <1>1, InvAlways, PTL

(***************************************************************************)
(* cs_queue_dequeue hands out what cs_queue_enqueue linked, in order and   *)
(* exactly once, with any number of consumers.                             *)
(***************************************************************************)
THEOREM FifoOrder == Spec => []FifoExactlyOnce
<1>1. Inv => FifoExactlyOnce
  BY DEF Inv
<1> QED
  BY <1>1, InvAlways, PTL

\* a thread that holds a token makes the count of its place positive
LEMMA HolderCounts ==
    ASSUME NEW place, NEW t \in Threads, qpc[t] = place
    PROVE  Cardinality(Holders(place)) >= 1
<1>1. t \in Holders(place)
  BY DEF Holders
<1>2. Cardinality(Holders(place)) \in Nat /\ Cardinality(Holders(place)) # 0
  BY <1>1, HoldersCard
<1> QED
  BY <1>2

(***************************************************************************)
(* assert(q->head != NULL) in cs_queue_dequeue never fails, with any       *)
(* number of consumers.                                                    *)
(***************************************************************************)
THEOREM HeadAssertHolds == Spec => []HeadAssert
<1>1. Inv => HeadAssert
  <2> SUFFICES ASSUME Inv, NEW t \in Threads, qpc[t] = "deq_cs", status # "QCLOSED"
               PROVE  elems # <<>>
    BY DEF HeadAssert
  <2>1. status = "QOPENED"
    BY DEF Inv, TypeOK
  <2>2. Cardinality(Holders("deq_cs")) >= 1 /\ Cardinality(Holders("deq_cs")) \in Nat
    BY HolderCounts, HoldersCard
  <2>3. qsem \in Nat /\ qsem + Cardinality(Holders("deq_cs")) = size
    BY <2>1 DEF Inv, TypeOK, SemCountsElements
  <2>4. size # 0
    BY <2>2, <2>3
  <2> QED
    BY <2>4 DEF size
<1> QED
  BY <1>1, InvAlways, PTL

(***************************************************************************)
(* With one consumer, as in the worker pool, the assertion that q->size is *)
(* the value of qsem at the end of cs_queue_dequeue never fails.           *)
(***************************************************************************)
THEOREM SizeAssertHolds ==
    ASSUME \A c1, c2 \in Consumers : c1 = c2
    PROVE  Spec => []SizeIsSem
<1>1. Inv => SizeIsSem
  <2> SUFFICES ASSUME Inv, NEW t \in Threads, qpc[t] = "deq_cs", status = "QOPENED"
               PROVE  size = qsem + 1
    BY DEF SizeIsSem
  <2>1. Holders("deq_cs") = {t}
    BY DEF Inv, CallsOK, Holders
  <2>2. Cardinality(Holders("deq_cs")) = 1
    BY <2>1, FS_Singleton
  <2>3. qsem + Cardinality(Holders("deq_cs")) = size
    BY DEF Inv, SemCountsElements
  <2> QED
    BY <2>2, <2>3
<1> QED
  BY <1>1, InvAlways, PTL

(***************************************************************************)
(* Nothing is linked into a closed cs_queue, which is never opened again.  *)
(***************************************************************************)
THEOREM ClosedForGood == Spec => AcceptsNothingAfterClose
<1>1. Inv /\ [Next]_queueVars
        => [status = "QCLOSED" => status' = "QCLOSED" /\ accepted' = accepted]_queueVars
  <2> SUFFICES ASSUME [Next]_queueVars, status = "QCLOSED"
               PROVE  status' = "QCLOSED" /\ accepted' = accepted
    OBVIOUS
  <2>1. ASSUME NEW t, NEW d, EnqueueCall(t, d)
        PROVE  status' = "QCLOSED" /\ accepted' = accepted
    BY <2>1 DEF EnqueueCall, queueState, history
  <2>2. ASSUME NEW t, EnqueueSem(t) \/ EnqueueFull(t) \/ EnqueueLocked(t)
        PROVE  status' = "QCLOSED" /\ accepted' = accepted
    BY <2>2 DEF EnqueueSem, EnqueueFull, EnqueueLocked, queueState, history
  <2>3. ASSUME NEW t, DequeueCall(t) \/ DequeueSem(t) \/ DequeueEmpty(t)
                      \/ DequeueClosed(t) \/ DequeueElement(t)
        PROVE  status' = "QCLOSED" /\ accepted' = accepted
    BY <2>3 DEF DequeueCall, DequeueSem, DequeueEmpty, DequeueClosed, DequeueElement,
                queueState, history
  <2>4. ASSUME NEW t, Close(t)
        PROVE  status' = "QCLOSED" /\ accepted' = accepted
    BY <2>4 DEF Close, history
  <2>5. CASE UNCHANGED queueVars
    BY <2>5 DEF queueVars
  <2> QED
    BY <2>1, <2>2, <2>3, <2>4, <2>5 DEF Next, EnqueueStep, DequeueStep
<1> QED
  BY <1>1, InvAlways, PTL DEF Spec, AcceptsNothingAfterClose

(***************************************************************************)
(* cs_queue implements the bounded buffer: every step changes the list as  *)
(* a Put, a Get or a Close of BoundedFifo does, or leaves it alone.  That  *)
(* a Put finds room is what the tokens of qlimit_sem are for.              *)
(***************************************************************************)
THEOREM Refinement == Spec => ImplementsFifo
<1>1. Init => Fifo!Init
  BY DEF Init, Fifo!Init
<1>2. Inv /\ [Next]_queueVars => [Fifo!Next]_(Fifo!fifoVars)
  <2> SUFFICES ASSUME Inv, [Next]_queueVars
               PROVE  [Fifo!Next]_(Fifo!fifoVars)
    OBVIOUS
  <2> USE DEF Fifo!Next, Fifo!fifoVars
  <2>1. ASSUME NEW t \in Producers, EnqueueLocked(t)
        PROVE  [Fifo!Next]_(Fifo!fifoVars)
    <3>1. CASE status = "QOPENED"
      <4>1. arg[t] \in Data /\ t \in Threads /\ qpc[t] = "enq_cs"
        BY <2>1 DEF EnqueueLocked, Inv, CallsOK, Threads
      <4>2. /\ Cardinality(Holders("enq_cs")) >= 1
            /\ Cardinality(Holders("enq_cs")) \in Nat
        BY <4>1, HolderCounts, HoldersCard
      <4>3. size + qlimit + Cardinality(Holders("enq_cs")) <= Capacity
        BY DEF Inv, SlotsConserved
      <4>4. size \in Nat /\ qlimit \in Nat
        BY LenProperties DEF Inv, TypeOK, size
      <4>5. size < Capacity
        BY <4>2, <4>3, <4>4, CapacityAssumption
      <4>6. elems' = Append(elems, arg[t]) /\ status' = status
        BY <2>1, <3>1 DEF EnqueueLocked
      <4>7. Fifo!Put(arg[t])
        BY <3>1, <4>5, <4>6 DEF Fifo!Put, size
      <4> QED
        BY <4>1, <4>7
    <3>2. CASE status # "QOPENED"
      BY <2>1, <3>2 DEF EnqueueLocked
    <3> QED
      BY <3>1, <3>2
  <2>2. ASSUME NEW t \in Consumers, DequeueElement(t)
        PROVE  [Fifo!Next]_(Fifo!fifoVars)
    BY <2>2 DEF DequeueElement, Fifo!Get
  <2>3. ASSUME NEW t \in Closers, Close(t)
        PROVE  [Fifo!Next]_(Fifo!fifoVars)
    BY <2>3 DEF Close, Fifo!Close
  <2>4. ASSUME UNCHANGED <<elems, status>>
        PROVE  [Fifo!Next]_(Fifo!fifoVars)
    BY <2>4
  <2>5. ASSUME NEW t, NEW d, EnqueueCall(t, d)
        PROVE  UNCHANGED <<elems, status>>
    BY <2>5 DEF EnqueueCall, queueState
  <2>6. ASSUME NEW t, EnqueueSem(t) \/ EnqueueFull(t) \/ DequeueCall(t) \/ DequeueSem(t)
                      \/ DequeueEmpty(t) \/ DequeueClosed(t)
        PROVE  UNCHANGED <<elems, status>>
    BY <2>6 DEF EnqueueSem, EnqueueFull, DequeueCall, DequeueSem, DequeueEmpty, DequeueClosed,
                queueState
  <2>7. ASSUME UNCHANGED queueVars
        PROVE  UNCHANGED <<elems, status>>
    BY <2>7 DEF queueVars
  <2> HIDE DEF Fifo!Next, Fifo!fifoVars
  <2> QED
    BY <2>1, <2>2, <2>3, <2>4, <2>5, <2>6, <2>7 DEF Next, EnqueueStep, DequeueStep
<1> QED
  BY <1>1, <1>2, InvAlways, PTL DEF Spec, ImplementsFifo, Fifo!Spec
=============================================================================
