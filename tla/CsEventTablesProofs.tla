------------------------- MODULE CsEventTablesProofs -------------------------
(***************************************************************************)
(* Proofs about the tables of CsEventTables, for any set of threads, times *)
(* and handlers.  What is said of the lists assumes that no handler        *)
(* deletes the list it is raised from (DeletesOwn = FALSE): the            *)
(* configuration EventHandlerDeletes shows that it fails otherwise.        *)
(***************************************************************************)
EXTENDS CsEventTables, FiniteSetTheorems, SequenceTheorems, WellFoundedInduction, TLAPS

\* within cs_evm_throw_scheduled_events, and the threads that work on a list
Busy == {"raising", "deleting"}
InHand(w) == pc[w] \in {"raising", "deleting", "popped"}

\* what a pointer of a thread and the time of a list say
PtrInv ==
    /\ \A t \in Times : tree[t] # 0 => lists[tree[t]].at = t
    /\ \A w \in Threads : pc[w] = "out" => ptr[w] = 0
    /\ \A w \in Threads : InHand(w) => ptr[w] # 0

TypeInv == TypeOK /\ PtrInv

\* ev_tree_lock is free, or held once by the one thread that is throwing events
LockInv ==
    \/ owner = None /\ depth = 0 /\ \A w \in Threads : pc[w] \notin Busy
    \/ owner \in Threads /\ depth = 1 /\ \A w \in Threads : pc[w] \in Busy <=> w = owner

LEMMA NatMin ==
    ASSUME NEW S, S \subseteq Nat, S # {}
    PROVE  \E m \in S : \A u \in S : m <= u
<1> DEFINE R == OpToRel(<, Nat)
<1>1. IsWellFoundedOn(R, Nat)
  BY NatLessThanWellFounded
<1>2. \A x, y \in Nat : <<x, y>> \in R <=> x < y
  BY DEF OpToRel
<1> HIDE DEF R
<1>3. PICK m \in S : \A u \in S : ~ (<<u, m>> \in R)
  BY <1>1, WFMin
<1>4. \A u \in S : ~ (u < m)
  BY <1>2, <1>3
<1> QED
  BY <1>4

LEMMA NatMax ==
    ASSUME NEW S, S \subseteq Nat, S # {}, NEW b \in Nat, \A u \in S : u <= b
    PROVE  \E m \in S : \A u \in S : m >= u
<1> DEFINE T == {b - u : u \in S}
<1>1. T \subseteq Nat
  OBVIOUS
<1>2. T # {}
  <2>1. PICK u \in S : TRUE
    OBVIOUS
  <2>2. b - u \in T
    OBVIOUS
  <2> QED
    BY <2>2
<1>3. PICK m \in T : \A u \in T : m <= u
  BY <1>1, <1>2, NatMin
<1>4. PICK x \in S : m = b - x
  OBVIOUS
<1>5. \A u \in S : b - x <= b - u
  BY <1>3, <1>4
<1> QED
  BY <1>5

\* The first and the last list are well defined.
LEMMA EndInTimes ==
    ASSUME Held # {}, NEW nearest \in BOOLEAN
    PROVE  End(nearest) \in Times
<1>1. Held \subseteq Times /\ Held \subseteq Nat
  BY TablesAssumption DEF Held
<1>2. PICK b \in Times : \A u \in Times : u <= b
  BY TablesAssumption
<1>3. \E t \in Held : \A u \in Held : IF nearest THEN t <= u ELSE t >= u
  <2>1. CASE nearest
    BY <1>1, <2>1, NatMin
  <2>2. CASE ~nearest
    <3>1. b \in Nat /\ \A u \in Held : u <= b
      BY <1>1, <1>2, TablesAssumption
    <3>2. \E t \in Held : \A u \in Held : t >= u
      BY <1>1, <3>1, NatMax
    <3> QED
      BY <2>2, <3>2
  <2> QED
    BY <2>1, <2>2
<1> QED
  BY <1>1, <1>3 DEF End

-----------------------------------------------------------------------------
(***************************************************************************)
(* What the operations on the tables do, list by list.                     *)
(***************************************************************************)

\* cs_evm_schedule_event puts one event at the end of the list of time t
Grown(t) ==
    /\ tree' \in [Times -> 0 .. Len(lists')] /\ tree'[t] # 0
    /\ \A u \in Times : u # t => tree'[u] = tree[u]
    /\ lists' \in Seq(EventList) /\ Len(lists) <= Len(lists')
    /\ IF tree[t] = 0
       THEN /\ tree'[t] = Len(lists) + 1 /\ Len(lists') = Len(lists) + 1
            /\ lists'[tree'[t]] = [at |-> t, items |-> <<nevents + 1>>, freed |-> 0]
       ELSE /\ tree'[t] = tree[t] /\ Len(lists') = Len(lists)
            /\ lists'[tree[t]].items = Append(lists[tree[t]].items, nevents + 1)
            /\ lists'[tree[t]].at = lists[tree[t]].at
            /\ lists'[tree[t]].freed = lists[tree[t]].freed
    /\ \A l \in 1 .. Len(lists) : l # tree[t] => lists'[l] = lists[l]

\* cs_evm_delete_events frees the list of time t, if there is one
Pruned(t) ==
    /\ tree' \in [Times -> 0 .. Len(lists')] /\ tree'[t] = 0
    /\ \A u \in Times : u # t => tree'[u] = tree[u]
    /\ lists' \in Seq(EventList) /\ Len(lists') = Len(lists)
    /\ \A l \in 1 .. Len(lists) :
          /\ lists'[l].at = lists[l].at /\ lists'[l].items = lists[l].items
          /\ lists'[l].freed = IF l = tree[t] THEN lists[l].freed + 2 ELSE lists[l].freed

LEMMA ListTypes ==
    ASSUME lists \in Seq(EventList), NEW l \in 1 .. Len(lists)
    PROVE  /\ lists[l] \in EventList
           /\ lists[l].at \in Times /\ lists[l].items \in Seq(Events) /\ lists[l].freed \in Nat
<1>1. lists[l] \in EventList
  OBVIOUS
<1> QED
  BY <1>1 DEF EventList

LEMMA ScheduledGrows ==
    ASSUME TypeInv, NEW t \in Times, nevents < MaxEvents, Scheduled(t, nevents + 1)
    PROVE  Grown(t)
<1>0. /\ lists \in Seq(EventList) /\ Len(lists) \in Nat
      /\ tree \in [Times -> 0 .. Len(lists)] /\ nevents + 1 \in Events
  BY TablesAssumption DEF TypeInv, TypeOK, Events
<1>1. CASE tree[t] = 0
  <2> DEFINE r == [at |-> t, items |-> <<nevents + 1>>, freed |-> 0]
  <2>1. r \in EventList
    BY <1>0 DEF EventList
  <2>2. lists' = Append(lists, r) /\ tree' = [tree EXCEPT ![t] = Len(lists) + 1]
    BY <1>1 DEF Scheduled
  <2> HIDE DEF r
  <2>3. /\ lists' \in Seq(EventList) /\ Len(lists') = Len(lists) + 1
        /\ \A l \in 1 .. Len(lists) : lists'[l] = lists[l]
        /\ lists'[Len(lists) + 1] = r
    BY <1>0, <2>1, <2>2, AppendProperties
  <2>4. /\ tree' \in [Times -> 0 .. Len(lists')] /\ tree'[t] = Len(lists) + 1
        /\ \A u \in Times : u # t => tree'[u] = tree[u]
    BY <1>0, <2>2, <2>3
  <2> QED
    BY <1>0, <1>1, <2>3, <2>4 DEF Grown, r
<1>2. CASE tree[t] # 0
  <2> DEFINE k == tree[t]
             r == [lists[k] EXCEPT !.items = Append(lists[k].items, nevents + 1)]
  <2>1. k \in 1 .. Len(lists) /\ lists[k] \in EventList
    BY <1>0, <1>2
  <2>2. /\ r \in EventList /\ r.items = Append(lists[k].items, nevents + 1)
        /\ r.at = lists[k].at /\ r.freed = lists[k].freed
    <3>1. Append(lists[k].items, nevents + 1) \in Seq(Events)
      BY <1>0, <2>1, AppendProperties DEF EventList
    <3> QED
      BY <2>1, <3>1 DEF EventList
  <2>3. lists' = [lists EXCEPT ![k] = r] /\ tree' = tree
    BY <1>0, <1>2, <2>1 DEF Scheduled
  <2> HIDE DEF k, r
  <2>4. /\ lists' \in Seq(EventList) /\ Len(lists') = Len(lists)
        /\ \A l \in 1 .. Len(lists) : lists'[l] = IF l = k THEN r ELSE lists[l]
    BY <1>0, <2>1, <2>2, <2>3, ExceptSeq
  <2> QED
    BY <1>0, <1>2, <2>1, <2>2, <2>3, <2>4 DEF Grown, k
<1> QED
  BY <1>1, <1>2

LEMMA DeletePrunes ==
    ASSUME TypeInv, NEW t \in Times, DeleteEvents(t)
    PROVE  /\ Pruned(t)
           /\ status' \in {"running", "aborted", status}
<1>0. /\ lists \in Seq(EventList) /\ Len(lists) \in Nat
      /\ tree \in [Times -> 0 .. Len(lists)]
  BY DEF TypeInv, TypeOK
<1>1. status' \in {"running", "aborted", status}
  BY DEF DeleteEvents, AfterFree
<1>2. tree' = [tree EXCEPT ![t] = 0]
  BY DEF DeleteEvents
<1>3. CASE tree[t] = 0
  <2>1. lists' = lists
    BY <1>3 DEF DeleteEvents
  <2> QED
    BY <1>0, <1>1, <1>2, <1>3, <2>1 DEF Pruned
<1>4. CASE tree[t] # 0
  <2> DEFINE k == tree[t]
             r == [lists[k] EXCEPT !.freed = lists[k].freed + 2]
  <2>1. k \in 1 .. Len(lists) /\ lists[k] \in EventList
    BY <1>0, <1>4
  <2>2. /\ r \in EventList /\ r.items = lists[k].items
        /\ r.at = lists[k].at /\ r.freed = lists[k].freed + 2
    BY <2>1 DEF EventList
  <2>3. lists' = [lists EXCEPT ![k] = r]
    BY <1>0, <1>4, <2>1 DEF DeleteEvents
  <2> HIDE DEF k, r
  <2>4. /\ lists' \in Seq(EventList) /\ Len(lists') = Len(lists)
        /\ \A l \in 1 .. Len(lists) : lists'[l] = IF l = k THEN r ELSE lists[l]
    BY <1>0, <2>1, <2>2, <2>3, ExceptSeq
  <2> QED
    BY <1>0, <1>1, <1>2, <2>1, <2>2, <2>4 DEF Pruned, k
<1> QED
  BY <1>3, <1>4

\* the three things that user code or a call does to the tables
Quiet == UNCHANGED <<tree, lists, nevents, deleted>>
Adds(t) == nevents < MaxEvents /\ nevents' = nevents + 1 /\ Grown(t) /\ deleted' = deleted
Drops(t) ==
    /\ nevents' = nevents /\ Pruned(t)
    /\ deleted' = deleted \cup (IF tree[t] = 0 THEN {} ELSE Unraised(tree[t]))

\* A handler does one of them, and needs the lock unless it leaves the tables alone.
LEMMA HandlerCases ==
    ASSUME TypeInv, NEW w \in Threads, NEW e, HandlerCode(w), Raise(e)
    PROVE  /\ status' \in {"running", "aborted", status}
           /\ \/ Quiet
              \/ \E t \in Times : MayLock(w) /\ Adds(t)
              \/ \E t \in Times : MayLock(w) /\ (tree[t] = ptr[w] => DeletesOwn) /\ Drops(t)
<1>1. CASE UNCHANGED <<tree, lists, nevents, deleted>> /\ (eh = Code \/ UNCHANGED status)
  BY <1>1 DEF Quiet, Raise
<1>2. CASE /\ eh \in Handlers /\ MayLock(w) /\ nevents < MaxEvents
           /\ nevents' = nevents + 1
           /\ \E t \in Times : Scheduled(t, nevents + 1)
           /\ UNCHANGED <<deleted, status>>
  <2>1. PICK t \in Times : Scheduled(t, nevents + 1)
    BY <1>2
  <2>2. Adds(t)
    BY <1>2, <2>1, ScheduledGrows DEF Adds
  <2> QED
    BY <1>2, <2>2
<1>3. CASE /\ eh \in Handlers /\ MayLock(w)
           /\ \E t \in Times : (tree[t] = ptr[w] => DeletesOwn) /\ DeletesToo(t)
           /\ UNCHANGED nevents
  <2>1. PICK t \in Times : (tree[t] = ptr[w] => DeletesOwn) /\ DeletesToo(t)
    BY <1>3
  <2>2. Drops(t) /\ status' \in {"running", "aborted", status}
    BY <1>3, <2>1, DeletePrunes DEF DeletesToo, Drops
  <2> QED
    BY <1>3, <2>1, <2>2
<1> QED
  BY <1>1, <1>2, <1>3 DEF HandlerCode

TablesOK ==
    /\ lists \in Seq(EventList) /\ tree \in [Times -> 0 .. Len(lists)]
    /\ nevents \in 0 .. MaxEvents /\ deleted \subseteq Events
    /\ \A t \in Times : tree[t] # 0 => lists[tree[t]].at = t

LEMMA TablesStep ==
    ASSUME TypeInv, Quiet \/ \E t \in Times : Adds(t) \/ Drops(t)
    PROVE  TablesOK' /\ Len(lists') \in Nat /\ Len(lists) <= Len(lists')
<1>0. /\ TablesOK /\ Len(lists) \in Nat
  BY DEF TypeInv, TypeOK, PtrInv, TablesOK
<1>1. CASE Quiet
  BY <1>0, <1>1 DEF Quiet, TablesOK
<1>2. ASSUME NEW t \in Times, Adds(t)
      PROVE  TablesOK' /\ Len(lists') \in Nat /\ Len(lists) <= Len(lists')
  <2>1. /\ lists' \in Seq(EventList) /\ tree' \in [Times -> 0 .. Len(lists')]
        /\ nevents' \in 0 .. MaxEvents /\ deleted' \subseteq Events
        /\ Len(lists') \in Nat /\ Len(lists) <= Len(lists')
    BY <1>0, <1>2, TablesAssumption, SMTT(60) DEF Adds, Grown, TablesOK
  <2>2. ASSUME NEW u \in Times, tree'[u] # 0
        PROVE  lists'[tree'[u]].at = u
    <3>1. CASE u = t
      BY <1>0, <1>2, <2>1, <2>2, <3>1, SMTT(60) DEF Adds, Grown, TablesOK
    <3>2. CASE u # t
      <4>1. tree'[u] = tree[u] /\ tree[u] \in 1 .. Len(lists) /\ lists[tree[u]].at = u
        BY <1>0, <1>2, <2>2, <3>2 DEF Adds, Grown, TablesOK
      <4>2. tree[u] # tree[t]
        BY <1>0, <3>2, <4>1 DEF TablesOK
      <4> QED
        BY <1>2, <4>1, <4>2, SMTT(60) DEF Adds, Grown
    <3> QED
      BY <3>1, <3>2
  <2> QED
    BY <2>1, <2>2, SMTT(60) DEF TablesOK
<1>3. ASSUME NEW t \in Times, Drops(t)
      PROVE  TablesOK' /\ Len(lists') \in Nat /\ Len(lists) <= Len(lists')
  <2>1. deleted' \subseteq Events
    BY <1>0, <1>3 DEF Drops, TablesOK, Unraised
  <2>2. /\ lists' \in Seq(EventList) /\ tree' \in [Times -> 0 .. Len(lists')]
        /\ nevents' \in 0 .. MaxEvents /\ Len(lists') = Len(lists)
    BY <1>0, <1>3 DEF Drops, Pruned, TablesOK
  <2>3. ASSUME NEW u \in Times, tree'[u] # 0
        PROVE  lists'[tree'[u]].at = u
    <3>1. tree'[u] = tree[u] /\ tree[u] \in 1 .. Len(lists) /\ lists[tree[u]].at = u
      BY <1>0, <1>3, <2>3 DEF Drops, Pruned, TablesOK
    <3> QED
      BY <1>3, <3>1 DEF Drops, Pruned
  <2> QED
    BY <1>0, <2>1, <2>2, <2>3 DEF TablesOK
<1> QED
  BY <1>1, <1>2, <1>3

-----------------------------------------------------------------------------
(***************************************************************************)
(* The types                                                               *)
(***************************************************************************)
LEMMA TypeInit == Init => TypeInv
<1> SUFFICES ASSUME Init PROVE TypeInv
  OBVIOUS
<1>1. lists \in Seq(EventList) /\ Len(lists) = 0
  BY EmptySeq DEF Init
<1>2. TypeOK
  <2>1. tree \in [Times -> 0 .. Len(lists)] /\ ptr \in [Threads -> 0 .. Len(lists)]
    BY <1>1 DEF Init
  <2>2. /\ nevents \in 0 .. MaxEvents /\ looks \in 0 .. MaxLooks
        /\ raised \in [Events -> Nat] /\ deleted \subseteq Events /\ depth \in Nat
    BY TablesAssumption DEF Init
  <2>3. /\ pc \in [Threads -> {"out", "raising", "deleting", "popped", "looking"}]
        /\ cur \in [Threads -> Nat] /\ owner = None /\ eh = None /\ stray = FALSE
        /\ found = <<>> /\ status = "running"
    BY DEF Init
  <2> QED
    BY <1>1, <2>1, <2>2, <2>3 DEF TypeOK
<1>3. PtrInv
  BY DEF Init, PtrInv, InHand
<1> QED
  BY <1>2, <1>3 DEF TypeInv

\* what a step does to a thread: it leaves the others alone
Moves(w) ==
    /\ \A v \in Threads : v # w => pc'[v] = pc[v] /\ ptr'[v] = ptr[v] /\ cur'[v] = cur[v]
    /\ pc' \in [Threads -> {"out", "raising", "deleting", "popped", "looking"}]
    /\ ptr' \in [Threads -> 0 .. Len(lists')] /\ cur' \in [Threads -> Nat]
    /\ pc'[w] = "out" => ptr'[w] = 0
    /\ InHand(w)' => ptr'[w] # 0

Others ==
    /\ owner \in Threads \cup {None} /\ depth \in Nat
    /\ eh \in Handlers \cup {None, Code} /\ stray \in BOOLEAN
    /\ found = <<>> \/ found \in Threads \X (Times \cup {-1})
    /\ looks \in 0 .. MaxLooks
    /\ raised \in [Events -> Nat]
    /\ status \in {"running", "aborted", "over"}

LEMMA TypeParts == TypeInv => TablesOK /\ Others /\ Len(lists) \in Nat
  BY DEF TypeInv, TypeOK, PtrInv, TablesOK, Others

LEMMA TypeMoved ==
    ASSUME TypeInv, NEW w \in Threads, Moves(w), TablesOK', Others'
    PROVE  TypeInv'
<1>1. TypeOK'
  BY DEF TypeOK, TablesOK, Others, Moves
<1>2. PtrInv'
  BY DEF TypeInv, PtrInv, TablesOK, Moves, InHand
<1> QED
  BY <1>1, <1>2 DEF TypeInv

LEMMA TypeStayed ==
    ASSUME TypeInv, UNCHANGED <<pc, ptr, cur>>, Len(lists') \in Nat, Len(lists) <= Len(lists'),
           TablesOK', Others'
    PROVE  TypeInv'
<1>1. TypeOK'
  BY SMTT(60) DEF TypeInv, TypeOK, TablesOK, Others
<1>2. PtrInv'
  BY DEF TypeInv, PtrInv, TablesOK, InHand
<1> QED
  BY <1>1, <1>2 DEF TypeInv

\* Raising an event, from a list in the tree or from a popped one.
LEMMA RaiseTypes ==
    ASSUME TypeInv, NEW w \in Threads, ThrowOne(w) \/ PopRaise(w)
    PROVE  TypeInv'
<1>0. TypeOK /\ PtrInv /\ TablesOK /\ Others
  BY TypeParts DEF TypeInv
<1>1. PICK e : Raise(e) /\ HandlerCode(w)
  BY DEF ThrowOne, PopRaise
<1>2. TablesOK' /\ Len(lists') \in Nat /\ Len(lists) <= Len(lists')
  BY <1>1, HandlerCases, TablesStep
<1>3. status' \in {"running", "aborted", "over"} /\ raised' \in [Events -> Nat]
  <2>1. status' \in {"running", "aborted", status}
    BY <1>1, HandlerCases
  <2>2. raised' \in [Events -> Nat]
    <3>1. raised' = [raised EXCEPT ![e] = @ + 1] /\ raised \in [Events -> Nat]
      BY <1>0, <1>1 DEF Raise, Others
    <3>2. CASE e \in Events
      BY <3>1, <3>2
    <3>3. CASE e \notin Events
      BY <3>1, <3>3
    <3> QED
      BY <3>2, <3>3
  <2> QED
    BY <1>0, <2>1, <2>2 DEF Others
<1>4. UNCHANGED <<owner, depth, eh, stray, found, looks, ptr>>
  BY DEF ThrowOne, PopRaise, lockVars, rest
<1>5. Others'
  BY <1>0, <1>3, <1>4 DEF Others
<1>6. cur' = [cur EXCEPT ![w] = cur[w] + 1]
  BY <1>0 DEF ThrowOne, PopRaise, TypeOK
<1>7. PICK p \in {"raising", "deleting", "popped"} : pc' = [pc EXCEPT ![w] = p] /\ InHand(w)
  <2>1. CASE ThrowOne(w)
    BY <2>1 DEF ThrowOne, InHand
  <2>2. CASE PopRaise(w)
    <3>1. pc' = [pc EXCEPT ![w] = "popped"]
      BY <1>0, <2>2 DEF PopRaise, TypeOK
    <3> QED
      BY <2>2, <3>1 DEF PopRaise, InHand
  <2> QED
    BY <2>1, <2>2
<1>8. Moves(w)
  BY <1>0, <1>2, <1>4, <1>6, <1>7 DEF Moves, TypeOK, PtrInv, InHand
<1> QED
  BY <1>2, <1>5, <1>8, TypeMoved

\* The end of cs_evm_throw_scheduled_events
LEMMA ThrowDeletePrunes ==
    ASSUME TypeInv, NEW w \in Threads, ThrowDelete(w)
    PROVE  /\ lists[ptr[w]].at \in Times /\ Pruned(lists[ptr[w]].at)
           /\ status' \in {"running", "aborted"}
<1>0. TypeOK /\ PtrInv
  BY DEF TypeInv
<1>1. pc[w] = "deleting" /\ status = "running"
  BY DEF ThrowDelete
<1>2. ptr[w] \in 1 .. Len(lists)
  BY <1>0, <1>1 DEF TypeOK, PtrInv, InHand
<1>3. lists[ptr[w]].at \in Times
  BY <1>0, <1>2, ListTypes DEF TypeOK
<1>4. DeleteEvents(lists[ptr[w]].at)
  BY DEF ThrowDelete
<1> QED
  BY <1>1, <1>3, <1>4, DeletePrunes

\* The end of a step of the controller: the list is freed.
LEMMA PopDestroyFrees ==
    ASSUME TypeInv, NEW w \in Threads, PopDestroy(w)
    PROVE  /\ lists' \in Seq(EventList) /\ Len(lists') = Len(lists) /\ ptr[w] \in 1 .. Len(lists)
           /\ \A l \in 1 .. Len(lists) :
                 /\ lists'[l].at = lists[l].at /\ lists'[l].items = lists[l].items
                 /\ lists'[l].freed = IF l = ptr[w] THEN lists[l].freed + 1 ELSE lists[l].freed
<1> DEFINE k == ptr[w]
           r == [lists[k] EXCEPT !.freed = lists[k].freed + 1]
<1>0. TypeOK /\ PtrInv
  BY DEF TypeInv
<1>1. k \in 1 .. Len(lists) /\ lists \in Seq(EventList) /\ lists[k] \in EventList
  BY <1>0 DEF PopDestroy, TypeOK, PtrInv, InHand
<1>2. /\ r \in EventList /\ r.items = lists[k].items
      /\ r.at = lists[k].at /\ r.freed = lists[k].freed + 1
  BY <1>1, ListTypes, SMTT(60) DEF EventList
<1>3. lists' = [lists EXCEPT ![k] = r]
  BY <1>1 DEF PopDestroy
<1> HIDE DEF k, r
<1>4. /\ lists' \in Seq(EventList) /\ Len(lists') = Len(lists)
      /\ \A l \in 1 .. Len(lists) : lists'[l] = IF l = k THEN r ELSE lists[l]
  BY <1>1, <1>2, <1>3, ExceptSeq
<1> QED
  BY <1>1, <1>2, <1>4 DEF k

\* cs_destroy_event_manager frees a list as often as it is in the tree: once or not.
LEMMA DestroyFrees ==
    ASSUME TypeInv, DestroyManager, status' = "over"
    PROVE  /\ lists' \in Seq(EventList) /\ Len(lists') = Len(lists)
           /\ \A t \in Times : tree'[t] = 0
           /\ \A l \in 1 .. Len(lists) :
                 /\ lists'[l].at = lists[l].at /\ lists'[l].items = lists[l].items
                 /\ lists'[l].freed = IF tree[lists[l].at] = l THEN lists[l].freed + 1
                                      ELSE lists[l].freed
<1> DEFINE T(l) == {t \in Times : tree[t] = l}
           r(l) == [lists[l] EXCEPT !.freed = lists[l].freed + Cardinality(T(l))]
<1>0. TypeOK /\ PtrInv /\ lists \in Seq(EventList)
  BY DEF TypeInv, TypeOK
<1>1. /\ lists' = [l \in 1 .. Len(lists) |-> r(l)]
      /\ tree' = [t \in Times |-> 0]
  <2>1. status' # "aborted" /\ DOMAIN lists = 1 .. Len(lists)
    BY <1>0
  <2>2. lists' = [l \in DOMAIN lists |-> r(l)] /\ tree' = [t \in Times |-> 0]
    BY <2>1, Zenon DEF DestroyManager
  <2> QED
    BY <2>1, <2>2
<1>2. ASSUME NEW l \in 1 .. Len(lists)
      PROVE  Cardinality(T(l)) = IF tree[lists[l].at] = l THEN 1 ELSE 0
  <2>1. lists[l].at \in Times
    BY <1>0, ListTypes
  <2>2. \A t \in T(l) : t = lists[l].at
    BY <1>0 DEF PtrInv
  <2>3. CASE tree[lists[l].at] = l
    <3>1. T(l) = {lists[l].at}
      BY <2>1, <2>2, <2>3
    <3> QED
      BY <2>3, <3>1, FS_Singleton
  <2>4. CASE tree[lists[l].at] # l
    <3>1. T(l) = {}
      BY <2>2, <2>4
    <3> QED
      BY <2>4, <3>1, FS_EmptySet
  <2> QED
    BY <2>3, <2>4
<1> HIDE DEF T
<1>3. ASSUME NEW l \in 1 .. Len(lists)
      PROVE  /\ r(l) \in EventList /\ r(l).at = lists[l].at /\ r(l).items = lists[l].items
             /\ r(l).freed = IF tree[lists[l].at] = l THEN lists[l].freed + 1 ELSE lists[l].freed
  <2>1. lists[l] \in EventList /\ lists[l].freed \in Nat
    BY <1>0, ListTypes
  <2> QED
    BY <1>2, <2>1 DEF EventList
<1> HIDE DEF r
<1>4. Len(lists) \in Nat /\ lists' \in Seq(EventList) /\ Len(lists') = Len(lists)
  BY <1>0, <1>1, <1>3
<1> QED
  BY <1>1, <1>3, <1>4

\* No step spoils the types.
LEMMA TypeStep ==
    ASSUME TypeInv, LockInv, [Next]_vars
    PROVE  TypeInv'
<1>0. TypeOK /\ PtrInv /\ TablesOK /\ Others /\ Len(lists) \in Nat
  BY TypeParts DEF TypeInv
<1>1. ASSUME NEW w \in Threads, NEW t \in Times, ScheduleEvent(w, t)
      PROVE  TypeInv'
  <2>1. Adds(t)
    BY <1>1, ScheduledGrows DEF ScheduleEvent, Adds
  <2>2. TablesOK' /\ Len(lists') \in Nat /\ Len(lists) <= Len(lists')
    BY <2>1, TablesStep
  <2>3. Others'
    BY <1>0, <1>1 DEF ScheduleEvent, lockVars, rest, Others
  <2> QED
    BY <1>1, <2>2, <2>3, TypeStayed DEF ScheduleEvent
<1>2. ASSUME NEW w \in Threads, NEW t \in Times, CallDelete(w, t)
      PROVE  TypeInv'
  <2>1. Drops(t) /\ status' \in {"running", "aborted", status}
    BY <1>2, DeletePrunes DEF CallDelete, DeletesToo, Drops
  <2>2. TablesOK' /\ Len(lists') \in Nat /\ Len(lists) <= Len(lists')
    BY <2>1, TablesStep
  <2>3. Others'
    BY <1>0, <1>2, <2>1 DEF CallDelete, lockVars, rest, Others
  <2> QED
    BY <1>2, <2>2, <2>3, TypeStayed DEF CallDelete
<1>3. ASSUME NEW w \in Threads, NEW t \in Times, ThrowLock(w, t)
      PROVE  TypeInv'
  <2>1. TablesOK'
    BY <1>0, <1>3 DEF ThrowLock, TablesOK
  <2>2. Others'
    BY <1>0, <1>3 DEF ThrowLock, rest, Others, lockVars
  <2>3. CASE tree[t] = 0
    BY <1>0, <1>3, <2>1, <2>2, <2>3, TypeStayed DEF ThrowLock
  <2>4. CASE tree[t] # 0
    <3>1. tree[t] \in 0 .. Len(lists) /\ lists' = lists
      BY <1>0, <1>3 DEF ThrowLock, TablesOK
    <3>2. /\ pc' = [pc EXCEPT ![w] = "raising"]
          /\ ptr' = [ptr EXCEPT ![w] = tree[t]]
          /\ cur' = [cur EXCEPT ![w] = 1]
      BY <1>3, <2>4 DEF ThrowLock
    <3>3. Moves(w)
      BY <1>0, <2>4, <3>1, <3>2 DEF Moves, TypeOK, InHand
    <3> QED
      BY <2>1, <2>2, <3>3, TypeMoved
  <2> QED
    BY <2>3, <2>4
<1>4. ASSUME NEW w \in Threads, NEW t \in Times, PopEvents(w, t)
      PROVE  TypeInv'
  <2>1. TablesOK'
    BY <1>0, <1>4 DEF PopEvents, TablesOK
  <2>2. Others'
    BY <1>0, <1>4 DEF PopEvents, lockVars, rest, Others
  <2>3. Moves(w)
    BY <1>0, <1>4 DEF PopEvents, Moves, TypeOK, PtrInv, InHand
  <2> QED
    BY <2>1, <2>2, <2>3, TypeMoved
<1>5. ASSUME NEW w \in Threads, ThrowDelete(w)
      PROVE  TypeInv'
  <2> DEFINE t == lists[ptr[w]].at
  <2>1. t \in Times /\ Pruned(t) /\ status' \in {"running", "aborted"}
    BY <1>5, ThrowDeletePrunes
  <2> HIDE DEF t
  <2>2. TablesOK' /\ Len(lists') = Len(lists)
    <3>1. /\ lists' \in Seq(EventList) /\ tree' \in [Times -> 0 .. Len(lists')]
          /\ Len(lists') = Len(lists)
          /\ nevents' \in 0 .. MaxEvents /\ deleted' \subseteq Events
      BY <1>0, <1>5, <2>1 DEF ThrowDelete, Pruned, TablesOK
    <3>2. ASSUME NEW u \in Times, tree'[u] # 0
          PROVE  lists'[tree'[u]].at = u
      <4>1. tree'[u] = tree[u] /\ tree[u] \in 1 .. Len(lists) /\ lists[tree[u]].at = u
        BY <1>0, <2>1, <3>2 DEF Pruned, TablesOK
      <4> QED
        BY <2>1, <4>1 DEF Pruned
    <3> QED
      BY <3>1, <3>2 DEF TablesOK
  <2>3. Others'
    <3>1. UNCHANGED <<eh, stray, found, looks, raised>>
      BY <1>5 DEF ThrowDelete, rest
    <3>2. owner' \in Threads \cup {None} /\ depth' \in Nat
      BY <1>5 DEF ThrowDelete, LockInv, Busy
    <3> QED
      BY <1>0, <2>1, <3>1, <3>2 DEF Others
  <2>4. Moves(w)
    BY <1>0, <1>5, <2>2 DEF ThrowDelete, Moves, TypeOK, PtrInv, InHand
  <2> QED
    BY <2>2, <2>3, <2>4, TypeMoved
<1>6. ASSUME NEW w \in Threads, PopDestroy(w)
      PROVE  TypeInv'
  <2>1. /\ lists' \in Seq(EventList) /\ Len(lists') = Len(lists)
        /\ \A l \in 1 .. Len(lists) : lists'[l].at = lists[l].at
    BY <1>6, PopDestroyFrees
  <2>2. TablesOK'
    BY <1>0, <1>6, <2>1 DEF PopDestroy, TablesOK
  <2>3. Others'
    BY <1>0, <1>6 DEF PopDestroy, AfterFree, lockVars, rest, Others
  <2>4. Moves(w)
    BY <1>0, <1>6, <2>1 DEF PopDestroy, Moves, TypeOK, PtrInv, InHand
  <2> QED
    BY <2>2, <2>3, <2>4, TypeMoved
<1>7. ASSUME NEW w \in Threads, NEW nearest \in BOOLEAN, Look(w, nearest)
      PROVE  TypeInv'
  <2>1. (IF Held = {} THEN 0 ELSE tree[End(nearest)]) \in 0 .. Len(lists)
    BY <1>0, <1>7, EndInTimes DEF TablesOK
  <2>2. TablesOK'
    BY <1>0, <1>7 DEF Look, TablesOK
  <2>3. Others'
    BY <1>0, <1>7, TablesAssumption DEF Look, lockVars, Others
  <2>4. Moves(w)
    BY <1>0, <1>7, <2>1 DEF Look, Moves, TypeOK, PtrInv, InHand
  <2> QED
    BY <2>2, <2>3, <2>4, TypeMoved
<1>8. ASSUME NEW w \in Threads, LookRead(w)
      PROVE  TypeInv'
  <2>1. TablesOK'
    BY <1>0, <1>8 DEF LookRead, TablesOK
  <2>2. Others'
    <3>1. UNCHANGED <<owner, depth, eh, stray, looks, raised, status>>
      BY <1>8 DEF LookRead, lockVars
    <3>2. found' \in Threads \X (Times \cup {-1})
      <4>1. ptr[w] # 0 => lists[ptr[w]].at \in Times
        BY <1>0, ListTypes DEF TypeOK
      <4> QED
        BY <1>8, <4>1 DEF LookRead
    <3> QED
      BY <1>0, <3>1, <3>2 DEF Others
  <2>3. Moves(w)
    BY <1>0, <1>8 DEF LookRead, Moves, TypeOK, PtrInv, InHand
  <2> QED
    BY <2>1, <2>2, <2>3, TypeMoved
<1>9. ASSUME NEW w \in Threads, NEW h \in Handlers, InstallHandler(w, h)
      PROVE  TypeInv'
  <2>1. TablesOK'
    BY <1>0, <1>9 DEF InstallHandler, TablesOK
  <2>2. Others'
    <3>1. UNCHANGED <<owner, depth, found, raised>> /\ looks' \in 0 .. MaxLooks
      BY <1>0, <1>9, TablesAssumption DEF InstallHandler, lockVars, Others
    <3>2. /\ eh' \in {h, eh, Code} /\ stray' \in {TRUE, stray}
          /\ status' \in {"aborted", status}
      BY <1>9 DEF InstallHandler
    <3> QED
      BY <1>0, <3>1, <3>2 DEF Others
  <2> QED
    BY <1>0, <1>9, <2>1, <2>2, TypeStayed DEF InstallHandler
<1>10. CASE DestroyManager
  <2>1. TablesOK' /\ Len(lists') = Len(lists)
    <3>1. CASE status' = "over"
      <4>1. UNCHANGED <<nevents, deleted>> /\ tree' = [u \in Times |-> 0]
        BY <1>10, <3>1 DEF DestroyManager
      <4> QED
        BY <1>0, <1>10, <3>1, <4>1, DestroyFrees DEF TablesOK
    <3>2. CASE status' # "over"
      BY <1>0, <1>10, <3>2 DEF DestroyManager, TablesOK
    <3> QED
      BY <3>1, <3>2
  <2>2. Others'
    BY <1>0, <1>10 DEF DestroyManager, lockVars, Others
  <2> QED
    BY <1>0, <1>10, <2>1, <2>2, TypeStayed DEF DestroyManager
<1>11. ASSUME UNCHANGED vars
       PROVE  TypeInv'
  BY <1>11 DEF vars, TypeInv, TypeOK, PtrInv, InHand
<1> QED
  BY <1>1, <1>2, <1>3, <1>4, <1>5, <1>6, <1>7, <1>8, <1>9, <1>10, <1>11, RaiseTypes
     DEF Next, Ended

\* Only a thread that is outside of every call, or throwing, takes the lock; so
\* nobody who waits for it is its owner.
LEMMA LockFree ==
    ASSUME LockInv, NEW w \in Threads, pc[w] \notin Busy, MayLock(w)
    PROVE  owner = None /\ depth = 0 /\ \A v \in Threads : pc[v] \notin Busy
  BY TablesAssumption DEF LockInv, MayLock

LEMMA LockStep ==
    ASSUME TypeInv, LockInv, [Next]_vars
    PROVE  LockInv'
<1> USE DEF Busy
<1>0. pc \in [Threads -> {"out", "raising", "deleting", "popped", "looking"}]
  BY DEF TypeInv, TypeOK
\* most steps take a thread from one place outside of Busy to another
<1>1. ASSUME UNCHANGED lockVars, NEW w \in Threads, NEW p, pc' = [pc EXCEPT ![w] = p],
             pc[w] \in Busy <=> p \in Busy
      PROVE  LockInv'
  BY <1>0, <1>1 DEF LockInv, lockVars
<1>2. ASSUME UNCHANGED <<owner, depth, pc>>
      PROVE  LockInv'
  BY <1>2 DEF LockInv
<1>3. ASSUME NEW w \in Threads, NEW t \in Times, ThrowLock(w, t)
      PROVE  LockInv'
  <2>1. owner = None /\ depth = 0 /\ \A v \in Threads : pc[v] \notin Busy
    BY <1>3, LockFree DEF ThrowLock, Begin
  <2>2. CASE tree[t] = 0
    BY <1>2, <1>3, <2>2 DEF ThrowLock, lockVars
  <2>3. CASE tree[t] # 0
    BY <1>0, <1>3, <2>1, <2>3 DEF ThrowLock, LockInv
  <2> QED
    BY <2>2, <2>3
<1>4. ASSUME NEW w \in Threads, ThrowOne(w)
      PROVE  LockInv'
  BY <1>1, <1>4 DEF ThrowOne
<1>5. ASSUME NEW w \in Threads, ThrowDelete(w)
      PROVE  LockInv'
  <2>1. owner = w /\ depth = 1 /\ \A v \in Threads : pc[v] \in Busy <=> v = w
    BY <1>5 DEF ThrowDelete, LockInv
  <2> QED
    BY <1>0, <1>5, <2>1 DEF ThrowDelete, LockInv
<1>6. ASSUME NEW w \in Threads, NEW t \in Times, PopEvents(w, t)
      PROVE  LockInv'
  BY <1>1, <1>6 DEF PopEvents, Begin
<1>7. ASSUME NEW w \in Threads, PopRaise(w)
      PROVE  LockInv'
  BY <1>2, <1>7 DEF PopRaise, lockVars
<1>8. ASSUME NEW w \in Threads, PopDestroy(w) \/ LookRead(w)
      PROVE  LockInv'
  BY <1>1, <1>8 DEF PopDestroy, LookRead
<1>9. ASSUME NEW w \in Threads, NEW nearest \in BOOLEAN, Look(w, nearest)
      PROVE  LockInv'
  BY <1>1, <1>9 DEF Look, Begin
<1>10. ASSUME NEW w \in Threads, NEW t \in Times, ScheduleEvent(w, t) \/ CallDelete(w, t)
       PROVE  LockInv'
  BY <1>2, <1>10 DEF ScheduleEvent, CallDelete, lockVars
<1>11. ASSUME NEW w \in Threads, NEW h \in Handlers, InstallHandler(w, h)
       PROVE  LockInv'
  BY <1>2, <1>11 DEF InstallHandler, lockVars
<1>12. ASSUME DestroyManager \/ UNCHANGED vars
       PROVE  LockInv'
  BY <1>2, <1>12 DEF DestroyManager, lockVars, vars
<1> QED
  BY <1>3, <1>4, <1>5, <1>6, <1>7, <1>8, <1>9, <1>10, <1>11, <1>12 DEF Next, Ended

LEMMA TypeLockAlways == Spec => [](TypeInv /\ LockInv)
<1>1. Init => TypeInv /\ LockInv
  BY TypeInit DEF Init, LockInv, Busy
<1>2. TypeInv /\ LockInv /\ [Next]_vars => (TypeInv /\ LockInv)'
  BY TypeStep, LockStep
<1> QED
  BY <1>1, <1>2, PTL DEF Spec

(***************************************************************************)
(* TypeCorrect: the tables, the lock and the threads of an event manager   *)
(* keep their types, whatever the handlers do.                             *)
(***************************************************************************)
THEOREM TypeCorrect == Spec => []TypeOK
<1>1. TypeInv => TypeOK
  BY DEF TypeInv
<1> QED
  BY <1>1, TypeLockAlways, PTL

(***************************************************************************)
(* LockReleased: ev_tree_lock is held once by the thread that is within    *)
(* cs_evm_throw_scheduled_events, and by nobody else: a handler that calls *)
(* the event manager again leaves the recursive lock as it found it.       *)
(***************************************************************************)
THEOREM LockReleased == Spec => []LockHeldToRaise
<1>1. LockInv => LockHeldToRaise
  BY DEF LockInv, LockHeldToRaise, Busy
<1> QED
  BY <1>1, TypeLockAlways, PTL

-----------------------------------------------------------------------------
(***************************************************************************)
(* The lists: one that is allocated is in the tree, under its own time, or *)
(* popped by one thread; the list that is thrown stays in the tree.        *)
(***************************************************************************)
HandInv ==
    /\ \A t \in Times : tree[t] # 0 => lists[tree[t]].freed = 0 /\ lists[tree[t]].items # <<>>
    /\ \A w \in Threads : InHand(w) => lists[ptr[w]].freed = 0
    /\ \A w \in Threads : pc[w] \in Busy => tree[lists[ptr[w]].at] = ptr[w]
    /\ \A w \in Threads : pc[w] = "popped" => tree[lists[ptr[w]].at] # ptr[w]
    /\ \A v, w \in Threads : pc[v] = "popped" /\ pc[w] = "popped" /\ ptr[v] = ptr[w] => v = w
    /\ \A l \in 1 .. Len(lists) : lists[l].freed = 0 =>
          \/ tree[lists[l].at] = l
          \/ \E w \in Threads : pc[w] = "popped" /\ ptr[w] = l

\* the same threads work on the same lists as before
SameHands ==
    \A w \in Threads :
        /\ pc'[w] = "popped" <=> pc[w] = "popped"
        /\ pc'[w] \in Busy <=> pc[w] \in Busy
        /\ InHand(w) => ptr'[w] = ptr[w]

LEMMA HandTypes ==
    ASSUME TypeInv, NEW w \in Threads, InHand(w)
    PROVE  ptr[w] \in 1 .. Len(lists) /\ lists[ptr[w]].at \in Times
<1>1. ptr[w] \in 1 .. Len(lists) /\ lists \in Seq(EventList)
  BY DEF TypeInv, TypeOK, PtrInv
<1> QED
  BY <1>1, ListTypes

LEMMA HandQuiet ==
    ASSUME HandInv, UNCHANGED <<tree, lists>>, SameHands
    PROVE  HandInv'
  BY DEF HandInv, SameHands, InHand, Busy

LEMMA HandGrown ==
    ASSUME TypeInv, HandInv, NEW t \in Times, Grown(t), SameHands
    PROVE  HandInv'
<1>0. /\ lists \in Seq(EventList) /\ Len(lists) \in Nat /\ tree \in [Times -> 0 .. Len(lists)]
      /\ \A u \in Times : tree[u] # 0 => lists[tree[u]].at = u
  BY DEF TypeInv, TypeOK, PtrInv
<1>1. \A l \in 1 .. Len(lists) : lists'[l].at = lists[l].at /\ lists'[l].freed = lists[l].freed
  BY <1>0 DEF Grown
<1>2. ASSUME NEW l \in 1 .. Len(lists)
      PROVE  tree'[lists[l].at] = l <=> tree[lists[l].at] = l
  <2>1. lists[l].at \in Times
    BY <1>0, ListTypes
  <2> QED
    BY <1>0, <2>1 DEF Grown
<1>3. ASSUME NEW w \in Threads, InHand(w)'
      PROVE  /\ InHand(w) /\ ptr'[w] = ptr[w] /\ ptr[w] \in 1 .. Len(lists)
             /\ lists'[ptr'[w]].at = lists[ptr[w]].at
  <2>1. InHand(w) /\ ptr'[w] = ptr[w]
    BY <1>3 DEF SameHands, InHand, Busy
  <2> QED
    BY <1>1, <2>1, HandTypes
<1>4. ASSUME NEW u \in Times, tree'[u] # 0
      PROVE  lists'[tree'[u]].freed = 0 /\ lists'[tree'[u]].items # <<>>
  <2>1. CASE u # t
    <3>1. tree'[u] = tree[u] /\ tree[u] \in 1 .. Len(lists) /\ tree[u] # tree[t]
      BY <1>0, <1>4, <2>1 DEF Grown
    <3> QED
      BY <3>1 DEF Grown, HandInv
  <2>2. CASE u = t /\ tree[t] = 0
    <3>1. lists'[tree'[u]].freed = 0 /\ lists'[tree'[u]].items = <<nevents + 1>>
      BY <2>2 DEF Grown
    <3>2. Len(<<nevents + 1>>) = 1 /\ Len(<<>>) = 0
      OBVIOUS
    <3> QED
      BY <3>1, <3>2
  <2>3. CASE u = t /\ tree[t] # 0
    <3>1. lists[tree[t]].items \in Seq(Events) /\ tree[t] \in 1 .. Len(lists)
      BY <1>0, <2>3, ListTypes
    <3>2. Append(lists[tree[t]].items, nevents + 1) # <<>>
      BY <3>1
    <3> QED
      BY <1>1, <2>3, <3>1, <3>2 DEF Grown, HandInv
  <2> QED
    BY <2>1, <2>2, <2>3
<1>5. \A w \in Threads : InHand(w)' => lists'[ptr'[w]].freed = 0
  BY <1>1, <1>3 DEF HandInv
<1>6. \A w \in Threads : pc'[w] \in Busy => tree'[lists'[ptr'[w]].at] = ptr'[w]
  BY <1>2, <1>3 DEF HandInv, SameHands, InHand, Busy
<1>7. \A w \in Threads : pc'[w] = "popped" => tree'[lists'[ptr'[w]].at] # ptr'[w]
  BY <1>2, <1>3 DEF HandInv, SameHands, InHand, Busy
<1>8. \A v, w \in Threads : pc'[v] = "popped" /\ pc'[w] = "popped" /\ ptr'[v] = ptr'[w] => v = w
  BY DEF HandInv, SameHands, InHand
<1>9. ASSUME NEW l \in 1 .. Len(lists'), lists'[l].freed = 0
      PROVE  \/ tree'[lists'[l].at] = l
             \/ \E w \in Threads : pc'[w] = "popped" /\ ptr'[w] = l
  <2>1. CASE l \in 1 .. Len(lists)
    BY <1>1, <1>2, <1>9, <2>1 DEF HandInv, SameHands, InHand
  <2>2. CASE l \notin 1 .. Len(lists)
    <3>1. tree[t] = 0 /\ l = Len(lists) + 1 /\ tree'[t] = l
      BY <1>0, <2>2 DEF Grown
    <3> QED
      BY <3>1 DEF Grown
  <2> QED
    BY <2>1, <2>2
<1> QED
  BY <1>4, <1>5, <1>6, <1>7, <1>8, <1>9 DEF HandInv

LEMMA HandPruned ==
    ASSUME TypeInv, HandInv, NEW t \in Times, Pruned(t), SameHands,
           \A w \in Threads : pc[w] \in Busy => ptr[w] # tree[t]
    PROVE  HandInv'
<1>0. /\ lists \in Seq(EventList) /\ Len(lists) \in Nat /\ tree \in [Times -> 0 .. Len(lists)]
      /\ \A u \in Times : tree[u] # 0 => lists[tree[u]].at = u
  BY DEF TypeInv, TypeOK, PtrInv
<1>1. /\ Len(lists') = Len(lists)
      /\ \A l \in 1 .. Len(lists) : lists'[l].at = lists[l].at /\ lists'[l].items = lists[l].items
  BY DEF Pruned
<1>2. \A l \in 1 .. Len(lists) : l # tree[t] => lists'[l].freed = lists[l].freed
  BY DEF Pruned
<1>3. ASSUME NEW l \in 1 .. Len(lists), l # tree[t]
      PROVE  tree'[lists[l].at] = l <=> tree[lists[l].at] = l
  <2>1. lists[l].at \in Times
    BY <1>0, ListTypes
  <2> QED
    BY <1>0, <1>3, <2>1 DEF Pruned
<1>4. ASSUME NEW w \in Threads, InHand(w)'
      PROVE  /\ InHand(w) /\ ptr'[w] = ptr[w] /\ ptr[w] \in 1 .. Len(lists) /\ ptr[w] # tree[t]
             /\ lists'[ptr'[w]].at = lists[ptr[w]].at
  <2>1. InHand(w) /\ ptr'[w] = ptr[w]
    BY <1>4 DEF SameHands, InHand, Busy
  <2>2. ptr[w] \in 1 .. Len(lists)
    BY <2>1, HandTypes
  <2>3. ptr[w] # tree[t]
    BY <1>0, <2>1, <2>2 DEF HandInv, InHand, Busy
  <2> QED
    BY <1>1, <2>1, <2>2, <2>3
<1>5. ASSUME NEW u \in Times, tree'[u] # 0
      PROVE  lists'[tree'[u]].freed = 0 /\ lists'[tree'[u]].items # <<>>
  <2>1. tree'[u] = tree[u] /\ tree[u] \in 1 .. Len(lists) /\ tree[u] # tree[t]
    BY <1>0, <1>5 DEF Pruned
  <2> QED
    BY <1>1, <1>2, <2>1 DEF HandInv
<1>6. \A w \in Threads : InHand(w)' => lists'[ptr'[w]].freed = 0
  BY <1>2, <1>4 DEF HandInv
<1>7. \A w \in Threads : pc'[w] \in Busy => tree'[lists'[ptr'[w]].at] = ptr'[w]
  BY <1>3, <1>4 DEF HandInv, SameHands, InHand, Busy
<1>8. \A w \in Threads : pc'[w] = "popped" => tree'[lists'[ptr'[w]].at] # ptr'[w]
  BY <1>3, <1>4 DEF HandInv, SameHands, InHand, Busy
<1>9. \A v, w \in Threads : pc'[v] = "popped" /\ pc'[w] = "popped" /\ ptr'[v] = ptr'[w] => v = w
  BY DEF HandInv, SameHands, InHand
<1>10. ASSUME NEW l \in 1 .. Len(lists'), lists'[l].freed = 0
       PROVE  \/ tree'[lists'[l].at] = l
              \/ \E w \in Threads : pc'[w] = "popped" /\ ptr'[w] = l
  <2>1. l \in 1 .. Len(lists) /\ lists[l].freed \in Nat
    BY <1>0, <1>1, ListTypes
  <2>2. l # tree[t] /\ lists[l].freed = 0
    BY <1>10, <2>1 DEF Pruned
  <2> QED
    BY <1>1, <1>3, <2>1, <2>2 DEF HandInv, SameHands, InHand
<1> QED
  BY <1>5, <1>6, <1>7, <1>8, <1>9, <1>10 DEF HandInv

LEMMA HandInit == Init => HandInv
<1> SUFFICES ASSUME Init PROVE HandInv
  OBVIOUS
<1>1. Len(lists) = 0
  BY DEF Init
<1> QED
  BY <1>1 DEF Init, HandInv, InHand, Busy

\* A step of user code: the lists its thread and the others work on stay theirs.
LEMMA HandUser ==
    ASSUME DeletesOwn = FALSE, TypeInv, LockInv, HandInv, SameHands, NEW w \in Threads,
           \/ Quiet
           \/ \E t \in Times : MayLock(w) /\ Adds(t)
           \/ \E t \in Times : MayLock(w) /\ (tree[t] = ptr[w] => DeletesOwn) /\ Drops(t)
    PROVE  HandInv'
<1>1. CASE Quiet
  BY <1>1, HandQuiet DEF Quiet
<1>2. ASSUME NEW t \in Times, Adds(t)
      PROVE  HandInv'
  BY <1>2, HandGrown DEF Adds
<1>3. ASSUME NEW t \in Times, MayLock(w), tree[t] # ptr[w], Drops(t)
      PROVE  HandInv'
  <2>1. \A v \in Threads : pc[v] \in Busy => v = w
    BY <1>3, TablesAssumption DEF LockInv, MayLock
  <2> QED
    BY <1>3, <2>1, HandPruned DEF Drops
<1> QED
  BY <1>1, <1>2, <1>3

LEMMA HandStep ==
    ASSUME DeletesOwn = FALSE, TypeInv, LockInv, HandInv, [Next]_vars
    PROVE  HandInv'
<1>0. /\ pc \in [Threads -> {"out", "raising", "deleting", "popped", "looking"}]
      /\ ptr \in [Threads -> 0 .. Len(lists)]
      /\ lists \in Seq(EventList) /\ Len(lists) \in Nat /\ tree \in [Times -> 0 .. Len(lists)]
      /\ \A u \in Times : tree[u] # 0 => lists[tree[u]].at = u
      /\ \A w \in Threads : pc[w] = "out" => ptr[w] = 0
  BY DEF TypeInv, TypeOK, PtrInv
<1>1. ASSUME NEW w \in Threads, NEW t \in Times, ScheduleEvent(w, t)
      PROVE  HandInv'
  <2>1. Grown(t)
    BY <1>1, ScheduledGrows DEF ScheduleEvent
  <2>2. SameHands
    BY <1>1 DEF ScheduleEvent, SameHands
  <2> QED
    BY <2>1, <2>2, HandGrown
<1>2. ASSUME NEW w \in Threads, NEW t \in Times, CallDelete(w, t)
      PROVE  HandInv'
  <2>1. Pruned(t)
    BY <1>2, DeletePrunes DEF CallDelete, DeletesToo
  <2>2. SameHands
    BY <1>2 DEF CallDelete, SameHands
  <2>3. \A v \in Threads : pc[v] \notin Busy
    BY <1>2, LockFree DEF CallDelete, Begin, Busy
  <2> QED
    BY <2>1, <2>2, <2>3, HandPruned
<1>3. ASSUME NEW w \in Threads, ThrowOne(w) \/ PopRaise(w)
      PROVE  HandInv'
  <2>1. PICK e : Raise(e) /\ HandlerCode(w)
    BY <1>3 DEF ThrowOne, PopRaise
  <2>2. SameHands
    BY <1>0, <1>3 DEF ThrowOne, PopRaise, SameHands, Busy
  <2> QED
    BY <2>1, <2>2, HandlerCases, HandUser
<1>4. ASSUME NEW w \in Threads, NEW t \in Times, ThrowLock(w, t)
      PROVE  HandInv'
  <2>1. UNCHANGED <<tree, lists>> /\ pc[w] = "out"
    BY <1>4 DEF ThrowLock, Begin
  <2>2. CASE tree[t] = 0
    BY <1>4, <2>1, <2>2, HandQuiet DEF ThrowLock, SameHands
  <2>3. CASE tree[t] # 0
    <3>1. pc' = [pc EXCEPT ![w] = "raising"] /\ ptr' = [ptr EXCEPT ![w] = tree[t]]
      BY <1>4, <2>3 DEF ThrowLock
    <3>2. lists[tree[t]].freed = 0 /\ lists[tree[t]].at = t
      BY <1>0, <2>3 DEF HandInv
    <3> QED
      BY <1>0, <2>1, <2>3, <3>1, <3>2 DEF HandInv, InHand, Busy
  <2> QED
    BY <2>2, <2>3
<1>5. ASSUME NEW w \in Threads, ThrowDelete(w)
      PROVE  HandInv'
  <2> DEFINE k == ptr[w]
             t == lists[k].at
  <2>1. t \in Times /\ Pruned(t)
    BY <1>5, ThrowDeletePrunes
  <2>2. /\ pc[w] = "deleting" /\ pc' = [pc EXCEPT ![w] = "out"] /\ ptr' = [ptr EXCEPT ![w] = 0]
        /\ k \in 1 .. Len(lists) /\ tree[t] = k
    BY <1>5, HandTypes DEF ThrowDelete, InHand, HandInv, Busy
  <2>3. \A v \in Threads : pc[v] \in Busy <=> v = w
    BY <2>2 DEF LockInv, Busy
  <2> HIDE DEF k, t
  <2>4. \A v \in Threads : pc'[v] \notin Busy
    BY <1>0, <2>2, <2>3 DEF Busy
  <2>5. ASSUME NEW v \in Threads, InHand(v)'
        PROVE  /\ v # w /\ pc'[v] = "popped" /\ pc[v] = "popped" /\ ptr'[v] = ptr[v]
               /\ ptr[v] \in 1 .. Len(lists) /\ ptr[v] # k
    <3>1. v # w /\ pc'[v] = "popped" /\ pc[v] = "popped" /\ ptr'[v] = ptr[v]
      BY <1>0, <2>2, <2>3, <2>5 DEF InHand, Busy
    <3>2. ptr[v] \in 1 .. Len(lists)
      BY <3>1, HandTypes DEF InHand
    <3>3. ptr[v] # k
      BY <2>2, <3>1 DEF HandInv, k, t
    <3> QED
      BY <3>1, <3>2, <3>3
  <2>6. ASSUME NEW l \in 1 .. Len(lists), l # k
        PROVE  /\ lists'[l].at = lists[l].at /\ lists'[l].items = lists[l].items
               /\ lists'[l].freed = lists[l].freed
               /\ tree'[lists[l].at] = l <=> tree[lists[l].at] = l
    <3>1. lists[l].at \in Times
      BY <1>0, ListTypes
    <3> QED
      BY <1>0, <2>1, <2>2, <2>6, <3>1 DEF Pruned
  <2>7. ASSUME NEW u \in Times, tree'[u] # 0
        PROVE  tree'[u] = tree[u] /\ tree[u] \in 1 .. Len(lists) /\ tree[u] # k
    <3>1. u # t /\ tree'[u] = tree[u] /\ tree[u] \in 1 .. Len(lists)
      BY <1>0, <2>1, <2>7 DEF Pruned
    <3> QED
      BY <1>0, <2>2, <3>1 DEF t
  <2>8. ASSUME NEW l \in 1 .. Len(lists'), lists'[l].freed = 0
        PROVE  l \in 1 .. Len(lists) /\ l # k
    <3>1. l \in 1 .. Len(lists) /\ lists[l].freed \in Nat
      BY <1>0, <2>1, ListTypes DEF Pruned
    <3> QED
      BY <2>1, <2>2, <2>8, <3>1 DEF Pruned
  <2>9. \A u \in Times : tree'[u] # 0 => lists'[tree'[u]].freed = 0 /\ lists'[tree'[u]].items # <<>>
    BY <2>6, <2>7 DEF HandInv
  <2>10. \A v \in Threads : InHand(v)' => lists'[ptr'[v]].freed = 0
    BY <2>5, <2>6 DEF HandInv, InHand
  <2>11. \A v \in Threads : pc'[v] = "popped" => tree'[lists'[ptr'[v]].at] # ptr'[v]
    BY <2>5, <2>6 DEF HandInv, InHand
  <2>12. \A v, x \in Threads :
            pc'[v] = "popped" /\ pc'[x] = "popped" /\ ptr'[v] = ptr'[x] => v = x
    BY <2>5 DEF HandInv, InHand
  <2>13. \A l \in 1 .. Len(lists') : lists'[l].freed = 0 =>
            \/ tree'[lists'[l].at] = l
            \/ \E v \in Threads : pc'[v] = "popped" /\ ptr'[v] = l
    BY <1>0, <2>2, <2>6, <2>8, SMTT(60) DEF HandInv
  <2> QED
    BY <2>4, <2>9, <2>10, <2>11, <2>12, <2>13 DEF HandInv
<1>6. ASSUME NEW w \in Threads, NEW t \in Times, PopEvents(w, t)
      PROVE  HandInv'
  <2> DEFINE k == tree[t]
  <2>1. /\ k \in 1 .. Len(lists) /\ lists[k].at = t /\ lists[k].freed = 0 /\ lists' = lists
        /\ tree' = [tree EXCEPT ![t] = 0] /\ pc' = [pc EXCEPT ![w] = "popped"]
        /\ ptr' = [ptr EXCEPT ![w] = k]
    BY <1>0, <1>6 DEF PopEvents, HandInv
  <2>2. \A v \in Threads : pc[v] \notin Busy
    BY <1>6, LockFree DEF PopEvents, Begin, Busy
  <2>3. pc[w] = "out"
    BY <1>6 DEF PopEvents, Begin
  <2>4. ASSUME NEW v \in Threads, InHand(v)', v # w
        PROVE  /\ pc'[v] = "popped" /\ pc[v] = "popped" /\ ptr'[v] = ptr[v]
               /\ ptr[v] \in 1 .. Len(lists) /\ ptr[v] # k /\ lists[ptr[v]].at \in Times
    <3>1. pc'[v] = "popped" /\ pc[v] = "popped" /\ ptr'[v] = ptr[v]
      BY <1>0, <2>1, <2>2, <2>4 DEF InHand, Busy
    <3>2. ptr[v] \in 1 .. Len(lists) /\ lists[ptr[v]].at \in Times
      BY <3>1, HandTypes DEF InHand
    <3>3. ptr[v] # k
      BY <2>1, <3>1 DEF HandInv
    <3> QED
      BY <3>1, <3>2, <3>3
  <2>5. pc'[w] = "popped" /\ ptr'[w] = k /\ tree'[t] = 0 /\ k # 0
    BY <1>0, <2>1
  <2>6. \A u \in Times : tree'[u] # 0 => u # t /\ tree'[u] = tree[u]
    BY <1>0, <2>1
  <2>7. \A u \in Times : tree'[u] # 0 => lists'[tree'[u]].freed = 0 /\ lists'[tree'[u]].items # <<>>
    BY <2>1, <2>6 DEF HandInv
  <2>8. \A v \in Threads : InHand(v)' => lists'[ptr'[v]].freed = 0
    BY <2>1, <2>4, <2>5 DEF HandInv, InHand
  <2>9. \A v \in Threads : pc'[v] \notin Busy
    BY <1>0, <2>1, <2>2 DEF Busy
  <2>10. \A v \in Threads : pc'[v] = "popped" => tree'[lists'[ptr'[v]].at] # ptr'[v]
    BY <1>0, <2>1, <2>4, <2>5 DEF HandInv, InHand
  <2>11. \A v, x \in Threads :
            pc'[v] = "popped" /\ pc'[x] = "popped" /\ ptr'[v] = ptr'[x] => v = x
    BY <2>4, <2>5 DEF HandInv, InHand
  <2>12. ASSUME NEW l \in 1 .. Len(lists'), lists'[l].freed = 0
         PROVE  \/ tree'[lists'[l].at] = l
                \/ \E v \in Threads : pc'[v] = "popped" /\ ptr'[v] = l
    <3>1. CASE l = k
      BY <2>5, <3>1
    <3>2. CASE l # k /\ tree[lists[l].at] = l
      <4>1. lists[l].at \in Times
        BY <1>0, <2>1, ListTypes
      <4> QED
        BY <1>0, <2>1, <3>2, <4>1
    <3>3. ASSUME NEW v \in Threads, pc[v] = "popped", ptr[v] = l
          PROVE  pc'[v] = "popped" /\ ptr'[v] = l
      BY <1>0, <2>1, <2>3, <3>3
    <3> QED
      BY <2>1, <2>12, <3>1, <3>2, <3>3 DEF HandInv
  <2> QED
    BY <2>7, <2>8, <2>9, <2>10, <2>11, <2>12 DEF HandInv
<1>7. ASSUME NEW w \in Threads, PopDestroy(w)
      PROVE  HandInv'
  <2> DEFINE k == ptr[w]
  <2>1. /\ k \in 1 .. Len(lists) /\ Len(lists') = Len(lists)
        /\ \A l \in 1 .. Len(lists) :
              /\ lists'[l].at = lists[l].at /\ lists'[l].items = lists[l].items
              /\ lists'[l].freed = IF l = k THEN lists[l].freed + 1 ELSE lists[l].freed
    BY <1>7, PopDestroyFrees
  <2>2. /\ pc[w] = "popped" /\ pc' = [pc EXCEPT ![w] = "out"] /\ ptr' = [ptr EXCEPT ![w] = 0]
        /\ tree' = tree
    BY <1>7 DEF PopDestroy
  <2>3. tree[lists[k].at] # k
    BY <2>2 DEF HandInv
  <2> HIDE DEF k
  <2>4. ASSUME NEW v \in Threads, InHand(v)'
        PROVE  /\ v # w /\ pc'[v] = pc[v] /\ ptr'[v] = ptr[v] /\ InHand(v)
               /\ ptr[v] \in 1 .. Len(lists) /\ ptr[v] # k
    <3>1. v # w /\ pc'[v] = pc[v] /\ ptr'[v] = ptr[v] /\ InHand(v)
      BY <1>0, <2>2, <2>4 DEF InHand
    <3>2. ptr[v] \in 1 .. Len(lists)
      BY <3>1, HandTypes
    <3>3. ptr[v] # k
      BY <2>2, <2>3, <3>1 DEF HandInv, InHand, Busy, k
    <3> QED
      BY <3>1, <3>2, <3>3
  <2>5. ASSUME NEW u \in Times, tree'[u] # 0
        PROVE  tree'[u] = tree[u] /\ tree[u] \in 1 .. Len(lists) /\ tree[u] # k
    BY <1>0, <2>2, <2>3, <2>5
  <2>6. \A u \in Times : tree'[u] # 0 => lists'[tree'[u]].freed = 0 /\ lists'[tree'[u]].items # <<>>
    BY <2>1, <2>5 DEF HandInv
  <2>7. \A v \in Threads : InHand(v)' => lists'[ptr'[v]].freed = 0
    BY <2>1, <2>4 DEF HandInv
  <2>8. /\ \A v \in Threads : pc'[v] \in Busy => tree'[lists'[ptr'[v]].at] = ptr'[v]
        /\ \A v \in Threads : pc'[v] = "popped" => tree'[lists'[ptr'[v]].at] # ptr'[v]
    BY <2>1, <2>2, <2>4, SMTT(60) DEF HandInv, InHand, Busy
  <2>9. \A v, x \in Threads :
           pc'[v] = "popped" /\ pc'[x] = "popped" /\ ptr'[v] = ptr'[x] => v = x
    BY <2>4 DEF HandInv, InHand
  <2>10. ASSUME NEW l \in 1 .. Len(lists'), lists'[l].freed = 0
         PROVE  \/ tree'[lists'[l].at] = l
                \/ \E v \in Threads : pc'[v] = "popped" /\ ptr'[v] = l
    <3>1. l \in 1 .. Len(lists) /\ lists[l].freed \in Nat
      BY <1>0, <2>1, ListTypes
    <3>2. l # k /\ lists[l].freed = 0
      BY <2>1, <2>10, <3>1
    <3>3. ASSUME NEW v \in Threads, pc[v] = "popped", ptr[v] = l
          PROVE  pc'[v] = "popped" /\ ptr'[v] = l
      BY <1>0, <2>2, <3>2, <3>3 DEF k
    <3> QED
      BY <2>1, <2>2, <3>1, <3>2, <3>3 DEF HandInv
  <2> QED
    BY <2>6, <2>7, <2>8, <2>9, <2>10 DEF HandInv
<1>8. ASSUME NEW w \in Threads, NEW nearest \in BOOLEAN, Look(w, nearest)
      PROVE  HandInv'
  <2>1. SameHands
    BY <1>0, <1>8 DEF Look, Begin, SameHands, InHand, Busy
  <2> QED
    BY <1>8, <2>1, HandQuiet DEF Look
<1>9. ASSUME NEW w \in Threads, LookRead(w)
      PROVE  HandInv'
  <2>1. SameHands
    BY <1>0, <1>9 DEF LookRead, SameHands, InHand, Busy
  <2> QED
    BY <1>9, <2>1, HandQuiet DEF LookRead
<1>10. ASSUME NEW w \in Threads, NEW h \in Handlers, InstallHandler(w, h)
       PROVE  HandInv'
  BY <1>10, HandQuiet DEF InstallHandler, SameHands
<1>11. CASE DestroyManager
  <2>1. CASE status' = "over"
    <3>1. \A w \in Threads : pc[w] = "out" /\ pc'[w] = "out"
      BY <1>11 DEF DestroyManager
    <3>2. \A t \in Times : tree'[t] = 0
      BY <1>11, <2>1, DestroyFrees
    <3>3. ASSUME NEW l \in 1 .. Len(lists')
          PROVE  lists'[l].freed # 0
      <4>1. l \in 1 .. Len(lists) /\ lists[l].freed \in Nat
        BY <1>0, <1>11, <2>1, DestroyFrees, ListTypes
      <4>2. lists[l].freed # 0 \/ tree[lists[l].at] = l
        BY <3>1, <4>1 DEF HandInv
      <4> QED
        BY <1>11, <2>1, <4>1, <4>2, DestroyFrees
    <3> QED
      BY <3>1, <3>2, <3>3 DEF HandInv, InHand, Busy
  <2>2. CASE status' # "over"
    BY <1>11, <2>2, HandQuiet DEF DestroyManager, SameHands
  <2> QED
    BY <2>1, <2>2
<1>12. ASSUME UNCHANGED vars
       PROVE  HandInv'
  BY <1>12, HandQuiet DEF vars, SameHands
<1> QED
  BY <1>1, <1>2, <1>3, <1>4, <1>5, <1>6, <1>7, <1>8, <1>9, <1>10, <1>11, <1>12 DEF Next, Ended

LEMMA HandAlways ==
    ASSUME DeletesOwn = FALSE
    PROVE  Spec => [](TypeInv /\ LockInv /\ HandInv)
<1>1. TypeInv /\ LockInv /\ HandInv /\ [Next]_vars => HandInv'
  BY HandStep
<1> QED
  BY <1>1, HandInit, TypeLockAlways, PTL DEF Spec

(***************************************************************************)
(* ListsAccounted: a list that is allocated is in the tree, under its own  *)
(* time and not empty, or popped by exactly one thread; the list that a    *)
(* thread raises is not freed under it, neither by the other threads nor   *)
(* by the handlers it calls; and cs_destroy_event_manager leaves none.     *)
(***************************************************************************)
THEOREM ListsAccounted == ASSUME DeletesOwn = FALSE PROVE Spec => []TreeSound
<1>1. ASSUME TypeInv, LockInv, HandInv
      PROVE  TreeSound
  <2>0. /\ lists \in Seq(EventList) /\ tree \in [Times -> 0 .. Len(lists)]
        /\ pc \in [Threads -> {"out", "raising", "deleting", "popped", "looking"}]
    BY <1>1 DEF TypeInv, TypeOK
  <2>1. ASSUME NEW t \in Times, tree[t] # 0
        PROVE  /\ lists[tree[t]].freed = 0 /\ lists[tree[t]].at = t /\ lists[tree[t]].items # <<>>
               /\ \A w \in Threads : ptr[w] = tree[t] /\ pc[w] # "looking" => owner = w
    <3>1. lists[tree[t]].freed = 0 /\ lists[tree[t]].at = t /\ lists[tree[t]].items # <<>>
      BY <1>1, <2>1 DEF TypeInv, PtrInv, HandInv
    <3>2. ASSUME NEW w \in Threads, ptr[w] = tree[t], pc[w] # "looking"
          PROVE  owner = w
      <4>1. pc[w] # "out" /\ pc[w] # "popped"
        BY <1>1, <2>1, <3>1, <3>2 DEF TypeInv, PtrInv, HandInv
      <4>2. pc[w] \in Busy
        BY <2>0, <3>2, <4>1 DEF Busy
      <4> QED
        BY <1>1, <4>2 DEF LockInv
    <3> QED
      BY <3>1, <3>2
  <2>2. \A w \in Threads : pc[w] \in {"raising", "deleting", "popped"} => lists[ptr[w]].freed = 0
    BY <1>1 DEF HandInv, InHand
  <2>3. ASSUME NEW l \in DOMAIN lists, lists[l].freed = 0
        PROVE  \/ \E t \in Times : tree[t] = l
               \/ Cardinality({w \in Threads : pc[w] = "popped" /\ ptr[w] = l}) = 1
    <3>1. l \in 1 .. Len(lists) /\ lists[l].at \in Times
      BY <2>0, ListTypes
    <3>2. ASSUME NEW w \in Threads, pc[w] = "popped", ptr[w] = l
          PROVE  Cardinality({v \in Threads : pc[v] = "popped" /\ ptr[v] = l}) = 1
      <4>1. {v \in Threads : pc[v] = "popped" /\ ptr[v] = l} = {w}
        BY <1>1, <3>2 DEF HandInv
      <4> QED
        BY <4>1, FS_Singleton
    <3> QED
      BY <1>1, <2>3, <3>1, <3>2 DEF HandInv
  <2> QED
    BY <2>1, <2>2, <2>3 DEF TreeSound
<1> QED
  BY <1>1, HandAlways, PTL

-----------------------------------------------------------------------------
(***************************************************************************)
(* The events: each is at one place of one list, and was raised if a       *)
(* thread that works on the list has passed the place, not if the list is  *)
(* in the tree and nobody works on it, and unless it was deleted, if the   *)
(* list was freed.                                                         *)
(***************************************************************************)
PlaceInv ==
    /\ \A l \in 1 .. Len(lists) : \A i \in 1 .. Len(lists[l].items) : lists[l].items[i] <= nevents
    /\ \A l, m \in 1 .. Len(lists) :
          \A i \in 1 .. Len(lists[l].items), j \in 1 .. Len(lists[m].items) :
             lists[l].items[i] = lists[m].items[j] => l = m /\ i = j
    /\ \A e \in 1 .. nevents : \E l \in 1 .. Len(lists) : \E i \in 1 .. Len(lists[l].items) : lists[l].items[i] = e

RaiseInv ==
    /\ \A e \in Events : e > nevents => raised[e] = 0
    /\ \A w \in Threads : InHand(w) =>
          /\ cur[w] \in 1 .. Len(lists[ptr[w]].items) + 1
          /\ pc[w] = "raising" => cur[w] <= Len(lists[ptr[w]].items)
          /\ pc[w] = "deleting" => cur[w] > Len(lists[ptr[w]].items)
          /\ \A i \in 1 .. Len(lists[ptr[w]].items) :
                raised[lists[ptr[w]].items[i]] = IF i < cur[w] THEN 1 ELSE 0
    /\ \A t \in Times :
          tree[t] # 0 /\ (\A w \in Threads : pc[w] \in Busy => ptr[w] # tree[t]) =>
             \A i \in 1 .. Len(lists[tree[t]].items) : raised[lists[tree[t]].items[i]] = 0
    /\ \A l \in 1 .. Len(lists) : lists[l].freed # 0 =>
          \A i \in 1 .. Len(lists[l].items) :
             /\ raised[lists[l].items[i]] <= 1
             /\ status # "over" => raised[lists[l].items[i]] = 1 \/ lists[l].items[i] \in deleted

LEMMA PlaceSame ==
    ASSUME PlaceInv, nevents' = nevents, Len(lists') = Len(lists),
           \A l \in 1 .. Len(lists) : lists'[l].items = lists[l].items
    PROVE  PlaceInv'
<1>1. \A l \in 1 .. Len(lists') :
         lists'[l].items = lists[l].items /\ \A i : lists'[l].items[i] = lists[l].items[i]
  OBVIOUS
<1>2. \A l \in 1 .. Len(lists') : \A i \in 1 .. Len(lists'[l].items) : lists'[l].items[i] <= nevents'
  BY <1>1 DEF PlaceInv
<1>3. \A l, m \in 1 .. Len(lists') :
         \A i \in 1 .. Len(lists'[l].items), j \in 1 .. Len(lists'[m].items) :
            lists'[l].items[i] = lists'[m].items[j] => l = m /\ i = j
  BY <1>1, SMTT(60) DEF PlaceInv
<1>4. \A e \in 1 .. nevents' :
         \E l \in 1 .. Len(lists') : \E i \in 1 .. Len(lists'[l].items) : lists'[l].items[i] = e
  BY <1>1 DEF PlaceInv
<1> QED
  BY <1>2, <1>3, <1>4 DEF PlaceInv

\* Where the places of the events are after one was scheduled: where they were,
\* and one more, at the end of the list of its time.
LEMMA GrownPlaces ==
    ASSUME TypeInv, NEW t \in Times, Grown(t)
    PROVE  /\ \A l \in 1 .. Len(lists) :
                 /\ l \in 1 .. Len(lists') /\ Len(lists[l].items) \in Nat
                 /\ Len(lists[l].items) <= Len(lists'[l].items)
                 /\ Len(lists'[l].items) \in Nat
                 /\ \A i \in 1 .. Len(lists[l].items) : lists'[l].items[i] = lists[l].items[i]
           /\ tree'[t] \in 1 .. Len(lists') /\ Len(lists'[tree'[t]].items) \in Nat \ {0}
           /\ lists'[tree'[t]].items[Len(lists'[tree'[t]].items)] = nevents + 1
           /\ \A l \in 1 .. Len(lists') : \A i \in 1 .. Len(lists'[l].items) :
                 \/ l = tree'[t] /\ i = Len(lists'[l].items)
                 \/ l \in 1 .. Len(lists) /\ i \in 1 .. Len(lists[l].items)
<1>0. /\ lists \in Seq(EventList) /\ Len(lists) \in Nat /\ tree \in [Times -> 0 .. Len(lists)]
      /\ Len(lists') \in Nat /\ tree' \in [Times -> 0 .. Len(lists')]
      /\ \A l \in 1 .. Len(lists) : lists[l].items \in Seq(Events)
  BY ListTypes DEF TypeInv, TypeOK, Grown
<1>1. \A l \in 1 .. Len(lists) : l # tree[t] => lists'[l] = lists[l]
  BY DEF Grown
<1>2. CASE tree[t] = 0
  <2>1. /\ tree'[t] = Len(lists) + 1 /\ Len(lists') = Len(lists) + 1
        /\ lists'[tree'[t]].items = <<nevents + 1>>
    BY <1>2 DEF Grown
  <2>2. \A l \in 1 .. Len(lists) : lists'[l] = lists[l]
    BY <1>1, <1>2, <1>0
  <2>3. Len(<<nevents + 1>>) = 1 /\ <<nevents + 1>>[1] = nevents + 1
    OBVIOUS
  <2>4. ASSUME NEW l \in 1 .. Len(lists)
        PROVE  /\ l \in 1 .. Len(lists') /\ Len(lists[l].items) \in Nat
               /\ lists'[l].items = lists[l].items
    BY <1>0, <2>1, <2>2
  <2>5. /\ tree'[t] \in 1 .. Len(lists') /\ Len(lists'[tree'[t]].items) = 1
        /\ lists'[tree'[t]].items[1] = nevents + 1
    BY <1>0, <2>1, <2>3
  <2>6. ASSUME NEW l \in 1 .. Len(lists'), NEW i \in 1 .. Len(lists'[l].items)
        PROVE  \/ l = tree'[t] /\ i = Len(lists'[l].items)
               \/ l \in 1 .. Len(lists) /\ i \in 1 .. Len(lists[l].items)
    <3>1. CASE l \in 1 .. Len(lists)
      BY <2>4, <3>1
    <3>2. CASE l \notin 1 .. Len(lists)
      <4>1. l = tree'[t]
        BY <1>0, <2>1, <3>2
      <4>2. Len(lists'[l].items) = 1
        BY <2>5, <4>1
      <4> QED
        BY <4>1, <4>2
    <3> QED
      BY <3>1, <3>2
  <2> QED
    BY <2>4, <2>5, <2>6
<1>3. CASE tree[t] # 0
  <2> DEFINE k == tree[t]
             s == lists[k].items
  <2>1. /\ k \in 1 .. Len(lists) /\ tree'[t] = k /\ Len(lists') = Len(lists)
        /\ lists'[k].items = Append(s, nevents + 1) /\ s \in Seq(Events)
    BY <1>0, <1>3 DEF Grown
  <2>2. /\ Len(Append(s, nevents + 1)) = Len(s) + 1 /\ Len(s) \in Nat
        /\ \A i \in 1 .. Len(s) : Append(s, nevents + 1)[i] = s[i]
        /\ Append(s, nevents + 1)[Len(s) + 1] = nevents + 1
    BY <2>1
  <2> HIDE DEF k
  <2>3. ASSUME NEW l \in 1 .. Len(lists), l # k
        PROVE  lists'[l].items = lists[l].items /\ Len(lists[l].items) \in Nat
    BY <1>0, <1>1, <2>3 DEF k
  <2> HIDE DEF s
  <2>4. ASSUME NEW l \in 1 .. Len(lists)
        PROVE  /\ l \in 1 .. Len(lists') /\ Len(lists[l].items) \in Nat
               /\ Len(lists[l].items) <= Len(lists'[l].items)
               /\ Len(lists'[l].items) \in Nat
               /\ \A i \in 1 .. Len(lists[l].items) : lists'[l].items[i] = lists[l].items[i]
    <3>1. CASE l = k
      BY <2>1, <2>2, <3>1 DEF s
    <3>2. CASE l # k
      BY <2>1, <2>3, <3>2
    <3> QED
      BY <3>1, <3>2
  <2>5. /\ tree'[t] \in 1 .. Len(lists') /\ Len(lists'[tree'[t]].items) \in Nat \ {0}
        /\ lists'[tree'[t]].items[Len(lists'[tree'[t]].items)] = nevents + 1
    BY <2>1, <2>2
  <2>6. ASSUME NEW l \in 1 .. Len(lists'), NEW i \in 1 .. Len(lists'[l].items)
        PROVE  \/ l = tree'[t] /\ i = Len(lists'[l].items)
               \/ l \in 1 .. Len(lists) /\ i \in 1 .. Len(lists[l].items)
    <3>1. CASE l = k
      BY <2>1, <2>2, <3>1 DEF s
    <3>2. CASE l # k
      BY <2>1, <2>3, <3>2
    <3> QED
      BY <3>1, <3>2
  <2> QED
    BY <2>4, <2>5, <2>6
<1> QED
  BY <1>2, <1>3

LEMMA PlaceAdds ==
    ASSUME TypeInv, PlaceInv, NEW t \in Times, Adds(t)
    PROVE  PlaceInv'
<1> DEFINE k == tree'[t]
           n == Len(lists'[k].items)
           Old(l, i) == l \in 1 .. Len(lists) /\ i \in 1 .. Len(lists[l].items)
<1>0. nevents \in Nat /\ nevents' = nevents + 1 /\ Grown(t)
  BY DEF TypeInv, TypeOK, Adds
<1>1. /\ k \in 1 .. Len(lists') /\ n \in Nat \ {0} /\ lists'[k].items[n] = nevents + 1
      /\ \A l \in 1 .. Len(lists') : \A i \in 1 .. Len(lists'[l].items) :
            (l = k /\ i = n) \/ Old(l, i)
  BY <1>0, GrownPlaces
<1>2. ASSUME NEW l \in 1 .. Len(lists), NEW i \in 1 .. Len(lists[l].items)
      PROVE  /\ l \in 1 .. Len(lists') /\ i \in 1 .. Len(lists'[l].items)
             /\ lists'[l].items[i] = lists[l].items[i]
             /\ lists[l].items[i] \in Int /\ lists[l].items[i] <= nevents
  <2>1. lists[l].items \in Seq(Events)
    BY ListTypes DEF TypeInv, TypeOK
  <2>2. lists[l].items[i] \in Int /\ lists[l].items[i] <= nevents
    <3>1. lists[l].items[i] \in Events
      BY <2>1
    <3>2. lists[l].items[i] <= nevents
      BY DEF PlaceInv
    <3> QED
      BY <3>1, <3>2 DEF Events
  <2>3. l \in 1 .. Len(lists') /\ lists'[l].items[i] = lists[l].items[i]
    BY <1>0, GrownPlaces
  <2>4. /\ Len(lists[l].items) \in Nat /\ Len(lists'[l].items) \in Nat
        /\ Len(lists[l].items) <= Len(lists'[l].items)
    BY <1>0, GrownPlaces
  <2> QED
    BY <2>2, <2>3, <2>4
<1> HIDE DEF k, n
<1>3. ASSUME NEW l \in 1 .. Len(lists'), NEW i \in 1 .. Len(lists'[l].items)
      PROVE  \/ l = k /\ i = n /\ lists'[l].items[i] = nevents + 1
             \/ Old(l, i) /\ lists'[l].items[i] \in Int /\ lists'[l].items[i] <= nevents
  <2>1. CASE l = k /\ i = n
    BY <1>1, <2>1
  <2>2. CASE Old(l, i)
    BY <1>2, <2>2
  <2> QED
    BY <1>1, <2>1, <2>2
<1>4. ASSUME NEW l \in 1 .. Len(lists'), NEW m \in 1 .. Len(lists'),
             NEW i \in 1 .. Len(lists'[l].items), NEW j \in 1 .. Len(lists'[m].items),
             lists'[l].items[i] = lists'[m].items[j]
      PROVE  l = m /\ i = j
  <2>1. CASE Old(l, i) /\ Old(m, j)
    BY <1>2, <1>4, <2>1 DEF PlaceInv
  <2>2. CASE l = k /\ i = n /\ lists'[l].items[i] = nevents + 1
    <3>1. ~(lists'[m].items[j] <= nevents)
      BY <1>0, <1>4, <2>2
    <3> QED
      BY <1>3, <2>2, <3>1
  <2>3. CASE m = k /\ j = n /\ lists'[m].items[j] = nevents + 1
    <3>1. ~(lists'[l].items[i] <= nevents)
      BY <1>0, <1>4, <2>3
    <3> QED
      BY <1>3, <2>3, <3>1
  <2> QED
    BY <1>3, <2>1, <2>2, <2>3
<1>5. \A l \in 1 .. Len(lists') : \A i \in 1 .. Len(lists'[l].items) : lists'[l].items[i] <= nevents'
  BY <1>0, <1>3
<1>6. ASSUME NEW e \in 1 .. nevents'
      PROVE  \E l \in 1 .. Len(lists') : \E i \in 1 .. Len(lists'[l].items) : lists'[l].items[i] = e
  <2>1. CASE e = nevents + 1
    BY <1>1, <2>1, SMTT(60) DEF n
  <2>2. CASE e # nevents + 1
    <3>1. e \in 1 .. nevents
      BY <1>0, <2>2
    <3>2. PICK l \in 1 .. Len(lists) : \E i \in 1 .. Len(lists[l].items) : lists[l].items[i] = e
      BY <3>1 DEF PlaceInv
    <3>3. PICK i \in 1 .. Len(lists[l].items) : lists[l].items[i] = e
      BY <3>2
    <3> QED
      BY <1>2, <3>3
  <2> QED
    BY <2>1, <2>2
<1> QED
  BY <1>4, <1>5, <1>6 DEF PlaceInv

LEMMA PlaceStep ==
    ASSUME TypeInv, PlaceInv, [Next]_vars
    PROVE  PlaceInv'
<1>1. ASSUME UNCHANGED <<lists, nevents>>
      PROVE  PlaceInv'
  BY <1>1, PlaceSame
<1>2. ASSUME NEW t \in Times, Pruned(t), nevents' = nevents
      PROVE  PlaceInv'
  BY <1>2, PlaceSame DEF Pruned
<1>3. ASSUME NEW w \in Threads, NEW t \in Times, ScheduleEvent(w, t)
      PROVE  PlaceInv'
  <2>1. Adds(t)
    BY <1>3, ScheduledGrows DEF ScheduleEvent, Adds
  <2> QED
    BY <2>1, PlaceAdds
<1>4. ASSUME NEW w \in Threads, NEW t \in Times, CallDelete(w, t)
      PROVE  PlaceInv'
  <2>1. Pruned(t) /\ nevents' = nevents
    BY <1>4, DeletePrunes DEF CallDelete, DeletesToo
  <2> QED
    BY <1>2, <2>1
<1>5. ASSUME NEW w \in Threads, ThrowOne(w) \/ PopRaise(w)
      PROVE  PlaceInv'
  <2>1. PICK e : Raise(e) /\ HandlerCode(w)
    BY <1>5 DEF ThrowOne, PopRaise
  <2>2. Quiet \/ \E t \in Times : Adds(t) \/ Drops(t)
    BY <2>1, HandlerCases
  <2> QED
    BY <1>1, <1>2, <2>2, PlaceAdds DEF Quiet, Drops
<1>6. ASSUME NEW w \in Threads, ThrowDelete(w)
      PROVE  PlaceInv'
  BY <1>2, <1>6, ThrowDeletePrunes DEF ThrowDelete
<1>7. ASSUME NEW w \in Threads, PopDestroy(w)
      PROVE  PlaceInv'
  <2>1. nevents' = nevents
    BY <1>7 DEF PopDestroy
  <2> QED
    BY <1>7, <2>1, PopDestroyFrees, PlaceSame
<1>8. CASE DestroyManager
  <2>1. CASE status' = "over"
    <3>1. nevents' = nevents
      BY <1>8 DEF DestroyManager
    <3> QED
      BY <1>8, <2>1, <3>1, DestroyFrees, PlaceSame
  <2>2. CASE status' # "over"
    BY <1>1, <1>8, <2>2 DEF DestroyManager
  <2> QED
    BY <2>1, <2>2
<1>9. ASSUME NEW w \in Threads, NEW t \in Times, ThrowLock(w, t) \/ PopEvents(w, t)
      PROVE  PlaceInv'
  BY <1>1, <1>9 DEF ThrowLock, PopEvents
<1>10. ASSUME NEW w \in Threads, LookRead(w) \/ \E b \in BOOLEAN : Look(w, b)
       PROVE  PlaceInv'
  BY <1>1, <1>10 DEF LookRead, Look
<1>11. ASSUME NEW w \in Threads, NEW h \in Handlers, InstallHandler(w, h)
       PROVE  PlaceInv'
  BY <1>1, <1>11 DEF InstallHandler
<1>12. ASSUME UNCHANGED vars
       PROVE  PlaceInv'
  BY <1>1, <1>12 DEF vars
<1> QED
  BY <1>3, <1>4, <1>5, <1>6, <1>7, <1>8, <1>9, <1>10, <1>11, <1>12 DEF Next, Ended

-----------------------------------------------------------------------------
(***************************************************************************)
(* What is raised.  W is the set of the threads that raise the event at    *)
(* their place and go on to the next: one thread, or none.                 *)
(***************************************************************************)
Advances(W) ==
    /\ \A v \in W : InHand(v) /\ cur[v] <= Len(lists[ptr[v]].items)
    /\ \A l \in 1 .. Len(lists) : \A i \in 1 .. Len(lists[l].items) :
          raised'[lists[l].items[i]] =
             IF \E v \in W : l = ptr[v] /\ i = cur[v] THEN 1 ELSE raised[lists[l].items[i]]
    /\ \A e \in Events : e > nevents => raised'[e] = 0
    /\ \A v \in Threads : InHand(v) => cur'[v] = IF v \in W THEN cur[v] + 1 ELSE cur[v]

\* No two threads work on one list.
LEMMA HandsDiffer ==
    ASSUME TypeInv, LockInv, HandInv, NEW v \in Threads, NEW w \in Threads,
           InHand(v), InHand(w), ptr[v] = ptr[w]
    PROVE  v = w
<1>1. CASE pc[v] = "popped" /\ pc[w] = "popped"
  BY <1>1 DEF HandInv
<1>2. CASE pc[v] \in Busy /\ pc[w] \in Busy
  BY <1>2 DEF LockInv
<1>3. CASE (pc[v] \in Busy /\ pc[w] = "popped") \/ (pc[w] \in Busy /\ pc[v] = "popped")
  BY <1>3 DEF HandInv
<1> QED
  BY <1>1, <1>2, <1>3 DEF InHand, Busy

\* A step in which nobody takes or leaves a list.
LEMMA RaiseKept ==
    ASSUME TypeInv, LockInv, HandInv, RaiseInv, SameHands, status # "over",
           NEW W \in SUBSET Threads, Advances(W),
           \/ Quiet
           \/ \E t \in Times : Adds(t)
           \/ \E t \in Times : Drops(t) /\ \A v \in Threads : pc[v] \in Busy => ptr[v] # tree[t],
           \A v \in Threads :
              /\ pc'[v] = "raising" => cur'[v] <= Len(lists'[ptr'[v]].items)
              /\ pc'[v] = "deleting" => cur'[v] > Len(lists'[ptr'[v]].items)
    PROVE  RaiseInv'
<1>0. /\ lists \in Seq(EventList) /\ Len(lists) \in Nat /\ tree \in [Times -> 0 .. Len(lists)]
      /\ Len(lists') \in Nat /\ Len(lists) <= Len(lists') /\ tree' \in [Times -> 0 .. Len(lists')]
      /\ nevents \in Nat /\ cur \in [Threads -> Nat]
      /\ \A u \in Times : tree[u] # 0 => lists[tree[u]].at = u
      /\ \A l \in 1 .. Len(lists) : lists[l].items \in Seq(Events) /\ Len(lists[l].items) \in Nat
  <2>1. TablesOK' /\ Len(lists') \in Nat /\ Len(lists) <= Len(lists')
    BY TablesStep
  <2>2. /\ lists \in Seq(EventList) /\ Len(lists) \in Nat /\ tree \in [Times -> 0 .. Len(lists)]
        /\ nevents \in Nat /\ cur \in [Threads -> Nat]
        /\ \A u \in Times : tree[u] # 0 => lists[tree[u]].at = u
    BY DEF TypeInv, TypeOK, PtrInv
  <2> QED
    BY <2>1, <2>2, ListTypes DEF TablesOK
\* the lists keep their events, and may get one more, which has not been raised
<1>1. ASSUME NEW l \in 1 .. Len(lists)
      PROVE  /\ Len(lists'[l].items) \in Nat /\ Len(lists[l].items) <= Len(lists'[l].items)
             /\ \A i \in 1 .. Len(lists[l].items) : lists'[l].items[i] = lists[l].items[i]
  <2>0. lists[l].items \in Seq(Events) /\ Len(lists[l].items) \in Nat
    BY <1>0
  <2>1. CASE Quiet
    <3>1. lists' = lists
      BY <2>1 DEF Quiet
    <3> QED
      BY <2>0, <3>1
  <2>2. CASE \E t \in Times : Adds(t)
    <3>1. PICK t \in Times : Adds(t)
      BY <2>2
    <3>2. Grown(t)
      BY <3>1 DEF Adds
    <3> QED
      BY <3>2, GrownPlaces
  <2>3. CASE \E t \in Times : Drops(t)
    <3>1. lists'[l].items = lists[l].items
      BY <2>3 DEF Drops, Pruned
    <3> QED
      BY <2>0, <3>1
  <2> QED
    BY <2>1, <2>2, <2>3
<1>2. ASSUME NEW l \in 1 .. Len(lists'), NEW i \in 1 .. Len(lists'[l].items),
             ~(l \in 1 .. Len(lists) /\ i \in 1 .. Len(lists[l].items))
      PROVE  /\ raised'[lists'[l].items[i]] = 0
             /\ \E t \in Times : tree'[t] = l /\ Adds(t)
  <2>1. PICK t \in Times : Adds(t)
    BY <1>0, <1>2 DEF Quiet, Drops, Pruned
  <2>2. l = tree'[t] /\ i = Len(lists'[l].items) /\ lists'[l].items[i] = nevents + 1
    BY <1>2, <2>1, GrownPlaces DEF Adds
  <2>3. nevents + 1 \in Events
    BY <1>0, <2>1, TablesAssumption DEF Adds, Events
  <2>4. raised'[nevents + 1] = 0
    BY <1>0, <2>3 DEF Advances
  <2> QED
    BY <2>1, <2>2, <2>4
<1>3. \A e \in Events : e > nevents' => raised'[e] = 0
  <2>1. nevents' \in {nevents, nevents + 1}
    BY DEF Quiet, Adds, Drops
  <2> QED
    BY <1>0, <2>1 DEF Advances, Events
\* the threads that work on a list
<1>4. ASSUME NEW v \in Threads, InHand(v)'
      PROVE  /\ InHand(v) /\ ptr'[v] = ptr[v] /\ ptr[v] \in 1 .. Len(lists)
             /\ cur[v] \in 1 .. Len(lists[ptr[v]].items) + 1
             /\ cur'[v] = IF v \in W THEN cur[v] + 1 ELSE cur[v]
  <2>1. InHand(v) /\ ptr'[v] = ptr[v]
    BY <1>4 DEF SameHands, InHand, Busy
  <2> QED
    BY <2>1, HandTypes DEF RaiseInv, Advances
<1>5. ASSUME NEW v \in Threads, InHand(v)'
      PROVE  /\ cur'[v] \in 1 .. Len(lists'[ptr'[v]].items) + 1
             /\ \A i \in 1 .. Len(lists'[ptr'[v]].items) :
                   raised'[lists'[ptr'[v]].items[i]] = IF i < cur'[v] THEN 1 ELSE 0
  <2> DEFINE l == ptr[v]
  <2>1. /\ l \in 1 .. Len(lists) /\ ptr'[v] = l /\ InHand(v)
        /\ cur[v] \in 1 .. Len(lists[l].items) + 1
        /\ cur'[v] = IF v \in W THEN cur[v] + 1 ELSE cur[v]
    BY <1>4, <1>5
  <2>2. v \in W => cur[v] <= Len(lists[l].items)
    BY DEF Advances
  <2>3. \A i \in 1 .. Len(lists[l].items) : raised[lists[l].items[i]] = IF i < cur[v] THEN 1 ELSE 0
    BY <2>1 DEF RaiseInv
  <2>4. \A x \in W : l = ptr[x] => x = v
    BY <2>1, HandsDiffer DEF Advances
  <2> HIDE DEF l
  <2>5. cur'[v] \in 1 .. Len(lists[l].items) + 1 /\ Len(lists[l].items) \in Nat
    BY <1>0, <2>1, <2>2
  <2>6. cur'[v] \in 1 .. Len(lists'[l].items) + 1
    BY <1>1, <2>1, <2>5
  <2>7. ASSUME NEW i \in 1 .. Len(lists'[l].items)
        PROVE  raised'[lists'[l].items[i]] = IF i < cur'[v] THEN 1 ELSE 0
    <3>1. CASE i \in 1 .. Len(lists[l].items)
      <4>1. lists'[l].items[i] = lists[l].items[i]
        BY <1>1, <2>1, <3>1
      <4>2. raised'[lists[l].items[i]] =
               IF \E x \in W : l = ptr[x] /\ i = cur[x] THEN 1 ELSE raised[lists[l].items[i]]
        BY <2>1, <3>1 DEF Advances
      <4>3. (\E x \in W : l = ptr[x] /\ i = cur[x]) <=> v \in W /\ i = cur[v]
        BY <2>4 DEF l
      <4>4. raised[lists[l].items[i]] = IF i < cur[v] THEN 1 ELSE 0
        BY <2>3, <3>1
      <4> QED
        BY <1>0, <2>1, <3>1, <4>1, <4>2, <4>3, <4>4
    <3>2. CASE i \notin 1 .. Len(lists[l].items)
      <4>1. l \in 1 .. Len(lists')
        BY <1>0, <2>1
      <4>2. raised'[lists'[l].items[i]] = 0
        BY <1>2, <3>2, <4>1
      <4>3. ~(i < cur'[v])
        BY <2>5, <3>2
      <4> QED
        BY <4>2, <4>3
    <3> QED
      BY <3>1, <3>2
  <2> QED
    BY <2>1, <2>6, <2>7
\* the lists in the tree
<1>6. ASSUME NEW t \in Times, tree'[t] # 0,
             \A v \in Threads : pc'[v] \in Busy => ptr'[v] # tree'[t],
             NEW i \in 1 .. Len(lists'[tree'[t]].items)
      PROVE  raised'[lists'[tree'[t]].items[i]] = 0
  <2> DEFINE l == tree'[t]
  <2>0. l \in 1 .. Len(lists')
    BY <1>0, <1>6
  <2>1. CASE l \in 1 .. Len(lists) /\ i \in 1 .. Len(lists[l].items)
    <3>1. tree[t] = l
      <4>1. CASE Quiet
        BY <4>1 DEF Quiet
      <4>2. ASSUME NEW u \in Times, Adds(u)
            PROVE  tree[t] = l
        BY <1>0, <2>1, <4>2 DEF Adds, Grown
      <4>3. ASSUME NEW u \in Times, Drops(u)
            PROVE  tree[t] = l
        BY <1>6, <4>3 DEF Drops, Pruned
      <4> QED
        BY <4>1, <4>2, <4>3
    <3>2. \A v \in Threads : pc[v] \in Busy => ptr[v] # l
      BY <1>6, <3>1 DEF SameHands, InHand, Busy
    <3>3. raised[lists[l].items[i]] = 0
      BY <2>1, <3>1, <3>2 DEF RaiseInv
    <3>4. \A v \in W : l # ptr[v]
      <4>1. ASSUME NEW v \in W, pc[v] = "popped", l = ptr[v]
            PROVE  FALSE
        <5>1. lists[ptr[v]].at = t /\ v \in Threads
          BY <1>0, <2>1, <3>1, <4>1
        <5> QED
          BY <3>1, <4>1, <5>1 DEF HandInv
      <4> QED
        BY <3>2, <4>1 DEF Advances, InHand, Busy
    <3>5. raised'[lists[l].items[i]] = 0
      BY <2>1, <3>3, <3>4, ZenonT(60) DEF Advances
    <3> QED
      BY <1>1, <2>1, <3>5, SMTT(60)
  <2>2. CASE ~(l \in 1 .. Len(lists) /\ i \in 1 .. Len(lists[l].items))
    BY <1>2, <2>0, <2>2
  <2> QED
    BY <2>1, <2>2
\* the lists that were freed
<1>7. ASSUME NEW l \in 1 .. Len(lists'), lists'[l].freed # 0, NEW i \in 1 .. Len(lists'[l].items)
      PROVE  /\ raised'[lists'[l].items[i]] <= 1
             /\ raised'[lists'[l].items[i]] = 1 \/ lists'[l].items[i] \in deleted'
  <2>1. l \in 1 .. Len(lists) /\ i \in 1 .. Len(lists[l].items)
    <3>1. ASSUME NEW t \in Times, tree'[t] = l, Adds(t)
          PROVE  FALSE
      <4>1. tree[t] = 0 => lists'[l].freed = 0
        BY <3>1, SMTT(60) DEF Adds, Grown
      <4>2. tree[t] # 0 => lists'[l].freed = lists[tree[t]].freed /\ lists[tree[t]].freed = 0
        BY <3>1, Zenon DEF Adds, Grown, HandInv
      <4> QED
        BY <1>7, <4>1, <4>2, SMTT(60)
    <3> QED
      BY <1>2, <3>1
  <2>2. lists'[l].items[i] = lists[l].items[i]
    BY <1>1, <2>1
  <2>3. CASE lists[l].freed # 0
    <3>1. \A v \in W : l # ptr[v]
      BY <2>3 DEF Advances, HandInv
    <3>2. raised'[lists[l].items[i]] = raised[lists[l].items[i]]
      BY <2>1, <3>1 DEF Advances
    <3>3. deleted \subseteq deleted'
      BY DEF Quiet, Adds, Drops
    <3> QED
      BY <2>1, <2>2, <2>3, <3>2, <3>3 DEF RaiseInv
  <2>4. CASE lists[l].freed = 0
    <3>1. PICK t \in Times : Drops(t) /\ \A v \in Threads : pc[v] \in Busy => ptr[v] # tree[t]
      <4>1. ~Quiet
        BY <1>7, <2>4 DEF Quiet
      <4>2. ASSUME NEW t \in Times, Adds(t)
            PROVE  lists'[l].freed = lists[l].freed
        <5>1. CASE l = tree[t]
          BY <2>1, <4>2, <5>1, SMTT(60) DEF Adds, Grown
        <5>2. CASE l # tree[t]
          BY <2>1, <4>2, <5>2 DEF Adds, Grown
        <5> QED
          BY <5>1, <5>2, SMTT(60)
      <4> QED
        BY <1>7, <2>4, <4>1, <4>2
    <3>2. l = tree[t] /\ tree[t] # 0
      BY <1>7, <2>1, <2>4, <3>1 DEF Drops, Pruned
    <3>3. raised[lists[l].items[i]] = 0
      BY <2>1, <3>1, <3>2 DEF RaiseInv
    <3>4. \A v \in W : l # ptr[v]
      <4>1. ASSUME NEW v \in W, pc[v] = "popped", l = ptr[v]
            PROVE  FALSE
        <5>1. lists[ptr[v]].at = t /\ v \in Threads
          BY <1>0, <3>2, <4>1
        <5> QED
          BY <3>2, <4>1, <5>1 DEF HandInv
      <4> QED
        BY <3>1, <3>2, <4>1 DEF Advances, InHand, Busy
    <3>5. raised'[lists[l].items[i]] = 0
      BY <2>1, <3>3, <3>4 DEF Advances
    <3>6. lists[l].items[i] \in Unraised(l)
      <4>1. lists[l].items \in Seq(Events) /\ i \in DOMAIN lists[l].items
        BY <1>0, <2>1
      <4> QED
        BY <3>3, <4>1 DEF Unraised
    <3>7. lists[l].items[i] \in deleted'
      BY <3>1, <3>2, <3>6 DEF Drops
    <3> QED
      BY <2>2, <3>5, <3>7
  <2> QED
    BY <2>3, <2>4
<1> QED
  BY <1>3, <1>5, <1>6, <1>7 DEF RaiseInv

\* One event is raised, for the first time.
LEMMA RaiseAdvances ==
    ASSUME TypeInv, PlaceInv, RaiseInv, NEW w \in Threads, InHand(w),
           cur[w] <= Len(lists[ptr[w]].items), Raise(lists[ptr[w]].items[cur[w]]),
           cur' = [cur EXCEPT ![w] = @ + 1]
    PROVE  Advances({w})
<1> DEFINE k == ptr[w]
           e0 == lists[k].items[cur[w]]
<1>0. /\ raised \in [Events -> Nat] /\ cur \in [Threads -> Nat] /\ lists \in Seq(EventList)
      /\ nevents \in Nat
  BY DEF TypeInv, TypeOK
<1>1. k \in 1 .. Len(lists) /\ cur[w] \in 1 .. Len(lists[k].items) /\ raised[e0] = 0
  <2>1. k \in 1 .. Len(lists)
    BY HandTypes
  <2>2. cur[w] \in 1 .. Len(lists[k].items)
    <3>1. lists[k].items \in Seq(Events) /\ cur[w] \in 1 .. Len(lists[k].items) + 1
      BY <1>0, <2>1, ListTypes DEF RaiseInv
    <3> QED
      BY <3>1
  <2>3. raised[e0] = IF cur[w] < cur[w] THEN 1 ELSE 0
    BY <2>2 DEF RaiseInv
  <2> QED
    BY <2>1, <2>2, <2>3
<1>2. raised' = [raised EXCEPT ![e0] = @ + 1]
  BY DEF Raise
<1>3. \A l \in 1 .. Len(lists) : \A i \in 1 .. Len(lists[l].items) : lists[l].items[i] \in Events
  BY <1>0, ListTypes
<1>4. e0 \in Events /\ e0 <= nevents
  BY <1>1, <1>3 DEF PlaceInv
<1>5. \A e \in Events : raised'[e] = IF e = e0 THEN 1 ELSE raised[e]
  BY <1>0, <1>1, <1>2, <1>4
<1>6. ASSUME NEW l \in 1 .. Len(lists), NEW i \in 1 .. Len(lists[l].items)
      PROVE  raised'[lists[l].items[i]] =
                IF \E v \in {w} : l = ptr[v] /\ i = cur[v] THEN 1 ELSE raised[lists[l].items[i]]
  <2>1. CASE l = k /\ i = cur[w]
    BY <1>3, <1>5, <2>1
  <2>2. CASE ~(l = k /\ i = cur[w])
    <3>1. lists[l].items[i] # e0
      BY <1>1, <2>2, SMTT(60) DEF PlaceInv
    <3>2. raised'[lists[l].items[i]] = raised[lists[l].items[i]]
      BY <1>3, <1>5, <3>1
    <3> QED
      BY <2>2, <3>2
  <2> QED
    BY <2>1, <2>2
<1>7. ASSUME NEW e \in Events, e > nevents
      PROVE  raised'[e] = 0
  <2>1. e # e0
    <3> HIDE DEF e0
    <3> QED
      BY <1>0, <1>4, <1>7 DEF Events
  <2>2. raised[e] = 0
    BY <1>7 DEF RaiseInv
  <2> QED
    BY <1>5, <2>1, <2>2
<1>8. \A v \in Threads : cur'[v] = IF v \in {w} THEN cur[v] + 1 ELSE cur[v]
  BY <1>0
<1> QED
  BY <1>6, <1>7, <1>8 DEF Advances

\* A step that raises nothing and in which nobody takes or leaves a list.
LEMMA RaiseStays ==
    ASSUME RaiseInv, raised' = raised, \A v \in Threads : InHand(v) => cur'[v] = cur[v]
    PROVE  Advances({})
  BY DEF Advances, RaiseInv

LEMMA RaiseQuiet ==
    ASSUME RaiseInv, UNCHANGED <<tree, lists, nevents, deleted, raised>>,
           status' # "over" => status # "over",
           \A v \in Threads : /\ InHand(v)' <=> InHand(v)
                              /\ InHand(v) => pc'[v] = pc[v] /\ ptr'[v] = ptr[v] /\ cur'[v] = cur[v]
    PROVE  RaiseInv'
<1>1. \A e \in Events : e > nevents' => raised'[e] = 0
  BY DEF RaiseInv
<1>2. ASSUME NEW w \in Threads, InHand(w)'
      PROVE  /\ cur'[w] \in 1 .. Len(lists'[ptr'[w]].items) + 1
             /\ pc'[w] = "raising" => cur'[w] <= Len(lists'[ptr'[w]].items)
             /\ pc'[w] = "deleting" => cur'[w] > Len(lists'[ptr'[w]].items)
             /\ \A i \in 1 .. Len(lists'[ptr'[w]].items) :
                   raised'[lists'[ptr'[w]].items[i]] = IF i < cur'[w] THEN 1 ELSE 0
  BY <1>2, SMTT(60) DEF RaiseInv
<1>3. ASSUME NEW t \in Times, tree'[t] # 0,
             \A w \in Threads : pc'[w] \in Busy => ptr'[w] # tree'[t]
      PROVE  \A i \in 1 .. Len(lists'[tree'[t]].items) : raised'[lists'[tree'[t]].items[i]] = 0
  <2>1. \A w \in Threads : pc[w] \in Busy => ptr[w] # tree[t]
    BY <1>3 DEF InHand, Busy
  <2> QED
    BY <1>3, <2>1 DEF RaiseInv
<1>4. \A l \in 1 .. Len(lists') : lists'[l].freed # 0 =>
         \A i \in 1 .. Len(lists'[l].items) :
            /\ raised'[lists'[l].items[i]] <= 1
            /\ status' # "over" =>
                  raised'[lists'[l].items[i]] = 1 \/ lists'[l].items[i] \in deleted'
  BY DEF RaiseInv
<1> QED
  BY <1>1, <1>2, <1>3, <1>4 DEF RaiseInv

\* While a thread throws events no other is at the end of a list.
LEMMA BusyPlace ==
    ASSUME LockInv, NEW w \in Threads, MayLock(w), NEW v \in Threads, pc[v] \in Busy
    PROVE  v = w
  BY TablesAssumption DEF LockInv, MayLock

LEMMA RaiseUser ==
    ASSUME DeletesOwn = FALSE, TypeInv, LockInv, HandInv, PlaceInv, RaiseInv,
           NEW w \in Threads, ThrowOne(w) \/ PopRaise(w)
    PROVE  RaiseInv'
<1>0. /\ pc \in [Threads -> {"out", "raising", "deleting", "popped", "looking"}]
      /\ cur \in [Threads -> Nat] /\ lists \in Seq(EventList)
  BY DEF TypeInv, TypeOK
<1>1. /\ InHand(w) /\ Raise(lists[ptr[w]].items[cur[w]]) /\ HandlerCode(w)
      /\ cur' = [cur EXCEPT ![w] = @ + 1] /\ ptr' = ptr /\ status # "over"
  BY DEF ThrowOne, PopRaise, InHand
<1>2. cur[w] <= Len(lists[ptr[w]].items)
  BY <1>1 DEF ThrowOne, PopRaise, RaiseInv
<1>3. SameHands
  BY <1>0, <1>1 DEF ThrowOne, PopRaise, SameHands, Busy
<1>4. Advances({w})
  BY <1>1, <1>2, RaiseAdvances
<1>5. \/ Quiet
      \/ \E t \in Times : MayLock(w) /\ Adds(t)
      \/ \E t \in Times : MayLock(w) /\ tree[t] # ptr[w] /\ Drops(t)
  BY <1>1, HandlerCases
<1>6. ASSUME NEW t \in Times, MayLock(w), tree[t] # ptr[w], NEW v \in Threads, pc[v] \in Busy
      PROVE  ptr[v] # tree[t]
  BY <1>6, BusyPlace
<1>7. ASSUME NEW v \in Threads, v # w, pc'[v] \in Busy
      PROVE  /\ pc'[v] = pc[v] /\ cur'[v] = cur[v]
             /\ Len(lists'[ptr[v]].items) = Len(lists[ptr[v]].items)
  <2>1. pc'[v] = pc[v] /\ cur'[v] = cur[v]
    BY <1>0, <1>1, <1>7 DEF ThrowOne, PopRaise
  <2>2. ~MayLock(w)
    BY <1>7, <2>1, BusyPlace
  <2>3. Quiet
    BY <1>5, <2>2
  <2> QED
    BY <2>1, <2>3 DEF Quiet
<1>8. ASSUME NEW v \in Threads
      PROVE  /\ pc'[v] = "raising" => cur'[v] <= Len(lists'[ptr'[v]].items)
             /\ pc'[v] = "deleting" => cur'[v] > Len(lists'[ptr'[v]].items)
  <2>1. CASE v # w
    BY <1>1, <1>7, <2>1 DEF RaiseInv, InHand, Busy
  <2>2. CASE v = w /\ ThrowOne(w)
    <3>1. /\ pc'[w] = IF cur[w] < Len(lists'[ptr[w]].items) THEN "raising" ELSE "deleting"
          /\ cur'[w] = cur[w] + 1 /\ cur[w] \in Nat
      BY <1>0, <1>1, <2>2 DEF ThrowOne
    <3>2. Len(lists'[ptr[w]].items) \in Nat
      <4>1. TypeInv'
        BY TypeStep DEF Next
      <4>2. ptr'[w] \in 1 .. Len(lists') /\ lists' \in Seq(EventList)
        BY <1>1, <1>3, <4>1 DEF TypeInv, TypeOK, PtrInv, SameHands, InHand, Busy
      <4>3. lists'[ptr'[w]] \in EventList
        BY <4>2
      <4> QED
        BY <1>1, <4>3 DEF EventList
    <3> QED
      BY <1>1, <2>2, <3>1, <3>2
  <2>3. CASE v = w /\ PopRaise(w)
    BY <2>3 DEF PopRaise
  <2> QED
    BY <2>1, <2>2, <2>3
<1>9. \/ Quiet
      \/ \E t \in Times : Adds(t)
      \/ \E t \in Times : Drops(t) /\ \A v \in Threads : pc[v] \in Busy => ptr[v] # tree[t]
  BY <1>5, <1>6
<1> QED
  BY <1>1, <1>3, <1>4, <1>8, <1>9, RaiseKept

LEMMA RaiseStep ==
    ASSUME DeletesOwn = FALSE, TypeInv, LockInv, HandInv, PlaceInv, RaiseInv, [Next]_vars
    PROVE  RaiseInv'
<1>0. /\ pc \in [Threads -> {"out", "raising", "deleting", "popped", "looking"}]
      /\ ptr \in [Threads -> 0 .. Len(lists)] /\ cur \in [Threads -> Nat]
      /\ lists \in Seq(EventList) /\ Len(lists) \in Nat /\ tree \in [Times -> 0 .. Len(lists)]
      /\ \A u \in Times : tree[u] # 0 => lists[tree[u]].at = u
  BY DEF TypeInv, TypeOK, PtrInv
<1>1. ASSUME NEW w \in Threads, NEW t \in Times, ScheduleEvent(w, t)
      PROVE  RaiseInv'
  <2>1. Adds(t) /\ status # "over"
    BY <1>1, ScheduledGrows DEF ScheduleEvent, Adds, Begin
  <2>2. SameHands /\ Advances({})
    BY <1>1, RaiseStays DEF ScheduleEvent, SameHands
  <2>3. \A v \in Threads : pc'[v] = pc[v] /\ pc[v] \notin Busy
    BY <1>1, LockFree DEF ScheduleEvent, Begin, Busy
  <2> QED
    BY <2>1, <2>2, <2>3, RaiseKept DEF Busy
<1>2. ASSUME NEW w \in Threads, NEW t \in Times, CallDelete(w, t)
      PROVE  RaiseInv'
  <2>1. Drops(t) /\ status # "over"
    BY <1>2, DeletePrunes DEF CallDelete, DeletesToo, Drops, Begin
  <2>2. SameHands /\ Advances({})
    BY <1>2, RaiseStays DEF CallDelete, SameHands
  <2>3. \A v \in Threads : pc'[v] = pc[v] /\ pc[v] \notin Busy
    BY <1>2, LockFree DEF CallDelete, Begin, Busy
  <2> QED
    BY <2>1, <2>2, <2>3, RaiseKept DEF Busy
\* a thread takes a list of the tree: nothing of it was raised
<1>3. ASSUME NEW w \in Threads, NEW t \in Times, tree[t] # 0, pc[w] = "out",
             \A v \in Threads : pc[v] \notin Busy,
             NEW p \in {"raising", "popped"}, pc' = [pc EXCEPT ![w] = p],
             ptr' = [ptr EXCEPT ![w] = tree[t]], cur' = [cur EXCEPT ![w] = 1],
             UNCHANGED <<lists, nevents, raised, deleted, status>>,
             \A u \in Times : tree'[u] \in {0, tree[u]}
      PROVE  RaiseInv'
  <2> DEFINE k == tree[t]
  <2>1. k \in 1 .. Len(lists) /\ Len(lists[k].items) \in Nat \ {0}
    <3>1. k \in 1 .. Len(lists)
      BY <1>0, <1>3
    <3>2. lists[k].items \in Seq(Events) /\ lists[k].items # <<>>
      BY <1>0, <1>3, <3>1, ListTypes DEF HandInv
    <3> QED
      BY <3>1, <3>2
  <2>2. \A u \in Times : tree[u] # 0 =>
           \A i \in 1 .. Len(lists[tree[u]].items) : raised[lists[tree[u]].items[i]] = 0
    BY <1>3 DEF RaiseInv
  <2>3. ASSUME NEW v \in Threads, InHand(v)'
        PROVE  /\ cur'[v] \in 1 .. Len(lists'[ptr'[v]].items) + 1
               /\ pc'[v] = "raising" => cur'[v] <= Len(lists'[ptr'[v]].items)
               /\ pc'[v] = "deleting" => cur'[v] > Len(lists'[ptr'[v]].items)
               /\ \A i \in 1 .. Len(lists'[ptr'[v]].items) :
                     raised'[lists'[ptr'[v]].items[i]] = IF i < cur'[v] THEN 1 ELSE 0
    <3>1. CASE v = w
      <4>1. cur'[w] = 1 /\ ptr'[w] = k /\ pc'[w] = p
        BY <1>0, <1>3
      <4>2. \A i \in 1 .. Len(lists[k].items) : raised[lists[k].items[i]] = 0 /\ ~(i < 1)
        BY <1>3, <2>2
      <4> QED
        BY <1>3, <2>1, <3>1, <4>1, <4>2
    <3>2. CASE v # w
      <4>1. pc'[v] = pc[v] /\ ptr'[v] = ptr[v] /\ cur'[v] = cur[v] /\ InHand(v)
        BY <1>0, <1>3, <2>3, <3>2 DEF InHand
      <4> QED
        BY <1>3, <4>1 DEF RaiseInv
    <3> QED
      BY <3>1, <3>2
  <2>4. \A u \in Times : tree'[u] # 0 =>
           \A i \in 1 .. Len(lists'[tree'[u]].items) : raised'[lists'[tree'[u]].items[i]] = 0
    BY <1>3, <2>2
  <2>5. /\ \A e \in Events : e > nevents' => raised'[e] = 0
        /\ \A l \in 1 .. Len(lists') : lists'[l].freed # 0 =>
              \A i \in 1 .. Len(lists'[l].items) :
                 /\ raised'[lists'[l].items[i]] <= 1
                 /\ status' # "over" =>
                       raised'[lists'[l].items[i]] = 1 \/ lists'[l].items[i] \in deleted'
    BY <1>3 DEF RaiseInv
  <2> QED
    BY <2>3, <2>4, <2>5 DEF RaiseInv
<1>4. ASSUME NEW w \in Threads, NEW t \in Times, ThrowLock(w, t)
      PROVE  RaiseInv'
  <2>1. pc[w] = "out" /\ \A v \in Threads : pc[v] \notin Busy
    BY <1>4, LockFree DEF ThrowLock, Begin, Busy
  <2>2. CASE tree[t] = 0
    <3>1. UNCHANGED <<tree, lists, nevents, deleted, raised, status, pc, ptr, cur>>
      BY <1>4, <2>2 DEF ThrowLock
    <3> QED
      BY <3>1, RaiseQuiet DEF InHand
  <2>3. CASE tree[t] # 0
    <3>1. /\ pc' = [pc EXCEPT ![w] = "raising"] /\ ptr' = [ptr EXCEPT ![w] = tree[t]]
          /\ cur' = [cur EXCEPT ![w] = 1]
          /\ UNCHANGED <<tree, lists, nevents, raised, deleted, status>>
      BY <1>4, <2>3 DEF ThrowLock
    <3> QED
      BY <1>3, <2>1, <2>3, <3>1
  <2> QED
    BY <2>2, <2>3
<1>5. ASSUME NEW w \in Threads, NEW t \in Times, PopEvents(w, t)
      PROVE  RaiseInv'
  <2>1. pc[w] = "out" /\ \A v \in Threads : pc[v] \notin Busy
    BY <1>5, LockFree DEF PopEvents, Begin, Busy
  <2>2. /\ pc' = [pc EXCEPT ![w] = "popped"] /\ ptr' = [ptr EXCEPT ![w] = tree[t]]
        /\ cur' = [cur EXCEPT ![w] = 1] /\ tree[t] # 0
        /\ UNCHANGED <<lists, nevents, raised, deleted, status>>
        /\ \A u \in Times : tree'[u] \in {0, tree[u]}
    BY <1>0, <1>5 DEF PopEvents
  <2> QED
    BY <1>3, <2>1, <2>2
\* a thread leaves its list and frees it: everything in it was raised
<1>6. ASSUME NEW w \in Threads, InHand(w), cur[w] > Len(lists[ptr[w]].items),
             pc' = [pc EXCEPT ![w] = "out"], ptr' = [ptr EXCEPT ![w] = 0],
             cur' = [cur EXCEPT ![w] = 0], UNCHANGED <<nevents, raised, deleted>>,
             status # "over", Len(lists') = Len(lists),
             \A l \in 1 .. Len(lists) : lists'[l].items = lists[l].items,
             \A l \in 1 .. Len(lists) : l # ptr[w] => lists'[l].freed = lists[l].freed,
             \A u \in Times : tree'[u] # 0 => tree'[u] = tree[u] /\ tree[u] # ptr[w]
      PROVE  RaiseInv'
  <2> DEFINE k == ptr[w]
  <2>1. k \in 1 .. Len(lists) /\ \A i \in 1 .. Len(lists[k].items) : raised[lists[k].items[i]] = 1
    <3>1. k \in 1 .. Len(lists) /\ Len(lists[k].items) \in Nat /\ cur[w] \in Nat
      BY <1>0, <1>6, HandTypes, ListTypes
    <3> QED
      BY <1>6, <3>1 DEF RaiseInv
  <2>2. ASSUME NEW v \in Threads, InHand(v)'
        PROVE  /\ pc'[v] = pc[v] /\ ptr'[v] = ptr[v] /\ cur'[v] = cur[v] /\ InHand(v)
               /\ lists'[ptr[v]].items = lists[ptr[v]].items
    <3>1. pc'[v] = pc[v] /\ ptr'[v] = ptr[v] /\ cur'[v] = cur[v] /\ InHand(v)
      BY <1>0, <1>6, <2>2 DEF InHand
    <3> QED
      BY <1>6, <3>1, HandTypes
  <2>3. ASSUME NEW v \in Threads, InHand(v)'
        PROVE  /\ cur'[v] \in 1 .. Len(lists'[ptr'[v]].items) + 1
               /\ pc'[v] = "raising" => cur'[v] <= Len(lists'[ptr'[v]].items)
               /\ pc'[v] = "deleting" => cur'[v] > Len(lists'[ptr'[v]].items)
               /\ \A i \in 1 .. Len(lists'[ptr'[v]].items) :
                     raised'[lists'[ptr'[v]].items[i]] = IF i < cur'[v] THEN 1 ELSE 0
    <3> DEFINE s == lists[ptr[v]].items
    <3>1. /\ lists'[ptr'[v]].items = s /\ pc'[v] = pc[v] /\ cur'[v] = cur[v] /\ raised' = raised
          /\ InHand(v)
      BY <1>6, <2>2, <2>3
    <3>2. /\ cur[v] \in 1 .. Len(s) + 1
          /\ pc[v] = "raising" => cur[v] <= Len(s)
          /\ pc[v] = "deleting" => cur[v] > Len(s)
          /\ \A i \in 1 .. Len(s) : raised[s[i]] = IF i < cur[v] THEN 1 ELSE 0
      BY <3>1 DEF RaiseInv
    <3> HIDE DEF s
    <3> QED
      BY <3>1, <3>2
  <2>4. ASSUME NEW u \in Times, tree'[u] # 0,
               \A v \in Threads : pc'[v] \in Busy => ptr'[v] # tree'[u]
        PROVE  \A i \in 1 .. Len(lists'[tree'[u]].items) : raised'[lists'[tree'[u]].items[i]] = 0
    <3>1. tree'[u] = tree[u] /\ tree[u] # k /\ tree[u] \in 1 .. Len(lists)
      BY <1>0, <1>6, <2>4
    <3>2. ASSUME NEW v \in Threads, pc[v] \in Busy
          PROVE  ptr[v] # tree[u]
      <4>1. CASE v = w
        BY <3>1, <4>1
      <4>2. CASE v # w
        <5>1. pc'[v] = pc[v] /\ ptr'[v] = ptr[v]
          BY <1>0, <1>6, <4>2
        <5> QED
          BY <2>4, <3>1, <3>2, <5>1
      <4> QED
        BY <4>1, <4>2
    <3>3. \A i \in 1 .. Len(lists[tree[u]].items) : raised[lists[tree[u]].items[i]] = 0
      BY <2>4, <3>1, <3>2 DEF RaiseInv
    <3> QED
      BY <1>6, <3>1, <3>3
  <2>5. ASSUME NEW l \in 1 .. Len(lists'), lists'[l].freed # 0, NEW i \in 1 .. Len(lists'[l].items)
        PROVE  /\ raised'[lists'[l].items[i]] <= 1
               /\ raised'[lists'[l].items[i]] = 1 \/ lists'[l].items[i] \in deleted'
    <3>1. CASE l = k
      BY <1>6, <2>1, <3>1
    <3>2. CASE l # k
      <4>1. lists[l].freed # 0 /\ l \in 1 .. Len(lists) /\ i \in 1 .. Len(lists[l].items)
        BY <1>6, <2>5, <3>2
      <4> QED
        BY <1>6, <4>1 DEF RaiseInv
    <3> QED
      BY <3>1, <3>2
  <2>6. \A e \in Events : e > nevents' => raised'[e] = 0
    BY <1>6 DEF RaiseInv
  <2> QED
    BY <2>3, <2>4, <2>5, <2>6 DEF RaiseInv
<1>7. ASSUME NEW w \in Threads, ThrowDelete(w)
      PROVE  RaiseInv'
  <2> DEFINE k == ptr[w]
             t == lists[k].at
  <2>1. t \in Times /\ Pruned(t)
    BY <1>7, ThrowDeletePrunes
  <2>2. /\ InHand(w) /\ pc[w] = "deleting" /\ status # "over"
        /\ pc' = [pc EXCEPT ![w] = "out"] /\ ptr' = [ptr EXCEPT ![w] = 0]
        /\ cur' = [cur EXCEPT ![w] = 0] /\ UNCHANGED <<nevents, raised, deleted>>
    BY <1>7 DEF ThrowDelete, InHand
  <2>3. tree[t] = k /\ cur[w] > Len(lists[k].items)
    BY <2>2 DEF HandInv, RaiseInv, Busy
  <2> HIDE DEF t
  <2>4. \A u \in Times : tree'[u] # 0 => tree'[u] = tree[u] /\ tree[u] # k
    BY <1>0, <2>1, <2>3 DEF Pruned
  <2>5. /\ Len(lists') = Len(lists)
        /\ \A l \in 1 .. Len(lists) : lists'[l].items = lists[l].items
        /\ \A l \in 1 .. Len(lists) : l # k => lists'[l].freed = lists[l].freed
    BY <2>1, <2>3 DEF Pruned
  <2> QED
    BY <1>6, <2>2, <2>3, <2>4, <2>5
<1>8. ASSUME NEW w \in Threads, PopDestroy(w)
      PROVE  RaiseInv'
  <2> DEFINE k == ptr[w]
  <2>1. /\ k \in 1 .. Len(lists) /\ Len(lists') = Len(lists)
        /\ \A l \in 1 .. Len(lists) : lists'[l].items = lists[l].items
        /\ \A l \in 1 .. Len(lists) : l # k => lists'[l].freed = lists[l].freed
    BY <1>8, PopDestroyFrees
  <2>2. /\ InHand(w) /\ pc[w] = "popped" /\ status # "over" /\ cur[w] > Len(lists[k].items)
        /\ pc' = [pc EXCEPT ![w] = "out"] /\ ptr' = [ptr EXCEPT ![w] = 0]
        /\ cur' = [cur EXCEPT ![w] = 0] /\ UNCHANGED <<tree, nevents, raised, deleted>>
    BY <1>8 DEF PopDestroy, InHand
  <2>3. \A u \in Times : tree'[u] # 0 => tree'[u] = tree[u] /\ tree[u] # k
    <3>1. \A u \in Times : tree[u] # 0 => lists[tree[u]].at = u
      BY DEF TypeInv, PtrInv
    <3>2. tree[lists[k].at] # k
      BY <2>2 DEF HandInv
    <3> QED
      BY <2>2, <3>1, <3>2
  <2> QED
    BY <1>6, <2>1, <2>2, <2>3
<1>9. ASSUME NEW w \in Threads, LookRead(w) \/ \E b \in BOOLEAN : Look(w, b)
      PROVE  RaiseInv'
  <2>1. /\ UNCHANGED <<tree, lists, nevents, deleted, raised, status, cur>>
        /\ pc[w] \in {"out", "looking"}
        /\ \E p \in {"out", "looking"} : pc' = [pc EXCEPT ![w] = p]
        /\ \E q : ptr' = [ptr EXCEPT ![w] = q]
    BY <1>9 DEF LookRead, Look, Begin
  <2>2. \A v \in Threads : /\ InHand(v)' <=> InHand(v)
                           /\ InHand(v) => pc'[v] = pc[v] /\ ptr'[v] = ptr[v] /\ cur'[v] = cur[v]
    BY <1>0, <2>1 DEF InHand
  <2> QED
    BY <2>1, <2>2, RaiseQuiet
<1>10. ASSUME NEW w \in Threads, NEW h \in Handlers, InstallHandler(w, h)
       PROVE  RaiseInv'
  <2>1. UNCHANGED <<tree, lists, nevents, deleted, raised, pc, ptr, cur>> /\ status # "over"
    BY <1>10 DEF InstallHandler, Begin
  <2> QED
    BY <2>1, RaiseQuiet DEF InHand
<1>11. CASE DestroyManager
  <2>0. UNCHANGED <<nevents, deleted, raised, pc, ptr, cur>> /\ status = "running"
    BY <1>11 DEF DestroyManager
  <2>1. CASE status' = "over"
    <3>1. \A w \in Threads : pc[w] = "out" /\ ~InHand(w)' /\ ~InHand(w)
      BY <1>11 DEF DestroyManager, InHand
    <3>2. /\ \A t \in Times : tree'[t] = 0
          /\ Len(lists') = Len(lists)
          /\ \A l \in 1 .. Len(lists) :
                /\ lists'[l].items = lists[l].items
                /\ lists'[l].freed = IF tree[lists[l].at] = l THEN lists[l].freed + 1
                                     ELSE lists[l].freed
      BY <1>11, <2>1, DestroyFrees
    <3>3. ASSUME NEW l \in 1 .. Len(lists), lists'[l].freed # 0, NEW i \in 1 .. Len(lists[l].items)
          PROVE  raised[lists[l].items[i]] <= 1
      <4>1. CASE lists[l].freed # 0
        BY <4>1 DEF RaiseInv
      <4>2. CASE lists[l].freed = 0
        <5>1. tree[lists[l].at] = l /\ lists[l].at \in Times
          BY <1>0, <3>2, <3>3, <4>2, ListTypes
        <5>2. raised[lists[l].items[i]] = 0
          BY <3>1, <5>1 DEF RaiseInv, Busy
        <5> QED
          BY <5>2
      <4> QED
        BY <4>1, <4>2
    <3>4. \A e \in Events : e > nevents' => raised'[e] = 0
      BY <2>0 DEF RaiseInv
    <3> QED
      BY <2>0, <2>1, <3>1, <3>2, <3>3, <3>4 DEF RaiseInv
  <2>2. CASE status' # "over"
    BY <1>11, <2>0, <2>2, RaiseQuiet DEF DestroyManager, InHand
  <2> QED
    BY <2>1, <2>2
<1>12. ASSUME UNCHANGED vars
       PROVE  RaiseInv'
  BY <1>12, RaiseQuiet DEF vars, InHand
<1> QED
  BY <1>1, <1>2, <1>4, <1>5, <1>7, <1>8, <1>9, <1>10, <1>11, <1>12, RaiseUser DEF Next, Ended

LEMMA EventsAlways ==
    ASSUME DeletesOwn = FALSE
    PROVE  Spec => [](TypeInv /\ HandInv /\ PlaceInv /\ RaiseInv)
<1>1. Init => PlaceInv /\ RaiseInv
  <2> SUFFICES ASSUME Init PROVE PlaceInv /\ RaiseInv
    OBVIOUS
  <2>1. Len(lists) = 0 /\ nevents = 0 /\ \A w \in Threads : ~InHand(w)
    BY DEF Init, InHand
  <2> QED
    BY <2>1 DEF Init, PlaceInv, RaiseInv
<1>2. TypeInv /\ LockInv /\ HandInv /\ PlaceInv /\ RaiseInv /\ [Next]_vars => PlaceInv' /\ RaiseInv'
  BY PlaceStep, RaiseStep
<1> QED
  BY <1>1, <1>2, HandAlways, PTL DEF Spec

(***************************************************************************)
(* EventsConserved: with any number of threads that schedule, pop, throw   *)
(* and delete, and handlers that schedule into the list they are raised    *)
(* from or delete others, no event is raised twice, and every event that   *)
(* was neither raised nor deleted can still be raised.                     *)
(***************************************************************************)
THEOREM EventsConserved == ASSUME DeletesOwn = FALSE PROVE Spec => []EventConserved
<1>1. ASSUME TypeInv, HandInv, PlaceInv, RaiseInv
      PROVE  EventConserved
  <2>0. /\ lists \in Seq(EventList) /\ tree \in [Times -> 0 .. Len(lists)]
        /\ raised \in [Events -> Nat] /\ cur \in [Threads -> Nat]
    BY <1>1 DEF TypeInv, TypeOK
  <2>1. ASSUME NEW e \in 1 .. nevents
        PROVE  /\ raised[e] <= 1
               /\ status # "over" => (raised[e] = 1 \/ e \in deleted \/ Pending(e))
    <3>1. PICK l \in 1 .. Len(lists) : \E i \in 1 .. Len(lists[l].items) : lists[l].items[i] = e
      BY <1>1 DEF PlaceInv
    <3>2. PICK i \in 1 .. Len(lists[l].items) : lists[l].items[i] = e
      BY <3>1
    <3>3. lists[l].at \in Times /\ lists[l].items \in Seq(Events)
      BY <2>0, ListTypes
    <3>4. CASE lists[l].freed # 0
      BY <1>1, <3>2, <3>4 DEF RaiseInv
    <3>5. CASE tree[lists[l].at] = l
      <4>1. Pending(e)
        BY <3>2, <3>3, <3>5 DEF Pending
      <4>2. raised[e] <= 1
        <5>1. ASSUME NEW w \in Threads, pc[w] \in Busy, ptr[w] = l
              PROVE  raised[e] <= 1
          BY <1>1, <3>2, <5>1 DEF RaiseInv, InHand, Busy
        <5>2. ASSUME \A w \in Threads : pc[w] \in Busy => ptr[w] # l
              PROVE  raised[e] = 0
          BY <1>1, <3>2, <3>3, <3>5, <5>2 DEF RaiseInv
        <5> QED
          BY <5>1, <5>2
      <4> QED
        BY <4>1, <4>2
    <3>6. ASSUME NEW w \in Threads, pc[w] = "popped", ptr[w] = l
          PROVE  raised[e] <= 1 /\ (raised[e] = 1 \/ Pending(e))
      <4>1. raised[e] = IF i < cur[w] THEN 1 ELSE 0
        BY <1>1, <3>2, <3>6 DEF RaiseInv, InHand
      <4>2. ~(i < cur[w]) => i \in cur[w] .. Len(lists[l].items)
        BY <2>0, <3>3
      <4>3. i \in cur[w] .. Len(lists[l].items) => Pending(e)
        BY <3>2, <3>6 DEF Pending
      <4> QED
        BY <4>1, <4>2, <4>3
    <3> QED
      BY <1>1, <3>4, <3>5, <3>6 DEF HandInv
  <2> QED
    BY <2>1 DEF EventConserved
<1> QED
  BY <1>1, EventsAlways, PTL
=============================================================================
