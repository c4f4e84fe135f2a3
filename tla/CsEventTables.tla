---------------------------- MODULE CsEventTables ----------------------------
(***************************************************************************)
(* The two tables of an event manager (src/cs_events.c): the tree of the   *)
(* event lists, one for each time, under the recursive ev_tree_lock, and   *)
(* the table of the handlers.  Threads of the program use them at the same *)
(* time; CsSimulation shows the controller among them, of which this       *)
(* module keeps what it does with a list: pop it, raise it, destroy it.    *)
(*                                                                         *)
(* A list is a block of memory that is allocated and freed, and a pointer  *)
(* to it is its number.  What happens within one critical section of       *)
(* ev_tree_lock and runs no user code is one step.                         *)
(***************************************************************************)
EXTENDS Integers, Sequences, FiniteSets

CONSTANTS
    Threads,
    Times,              \* the times of events: a set of naturals
    Handlers,           \* event handlers
    Calls,              \* Calls[w]: what thread w may call
    DeletesOwn,         \* whether a handler may delete the list it is raised from
    MaxEvents,          \* bound: how many events are ever scheduled
    MaxLooks            \* bound: how many searches and installations are made

Events == 1 .. MaxEvents
None == "none"
Code == "code"          \* the machine code of a handler, taken for a table entry
AllCalls == {"schedule", "pop", "delete", "throw", "look", "install"}

\* cs_clockv is a long int: there is a latest time.
ASSUME TablesAssumption ==
    /\ Times \subseteq Nat /\ \E m \in Times : \A t \in Times : t <= m
    /\ MaxEvents \in Nat /\ MaxLooks \in Nat
    /\ Calls \in [Threads -> SUBSET AllCalls] /\ DeletesOwn \in BOOLEAN
    /\ None \notin Threads /\ None \notin Handlers /\ Code \notin Handlers

VARIABLES
    owner, depth,       \* of ev_tree_lock: the thread that holds it, and how often
    tree,               \* evm->ev_tree: the list of each time, 0 for none
    lists,              \* every list ever allocated: its time, its events, and
                        \* how often it was freed
    eh,                 \* the handler the table has for the one type of event
    stray,              \* whether code is an entry of the handler table
    pc, ptr, cur,       \* of each thread: where it is, its list, its place in it
    found,              \* what cs_evm_find_nearest_events returned last, and to whom
    nevents, looks,     \* how many events were scheduled, how many looks were taken
    raised, deleted,    \* history: how often an event was raised; those deleted
    status              \* of the program: "running", "aborted" or "over"

vars == <<owner, depth, tree, lists, eh, stray, pc, ptr, cur, found, nevents, looks, raised, deleted, status>>
lockVars == <<owner, depth>>
rest == <<eh, stray, found, looks>>

\* cs_init_event_manager; the user has installed a handler or not.
Init ==
    /\ owner = None /\ depth = 0
    /\ tree = [t \in Times |-> 0] /\ lists = <<>> /\ eh = None /\ stray = FALSE
    /\ pc = [w \in Threads |-> "out"] /\ ptr = [w \in Threads |-> 0] /\ cur = [w \in Threads |-> 0]
    /\ found = <<>> /\ nevents = 0 /\ looks = 0
    /\ raised = [e \in Events |-> 0] /\ deleted = {}
    /\ status = "running"

\* lock_ev_tree does not block its owner.
MayLock(w) == owner \in {None, w}

Begin(w, call) == status = "running" /\ pc[w] = "out" /\ call \in Calls[w]

-----------------------------------------------------------------------------
\* cs_evm_schedule_event: the event goes to the end of the list of its time,
\* which is created for it if need be.
Scheduled(t, e) ==
    IF tree[t] = 0
    THEN /\ lists' = Append(lists, [at |-> t, items |-> <<e>>, freed |-> 0])
         /\ tree' = [tree EXCEPT ![t] = Len(lists) + 1]
    ELSE /\ lists' = [lists EXCEPT ![tree[t]].items = Append(@, e)]
         /\ UNCHANGED tree

ScheduleEvent(w, t) ==
    /\ Begin(w, "schedule") /\ MayLock(w) /\ nevents < MaxEvents
    /\ nevents' = nevents + 1
    /\ Scheduled(t, nevents + 1)
    /\ UNCHANGED <<lockVars, rest, pc, ptr, cur, raised, deleted, status>>

\* free of a block that is free already: the program is aborted, or goes on
\* with a damaged heap.
AfterFree(twice) == status' \in IF twice THEN {"running", "aborted"} ELSE {status}

\* cs_evm_delete_events: destroy_event_list frees the list, and free follows.
DeleteEvents(t) ==
    /\ tree' = [tree EXCEPT ![t] = 0]
    /\ lists' = IF tree[t] = 0 THEN lists ELSE [lists EXCEPT ![tree[t]].freed = @ + 2]
    /\ AfterFree(tree[t] # 0)

Unraised(l) == {e \in Events : raised[e] = 0 /\ \E i \in DOMAIN lists[l].items : lists[l].items[i] = e}

DeletesToo(t) ==
    /\ DeleteEvents(t)
    /\ deleted' = deleted \cup (IF tree[t] = 0 THEN {} ELSE Unraised(tree[t]))

CallDelete(w, t) ==
    /\ Begin(w, "delete") /\ MayLock(w)
    /\ DeletesToo(t)
    /\ UNCHANGED <<lockVars, rest, pc, ptr, cur, nevents, raised>>

-----------------------------------------------------------------------------
\* cs_evm_throw_event, as far as the table decides: no handler is an error that
\* is reported, and a jump into what is no function ends the program.
Raise(e) ==
    /\ raised' = [raised EXCEPT ![e] = @ + 1]
    /\ eh = Code => status' = "aborted"

\* The handler, running in thread w.
HandlerCode(w) ==
    \/ UNCHANGED <<tree, lists, nevents, deleted>> /\ (eh = Code \/ UNCHANGED status)
    \/ /\ eh \in Handlers /\ MayLock(w) /\ nevents < MaxEvents
       /\ nevents' = nevents + 1
       /\ \E t \in Times : Scheduled(t, nevents + 1)
       /\ UNCHANGED <<deleted, status>>
    \/ /\ eh \in Handlers /\ MayLock(w)
       /\ \E t \in Times :
             /\ tree[t] = ptr[w] => DeletesOwn
             /\ DeletesToo(t)
       /\ UNCHANGED nevents

\* Wrong variant of ThrowLock: the lock is kept when there is nothing to raise.
ThrowLockKeeps(w, t) ==
    /\ Begin(w, "throw") /\ MayLock(w)
    /\ owner' = w /\ depth' = depth + 1
    /\ IF tree[t] = 0 THEN UNCHANGED <<pc, ptr, cur>>
       ELSE /\ pc' = [pc EXCEPT ![w] = "raising"]
            /\ ptr' = [ptr EXCEPT ![w] = tree[t]]
            /\ cur' = [cur EXCEPT ![w] = 1]
    /\ UNCHANGED <<tree, lists, rest, nevents, raised, deleted, status>>

\* cs_evm_throw_scheduled_events: the lock is held to the end of the call; with
\* nothing to raise it is released at once.
ThrowLock(w, t) ==
    /\ Begin(w, "throw") /\ MayLock(w)
    /\ IF tree[t] = 0 THEN UNCHANGED <<lockVars, pc, ptr, cur>>
       ELSE /\ owner' = w /\ depth' = depth + 1
            /\ pc' = [pc EXCEPT ![w] = "raising"]
            /\ ptr' = [ptr EXCEPT ![w] = tree[t]]
            /\ cur' = [cur EXCEPT ![w] = 1]
    /\ UNCHANGED <<tree, lists, rest, nevents, raised, deleted, status>>

\* Wrong variant of ThrowOne: the next event is looked up before the handler runs.
ThrowOneLooksAhead(w) ==
    LET l == lists[ptr[w]]
    IN  /\ status = "running" /\ pc[w] = "raising"
        /\ Raise(l.items[cur[w]])
        /\ HandlerCode(w)
        /\ cur' = [cur EXCEPT ![w] = @ + 1]
        /\ pc' = [pc EXCEPT ![w] = IF cur[w] < Len(l.items) THEN "raising" ELSE "deleting"]
        /\ UNCHANGED <<lockVars, rest, ptr>>

\* One event is raised; enext is read when its handler has returned.
ThrowOne(w) ==
    LET l == ptr[w]
    IN  /\ status = "running" /\ pc[w] = "raising"
        /\ Raise(lists[l].items[cur[w]])
        /\ HandlerCode(w)
        /\ cur' = [cur EXCEPT ![w] = @ + 1]
        /\ pc' = [pc EXCEPT ![w] =
                    IF cur[w] < Len(lists'[l].items) THEN "raising" ELSE "deleting"]
        /\ UNCHANGED <<lockVars, rest, ptr>>

\* The raised list is deleted, and the lock released.
ThrowDelete(w) ==
    /\ status = "running" /\ pc[w] = "deleting"
    /\ DeleteEvents(lists[ptr[w]].at)
    /\ depth' = depth - 1 /\ owner' = IF depth' = 0 THEN None ELSE owner
    /\ pc' = [pc EXCEPT ![w] = "out"] /\ ptr' = [ptr EXCEPT ![w] = 0] /\ cur' = [cur EXCEPT ![w] = 0]
    /\ UNCHANGED <<rest, nevents, raised, deleted>>

-----------------------------------------------------------------------------
\* pop_events, as the controller calls it: the list is the caller's now.
PopEvents(w, t) ==
    /\ Begin(w, "pop") /\ MayLock(w) /\ tree[t] # 0
    /\ tree' = [tree EXCEPT ![t] = 0]
    /\ pc' = [pc EXCEPT ![w] = "popped"]
    /\ ptr' = [ptr EXCEPT ![w] = tree[t]]
    /\ cur' = [cur EXCEPT ![w] = 1]
    /\ UNCHANGED <<lockVars, lists, rest, nevents, raised, deleted, status>>

\* The events of the list are raised without the lock.
PopRaise(w) ==
    /\ status = "running" /\ pc[w] = "popped" /\ cur[w] <= Len(lists[ptr[w]].items)
    /\ Raise(lists[ptr[w]].items[cur[w]])
    /\ HandlerCode(w)
    /\ cur' = [cur EXCEPT ![w] = @ + 1]
    /\ UNCHANGED <<lockVars, rest, pc, ptr>>

\* Wrong variant of PopDestroy: the list is not freed.
PopDestroyNot(w) ==
    /\ status = "running" /\ pc[w] = "popped" /\ cur[w] > Len(lists[ptr[w]].items)
    /\ pc' = [pc EXCEPT ![w] = "out"] /\ ptr' = [ptr EXCEPT ![w] = 0] /\ cur' = [cur EXCEPT ![w] = 0]
    /\ UNCHANGED <<lockVars, tree, lists, rest, nevents, raised, deleted, status>>

\* destroy_event_list at the end of the controller's step.
PopDestroy(w) ==
    /\ status = "running" /\ pc[w] = "popped" /\ cur[w] > Len(lists[ptr[w]].items)
    /\ lists' = [lists EXCEPT ![ptr[w]].freed = @ + 1]
    /\ AfterFree(lists[ptr[w]].freed > 0)
    /\ pc' = [pc EXCEPT ![w] = "out"] /\ ptr' = [ptr EXCEPT ![w] = 0] /\ cur' = [cur EXCEPT ![w] = 0]
    /\ UNCHANGED <<lockVars, tree, rest, nevents, raised, deleted>>

-----------------------------------------------------------------------------
\* cs_evm_find_nearest_events and cs_evm_find_farthest_events: the first or the
\* last list is found under the lock ...
Held == {t \in Times : tree[t] # 0}
End(nearest) == CHOOSE t \in Held : \A u \in Held : IF nearest THEN t <= u ELSE t >= u

Look(w, nearest) ==
    /\ Begin(w, "look") /\ MayLock(w) /\ looks < MaxLooks
    /\ looks' = looks + 1
    /\ ptr' = [ptr EXCEPT ![w] = IF Held = {} THEN 0 ELSE tree[End(nearest)]]
    /\ pc' = [pc EXCEPT ![w] = "looking"]
    /\ UNCHANGED <<lockVars, tree, lists, eh, stray, cur, found, nevents, raised, deleted, status>>

\* ... and its time read without it: of a list that was freed meanwhile, anything.
LookRead(w) ==
    LET l == ptr[w]
    IN  /\ status = "running" /\ pc[w] = "looking"
        /\ found' \in IF l = 0 THEN {<<w, -1>>}
                      ELSE IF lists[l].freed = 0 THEN {<<w, lists[l].at>>}
                      ELSE {<<w, t>> : t \in Times \cup {-1}}
        /\ pc' = [pc EXCEPT ![w] = "out"] /\ ptr' = [ptr EXCEPT ![w] = 0]
        /\ UNCHANGED <<lockVars, tree, lists, eh, stray, cur, nevents, looks, raised, deleted, status>>

\* cs_evm_install_handler: a second handler is itself taken for a table entry.
\* Comparing it reads its machine code as a pointer: a fault, a match with the
\* entry there is, or none, and the code becomes an entry beside it.
InstallHandler(w, h) ==
    /\ Begin(w, "install") /\ looks < MaxLooks
    /\ looks' = looks + 1
    /\ IF eh = None THEN eh' = h /\ UNCHANGED <<stray, status>>
       ELSE \/ status' = "aborted" /\ UNCHANGED <<eh, stray>>
            \/ eh' \in {Code, eh} /\ stray' = TRUE /\ UNCHANGED status
    /\ UNCHANGED <<lockVars, tree, lists, pc, ptr, cur, found, nevents, raised, deleted>>

\* cs_destroy_event_manager, when the other threads are done: the entries of the
\* handler table are freed, at which code among them may end the program, and then
\* the lists that are left in the tree.
DestroyManager ==
    /\ status = "running" /\ \A w \in Threads : pc[w] = "out"
    /\ \/ /\ status' = "over"
          /\ lists' = [l \in DOMAIN lists |->
                [lists[l] EXCEPT !.freed = @ + Cardinality({t \in Times : tree[t] = l})]]
          /\ tree' = [t \in Times |-> 0] /\ eh' = None
       \/ stray /\ status' = "aborted" /\ UNCHANGED <<lists, tree, eh>>
    /\ UNCHANGED <<lockVars, stray, pc, ptr, cur, found, nevents, looks, raised, deleted>>

Ended == status # "running" /\ UNCHANGED vars

Next ==
    \/ \E w \in Threads :
          \/ \E t \in Times : ScheduleEvent(w, t) \/ CallDelete(w, t) \/ ThrowLock(w, t) \/ PopEvents(w, t)
          \/ ThrowOne(w) \/ ThrowDelete(w) \/ PopRaise(w) \/ PopDestroy(w)
          \/ Look(w, TRUE) \/ Look(w, FALSE) \/ LookRead(w)
          \/ \E h \in Handlers : InstallHandler(w, h)
    \/ DestroyManager
    \/ Ended

Spec == Init /\ [][Next]_vars

-----------------------------------------------------------------------------
\* a cs_event_list_t: its time, its events in order, and how often it was freed
EventList == [at : Times, items : Seq(Events), freed : Nat]

\* The types of the variables.
TypeOK ==
    /\ owner \in Threads \cup {None} /\ depth \in Nat
    /\ tree \in [Times -> 0 .. Len(lists)]
    /\ lists \in Seq(EventList)
    /\ eh \in Handlers \cup {None, Code} /\ stray \in BOOLEAN
    /\ pc \in [Threads -> {"out", "raising", "deleting", "popped", "looking"}]
    /\ ptr \in [Threads -> 0 .. Len(lists)] /\ cur \in [Threads -> Nat]
    /\ found = <<>> \/ found \in Threads \X (Times \cup {-1})
    /\ nevents \in 0 .. MaxEvents /\ looks \in 0 .. MaxLooks
    /\ raised \in [Events -> Nat] /\ deleted \subseteq Events
    /\ status \in {"running", "aborted", "over"}

\* Where an event is still to be raised from: a list of the tree, or what is left
\* of a list that a thread has taken out of it.
Pending(e) ==
    \/ \E t \in Times : tree[t] # 0 /\ \E i \in DOMAIN lists[tree[t]].items : lists[tree[t]].items[i] = e
    \/ \E w \in Threads :
          /\ pc[w] = "popped"
          /\ \E i \in cur[w] .. Len(lists[ptr[w]].items) : lists[ptr[w]].items[i] = e

(***************************************************************************)
(* EventConserved: cs_evm_schedule_event, pop_events and                   *)
(* cs_evm_throw_scheduled_events in any threads, and handlers that         *)
(* schedule while their list is being raised, raise no event twice and     *)
(* lose none that was not deleted on purpose.                              *)
(***************************************************************************)
EventConserved ==
    \A e \in 1 .. nevents :
        /\ raised[e] <= 1
        /\ status # "over" => (raised[e] = 1 \/ e \in deleted \/ Pending(e))

(***************************************************************************)
(* TreeSound: a list in the tree is allocated, is under its own time, has  *)
(* an event, and is in no thread's hands but its that holds the lock; a    *)
(* list that is being raised is allocated; and a list that is allocated is *)
(* in the tree or in the hands of one thread that popped it, so that       *)
(* cs_destroy_event_manager, which is to "Release the memory allocated",   *)
(* leaves none behind.                                                     *)
(***************************************************************************)
TreeSound ==
    /\ \A t \in Times : tree[t] # 0 =>
        /\ lists[tree[t]].freed = 0 /\ lists[tree[t]].at = t /\ lists[tree[t]].items # <<>>
        /\ \A w \in Threads : ptr[w] = tree[t] /\ pc[w] # "looking" => owner = w
    /\ \A w \in Threads : pc[w] \in {"raising", "deleting", "popped"} => lists[ptr[w]].freed = 0
    /\ \A l \in DOMAIN lists : lists[l].freed = 0 =>
        \/ \E t \in Times : tree[t] = l
        \/ Cardinality({w \in Threads : pc[w] = "popped" /\ ptr[w] = l}) = 1

(***************************************************************************)
(* LockHeldToRaise: ev_tree_lock is held exactly by the thread that is     *)
(* within cs_evm_throw_scheduled_events: every way out of every call       *)
(* releases it as often as it was taken.                                   *)
(***************************************************************************)
LockHeldToRaise ==
    \A w \in Threads : owner = w /\ depth = 1 <=> pc[w] \in {"raising", "deleting"}

(***************************************************************************)
(* FreedOnce: "destroy the list of events" (src/cs_events.c:535): no block *)
(* is freed twice.                                                         *)
(***************************************************************************)
FreedOnce == \A l \in DOMAIN lists : lists[l].freed <= 1

(***************************************************************************)
(* UsedListAlive: a list whose time is read by                             *)
(* cs_evm_find_nearest_events ("Find the minimum scheduling time in the    *)
(* event manager"), or that is being raised, is still allocated.           *)
(***************************************************************************)
UsedListAlive ==
    \A w \in Threads : ptr[w] # 0 => lists[ptr[w]].freed = 0

(***************************************************************************)
(* HandlerAssociated: "Associate the specified handler to the specified    *)
(* event-type": after the call the table has that handler.                 *)
(***************************************************************************)
HandlerAssociated ==
    [][\A w \in Threads, h \in Handlers : InstallHandler(w, h) => eh' = h]_vars

=============================================================================
