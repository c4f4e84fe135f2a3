---------------------------- MODULE TaskService ----------------------------
(***************************************************************************)
(* What a cs_workerpool promises to its clients (include/cs_workerpool.h): *)
(* a service that executes each task it has accepted once, on one of its   *)
(* workers, which has no other task then; whose clients, when they wait    *)
(* for a task, come back only after it was executed; and which does not    *)
(* stop as long as there is something to execute.                          *)
(***************************************************************************)
CONSTANTS Task, Client, Worker,
          NoTask             \* not a task

VARIABLES open,              \* FALSE once the service takes no tasks any more
          working,           \* started, and not shut down since
          todo,              \* the tasks that were accepted and not begun
          doing,             \* the task that each worker executes
          done,              \* the tasks that were executed
          awaits             \* the task that each client waits for

serviceVars == <<open, working, todo, doing, done, awaits>>

Init ==
    /\ open = TRUE /\ working = FALSE
    /\ todo = {} /\ done = {}
    /\ doing = [w \in Worker |-> NoTask]
    /\ awaits = [c \in Client |-> NoTask]

Start == ~working /\ working' = TRUE /\ UNCHANGED <<open, todo, doing, done, awaits>>

Accept(t) ==
    /\ open
    /\ t \notin todo \cup done /\ \A w \in Worker : doing[w] # t
    /\ todo' = todo \cup {t}
    /\ UNCHANGED <<open, working, doing, done, awaits>>

Begin(w, t) ==
    /\ working /\ doing[w] = NoTask
    /\ t \in todo
    /\ todo' = todo \ {t}
    /\ doing' = [doing EXCEPT ![w] = t]
    /\ UNCHANGED <<open, working, done, awaits>>

Finish(w) ==
    /\ doing[w] # NoTask
    /\ done' = done \cup {doing[w]}
    /\ doing' = [doing EXCEPT ![w] = NoTask]
    /\ UNCHANGED <<open, working, todo, awaits>>

Await(c, t) ==
    /\ awaits[c] = NoTask
    /\ awaits' = [awaits EXCEPT ![c] = t]
    /\ UNCHANGED <<open, working, todo, doing, done>>

Return(c) ==
    /\ awaits[c] \in done
    /\ awaits' = [awaits EXCEPT ![c] = NoTask]
    /\ UNCHANGED <<open, working, todo, doing, done>>

Close == open' = FALSE /\ UNCHANGED <<working, todo, doing, done, awaits>>

Stop ==
    /\ working /\ ~open
    /\ todo = {} /\ \A w \in Worker : doing[w] = NoTask
    /\ working' = FALSE
    /\ UNCHANGED <<open, todo, doing, done, awaits>>

Next ==
    \/ Start \/ Close \/ Stop
    \/ \E t \in Task : Accept(t)
    \/ \E w \in Worker, t \in Task : Begin(w, t)
    \/ \E w \in Worker : Finish(w)
    \/ \E c \in Client, t \in Task : Await(c, t)
    \/ \E c \in Client : Return(c)

Spec == Init /\ [][Next]_serviceVars
=============================================================================
