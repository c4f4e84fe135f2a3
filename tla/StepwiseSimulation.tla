------------------------- MODULE StepwiseSimulation -------------------------
(***************************************************************************)
(* What a simulation promises about its events: each is raised once, at    *)
(* its time, and the clock ticks only when no event of its time or of an   *)
(* earlier one is open.  Whoever runs in a step, a handler or a task, may  *)
(* schedule an event for later.                                            *)
(***************************************************************************)
EXTENDS Naturals

CONSTANTS Event, Time

VARIABLES now,     \* the clock
          time,    \* for when each event is scheduled: a function on the known events
          raised   \* the times at which each event was raised

stepwiseVars == <<now, time, raised>>

Open == {e \in DOMAIN time : raised[e] = <<>>}

Init == now = 0 /\ time = [e \in {} |-> 0] /\ raised = [e \in Event |-> <<>>]

Add(e, t) ==
    /\ e \notin DOMAIN time /\ t > now
    /\ time' = [f \in DOMAIN time \cup {e} |-> IF f = e THEN t ELSE time[f]]

Schedule(e, t) == Add(e, t) /\ UNCHANGED <<now, raised>>

\* the handler of the event may schedule another
Raise(e) ==
    /\ e \in Open /\ time[e] = now
    /\ raised' = [raised EXCEPT ![e] = <<now>>]
    /\ UNCHANGED time \/ \E f \in Event, t \in Time : Add(f, t)
    /\ UNCHANGED now

Tick ==
    /\ \A e \in Open : time[e] > now
    /\ now' = now + 1
    /\ UNCHANGED <<time, raised>>

Next ==
    \/ \E e \in Event, t \in Time : Schedule(e, t)
    \/ \E e \in Event : Raise(e)
    \/ Tick

Spec == Init /\ [][Next]_stepwiseVars
=============================================================================
