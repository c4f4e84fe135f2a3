---------------------------- MODULE BarrierClock ----------------------------
(***************************************************************************)
(* What the timer is for: a clock that a fixed set of actors moves ahead   *)
(* together.  An actor declares that its work for the current tick is      *)
(* done; the clock ticks with the last of them, and no actor can be done   *)
(* with a tick that has not begun.                                         *)
(***************************************************************************)
EXTENDS Naturals

CONSTANT Actors

VARIABLES now,     \* the tick
          done     \* how many ticks each actor is done with

barrierVars == <<now, done>>

Init == now = 0 /\ done = [a \in Actors |-> 0]

Arrive(a) ==
    /\ done[a] = now
    /\ done' = [done EXCEPT ![a] = now + 1]
    /\ now' = IF \A b \in Actors \ {a} : done[b] = now + 1 THEN now + 1 ELSE now

Next == \E a \in Actors : Arrive(a)

Spec == Init /\ [][Next]_barrierVars
=============================================================================
