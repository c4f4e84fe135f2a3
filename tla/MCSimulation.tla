---------------------------- MODULE MCSimulation ----------------------------
(***************************************************************************)
(* The simulations that TLC checks: their activities and first events.     *)
(***************************************************************************)
EXTENDS CsSimulation

\* one activity of each kind, with different periods
BothActs == <<[nsteps |-> 2, type |-> "USER", items |-> 5],
              [nsteps |-> 1, type |-> "AFTER_STEP", items |-> 2]>>
\* less data than threads
SmallAct == <<[nsteps |-> 1, type |-> "USER", items |-> 1]>>
NoActs   == <<>>

OneEvent    == <<1>>
TwoTimes    == <<1, 2, 2>>
ThreeAtOnce == <<1, 1, 1>>
ManyAtOnce  == <<1, 1, 1, 1, 1>>
EventAtTwo  == <<2>>
=============================================================================
