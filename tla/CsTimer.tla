------------------------------ MODULE CsTimer ------------------------------
(***************************************************************************)
(* The simulation clock of src/cs_timer.c: the actors (the engine, the     *)
(* event controller) meet in cs_time_sync, and the last one moves the      *)
(* clock ahead and wakes the others.                                       *)
(*                                                                         *)
(* The mutex is held throughout a call except inside pthread_cond_wait, so *)
(* a call is one step up to the wait and one step after it.  The wait is   *)
(* not in a loop: a wakeup that no broadcast caused, which POSIX allows,   *)
(* ends it.                                                                *)
(***************************************************************************)
EXTENDS Integers, FiniteSets

CONSTANTS
    Actors,        \* the threads that call cs_time_sync
    Stoppers,      \* the threads that call cs_time_stop
    MaxClock,      \* bound: the actors make no new call from this time on
    MaxSpurious    \* bound: how many wakeups come without a broadcast

ASSUME ActorsAssumption == IsFiniteSet(Actors) /\ Actors # {}
ASSUME BoundsAssumption == MaxClock \in Nat /\ MaxSpurious \in Nat

VARIABLES
    clock, sync, n_sync, stop,   \* the fields of cs_timer_t
    tpc,           \* where each actor is: outside, waiting or broadcast to
    tret,          \* what its last cs_time_sync returned
    entered,       \* the clock when it made that call
    configured,    \* cs_sim_start has called cs_set_nsync
    arrivals,      \* history: how often each actor was counted in sync
    spurious       \* how many wakeups came without a broadcast

timerFields == <<clock, sync, n_sync, stop>>
timerVars == <<clock, sync, n_sync, stop, tpc, tret, entered, configured, arrivals, spurious>>

(***************************************************************************)
(* TypeOK: the types of the fields of cs_timer_t and of the calls.         *)
(***************************************************************************)
TypeOK ==
    /\ clock \in Nat /\ sync \in Nat /\ n_sync \in Nat /\ stop \in {0, 1}
    /\ tpc \in [Actors -> {"out", "waiting", "woken"}]
    /\ tret \in [Actors -> {0, -1}]
    /\ entered \in [Actors -> Nat]
    /\ configured \in BOOLEAN
    /\ arrivals \in [Actors -> Nat]
    /\ spurious \in Nat

\* cs_init_timer: two actors unless cs_set_nsync says otherwise
Init ==
    /\ clock = 0 /\ sync = 0 /\ n_sync = 2 /\ stop = 0
    /\ tpc = [a \in Actors |-> "out"]
    /\ tret = [a \in Actors |-> 0]
    /\ entered = [a \in Actors |-> 0]
    /\ configured = FALSE
    /\ arrivals = [a \in Actors |-> 0]
    /\ spurious = 0

\* pthread_cond_broadcast
Woken == [a \in Actors |-> IF tpc[a] = "waiting" THEN "woken" ELSE tpc[a]]

Waiting == {a \in Actors : tpc[a] = "waiting"}

-----------------------------------------------------------------------------
(***************************************************************************)
(* Wrong variants of the steps below, against which the properties are     *)
(* tried.                                                                  *)
(***************************************************************************)

\* does not reset sync at the tick
TimeSyncTickNoReset(a) ==
    /\ tpc[a] = "out" /\ stop = 0
    /\ sync # n_sync
    /\ sync + 1 = n_sync
    /\ clock' = clock + 1 /\ sync' = sync + 1
    /\ tpc' = Woken
    /\ tret' = [tret EXCEPT ![a] = 0]
    /\ entered' = [entered EXCEPT ![a] = clock]
    /\ arrivals' = [arrivals EXCEPT ![a] = @ + 1]
    /\ UNCHANGED <<n_sync, stop, configured, spurious>>

\* pthread_cond_signal instead of a broadcast
TimeSyncTickSignals(a) ==
    /\ tpc[a] = "out" /\ stop = 0
    /\ sync # n_sync
    /\ sync + 1 = n_sync
    /\ clock' = clock + 1 /\ sync' = 0
    /\ IF Waiting = {} THEN UNCHANGED tpc
       ELSE \E b \in Waiting : tpc' = [tpc EXCEPT ![b] = "woken"]
    /\ tret' = [tret EXCEPT ![a] = 0]
    /\ entered' = [entered EXCEPT ![a] = clock]
    /\ arrivals' = [arrivals EXCEPT ![a] = @ + 1]
    /\ UNCHANGED <<n_sync, stop, configured, spurious>>

\* does not move the clock
TimeSyncTickNoClock(a) ==
    /\ tpc[a] = "out" /\ stop = 0
    /\ sync # n_sync
    /\ sync + 1 = n_sync
    /\ sync' = 0
    /\ tpc' = Woken
    /\ tret' = [tret EXCEPT ![a] = 0]
    /\ entered' = [entered EXCEPT ![a] = clock]
    /\ arrivals' = [arrivals EXCEPT ![a] = @ + 1]
    /\ UNCHANGED <<clock, n_sync, stop, configured, spurious>>

\* sets the number of actors one too low
SetNsyncOneLess(n) ==
    /\ n_sync' = n - 1
    /\ configured' = TRUE
    /\ UNCHANGED <<clock, sync, stop, tpc, tret, entered, arrivals, spurious>>

\* stops without waking anybody
TimeStopSilently ==
    /\ stop' = 1
    /\ UNCHANGED <<clock, sync, n_sync, tpc, tret, entered, configured, arrivals, spurious>>

-----------------------------------------------------------------------------
\* cs_set_nsync
SetNsync(n) ==
    /\ n_sync' = n
    /\ configured' = TRUE
    /\ UNCHANGED <<clock, sync, stop, tpc, tret, entered, arrivals, spurious>>

(***************************************************************************)
(* cs_time_sync: the refusals, the last arrival, an earlier arrival        *)
(***************************************************************************)
TimeSyncRefused(a) ==
    /\ tpc[a] = "out"
    /\ stop = 1 \/ sync = n_sync
    /\ tret' = [tret EXCEPT ![a] = -1]
    /\ entered' = [entered EXCEPT ![a] = clock]
    /\ UNCHANGED <<timerFields, tpc, configured, arrivals, spurious>>

TimeSyncTick(a) ==
    /\ tpc[a] = "out" /\ stop = 0
    /\ sync # n_sync
    /\ sync + 1 = n_sync
    /\ clock' = clock + 1 /\ sync' = 0
    /\ tpc' = Woken
    /\ tret' = [tret EXCEPT ![a] = 0]
    /\ entered' = [entered EXCEPT ![a] = clock]
    /\ arrivals' = [arrivals EXCEPT ![a] = @ + 1]
    /\ UNCHANGED <<n_sync, stop, configured, spurious>>

TimeSyncWait(a) ==
    /\ tpc[a] = "out" /\ stop = 0
    /\ sync # n_sync
    /\ sync + 1 # n_sync
    /\ sync' = sync + 1
    /\ tpc' = [tpc EXCEPT ![a] = "waiting"]
    /\ entered' = [entered EXCEPT ![a] = clock]
    /\ arrivals' = [arrivals EXCEPT ![a] = @ + 1]
    /\ UNCHANGED <<clock, n_sync, stop, tret, configured, spurious>>

\* pthread_cond_wait returns after a broadcast: 0, whatever the broadcast was for
Wake(a) ==
    /\ tpc[a] = "woken"
    /\ tpc' = [tpc EXCEPT ![a] = "out"]
    /\ tret' = [tret EXCEPT ![a] = 0]
    /\ UNCHANGED <<timerFields, entered, configured, arrivals, spurious>>

\* pthread_cond_wait returns although nobody called pthread_cond_broadcast
SpuriousWake(a) ==
    /\ tpc[a] = "waiting"
    /\ spurious < MaxSpurious
    /\ spurious' = spurious + 1
    /\ tpc' = [tpc EXCEPT ![a] = "out"]
    /\ tret' = [tret EXCEPT ![a] = 0]
    /\ UNCHANGED <<timerFields, entered, configured, arrivals>>

\* cs_time_stop
TimeStop ==
    /\ stop' = 1
    /\ tpc' = Woken
    /\ UNCHANGED <<clock, sync, n_sync, tret, entered, configured, arrivals, spurious>>

-----------------------------------------------------------------------------
TimeSync(a) == TimeSyncRefused(a) \/ TimeSyncTick(a) \/ TimeSyncWait(a)

Call(a) == configured /\ clock < MaxClock /\ TimeSync(a)

\* the bound is reached and everybody has left the timer
Finished ==
    /\ clock = MaxClock /\ \A a \in Actors : tpc[a] = "out"
    /\ UNCHANGED timerVars

Next ==
    \/ ~configured /\ SetNsync(Cardinality(Actors))
    \/ \E a \in Actors : Call(a) \/ Wake(a) \/ SpuriousWake(a)
    \/ configured /\ Stoppers # {} /\ TimeStop
    \/ Finished

Spec == Init /\ [][Next]_timerVars

(***************************************************************************)
(* The actors call cs_time_sync again and again (the loops of the engine   *)
(* and of the event controller), and a thread that was woken gets the      *)
(* mutex.  Nothing makes anybody stop the timer or a wait end by itself.   *)
(***************************************************************************)
Fairness ==
    /\ WF_timerVars(~configured /\ SetNsync(Cardinality(Actors)))
    /\ \A a \in Actors : WF_timerVars(Call(a)) /\ WF_timerVars(Wake(a))

FairSpec == Spec /\ Fairness

-----------------------------------------------------------------------------
\* nobody has stopped the timer, and every wait ended with a broadcast
Undisturbed == stop = 0 /\ spurious = 0

(***************************************************************************)
(* LockStep: until the timer is stopped, or a wait in cs_time_sync ends    *)
(* without a broadcast, every actor was counted once per tick: as often as *)
(* the clock says, once more if it waits for the next tick; and sync is    *)
(* the number of those who wait.                                           *)
(***************************************************************************)
LockStep ==
    Undisturbed =>
        /\ sync = Cardinality(Waiting)
        /\ \A a \in Actors : arrivals[a] = clock + (IF tpc[a] = "waiting" THEN 1 ELSE 0)

(***************************************************************************)
(* NobodyTooMany: the complaint "It seems that more than %d thread are     *)
(* trying to synchronize on this timer" of cs_time_sync is never due.      *)
(***************************************************************************)
NobodyTooMany == configured => sync < n_sync

(***************************************************************************)
(* SyncMeansTick: "Wait for the next time of clock": when cs_time_sync has *)
(* returned 0 the clock is ahead of what it was at the call, as long as    *)
(* the timer is not stopped and no wait ended without a broadcast.         *)
(***************************************************************************)
SyncMeansTick ==
    Undisturbed =>
        \A a \in Actors :
            tpc[a] = "out" /\ arrivals[a] > 0 /\ tret[a] = 0 => clock > entered[a]

(***************************************************************************)
(* SyncReturns: nobody is left behind in cs_time_sync, neither at a tick   *)
(* nor when the timer is stopped.                                          *)
(***************************************************************************)
SyncReturns == \A a \in Actors : (tpc[a] # "out") ~> (tpc[a] = "out")

(***************************************************************************)
(* TimeGoesOn: unless it is stopped the clock reaches every time.          *)
(***************************************************************************)
TimeGoesOn == <>(clock = MaxClock \/ stop = 1)

(***************************************************************************)
(* ImplementsBarrier: the timer implements the barrier clock of            *)
(* BarrierClock, stopped or not, up to the first wakeup of a thread in     *)
(* cs_time_sync that no broadcast caused.                                  *)
(***************************************************************************)
Barrier == INSTANCE BarrierClock WITH now <- clock, done <- arrivals

ImplementsBarrier ==
    /\ Barrier!Init
    /\ [][spurious' = 0 => Barrier!Next]_<<clock, arrivals>>
=============================================================================
