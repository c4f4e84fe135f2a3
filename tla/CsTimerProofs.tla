--------------------------- MODULE CsTimerProofs ---------------------------
(***************************************************************************)
(* Proofs about the clock of CsTimer, for any finite set of actors and any *)
(* number of wakeups without a broadcast.                                  *)
(***************************************************************************)
EXTENDS CsTimer, FiniteSetTheorems, TLAPS

n == Cardinality(Actors)

\* before cs_set_nsync nobody has called, and afterwards n_sync counts the actors
Configured ==
    IF configured THEN n_sync = n
    ELSE /\ clock = 0 /\ sync = 0 /\ stop = 0
         /\ \A a \in Actors : tpc[a] = "out" /\ arrivals[a] = 0

LEMMA CountActors == n \in Nat \ {0}
  BY ActorsAssumption, FS_CardinalityType, FS_EmptySet DEF n

LEMMA TypeInit == Init => TypeOK /\ Configured
<1> SUFFICES ASSUME Init PROVE TypeOK /\ Configured
  OBVIOUS
<1>1. TypeOK
  BY DEF Init, TypeOK
<1>2. Configured
  BY DEF Init, Configured
<1> QED
  BY <1>1, <1>2

\* No step spoils the types or the number of actors.
LEMMA TypeStep ==
    ASSUME TypeOK, Configured, [Next]_timerVars
    PROVE  TypeOK' /\ Configured'
<1> USE DEF TypeOK, Configured, timerFields
<1>1. ASSUME ~configured, SetNsync(Cardinality(Actors))
      PROVE  TypeOK' /\ Configured'
  BY <1>1, CountActors DEF SetNsync, n
<1>2. ASSUME NEW a \in Actors, configured, TimeSyncRefused(a)
      PROVE  TypeOK' /\ Configured'
  BY <1>2 DEF TimeSyncRefused
<1>3. ASSUME NEW a \in Actors, configured, TimeSyncTick(a)
      PROVE  TypeOK' /\ Configured'
  BY <1>3 DEF TimeSyncTick, Woken
<1>4. ASSUME NEW a \in Actors, configured, TimeSyncWait(a)
      PROVE  TypeOK' /\ Configured'
  BY <1>4 DEF TimeSyncWait
<1>5. ASSUME NEW a \in Actors, Wake(a) \/ SpuriousWake(a)
      PROVE  TypeOK' /\ Configured'
  BY <1>5 DEF Wake, SpuriousWake
<1>6. ASSUME configured, TimeStop
      PROVE  TypeOK' /\ Configured'
  BY <1>6 DEF TimeStop, Woken
<1>7. ASSUME UNCHANGED timerVars
      PROVE  TypeOK' /\ Configured'
  BY <1>7 DEF timerVars
<1> HIDE DEF TypeOK, Configured
<1> QED
  BY <1>1, <1>2, <1>3, <1>4, <1>5, <1>6, <1>7 DEF Next, Call, TimeSync, Finished

(***************************************************************************)
(* TypeCorrect: the fields of cs_timer_t keep their types.                 *)
(***************************************************************************)
THEOREM TypeCorrect == Spec => []TypeOK
<1>1. TypeOK /\ Configured /\ [Next]_timerVars => (TypeOK /\ Configured)'
  BY TypeStep
<1> QED
  BY <1>1, TypeInit, PTL DEF Spec

(***************************************************************************)
(* NeverTooMany: cs_time_sync never has to complain that more threads than *)
(* n_sync synchronize on the timer, not even when it is stopped while some *)
(* of them wait or when a wait ends by itself.                             *)
(***************************************************************************)
THEOREM NeverTooMany == Spec => []NobodyTooMany
<1>1. Init => NobodyTooMany
  BY DEF Init, NobodyTooMany
<1>2. ASSUME TypeOK, Configured, NobodyTooMany, [Next]_timerVars
      PROVE  NobodyTooMany'
  <2> USE DEF TypeOK, NobodyTooMany, timerFields
  <2>1. ASSUME ~configured, SetNsync(Cardinality(Actors))
        PROVE  NobodyTooMany'
    BY <1>2, <2>1, CountActors DEF SetNsync, Configured, n
  <2>2. ASSUME NEW a \in Actors, TimeSyncTick(a)
        PROVE  NobodyTooMany'
    BY <1>2, <2>2 DEF TimeSyncTick
  <2>3. ASSUME NEW a \in Actors, TimeSyncWait(a)
        PROVE  NobodyTooMany'
    BY <1>2, <2>3 DEF TimeSyncWait
  <2>4. ASSUME UNCHANGED <<configured, sync, n_sync>>
        PROVE  NobodyTooMany'
    BY <1>2, <2>4
  <2>5. ASSUME NEW a \in Actors, TimeSyncRefused(a) \/ Wake(a) \/ SpuriousWake(a)
        PROVE  UNCHANGED <<configured, sync, n_sync>>
    BY <2>5 DEF TimeSyncRefused, Wake, SpuriousWake
  <2>6. ASSUME TimeStop \/ UNCHANGED timerVars
        PROVE  UNCHANGED <<configured, sync, n_sync>>
    BY <2>6 DEF TimeStop, timerVars
  <2> HIDE DEF NobodyTooMany
  <2> QED
    BY <1>2, <2>1, <2>2, <2>3, <2>4, <2>5, <2>6 DEF Next, Call, TimeSync, Finished
<1>3. TypeOK /\ Configured /\ [Next]_timerVars => (TypeOK /\ Configured)'
  BY TypeStep
<1> QED
  BY <1>1, <1>2, <1>3, TypeInit, PTL DEF Spec

-----------------------------------------------------------------------------
(***************************************************************************)
(* The barrier: while the timer is undisturbed, sync counts those who      *)
(* wait, everyone was counted once per tick, somebody is still to come,    *)
(* and whoever was woken or has returned has seen a tick since its call.   *)
(***************************************************************************)
Ticked ==
    Undisturbed =>
        \A a \in Actors :
            /\ tpc[a] = "waiting" => entered[a] = clock
            /\ tpc[a] = "woken" => clock > entered[a]
            /\ tpc[a] = "out" /\ arrivals[a] > 0 => tret[a] = 0 /\ clock > entered[a]

SomeoneToCome == Undisturbed => Waiting # Actors

BarrierInv == TypeOK /\ Configured /\ LockStep /\ Ticked /\ SomeoneToCome

LEMMA WaitingFinite == IsFiniteSet(Waiting) /\ Cardinality(Waiting) \in Nat
<1>1. Waiting \in SUBSET Actors
  BY DEF Waiting
<1> QED
  BY <1>1, ActorsAssumption, FS_Subset, FS_CardinalityType

\* The arrival that finds n_sync - 1 others waiting is the last one.
LEMMA LastArrival ==
    ASSUME BarrierInv, configured, Undisturbed, NEW a \in Actors, tpc[a] = "out"
    PROVE  /\ sync + 1 = n_sync <=> Waiting = Actors \ {a}
           /\ sync # n_sync
<1>1. sync = Cardinality(Waiting) /\ n_sync = n /\ n \in Nat
  BY CountActors DEF BarrierInv, LockStep, Configured
<1>2. Waiting \in SUBSET (Actors \ {a})
  BY DEF Waiting
<1>3. IsFiniteSet(Actors \ {a}) /\ Cardinality(Actors \ {a}) = n - 1
  BY ActorsAssumption, FS_RemoveElement DEF n
<1>4. Cardinality(Waiting) <= n - 1
  BY <1>2, <1>3, FS_Subset
<1>5. Cardinality(Waiting) = n - 1 <=> Waiting = Actors \ {a}
  <2>1. ASSUME Cardinality(Waiting) = Cardinality(Actors \ {a})
        PROVE  Waiting = Actors \ {a}
    BY <1>2, <1>3, <2>1, FS_Subset
  <2> QED
    BY <1>3, <2>1
<1> QED
  BY <1>1, <1>4, <1>5, WaitingFinite

LEMMA BarrierInit == Init => BarrierInv
<1> SUFFICES ASSUME Init PROVE BarrierInv
  OBVIOUS
<1>1. Waiting = {} /\ Actors # {}
  BY ActorsAssumption DEF Init, Waiting
<1>2. LockStep
  BY <1>1, FS_EmptySet DEF Init, LockStep
<1>3. Ticked
  BY DEF Init, Ticked
<1> QED
  BY <1>1, <1>2, <1>3, TypeInit DEF BarrierInv, SomeoneToCome

\* No step breaks the barrier.
LEMMA BarrierStep ==
    ASSUME BarrierInv, [Next]_timerVars
    PROVE  BarrierInv'
<1> DEFINE Rest == LockStep /\ Ticked /\ SomeoneToCome
<1>0. TypeOK /\ Configured
  BY DEF BarrierInv
<1>1. TypeOK' /\ Configured'
  BY <1>0, TypeStep
<1>2. SUFFICES Rest'
  BY <1>1 DEF BarrierInv
<1>a. ~Undisturbed' => Rest'
  BY DEF LockStep, Ticked, SomeoneToCome
<1>3. ASSUME UNCHANGED <<clock, sync, stop, tpc, tret, entered, arrivals, spurious>>
      PROVE  Rest'
  <2>1. Waiting' = Waiting /\ Undisturbed' = Undisturbed
    BY <1>3 DEF Waiting, Undisturbed
  <2>2. LockStep'
    BY <1>3, <2>1 DEF BarrierInv, LockStep
  <2>3. Ticked' /\ SomeoneToCome'
    BY <1>3, <2>1 DEF BarrierInv, Ticked, SomeoneToCome
  <2> QED
    BY <2>2, <2>3
<1>4. ASSUME NEW a \in Actors, configured, TimeSyncRefused(a)
      PROVE  Rest'
  <2>1. ~Undisturbed
    BY <1>0, <1>4, LastArrival DEF TimeSyncRefused, Undisturbed, TypeOK
  <2>2. ~Undisturbed'
    BY <1>4, <2>1 DEF TimeSyncRefused, timerFields, Undisturbed
  <2> QED
    BY <1>a, <2>2
<1>5. ASSUME NEW a \in Actors, configured, TimeSyncTick(a), Undisturbed
      PROVE  Rest'
  <2>1. Waiting = Actors \ {a} /\ clock' = clock + 1 /\ sync' = 0
    BY <1>5, LastArrival DEF TimeSyncTick
  <2>2. Waiting' = {}
    BY <1>0, <1>5 DEF TimeSyncTick, Waiting, Woken, TypeOK
  <2>3. \A b \in Actors : tpc[b] = "waiting" <=> b # a
    BY <1>5, <2>1 DEF Waiting, TimeSyncTick
  <2>4. ASSUME NEW b \in Actors
        PROVE  arrivals'[b] = clock + 1 /\ tpc'[b] # "waiting"
    BY <1>0, <1>5, <2>1, <2>3, <2>4
       DEF TimeSyncTick, Woken, BarrierInv, LockStep, TypeOK
  <2>5. LockStep'
    BY <1>1, <2>1, <2>2, <2>4, FS_EmptySet DEF LockStep, TypeOK
  <2>6. ASSUME NEW b \in Actors
        PROVE  entered'[b] = clock /\ (tpc'[b] = "out" => tret'[b] = 0)
    BY <1>0, <1>5, <2>1, <2>3, <2>6 DEF TimeSyncTick, Woken, BarrierInv, Ticked, TypeOK
  <2>7. Ticked'
    BY <1>0, <2>1, <2>4, <2>6 DEF Ticked, TypeOK
  <2> QED
    BY <2>2, <2>5, <2>7, ActorsAssumption DEF SomeoneToCome
<1>6. ASSUME NEW a \in Actors, configured, TimeSyncWait(a), Undisturbed
      PROVE  Rest'
  <2>1. Waiting # Actors \ {a} /\ clock' = clock /\ sync' = sync + 1
    BY <1>6, LastArrival DEF TimeSyncWait
  <2>2. a \notin Waiting /\ Waiting' = Waiting \cup {a}
    BY <1>0, <1>6 DEF TimeSyncWait, Waiting, TypeOK
  <2>3. Cardinality(Waiting') = Cardinality(Waiting) + 1
    BY <2>2, WaitingFinite, FS_AddElement
  <2>4. ASSUME NEW b \in Actors
        PROVE  arrivals'[b] = clock' + (IF tpc'[b] = "waiting" THEN 1 ELSE 0)
    BY <1>0, <1>6, <2>1, <2>4 DEF TimeSyncWait, BarrierInv, LockStep, TypeOK
  <2>5. LockStep'
    BY <1>6, <2>1, <2>3, <2>4 DEF BarrierInv, LockStep
  <2>6. Ticked'
    BY <1>0, <1>6, <2>1 DEF TimeSyncWait, BarrierInv, Ticked, TypeOK
  <2>7. Waiting' # Actors
    BY <2>1, <2>2 DEF Waiting
  <2> QED
    BY <2>5, <2>6, <2>7 DEF SomeoneToCome
<1>7. ASSUME NEW a \in Actors, Wake(a)
      PROVE  Rest'
  <2>1. Waiting' = Waiting /\ Undisturbed' = Undisturbed
    BY <1>0, <1>7 DEF Wake, timerFields, Waiting, Undisturbed, TypeOK
  <2>2. LockStep'
    BY <1>0, <1>7, <2>1 DEF Wake, timerFields, BarrierInv, LockStep, TypeOK
  <2>3. Ticked'
    BY <1>0, <1>7, <2>1 DEF Wake, timerFields, BarrierInv, Ticked, TypeOK
  <2> QED
    BY <2>1, <2>2, <2>3 DEF BarrierInv, SomeoneToCome
<1>8. ASSUME NEW a \in Actors, SpuriousWake(a)
      PROVE  Rest'
  <2>1. ~Undisturbed'
    BY <1>0, <1>8 DEF SpuriousWake, Undisturbed, TypeOK
  <2> QED
    BY <1>a, <2>1
<1>9. ASSUME TimeStop
      PROVE  Rest'
  BY <1>a, <1>9 DEF TimeStop, Undisturbed
<1>10. ASSUME SetNsync(Cardinality(Actors))
       PROVE  Rest'
  BY <1>3, <1>10 DEF SetNsync
<1>11. ASSUME UNCHANGED timerVars
       PROVE  Rest'
  BY <1>3, <1>11 DEF timerVars
<1>12. ASSUME NEW a \in Actors, TimeSyncTick(a) \/ TimeSyncWait(a), ~Undisturbed
       PROVE  Rest'
  BY <1>a, <1>12 DEF TimeSyncTick, TimeSyncWait, Undisturbed
<1> HIDE DEF Rest
<1> QED
  BY <1>4, <1>5, <1>6, <1>7, <1>8, <1>9, <1>10, <1>11, <1>12 DEF Next, Call, TimeSync, Finished

LEMMA BarrierAlways == Spec => []BarrierInv
<1>1. BarrierInv /\ [Next]_timerVars => BarrierInv'
  BY BarrierStep
<1> QED
  BY <1>1, BarrierInit, PTL DEF Spec

(***************************************************************************)
(* ActorsInLockStep: until the timer is stopped or a wait ends without a   *)
(* broadcast, every actor was counted exactly once per tick of the clock,  *)
(* whatever their number and the order in which they come.                 *)
(***************************************************************************)
THEOREM ActorsInLockStep == Spec => []LockStep
<1>1. BarrierInv => LockStep
  BY DEF BarrierInv
<1> QED
  BY <1>1, BarrierAlways, PTL

(***************************************************************************)
(* SyncIsTick: until the timer is stopped or a wait ends without a         *)
(* broadcast, cs_time_sync returns 0 only after the clock has moved.       *)
(***************************************************************************)
THEOREM SyncIsTick == Spec => []SyncMeansTick
<1>1. BarrierInv => SyncMeansTick
  BY DEF BarrierInv, Ticked, SyncMeansTick
<1> QED
  BY <1>1, BarrierAlways, PTL

(***************************************************************************)
(* Refinement: the timer, stopped or not, implements the barrier clock of  *)
(* BarrierClock up to the first wakeup that no broadcast caused: an        *)
(* arrival that waits or ticks is an arrival there, and no other step      *)
(* moves the clock or counts an actor.                                     *)
(***************************************************************************)
THEOREM Refinement == Spec => ImplementsBarrier
<1>1. Init => Barrier!Init
  BY DEF Init, Barrier!Init
<1>2. ASSUME BarrierInv, [Next]_timerVars
      PROVE  [spurious' = 0 => Barrier!Next]_<<clock, arrivals>>
  <2>0. TypeOK
    BY <1>2 DEF BarrierInv
  <2>1. ASSUME NEW a \in Actors, configured, TimeSyncTick(a) \/ TimeSyncWait(a), spurious' = 0
        PROVE  Barrier!Next
    <3>1. Undisturbed /\ tpc[a] = "out" /\ arrivals' = [arrivals EXCEPT ![a] = @ + 1]
      BY <2>1 DEF TimeSyncTick, TimeSyncWait, Undisturbed
    <3>2. \A b \in Actors : arrivals[b] = clock + (IF tpc[b] = "waiting" THEN 1 ELSE 0)
      BY <1>2, <3>1 DEF BarrierInv, LockStep
    <3>3. arrivals[a] = clock
      BY <2>0, <3>1, <3>2 DEF TypeOK
    <3>4. (\A b \in Actors \ {a} : arrivals[b] = clock + 1) <=> Waiting = Actors \ {a}
      BY <2>0, <3>1, <3>2 DEF TypeOK, Waiting
    <3>5. clock' = IF Waiting = Actors \ {a} THEN clock + 1 ELSE clock
      BY <1>2, <2>1, <3>1, LastArrival DEF TimeSyncTick, TimeSyncWait
    <3>6. Barrier!Arrive(a)
      BY <3>1, <3>3, <3>4, <3>5 DEF Barrier!Arrive
    <3> QED
      BY <3>6 DEF Barrier!Next
  <2>2. ASSUME NEW a \in Actors, TimeSyncRefused(a) \/ Wake(a) \/ SpuriousWake(a)
        PROVE  UNCHANGED <<clock, arrivals>>
    BY <2>2 DEF TimeSyncRefused, Wake, SpuriousWake, timerFields
  <2>3. ASSUME SetNsync(Cardinality(Actors)) \/ TimeStop \/ UNCHANGED timerVars
        PROVE  UNCHANGED <<clock, arrivals>>
    BY <2>3 DEF SetNsync, TimeStop, timerVars
  <2> QED
    BY <1>2, <2>1, <2>2, <2>3 DEF Next, Call, TimeSync, Finished
<1> QED
  BY <1>1, <1>2, BarrierAlways, PTL DEF Spec, ImplementsBarrier
=============================================================================
