-------------------------- MODULE UnfairLockProofs --------------------------
(***************************************************************************)
(* The safety properties of UnfairLock for every set of threads and every  *)
(* value of the tuning constants.                                          *)
(***************************************************************************)
EXTENDS UnfairLock, TLAPS

-----------------------------------------------------------------------------
(* The sleep interval.                                                     *)

\* The interval computed at the end of an epoch stays within its limits and
\* differs from the current one.
LEMMA NewIntervalLimits ==
  ASSUME NEW current \in 0 .. MAX_INTERVAL + DELTA,
         NEW previous \in 0 .. MAX_INTERVAL + DELTA,
         NEW epoch \in {"faster", "slower", "same", "excessive"}
  PROVE  /\ NewInterval(current, previous, epoch) \in 0 .. MAX_INTERVAL + DELTA
         /\ NewInterval(current, previous, epoch) # current
<1> DEFINE moved == Moved(current, previous, epoch)
<1>1. moved \in Int
  BY UnfairLockAssumption DEF Moved
<1> HIDE DEF moved
<1>2. QED
  BY <1>1, UnfairLockAssumption DEF NewInterval, moved

LEMMA TuneTyped ==
  ASSUME tuning \in Tuning, NEW epoch \in Epochs
  PROVE  Tune(epoch) \in Tuning
<1>1. epoch \in {"faster", "slower", "same", "excessive"}
  BY DEF Epochs
<1>2. /\ tuning.m_current_sleep_interval \in 0 .. MAX_INTERVAL + DELTA
      /\ tuning.m_previous_sleep_interval \in 0 .. MAX_INTERVAL + DELTA
  BY DEF Tuning
<1>3. NewInterval(tuning.m_current_sleep_interval, tuning.m_previous_sleep_interval, epoch)
        \in 0 .. MAX_INTERVAL + DELTA
  BY <1>1, <1>2, NewIntervalLimits
<1>4. QED
  BY <1>2, <1>3, UnfairLockAssumption DEF Tune, Tuning

-----------------------------------------------------------------------------
(* The inductive invariant: TypeOK, the meaning of the lock fields in      *)
(* terms of where the threads are, and the properties themselves.          *)

\* m_cond holds exactly the threads inside the slow path.
CondIsSlowPath ==
  \A t \in Threads : t \in m_cond <=> pc[t] \in {"waiting", "woken", "sleeping"}

\* m_internal_lock is held across steps only in front of m_lock.lock().
InternalHeldToAcquire ==
  \A t \in Threads : m_internal_lock = t <=> pc[t] = "acquiring"

\* m_lock and m_lock_acquired agree, and the holder of m_lock is the owner.
LockFieldsAgree ==
  /\ m_lock_acquired <=> m_lock # NoThread
  /\ \A t \in Threads : m_lock = t <=> pc[t] = "owner"
  /\ m_internal_lock # NoThread => ~ m_lock_acquired

IndInv == /\ TypeOK
          /\ CondIsSlowPath
          /\ InternalHeldToAcquire
          /\ LockFieldsAgree
          /\ LowestFirst
          /\ NoLostWakeup

LEMMA InitIndInv == Init => IndInv
<1> SUFFICES ASSUME Init
             PROVE  IndInv
  OBVIOUS
<1> USE DEF Init, NoThread
<1>1. tuning \in Tuning
  BY UnfairLockAssumption DEF Tuning
<1>2. TypeOK
  BY <1>1 DEF TypeOK
<1>3. CondIsSlowPath /\ LowestFirst /\ NoLostWakeup
  BY DEF CondIsSlowPath, LowestFirst, NoLostWakeup
<1>4. InternalHeldToAcquire /\ LockFieldsAgree
  BY UnfairLockAssumption DEF InternalHeldToAcquire, LockFieldsAgree
<1>5. QED
  BY <1>2, <1>3, <1>4 DEF IndInv

LEMMA RecheckIndInv ==
  ASSUME IndInv, NEW t \in Threads, pc[t] \in {"woken", "sleeping"},
         m_internal_lock = NoThread, Recheck(t),
         UNCHANGED <<m_lock, m_lock_acquired, m_previous_owner_priority, tuning>>
  PROVE  IndInv'
<1> USE DEF IndInv, TypeOK, NoThread
<1>1. CASE must_wait(t) /\ pc' = [pc EXCEPT ![t] = "waiting"]
           /\ UNCHANGED <<m_internal_lock, m_cond>>
  <2>1. TypeOK' /\ CondIsSlowPath' /\ InternalHeldToAcquire' /\ LockFieldsAgree'
    BY <1>1, UnfairLockAssumption DEF CondIsSlowPath, InternalHeldToAcquire, LockFieldsAgree
  <2>2. LowestFirst'
    BY <1>1 DEF LowestFirst
  <2>3. NoLostWakeup'
    BY <1>1, UnfairLockAssumption DEF NoLostWakeup, must_wait, CondIsSlowPath
  <2>4. QED
    BY <2>1, <2>2, <2>3
<1>2. CASE /\ ~ must_wait(t)
           /\ m_cond' = m_cond \ {t}
           /\ m_internal_lock' = t
           /\ pc' = [pc EXCEPT ![t] = "acquiring"]
  <2>1. TypeOK' /\ CondIsSlowPath' /\ InternalHeldToAcquire' /\ LockFieldsAgree'
    BY <1>2, UnfairLockAssumption
       DEF CondIsSlowPath, InternalHeldToAcquire, LockFieldsAgree, must_wait
  <2>2. LowestFirst'
    BY <1>2, UnfairLockAssumption DEF LowestFirst, must_wait, InternalHeldToAcquire
  <2>3. NoLostWakeup'
    BY <1>2 DEF NoLostWakeup
  <2>4. QED
    BY <2>1, <2>2, <2>3
<1>3. QED
  BY <1>1, <1>2 DEF Recheck

LEMMA NextIndInv == IndInv /\ [Next]_vars => IndInv'
<1> SUFFICES ASSUME IndInv, [Next]_vars
             PROVE  IndInv'
  OBVIOUS
<1> USE DEF IndInv, TypeOK, NoThread
<1>1. ASSUME NEW t \in Threads, EnterSlow(t)
      PROVE  IndInv'
  <2>1. TypeOK' /\ CondIsSlowPath' /\ InternalHeldToAcquire' /\ LockFieldsAgree'
    BY <1>1, UnfairLockAssumption
       DEF EnterSlow, lockVars, CondIsSlowPath, InternalHeldToAcquire, LockFieldsAgree
  <2>2. LowestFirst'
    BY <1>1, UnfairLockAssumption DEF EnterSlow, lockVars, LowestFirst, InternalHeldToAcquire
  <2>3. NoLostWakeup'
    BY <1>1, UnfairLockAssumption
       DEF EnterSlow, lockVars, NoLostWakeup, must_wait, CondIsSlowPath
  <2>4. QED
    BY <2>1, <2>2, <2>3
<1>2. ASSUME NEW t \in Threads, EnterFast(t)
      PROVE  IndInv'
  <2>1. TypeOK' /\ CondIsSlowPath' /\ InternalHeldToAcquire' /\ LockFieldsAgree'
    BY <1>2, UnfairLockAssumption
       DEF EnterFast, must_wait, CondIsSlowPath, InternalHeldToAcquire, LockFieldsAgree
  <2>2. LowestFirst'
    BY <1>2, UnfairLockAssumption
       DEF EnterFast, must_wait, LowestFirst, InternalHeldToAcquire, CondIsSlowPath
  <2>3. NoLostWakeup'
    BY <1>2 DEF EnterFast, NoLostWakeup
  <2>4. QED
    BY <2>1, <2>2, <2>3
<1>3. ASSUME NEW t \in Threads, SpuriousWakeup(t)
      PROVE  IndInv'
  BY <1>3, UnfairLockAssumption
     DEF SpuriousWakeup, lockVars, CondIsSlowPath, InternalHeldToAcquire, LockFieldsAgree,
         LowestFirst, NoLostWakeup
<1>4. ASSUME NEW t \in Threads, WakeAndSleep(t)
      PROVE  IndInv'
  BY <1>4, UnfairLockAssumption
     DEF WakeAndSleep, lockVars, CondIsSlowPath, InternalHeldToAcquire, LockFieldsAgree,
         LowestFirst, NoLostWakeup
<1>5. ASSUME NEW t \in Threads, WakeAndRecheck(t)
      PROVE  IndInv'
  BY <1>5, RecheckIndInv DEF WakeAndRecheck
<1>6. ASSUME NEW t \in Threads, EndSleep(t)
      PROVE  IndInv'
  BY <1>6, RecheckIndInv DEF EndSleep
<1>7. ASSUME NEW t \in Threads, Acquire(t)
      PROVE  IndInv'
  <2>1. TypeOK' /\ CondIsSlowPath' /\ InternalHeldToAcquire' /\ LockFieldsAgree'
    BY <1>7, UnfairLockAssumption
       DEF Acquire, CondIsSlowPath, InternalHeldToAcquire, LockFieldsAgree
  <2>2. LowestFirst'
    BY <1>7, UnfairLockAssumption DEF Acquire, LowestFirst, InternalHeldToAcquire
  <2>3. NoLostWakeup'
    BY <1>7 DEF Acquire, NoLostWakeup
  <2>4. QED
    BY <2>1, <2>2, <2>3
<1>8. ASSUME NEW t \in Threads, Unlock(t)
      PROVE  IndInv'
  <2>1. tuning' \in Tuning
    BY <1>8, TuneTyped DEF Unlock
  <2>2. TypeOK' /\ CondIsSlowPath' /\ InternalHeldToAcquire' /\ LockFieldsAgree'
    BY <1>8, <2>1, UnfairLockAssumption
       DEF Unlock, Signalled, CondIsSlowPath, InternalHeldToAcquire, LockFieldsAgree
  <2>3. LowestFirst'
    BY <1>8, UnfairLockAssumption
       DEF Unlock, Signalled, LowestFirst, InternalHeldToAcquire
  <2>4. NoLostWakeup'
    BY <1>8, UnfairLockAssumption DEF Unlock, Signalled, NoLostWakeup, CondIsSlowPath
  <2>5. QED
    BY <2>2, <2>3, <2>4
<1>9. CASE UNCHANGED vars
  BY <1>9 DEF vars, CondIsSlowPath, InternalHeldToAcquire, LockFieldsAgree,
              LowestFirst, NoLostWakeup
<1>10. QED
  BY <1>1, <1>2, <1>3, <1>4, <1>5, <1>6, <1>7, <1>8, <1>9 DEF Next, Proceed

-----------------------------------------------------------------------------
(* The theorems.                                                           *)

\* The inductive invariant holds in every reachable state.
THEOREM Invariance == Spec => []IndInv
BY InitIndInv, NextIndInv, PTL DEF Spec

\* The fields of unfair_lock keep their types; in particular the sleep interval
\* unlock() adapts stays within 0 .. MAX_INTERVAL + DELTA.
THEOREM TypeCorrect == Spec => []TypeOK
<1>1. IndInv => TypeOK
  BY DEF IndInv
<1>2. QED
  BY <1>1, Invariance, PTL

\* m_lock.lock() inside lock() never blocks, so the internal lock is never held
\* while waiting for the owner.
THEOREM InsideNeverBlocks == Spec => []NeverBlocksInside
<1>1. IndInv => NeverBlocksInside
  BY UnfairLockAssumption
     DEF IndInv, NeverBlocksInside, InternalHeldToAcquire, LockFieldsAgree, NoThread
<1>2. QED
  BY <1>1, Invariance, PTL

\* The lock goes to the contender with the lowest priority number.
THEOREM LowestGoesFirst == Spec => []LowestFirst
<1>1. IndInv => LowestFirst
  BY DEF IndInv
<1>2. QED
  BY <1>1, Invariance, PTL

\* A free lock always has its next owner awake: no wakeup is lost, although
\* unlock() signals one thread and signals to threads on their way are lost.
THEOREM WakeupsAreNotLost == Spec => []NoLostWakeup
<1>1. IndInv => NoLostWakeup
  BY DEF IndInv
<1>2. QED
  BY <1>1, Invariance, PTL

\* Every unlock() that ends an epoch without a reset changes the interval.
THEOREM IntervalMoves == Spec => IntervalKeepsMoving
<1> DEFINE Moves ==
      (/\ tuning.m_epoch_counter # 0
       /\ tuning'.m_epoch_counter = 0
       /\ ~ tuning'.m_initial)
        => tuning'.m_current_sleep_interval # tuning.m_current_sleep_interval
<1>1. ASSUME IndInv, [Next]_vars
      PROVE  [Moves]_vars
  <2>1. ASSUME NEW t \in Threads, Unlock(t)
        PROVE  Moves
    <3>1. PICK epoch \in Epochs : tuning' = Tune(epoch)
      BY <2>1 DEF Unlock
    <3>2. epoch \in {"faster", "slower", "same", "excessive"}
      BY DEF Epochs
    <3>3. /\ tuning.m_epoch_counter \in Int
          /\ tuning.m_current_sleep_interval \in 0 .. MAX_INTERVAL + DELTA
          /\ tuning.m_previous_sleep_interval \in 0 .. MAX_INTERVAL + DELTA
          /\ DOMAIN tuning = {"m_epoch_counter", "m_initial", "m_current_sleep_interval",
                              "m_previous_sleep_interval"}
      BY <1>1 DEF IndInv, TypeOK, Tuning
    <3>4. NewInterval(tuning.m_current_sleep_interval,
                      tuning.m_previous_sleep_interval, epoch)
            # tuning.m_current_sleep_interval
      BY <3>2, <3>3, NewIntervalLimits
    <3>5. CASE tuning.m_epoch_counter + 1 # LOCKS_PER_EPOCH
      <4>1. tuning'.m_epoch_counter = tuning.m_epoch_counter + 1
        BY <3>1, <3>3, <3>5 DEF Tune
      <4>2. tuning.m_epoch_counter \in Nat
        BY <1>1, UnfairLockAssumption DEF IndInv, TypeOK, Tuning
      <4>3. QED
        BY <4>1, <4>2
    <3>6. CASE tuning.m_epoch_counter + 1 = LOCKS_PER_EPOCH /\ epoch = "excessive"
      BY <3>1, <3>6 DEF Tune
    <3>7. CASE tuning.m_epoch_counter + 1 = LOCKS_PER_EPOCH /\ epoch # "excessive"
      BY <3>1, <3>4, <3>7 DEF Tune
    <3>8. QED
      BY <3>5, <3>6, <3>7
  <2>2. ASSUME NEW t \in Threads,
               \/ EnterSlow(t) \/ EnterFast(t) \/ SpuriousWakeup(t)
               \/ WakeAndSleep(t) \/ WakeAndRecheck(t) \/ EndSleep(t) \/ Acquire(t)
        PROVE  Moves
    BY <2>2 DEF EnterSlow, EnterFast, SpuriousWakeup, WakeAndSleep, WakeAndRecheck,
                EndSleep, Acquire
  <2>3. QED
    BY <1>1, <2>1, <2>2 DEF Next, Proceed
<1>2. QED
  BY <1>1, Invariance, PTL DEF Spec, IntervalKeepsMoving
=============================================================================
