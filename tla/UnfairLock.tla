----------------------------- MODULE UnfairLock -----------------------------
(***************************************************************************)
(* graphlab::unfair_lock (sframe/unfair_lock.hpp, unfair_lock.cpp): the    *)
(* lock around the disk reads of sarray segments.  Every thread has a      *)
(* priority (a lower number is a higher priority); the lock goes to the    *)
(* contender with the lowest number, and a woken thread whose number is    *)
(* above the previous owner's sleeps for a while first ("stickiness"),     *)
(* with the internal lock released but its entry left in m_cond.           *)
(*                                                                         *)
(* All fields are read and written under m_internal_lock, so a section     *)
(* between two points where it is released is one step, except that lock() *)
(* calls m_lock.lock() with the internal lock held: that is a step of its  *)
(* own (Acquire) and could block.                                          *)
(***************************************************************************)
EXTENDS Integers

CONSTANTS
  Threads,           \* a thread is its priority: priority_ctr gives each its own
  LOCKS_PER_EPOCH,   \* unlocks between two adaptations of the sleep interval
  DELTA,             \* the step taken when the interval would not change
  INITIAL_INTERVAL,  \* m_current_sleep_interval at construction
  MAX_INTERVAL       \* upper limit of the computed interval

ASSUME UnfairLockAssumption ==
  /\ Threads \subseteq Nat \ {0}
  /\ LOCKS_PER_EPOCH \in Nat \ {0}
  /\ DELTA \in Nat \ {0}
  /\ INITIAL_INTERVAL \in Nat
  /\ MAX_INTERVAL \in Nat
  /\ INITIAL_INTERVAL <= MAX_INTERVAL

VARIABLES
  pc,                          \* where each thread is in lock() / unlock()
  m_internal_lock,             \* the thread holding it between steps, or NoThread
  m_lock,                      \* the thread holding it, or NoThread
  m_lock_acquired,
  m_cond,                      \* the priorities registered in the map
  m_previous_owner_priority,
  tuning                       \* the auto-tuning fields

vars == <<pc, m_internal_lock, m_lock, m_lock_acquired, m_cond,
          m_previous_owner_priority, tuning>>

lockVars == <<m_internal_lock, m_lock, m_lock_acquired>>

NoThread == 0

Tuning == [m_epoch_counter : 0 .. LOCKS_PER_EPOCH - 1,
           m_initial : BOOLEAN,
           m_current_sleep_interval : 0 .. MAX_INTERVAL + DELTA,
           m_previous_sleep_interval : 0 .. MAX_INTERVAL + DELTA]

Init == /\ pc = [t \in Threads |-> "outside"]
        /\ m_internal_lock = NoThread
        /\ m_lock = NoThread
        /\ m_lock_acquired = FALSE
        /\ m_cond = {}
        /\ m_previous_owner_priority = 0
        /\ tuning = [m_epoch_counter |-> 0, m_initial |-> TRUE,
                     m_current_sleep_interval |-> INITIAL_INTERVAL,
                     m_previous_sleep_interval |-> 0]
-----------------------------------------------------------------------------
\* Definitions whose comment starts with "Variant" are faulty versions of the
\* definition that follows; nothing in the specification uses them.

\* Variant: a thread does not give way to a lower number that is registered.
must_wait_if_acquired(t) == m_lock_acquired

\* The condition under which lock() takes, and stays in, the slow path.
must_wait(t) == m_lock_acquired \/ \E w \in m_cond : w < t

\* lock() up to the first wait on the condition variable (which releases the
\* internal lock) or up to m_lock.lock().
EnterSlow(t) == /\ pc[t] = "outside"
                /\ m_internal_lock = NoThread
                /\ must_wait(t)
                /\ m_cond' = m_cond \cup {t}
                /\ pc' = [pc EXCEPT ![t] = "waiting"]
                /\ UNCHANGED <<lockVars, m_previous_owner_priority, tuning>>

EnterFast(t) == /\ pc[t] = "outside"
                /\ m_internal_lock = NoThread
                /\ ~ must_wait(t)
                /\ m_internal_lock' = t
                /\ pc' = [pc EXCEPT ![t] = "acquiring"]
                /\ UNCHANGED <<m_lock, m_lock_acquired, m_cond,
                               m_previous_owner_priority, tuning>>

\* pthread_cond_wait may return without a signal.
SpuriousWakeup(t) == /\ pc[t] = "waiting"
                     /\ pc' = [pc EXCEPT ![t] = "woken"]
                     /\ UNCHANGED <<lockVars, m_cond, m_previous_owner_priority, tuning>>

\* The test of the while loop: wait again, or leave the map and go on with the
\* internal lock held.
Recheck(t) ==
  \/ /\ must_wait(t)
     /\ pc' = [pc EXCEPT ![t] = "waiting"]
     /\ UNCHANGED <<m_internal_lock, m_cond>>
  \/ /\ ~ must_wait(t)
     /\ m_cond' = m_cond \ {t}
     /\ m_internal_lock' = t
     /\ pc' = [pc EXCEPT ![t] = "acquiring"]

\* The wait returns with the internal lock: a thread above the previous owner
\* releases it and sleeps, any other goes to the test.
WakeAndSleep(t) == /\ pc[t] = "woken"
                   /\ m_internal_lock = NoThread
                   /\ t > m_previous_owner_priority
                   /\ pc' = [pc EXCEPT ![t] = "sleeping"]
                   /\ UNCHANGED <<lockVars, m_cond, m_previous_owner_priority, tuning>>

WakeAndRecheck(t) == /\ pc[t] = "woken"
                     /\ m_internal_lock = NoThread
                     /\ t <= m_previous_owner_priority
                     /\ Recheck(t)
                     /\ UNCHANGED <<m_lock, m_lock_acquired,
                                    m_previous_owner_priority, tuning>>

EndSleep(t) == /\ pc[t] = "sleeping"
               /\ m_internal_lock = NoThread
               /\ Recheck(t)
               /\ UNCHANGED <<m_lock, m_lock_acquired, m_previous_owner_priority, tuning>>

\* The end of lock(): m_lock.lock(), then the internal lock is released.
Acquire(t) == /\ pc[t] = "acquiring"
              /\ m_lock = NoThread
              /\ m_lock' = t
              /\ m_lock_acquired' = TRUE
              /\ m_internal_lock' = NoThread
              /\ pc' = [pc EXCEPT ![t] = "owner"]
              /\ UNCHANGED <<m_cond, m_previous_owner_priority, tuning>>
-----------------------------------------------------------------------------
(* unlock().                                                               *)

\* Variant: the signal goes to the highest number.
SignalledHighest(S) ==
  [t \in Threads |->
     IF pc[t] = "waiting" /\ t \in S /\ \A v \in S : v <= t THEN "woken" ELSE pc[t]]

\* The effect of m_cond.begin()->second->signal(), S being m_cond: the lowest
\* number is woken if it waits on its condition variable; the signal is lost
\* if it is on its way already.
Signalled(S) ==
  [t \in Threads |->
     IF pc[t] = "waiting" /\ t \in S /\ \A v \in S : t <= v THEN "woken" ELSE pc[t]]

\* The interval the comparison of two epochs suggests.
Moved(current, previous, epoch) ==
  CASE epoch = "faster"               -> current + (current - previous)
    [] epoch \in {"slower", "excessive"} -> current - (current - previous)
    [] epoch = "same"                 -> current

\* Variant: the interval may stay what it was.
NewIntervalStationary(current, previous, epoch) ==
  LET moved == Moved(current, previous, epoch)
  IN  IF moved < 0 THEN 0 ELSE IF moved > MAX_INTERVAL THEN MAX_INTERVAL ELSE moved

\* Variant: the interval is not limited.
NewIntervalUnlimited(current, previous, epoch) ==
  LET moved == Moved(current, previous, epoch)
  IN  IF moved = current THEN moved + DELTA ELSE moved

NewInterval(current, previous, epoch) ==
  LET moved   == Moved(current, previous, epoch)
      limited == IF moved < 0 THEN 0
                 ELSE IF moved > MAX_INTERVAL THEN MAX_INTERVAL ELSE moved
  IN  IF limited = current THEN limited + DELTA ELSE limited

\* How the time of the epoch that ends compares with the previous one.  After
\* construction and after a reset the previous time is 0, so that no epoch is
\* faster; "excessive" is more than half a second slower.
Epochs == IF tuning.m_initial THEN {"slower", "same"}
          ELSE {"faster", "slower", "same", "excessive"}

\* The tuning fields after an unlock().
Tune(epoch) ==
  IF tuning.m_epoch_counter + 1 # LOCKS_PER_EPOCH
    THEN [tuning EXCEPT !.m_epoch_counter = @ + 1]
  ELSE IF epoch = "excessive"
    THEN [m_epoch_counter |-> 0, m_initial |-> TRUE,
          m_current_sleep_interval |-> INITIAL_INTERVAL,
          m_previous_sleep_interval |-> 0]
    ELSE [m_epoch_counter |-> 0, m_initial |-> FALSE,
          m_current_sleep_interval |->
             NewInterval(tuning.m_current_sleep_interval,
                         tuning.m_previous_sleep_interval, epoch),
          m_previous_sleep_interval |-> tuning.m_current_sleep_interval]

\* Variant: nobody is signalled.
UnlockSilently(t) == /\ pc[t] = "owner"
                     /\ m_internal_lock = NoThread
                     /\ \E epoch \in Epochs : tuning' = Tune(epoch)
                     /\ m_lock' = NoThread
                     /\ pc' = [pc EXCEPT ![t] = "outside"]
                     /\ m_previous_owner_priority' = t
                     /\ m_lock_acquired' = FALSE
                     /\ UNCHANGED <<m_internal_lock, m_cond>>

\* Variant: m_lock is released only after the internal lock (it stays locked).
UnlockKeepsInner(t) == /\ pc[t] = "owner"
                       /\ m_internal_lock = NoThread
                       /\ \E epoch \in Epochs : tuning' = Tune(epoch)
                       /\ pc' = [Signalled(m_cond) EXCEPT ![t] = "outside"]
                       /\ m_previous_owner_priority' = t
                       /\ m_lock_acquired' = FALSE
                       /\ UNCHANGED <<m_internal_lock, m_lock, m_cond>>

Unlock(t) == /\ pc[t] = "owner"
             /\ m_internal_lock = NoThread
             /\ \E epoch \in Epochs : tuning' = Tune(epoch)
             /\ m_lock' = NoThread
             /\ pc' = [Signalled(m_cond) EXCEPT ![t] = "outside"]
             /\ m_previous_owner_priority' = t
             /\ m_lock_acquired' = FALSE
             /\ UNCHANGED <<m_internal_lock, m_cond>>
-----------------------------------------------------------------------------
\* The steps a thread takes once it has called lock(): the scheduler runs it,
\* and the owner, which reads one block under the lock, calls unlock().
Proceed(t) == \/ WakeAndSleep(t)
              \/ WakeAndRecheck(t)
              \/ EndSleep(t)
              \/ Acquire(t)
              \/ Unlock(t)

Next == \E t \in Threads : \/ EnterSlow(t)
                           \/ EnterFast(t)
                           \/ SpuriousWakeup(t)
                           \/ Proceed(t)

Spec == Init /\ [][Next]_vars

FairSpec == Spec /\ \A t \in Threads : WF_vars(Proceed(t))
-----------------------------------------------------------------------------
(* Properties                                                              *)

\* TypeOK: types of the fields of unfair_lock; the adaptive sleep interval of
\* unlock() stays between 0 and MAX_INTERVAL + DELTA, so that the unsigned
\* argument of sleep_ms() never wraps around.
TypeOK ==
  /\ pc \in [Threads -> {"outside", "waiting", "woken", "sleeping", "acquiring", "owner"}]
  /\ m_internal_lock \in Threads \cup {NoThread}
  /\ m_lock \in Threads \cup {NoThread}
  /\ m_lock_acquired \in BOOLEAN
  /\ m_cond \subseteq Threads
  /\ m_previous_owner_priority \in Nat
  /\ tuning \in Tuning

\* NeverBlocksInside: a thread that reaches m_lock.lock() inside lock(), with
\* m_internal_lock held, finds it free; otherwise the owner could never get
\* m_internal_lock to unlock it, and all would stop.
NeverBlocksInside == \A t \in Threads : pc[t] = "acquiring" => m_lock = NoThread

\* LowestFirst: "the lock will always go to the thread with the lowest priority
\* ID": a thread about to take the lock has a lower number than every thread
\* that waits, sleeps out its stickiness interval or has just been woken.
LowestFirst ==
  \A t \in Threads : pc[t] = "acquiring" => \A w \in m_cond : t < w

\* NoLostWakeup: whenever the lock is free and nobody is about to take it, the
\* registered thread with the lowest number is awake, whatever signals were
\* lost and whoever overtook it; so unlock() need not signal anybody else.
NoLostWakeup ==
  (~ m_lock_acquired /\ \A t \in Threads : pc[t] # "acquiring") =>
    \A w \in m_cond : (\A v \in m_cond : w <= v) => pc[w] \in {"woken", "sleeping"}

\* IntervalKeepsMoving: "we can't stay stationary": an unlock() that ends an
\* epoch without resetting the counters changes the sleep interval.
IntervalKeepsMoving ==
  [][(/\ tuning.m_epoch_counter # 0
      /\ tuning'.m_epoch_counter = 0
      /\ ~ tuning'.m_initial)
       => tuning'.m_current_sleep_interval # tuning.m_current_sleep_interval]_vars

\* LockKeepsBeingGranted: when a thread waits for the lock, the lock is granted
\* to some thread eventually, for any pattern of arrivals.
LockKeepsBeingGranted == (m_cond # {}) ~> m_lock_acquired

\* LowestIsServed: the thread with the lowest priority number, once registered
\* in m_cond, becomes the owner eventually (the others may starve).
LowestIsServed ==
  \A t \in Threads :
    (\A u \in Threads : t <= u) => ((t \in m_cond) ~> (pc[t] = "owner"))
=============================================================================
