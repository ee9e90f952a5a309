----------------------------- MODULE WorkerPool -----------------------------
(***************************************************************************)
(* graphlab::lambda::worker_pool (lambda/worker_pool.hpp): the pool of     *)
(* lambda worker processes.  Threads take a worker with get_worker(), give *)
(* it back with release_worker() (called by worker_guard's destructor), or *)
(* run a function on all workers with call_all_workers(); the destructor   *)
(* waits for all workers.  A worker process may die at any time; release   *)
(* then replaces it, or shrinks the pool when no new one can be started.   *)
(*                                                                         *)
(* Sections under m_mutex are one step.  release_worker() notifies after   *)
(* it has unlocked, which is a step of its own.  m_available_workers is a  *)
(* set: which of the available workers a thread gets plays no role in the  *)
(* properties.                                                             *)
(***************************************************************************)
EXTENDS Naturals, FiniteSets

CONSTANTS
  Threads,            \* the threads that use the pool
  InitialWorkers,     \* the size the pool is asked for
  MaxCrashes          \* bound: worker processes that die

ASSUME WorkerPoolAssumption ==
  /\ IsFiniteSet(Threads)
  /\ InitialWorkers \in Nat \ {0}
  /\ MaxCrashes \in Nat

VARIABLES
  pc,                   \* what each thread is doing
  held,                 \* the workers each thread has taken out of the pool
  failed,               \* threads whose call_all_workers() has thrown
  m_available_workers,
  m_num_workers,
  alive,                \* the worker processes that are running
  next_id,              \* worker_process::get_next_id()
  crashes

vars == <<pc, held, failed, m_available_workers, m_num_workers, alive, next_id, crashes>>

poolVars == <<m_available_workers, m_num_workers, alive, next_id>>

\* init(): any number of the workers asked for may fail to start; with none the
\* constructor throws and there is no pool.
Init ==
  \E started \in 1 .. InitialWorkers :
    /\ m_available_workers = 1 .. started
    /\ m_num_workers = started
    /\ alive = 1 .. started
    /\ next_id = started + 1
    /\ pc = [t \in Threads |-> "idle"]
    /\ held = [t \in Threads |-> {}]
    /\ failed = {}
    /\ crashes = 0
-----------------------------------------------------------------------------
(* Definitions whose comment starts with "Variant" are faulty versions of  *)
(* the definition that follows; nothing in the specification uses them.    *)

\* The conditions under which the loops of wait_for_one() and wait_for_all()
\* end.  Since they do not end for m_num_workers = 0, the test for an empty pool
\* behind each loop never succeeds and its throw is not reached.
wait_for_one_ends == m_available_workers # {} /\ m_num_workers # 0

\* Variant: waits for one worker only.
wait_for_all_ends_early == m_available_workers # {} /\ m_num_workers # 0

wait_for_all_ends ==
  ~ (Cardinality(m_available_workers) < m_num_workers) /\ m_num_workers # 0

Waiting == {"get_wait", "all_wait", "destroy_wait"}
Woken(p) == CASE p = "get_wait"     -> "get_woken"
              [] p = "all_wait"     -> "all_woken"
              [] p = "destroy_wait" -> "destroy_woken"

Destroyed == \E t \in Threads : pc[t] \in {"destroy_wait", "destroy_woken", "destroyed"}

\* A thread may call, as often as it likes, while the pool is not being destroyed.
MayCall(t) == pc[t] = "idle" /\ ~ Destroyed

\* get_worker(): the call, and the thread's turn after its wait has returned.
GetWorker(t) ==
  /\ MayCall(t) \/ pc[t] = "get_woken"
  /\ wait_for_one_ends
  /\ \E w \in m_available_workers :
       /\ m_available_workers' = m_available_workers \ {w}
       /\ held' = [held EXCEPT ![t] = {w}]
  /\ pc' = [pc EXCEPT ![t] = "using"]
  /\ UNCHANGED <<failed, m_num_workers, alive, next_id, crashes>>

GetWorkerWaits(t) ==
  /\ MayCall(t) \/ pc[t] = "get_woken"
  /\ ~ wait_for_one_ends
  /\ pc' = [pc EXCEPT ![t] = "get_wait"]
  /\ UNCHANGED <<held, failed, poolVars, crashes>>

\* The holder is done with its worker: worker_guard's destructor runs.
FinishUse(t) ==
  /\ pc[t] = "using"
  /\ pc' = [pc EXCEPT ![t] = "releasing"]
  /\ UNCHANGED <<held, failed, poolVars, crashes>>
-----------------------------------------------------------------------------
(* release_worker(): the part under m_mutex.                               *)

PutBack(t, w) ==
  /\ w \in alive
  /\ m_available_workers' = m_available_workers \cup {w}
  /\ UNCHANGED <<m_num_workers, alive, next_id>>

\* Variant: the id of the new worker process is not advanced.
ReplaceSameId(t, w) ==
  /\ w \notin alive
  /\ m_available_workers' = m_available_workers \cup {next_id}
  /\ alive' = alive \cup {next_id}
  /\ UNCHANGED <<m_num_workers, next_id>>

\* The worker process is dead and a new one could be started.
Replace(t, w) ==
  /\ w \notin alive
  /\ m_available_workers' = m_available_workers \cup {next_id}
  /\ alive' = alive \cup {next_id}
  /\ next_id' = next_id + 1
  /\ UNCHANGED m_num_workers

\* Variant: the pool is not made smaller.
ShrinkUncounted(t, w) ==
  /\ w \notin alive
  /\ UNCHANGED poolVars

\* The worker process is dead and no new one could be started.
Shrink(t, w) ==
  /\ w \notin alive
  /\ m_num_workers' = m_num_workers - 1
  /\ UNCHANGED <<m_available_workers, alive, next_id>>

ReleaseWorker(t) ==
  /\ pc[t] = "releasing"
  /\ \E w \in held[t] :
       /\ PutBack(t, w) \/ Replace(t, w) \/ Shrink(t, w)
       /\ held' = [held EXCEPT ![t] = @ \ {w}]
  /\ pc' = [pc EXCEPT ![t] = "notifying"]
  /\ UNCHANGED <<failed, crashes>>

\* Where the thread goes after cv.notify_one(): the next guard, or out of the
\* call; call_all_workers() that has thrown goes through its catch block.
AfterNotify(t) == IF held[t] # {} THEN "releasing"
                  ELSE IF t \in failed THEN "catching" ELSE "idle"

\* Variant: nobody is notified.
NotifyNobody(t) ==
  /\ pc[t] = "notifying"
  /\ pc' = [pc EXCEPT ![t] = AfterNotify(t)]
  /\ UNCHANGED <<held, failed, poolVars, crashes>>

\* cv.notify_one(): wakes any one of the threads that wait.
Notify(t) ==
  /\ pc[t] = "notifying"
  /\ \/ /\ \A u \in Threads : pc[u] \notin Waiting
        /\ pc' = [pc EXCEPT ![t] = AfterNotify(t)]
     \/ \E u \in Threads :
          /\ pc[u] \in Waiting
          /\ pc' = [pc EXCEPT ![t] = AfterNotify(t), ![u] = Woken(pc[u])]
  /\ UNCHANGED <<held, failed, poolVars, crashes>>

\* A condition variable may wake without a notification.
SpuriousWakeup(t) ==
  /\ pc[t] \in Waiting
  /\ pc' = [pc EXCEPT ![t] = Woken(pc[t])]
  /\ UNCHANGED <<held, failed, poolVars, crashes>>
-----------------------------------------------------------------------------
(* call_all_workers() and the destructor.                                  *)

CallAllWorkers(t) ==
  /\ MayCall(t) \/ pc[t] = "all_woken"
  /\ wait_for_all_ends
  /\ held' = [held EXCEPT ![t] = m_available_workers]
  /\ m_available_workers' = {}
  /\ pc' = [pc EXCEPT ![t] = "calling"]
  /\ UNCHANGED <<failed, m_num_workers, alive, next_id, crashes>>

CallAllWorkersWaits(t) ==
  /\ MayCall(t) \/ pc[t] = "all_woken"
  /\ ~ wait_for_all_ends
  /\ pc' = [pc EXCEPT ![t] = "all_wait"]
  /\ UNCHANGED <<held, failed, poolVars, crashes>>

\* The parallel_for over the workers ends, or one of the calls has thrown; in
\* both cases the guards are destroyed next.
FinishCalling(t) ==
  /\ pc[t] = "calling"
  /\ failed' \in {failed, failed \cup {t}}
  /\ pc' = [pc EXCEPT ![t] = "releasing"]
  /\ UNCHANGED <<held, poolVars, crashes>>

\* The catch block: the assertion on the pool, then the exception goes on.
Catch(t) ==
  /\ pc[t] = "catching"
  /\ failed' = failed \ {t}
  /\ pc' = [pc EXCEPT ![t] = "idle"]
  /\ UNCHANGED <<held, poolVars, crashes>>

\* Whoever owns the pool destroys it when no other thread is inside get_worker()
\* or call_all_workers(); workers may still be in use.
MayDestroy(t) ==
  /\ pc[t] = "idle"
  /\ ~ Destroyed
  /\ \A u \in Threads : pc[u] \in {"idle", "using", "releasing", "notifying"}
  /\ \A u \in Threads : u \notin failed

DestroyWaits(t) ==
  /\ MayDestroy(t) \/ pc[t] = "destroy_woken"
  /\ ~ wait_for_all_ends
  /\ pc' = [pc EXCEPT ![t] = "destroy_wait"]
  /\ UNCHANGED <<held, failed, poolVars, crashes>>

Destroy(t) ==
  /\ MayDestroy(t) \/ pc[t] = "destroy_woken"
  /\ wait_for_all_ends
  /\ alive' = alive \ m_available_workers
  /\ pc' = [pc EXCEPT ![t] = "destroyed"]
  /\ UNCHANGED <<held, failed, m_available_workers, m_num_workers, next_id, crashes>>

\* A worker process dies, in the pool or in use.
Crash == /\ crashes < MaxCrashes
         /\ \E w \in alive : alive' = alive \ {w}
         /\ crashes' = crashes + 1
         /\ UNCHANGED <<pc, held, failed, m_available_workers, m_num_workers, next_id>>
-----------------------------------------------------------------------------
\* A thread's next step inside a call; callers release what they hold.
Proceed(t) == \/ pc[t] # "idle" /\ (\/ GetWorker(t) \/ GetWorkerWaits(t)
                                    \/ CallAllWorkers(t) \/ CallAllWorkersWaits(t)
                                    \/ Destroy(t) \/ DestroyWaits(t))
              \/ FinishUse(t) \/ ReleaseWorker(t) \/ Notify(t)
              \/ FinishCalling(t) \/ Catch(t)

Next == \/ \E t \in Threads :
             \/ GetWorker(t) \/ GetWorkerWaits(t)
             \/ FinishUse(t) \/ ReleaseWorker(t) \/ Notify(t)
             \/ CallAllWorkers(t) \/ CallAllWorkersWaits(t)
             \/ FinishCalling(t) \/ Catch(t)
             \/ Destroy(t) \/ DestroyWaits(t)
             \/ SpuriousWakeup(t)
        \/ Crash

Spec == Init /\ [][Next]_vars

FairSpec == Spec /\ \A t \in Threads : WF_vars(Proceed(t))
-----------------------------------------------------------------------------
(* Properties                                                              *)

Places == {"idle", "get_wait", "get_woken", "using", "releasing", "notifying",
           "all_wait", "all_woken", "calling", "catching",
           "destroy_wait", "destroy_woken", "destroyed"}

\* TypeOK: types of worker_pool's fields; every worker in the pool or in use has
\* an id that get_next_id() has given out.
TypeOK ==
  /\ pc \in [Threads -> Places]
  /\ next_id \in Nat \ {0}
  /\ m_available_workers \subseteq 1 .. next_id - 1
  /\ held \in [Threads -> SUBSET (1 .. next_id - 1)]
  /\ alive \subseteq 1 .. next_id - 1
  /\ failed \subseteq Threads
  /\ m_num_workers \in Nat
  /\ crashes \in Nat

Pool == {w \in 1 .. next_id - 1 :
           w \in m_available_workers \/ \E t \in Threads : w \in held[t]}

\* EveryWorkerHasOneOwner: a worker is available or belongs to exactly one
\* thread, and m_num_workers counts them all, through crashes, replacements and
\* failed replacements in release_worker().
EveryWorkerHasOneOwner ==
  /\ Cardinality(Pool) = m_num_workers
  /\ \A t \in Threads : held[t] \cap m_available_workers = {}
  /\ \A t, u \in Threads : t # u => held[t] \cap held[u] = {}

\* CallSeesWholePool: while call_all_workers() runs its parallel_for without the
\* lock ("Because no workers is avaialable externally, we can safely release the
\* lock"), it holds all workers, so that m_num_workers, which it reads then, is
\* the number of workers it took and cannot change.
CallSeesWholePool ==
  \A t \in Threads :
    pc[t] = "calling" => held[t] = Pool /\ Cardinality(held[t]) = m_num_workers

\* NoStuckWaiter: as long as the pool has a worker, a thread that waits on the
\* condition variable is not alone: some thread is on its way that holds a
\* worker, will notify, or has been woken itself; so notify_one(), with getters
\* and callers of call_all_workers() on one variable, leaves nobody behind.
NoStuckWaiter ==
  (m_num_workers > 0 /\ \E t \in Threads : pc[t] \in Waiting) =>
    \E u \in Threads : pc[u] \notin Waiting \cup {"idle", "catching", "destroyed"}

InGetWorker(t) == pc[t] \in {"get_wait", "get_woken"}
InCallAll(t) == pc[t] \in {"all_wait", "all_woken"}
InDestructor(t) == pc[t] \in {"destroy_wait", "destroy_woken"}

\* No thread that is outside begins a call.
NobodyArrives == \A t \in Threads : pc[t] = "idle" => pc'[t] = "idle"

\* However calls arrive, as long as somebody waits for the pool, somebody gets a
\* worker, all of them, or to the end of the destructor, again and again, unless
\* the pool loses its last worker.
PoolKeepsServing ==
  (\E t \in Threads : InGetWorker(t) \/ InCallAll(t) \/ InDestructor(t)) ~>
    (m_num_workers = 0 \/ \E t \in Threads : pc[t] \in {"using", "calling", "destroyed"})

\* EveryCallIsServed: the pool keeps serving, and once no new calls arrive,
\* get_worker(), call_all_workers() and the destructor all stop waiting, unless
\* the pool loses its last worker: notify_one() may wake the wrong kind of
\* waiter, but each notification it wastes is followed by another one.  While
\* calls keep arriving one waiter may starve: an arriving get_worker() does not
\* queue behind it.
EveryCallIsServed ==
  /\ PoolKeepsServing
  /\ <>[][NobodyArrives]_vars =>
       \A t \in Threads :
         /\ InGetWorker(t) ~> (~ InGetWorker(t) \/ m_num_workers = 0)
         /\ InCallAll(t) ~> (~ InCallAll(t) \/ m_num_workers = 0)
         /\ InDestructor(t) ~> (~ InDestructor(t) \/ m_num_workers = 0)

\* EmptyPoolThrows: "Block until any worker is available. Throws error if
\* worker_pool has zero workers": a get_worker() that meets an empty pool ends.
EmptyPoolThrows ==
  \A t \in Threads : InGetWorker(t) /\ m_num_workers = 0 ~> ~ InGetWorker(t)
=============================================================================
