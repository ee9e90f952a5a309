-------------------------- MODULE WorkerPoolProofs --------------------------
(***************************************************************************)
(* The safety properties of WorkerPool for every set of threads, every     *)
(* pool size and any number of crashes.                                    *)
(***************************************************************************)
EXTENDS WorkerPool, FiniteSetTheorems, TLAPS

Active == {"using", "calling", "releasing", "notifying"}

\* Only a thread that uses, calls or releases holds workers.
HoldersActive == \A t \in Threads : held[t] # {} => pc[t] \in Active

\* The thread that runs call_all_workers() holds all workers.
CallerHoldsAll ==
  \A t \in Threads :
    pc[t] = "calling" =>
      m_available_workers = {} /\ \A u \in Threads : u # t => held[u] = {}

\* While a thread is in the destructor no other one waits for the pool.
DestroyerAlone ==
  \A t \in Threads :
    pc[t] \in {"destroy_wait", "destroy_woken", "destroyed"} =>
      /\ failed = {}
      /\ \A u \in Threads : u # t => pc[u] \in {"idle", "using", "releasing", "notifying"}

IndInv == /\ TypeOK
          /\ EveryWorkerHasOneOwner
          /\ HoldersActive
          /\ CallerHoldsAll
          /\ DestroyerAlone
          /\ NoStuckWaiter

-----------------------------------------------------------------------------
(* Counting the workers of the pool.                                       *)

LEMMA PoolIsFinite ==
  ASSUME TypeOK
  PROVE  /\ IsFiniteSet(Pool)
         /\ Cardinality(Pool) \in Nat
         /\ m_available_workers \subseteq Pool
         /\ \A t \in Threads : held[t] \subseteq Pool
<1>1. IsFiniteSet(1 .. next_id - 1)
  BY FS_Interval DEF TypeOK
<1>2. Pool \in SUBSET (1 .. next_id - 1)
  BY DEF Pool
<1>3. IsFiniteSet(Pool)
  BY <1>1, <1>2, FS_Subset
<1>4. QED
  BY <1>3, FS_CardinalityType DEF Pool, TypeOK

\* wait_for_all() returns only when every worker is available.
LEMMA AllAreAvailable ==
  ASSUME TypeOK, EveryWorkerHasOneOwner, wait_for_all_ends
  PROVE  /\ m_available_workers = Pool
         /\ \A t \in Threads : held[t] = {}
         /\ m_num_workers > 0
<1>1. /\ Cardinality(m_available_workers) <= Cardinality(Pool)
      /\ Cardinality(Pool) = Cardinality(m_available_workers) => Pool = m_available_workers
      /\ Cardinality(m_available_workers) \in Nat
  BY PoolIsFinite, FS_Subset, FS_CardinalityType
<1>2. m_available_workers = Pool
  BY <1>1, PoolIsFinite DEF wait_for_all_ends, EveryWorkerHasOneOwner
<1>3. \A t \in Threads : held[t] = {}
  BY <1>2, PoolIsFinite DEF EveryWorkerHasOneOwner
<1>4. m_num_workers > 0
  BY DEF wait_for_all_ends, TypeOK
<1>5. QED
  BY <1>2, <1>3, <1>4

\* A thread that has to wait, for one worker or for all, waits for a holder.
LEMMA SomeoneHolds ==
  ASSUME TypeOK, EveryWorkerHasOneOwner, m_num_workers > 0,
         ~ wait_for_one_ends \/ ~ wait_for_all_ends
  PROVE  \E u \in Threads : held[u] # {}
<1>1. SUFFICES ASSUME \A u \in Threads : held[u] = {}
               PROVE  FALSE
  OBVIOUS
<1>2. Pool = m_available_workers
  BY <1>1, PoolIsFinite DEF Pool
<1>3. Cardinality(m_available_workers) = m_num_workers
  BY <1>2 DEF EveryWorkerHasOneOwner
<1>4. m_available_workers # {}
  BY <1>3, FS_EmptySet
<1>5. QED
  BY <1>3, <1>4 DEF wait_for_one_ends, wait_for_all_ends, TypeOK

\* What ReleaseWorker does to the pool: the worker goes back, is replaced, or
\* is removed from the count.
LEMMA ReleaseCounts ==
  ASSUME TypeOK, EveryWorkerHasOneOwner, NEW t \in Threads, NEW w \in held[t],
         PutBack(t, w) \/ Replace(t, w) \/ Shrink(t, w),
         held' = [held EXCEPT ![t] = @ \ {w}]
  PROVE  /\ EveryWorkerHasOneOwner'
         /\ m_num_workers' \in Nat
         /\ m_num_workers' <= m_num_workers
         /\ next_id' \in Nat \ {0}
         /\ m_available_workers' \subseteq 1 .. next_id' - 1
         /\ held' \in [Threads -> SUBSET (1 .. next_id' - 1)]
         /\ alive' \subseteq 1 .. next_id' - 1
<1>1. /\ IsFiniteSet(Pool) /\ Cardinality(Pool) \in Nat
      /\ w \in Pool
  BY PoolIsFinite
<1>2. Cardinality(Pool \ {w}) = Cardinality(Pool) - 1 /\ IsFiniteSet(Pool \ {w})
  BY <1>1, FS_RemoveElement
<1>3. CASE PutBack(t, w)
  <2>1. Pool' = Pool
    BY <1>3 DEF PutBack, Pool, TypeOK
  <2>2. QED
    BY <1>3, <2>1 DEF PutBack, EveryWorkerHasOneOwner, TypeOK
<1>4. CASE Replace(t, w)
  <2>1. next_id \notin Pool
    BY DEF Pool, TypeOK
  <2>2. Pool' = (Pool \ {w}) \cup {next_id}
    <3>1. /\ m_available_workers' = m_available_workers \cup {next_id}
          /\ next_id' = next_id + 1
      BY <1>4 DEF Replace
    <3>2. ASSUME NEW v \in 1 .. next_id
          PROVE  v \in Pool' <=> v \in (Pool \ {w}) \cup {next_id}
      <4>1. v \in Pool' <=> \/ v \in m_available_workers \/ v = next_id
                           \/ \E u \in Threads : v \in held'[u]
        BY <3>1, <3>2 DEF Pool, TypeOK
      <4>2. (\E u \in Threads : v \in held'[u]) <=>
              (\E u \in Threads : v \in held[u]) /\ v # w
        BY DEF EveryWorkerHasOneOwner, TypeOK
      <4>3. w \notin m_available_workers
        BY DEF EveryWorkerHasOneOwner
      <4>4. CASE v = next_id
        BY <4>1, <4>4
      <4>5. CASE v # next_id
        <5>1. v \in Pool <=> v \in m_available_workers \/ \E u \in Threads : v \in held[u]
          BY <3>2, <4>5 DEF Pool, TypeOK
        <5>2. QED
          BY <4>1, <4>2, <4>3, <4>5, <5>1
      <4>6. QED
        BY <4>4, <4>5
    <3>3. Pool' \subseteq 1 .. next_id /\ (Pool \ {w}) \cup {next_id} \subseteq 1 .. next_id
      BY <3>1 DEF Pool, TypeOK
    <3>4. QED
      BY <3>2, <3>3
  <2>3. Cardinality(Pool') = Cardinality(Pool)
    <3>1. next_id \notin Pool \ {w}
      BY <2>1
    <3>2. Cardinality((Pool \ {w}) \cup {next_id}) = Cardinality(Pool \ {w}) + 1
      BY <1>2, <3>1, FS_AddElement
    <3>3. QED
      BY <1>1, <1>2, <2>2, <3>2
  <2>4. QED
    BY <1>4, <2>3 DEF Replace, EveryWorkerHasOneOwner, TypeOK
<1>5. CASE Shrink(t, w)
  <2>1. Pool' = Pool \ {w}
    BY <1>5 DEF Shrink, Pool, TypeOK, EveryWorkerHasOneOwner
  <2>2. m_num_workers - 1 \in Nat
    BY <1>1, <1>2, FS_CardinalityType DEF EveryWorkerHasOneOwner
  <2>3. QED
    BY <1>2, <1>5, <2>1, <2>2 DEF Shrink, EveryWorkerHasOneOwner, TypeOK
<1>6. QED
  BY <1>3, <1>4, <1>5
-----------------------------------------------------------------------------
LEMMA InitIndInv == Init => IndInv
<1> SUFFICES ASSUME Init
             PROVE  IndInv
  OBVIOUS
<1>1. PICK started \in 1 .. InitialWorkers :
        /\ m_available_workers = 1 .. started
        /\ m_num_workers = started
        /\ alive = 1 .. started
        /\ next_id = started + 1
        /\ pc = [t \in Threads |-> "idle"]
        /\ held = [t \in Threads |-> {}]
        /\ failed = {}
        /\ crashes = 0
  BY DEF Init
<1>2. TypeOK
  BY <1>1, WorkerPoolAssumption DEF TypeOK, Places
<1>3. Pool = 1 .. started
  BY <1>1 DEF Pool
<1>4. EveryWorkerHasOneOwner
  BY <1>1, <1>3, FS_Interval, WorkerPoolAssumption DEF EveryWorkerHasOneOwner
<1>5. HoldersActive /\ CallerHoldsAll /\ DestroyerAlone /\ NoStuckWaiter
  BY <1>1 DEF HoldersActive, CallerHoldsAll, DestroyerAlone, NoStuckWaiter, Waiting
<1>6. QED
  BY <1>2, <1>4, <1>5 DEF IndInv

\* A step that leaves the workers where they are keeps their ownership.
LEMMA SamePool ==
  ASSUME EveryWorkerHasOneOwner, UNCHANGED <<held, m_available_workers, m_num_workers, next_id>>
  PROVE  EveryWorkerHasOneOwner'
BY DEF EveryWorkerHasOneOwner, Pool

LEMMA GetWorkerIndInv ==
  ASSUME IndInv, NEW t \in Threads, GetWorker(t) \/ GetWorkerWaits(t)
  PROVE  IndInv'
<1> USE DEF IndInv
<1>1. CASE GetWorker(t)
  <2>1. PICK w \in m_available_workers :
          /\ m_available_workers' = m_available_workers \ {w}
          /\ held' = [held EXCEPT ![t] = {w}]
    BY <1>1 DEF GetWorker
  <2>2. held[t] = {}
    BY <1>1 DEF GetWorker, MayCall, HoldersActive, Active
  <2>3. TypeOK'
    BY <1>1, <2>1 DEF GetWorker, TypeOK, Places
  <2>4. Pool' = Pool
    BY <1>1, <2>1, <2>2 DEF GetWorker, Pool, TypeOK
  <2>5. EveryWorkerHasOneOwner'
    BY <1>1, <2>1, <2>2, <2>4 DEF GetWorker, EveryWorkerHasOneOwner, TypeOK
  <2>6. HoldersActive' /\ CallerHoldsAll'
    BY <1>1, <2>1 DEF GetWorker, HoldersActive, CallerHoldsAll, Active, TypeOK
  <2>7. DestroyerAlone'
    BY <1>1 DEF GetWorker, MayCall, DestroyerAlone, Destroyed, TypeOK
  <2>8. NoStuckWaiter'
    BY <1>1 DEF GetWorker, NoStuckWaiter, Waiting, TypeOK
  <2>9. QED
    BY <2>3, <2>5, <2>6, <2>7, <2>8
<1>2. CASE GetWorkerWaits(t)
  <2>1. TypeOK'
    BY <1>2 DEF GetWorkerWaits, poolVars, TypeOK, Places
  <2>2. EveryWorkerHasOneOwner'
    BY <1>2, SamePool DEF GetWorkerWaits, poolVars
  <2>3. HoldersActive' /\ CallerHoldsAll'
    BY <1>2 DEF GetWorkerWaits, MayCall, poolVars, HoldersActive, CallerHoldsAll, Active, TypeOK
  <2>4. DestroyerAlone'
    BY <1>2 DEF GetWorkerWaits, MayCall, DestroyerAlone, Destroyed, TypeOK
  <2>5. NoStuckWaiter'
    <3>1. SUFFICES ASSUME m_num_workers > 0
                   PROVE  NoStuckWaiter'
      BY <1>2 DEF GetWorkerWaits, poolVars, NoStuckWaiter
    <3>2. PICK u \in Threads : held[u] # {}
      BY <1>2, <3>1, SomeoneHolds DEF GetWorkerWaits
    <3>3. u # t /\ pc[u] \in Active
      BY <1>2, <3>2 DEF GetWorkerWaits, MayCall, HoldersActive, Active
    <3>4. pc'[u] \in Active
      BY <1>2, <3>3 DEF GetWorkerWaits, TypeOK
    <3>5. QED
      BY <3>4 DEF NoStuckWaiter, Active, Waiting
  <2>6. QED
    BY <2>1, <2>2, <2>3, <2>4, <2>5
<1>3. QED
  BY <1>1, <1>2

LEMMA CallAllIndInv ==
  ASSUME IndInv, NEW t \in Threads, CallAllWorkers(t) \/ CallAllWorkersWaits(t)
  PROVE  IndInv'
<1> USE DEF IndInv
<1>1. CASE CallAllWorkers(t)
  <2>1. /\ \A u \in Threads : held[u] = {}
    BY <1>1, AllAreAvailable DEF CallAllWorkers
  <2>2. TypeOK'
    BY <1>1 DEF CallAllWorkers, TypeOK, Places
  <2>3. Pool' = Pool
    BY <1>1, <2>1 DEF CallAllWorkers, Pool, TypeOK
  <2>4. EveryWorkerHasOneOwner'
    BY <1>1, <2>1, <2>3 DEF CallAllWorkers, EveryWorkerHasOneOwner, TypeOK
  <2>5. HoldersActive' /\ CallerHoldsAll'
    <3>1. \A u \in Threads : pc[u] # "calling"
      <4>1. m_available_workers # {}
        BY <1>1, FS_EmptySet, AllAreAvailable
           DEF CallAllWorkers, wait_for_all_ends, EveryWorkerHasOneOwner
      <4>2. QED
        BY <4>1 DEF CallerHoldsAll
    <3>2. QED
      BY <1>1, <2>1, <3>1 DEF CallAllWorkers, HoldersActive, CallerHoldsAll, Active, TypeOK
  <2>6. DestroyerAlone'
    BY <1>1 DEF CallAllWorkers, MayCall, DestroyerAlone, Destroyed, TypeOK
  <2>7. NoStuckWaiter'
    BY <1>1 DEF CallAllWorkers, NoStuckWaiter, Waiting, TypeOK
  <2>8. QED
    BY <2>2, <2>4, <2>5, <2>6, <2>7
<1>2. CASE CallAllWorkersWaits(t)
  <2>1. TypeOK'
    BY <1>2 DEF CallAllWorkersWaits, poolVars, TypeOK, Places
  <2>2. EveryWorkerHasOneOwner'
    BY <1>2, SamePool DEF CallAllWorkersWaits, poolVars
  <2>3. HoldersActive' /\ CallerHoldsAll'
    BY <1>2 DEF CallAllWorkersWaits, MayCall, poolVars, HoldersActive, CallerHoldsAll,
                Active, TypeOK
  <2>4. DestroyerAlone'
    BY <1>2 DEF CallAllWorkersWaits, MayCall, DestroyerAlone, Destroyed, TypeOK
  <2>5. NoStuckWaiter'
    <3>1. SUFFICES ASSUME m_num_workers > 0
                   PROVE  NoStuckWaiter'
      BY <1>2 DEF CallAllWorkersWaits, poolVars, NoStuckWaiter
    <3>2. PICK u \in Threads : held[u] # {}
      BY <1>2, <3>1, SomeoneHolds DEF CallAllWorkersWaits
    <3>3. u # t /\ pc[u] \in Active
      BY <1>2, <3>2 DEF CallAllWorkersWaits, MayCall, HoldersActive, Active
    <3>4. pc'[u] \in Active
      BY <1>2, <3>3 DEF CallAllWorkersWaits, TypeOK
    <3>5. QED
      BY <3>4 DEF NoStuckWaiter, Active, Waiting
  <2>6. QED
    BY <2>1, <2>2, <2>3, <2>4, <2>5
<1>3. QED
  BY <1>1, <1>2

LEMMA ReleaseIndInv ==
  ASSUME IndInv, NEW t \in Threads, ReleaseWorker(t)
  PROVE  IndInv'
<1> USE DEF IndInv
<1>1. PICK w \in held[t] :
        /\ PutBack(t, w) \/ Replace(t, w) \/ Shrink(t, w)
        /\ held' = [held EXCEPT ![t] = @ \ {w}]
  BY DEF ReleaseWorker
<1>2. /\ EveryWorkerHasOneOwner'
      /\ m_num_workers' \in Nat
      /\ m_num_workers' <= m_num_workers
      /\ next_id' \in Nat \ {0}
      /\ m_available_workers' \subseteq 1 .. next_id' - 1
      /\ held' \in [Threads -> SUBSET (1 .. next_id' - 1)]
      /\ alive' \subseteq 1 .. next_id' - 1
  BY <1>1, ReleaseCounts
<1>3. TypeOK'
  BY <1>2 DEF ReleaseWorker, TypeOK, Places
<1>4. HoldersActive'
  BY <1>1 DEF ReleaseWorker, HoldersActive, Active, TypeOK
<1>5. CallerHoldsAll'
  BY <1>1 DEF ReleaseWorker, CallerHoldsAll, TypeOK
<1>6. DestroyerAlone'
  BY DEF ReleaseWorker, DestroyerAlone, TypeOK
<1>7. NoStuckWaiter'
  BY DEF ReleaseWorker, NoStuckWaiter, Waiting, TypeOK
<1>8. QED
  BY <1>2, <1>3, <1>4, <1>5, <1>6, <1>7

LEMMA NotifyIndInv ==
  ASSUME IndInv, NEW t \in Threads, Notify(t)
  PROVE  IndInv'
<1> USE DEF IndInv
<1>1. EveryWorkerHasOneOwner'
  BY SamePool DEF Notify, poolVars
<1>2. CASE /\ \A u \in Threads : pc[u] \notin Waiting
           /\ pc' = [pc EXCEPT ![t] = AfterNotify(t)]
  <2>1. TypeOK'
    BY <1>2 DEF Notify, AfterNotify, poolVars, TypeOK, Places
  <2>2. HoldersActive' /\ CallerHoldsAll'
    BY <1>2 DEF Notify, AfterNotify, poolVars, HoldersActive, CallerHoldsAll, Active, TypeOK
  <2>3. DestroyerAlone'
    BY <1>2 DEF Notify, AfterNotify, DestroyerAlone, TypeOK
  <2>4. NoStuckWaiter'
    BY <1>2 DEF Notify, AfterNotify, NoStuckWaiter, Waiting, TypeOK
  <2>5. QED
    BY <1>1, <2>1, <2>2, <2>3, <2>4
<1>3. CASE \E u \in Threads :
             /\ pc[u] \in Waiting
             /\ pc' = [pc EXCEPT ![t] = AfterNotify(t), ![u] = Woken(pc[u])]
  <2>1. PICK u \in Threads :
          /\ pc[u] \in Waiting
          /\ pc' = [pc EXCEPT ![t] = AfterNotify(t), ![u] = Woken(pc[u])]
    BY <1>3
  <2>2. u # t /\ pc[t] = "notifying"
    BY <2>1 DEF Notify, Waiting
  <2>3. /\ pc'[t] = AfterNotify(t)
        /\ pc'[u] = Woken(pc[u])
        /\ \A v \in Threads \ {t, u} : pc'[v] = pc[v]
    BY <2>1, <2>2 DEF TypeOK
  <2>4. /\ AfterNotify(t) \in {"releasing", "catching", "idle"}
        /\ Woken(pc[u]) \in {"get_woken", "all_woken", "destroy_woken"}
        /\ Woken(pc[u]) = "destroy_woken" => pc[u] = "destroy_wait"
    BY <2>1 DEF AfterNotify, Woken, Waiting
  <2>5. TypeOK'
    <3>1. AfterNotify(t) \in Places /\ Woken(pc[u]) \in Places
      BY <2>4 DEF Places
    <3>2. pc' \in [Threads -> Places]
      BY <2>1, <3>1 DEF TypeOK
    <3>3. QED
      BY <3>2 DEF Notify, poolVars, TypeOK
  <2>6. HoldersActive' /\ CallerHoldsAll'
    <3>1. \A v \in Threads : pc'[v] = "calling" => pc[v] = "calling"
      BY <2>2, <2>3, <2>4
    <3>2. held[u] = {}
      BY <2>1 DEF HoldersActive, Active, Waiting
    <3>3. held[t] # {} => pc'[t] = "releasing"
      BY <2>3 DEF AfterNotify
    <3>4. HoldersActive'
      BY <2>3, <3>2, <3>3 DEF Notify, HoldersActive, Active
    <3>5. CallerHoldsAll'
      BY <3>1 DEF Notify, poolVars, CallerHoldsAll
    <3>6. QED
      BY <3>4, <3>5
  <2>7. DestroyerAlone'
    <3>1. \A v \in Threads :
            pc'[v] \in {"destroy_wait", "destroy_woken", "destroyed"} =>
              /\ pc[v] \in {"destroy_wait", "destroy_woken", "destroyed"}
              /\ v # t
      BY <2>2, <2>3, <2>4
    <3>2. \A v \in Threads :
            pc[v] \in {"destroy_wait", "destroy_woken", "destroyed"} =>
              v = u /\ AfterNotify(t) \in {"releasing", "idle"}
      BY <2>1 DEF DestroyerAlone, AfterNotify, Waiting
    <3>3. QED
      BY <2>2, <2>3, <3>1, <3>2 DEF Notify, DestroyerAlone
  <2>8. NoStuckWaiter'
    BY <2>3, <2>4 DEF NoStuckWaiter, Waiting
  <2>9. QED
    BY <1>1, <2>5, <2>6, <2>7, <2>8
<1>4. QED
  BY <1>2, <1>3 DEF Notify

LEMMA DestroyIndInv ==
  ASSUME IndInv, NEW t \in Threads, Destroy(t) \/ DestroyWaits(t)
  PROVE  IndInv'
<1> USE DEF IndInv
<1>1. EveryWorkerHasOneOwner'
  BY SamePool DEF Destroy, DestroyWaits, poolVars
<1>2. TypeOK'
  BY DEF Destroy, DestroyWaits, poolVars, TypeOK, Places
<1>3. HoldersActive' /\ CallerHoldsAll'
  BY DEF Destroy, DestroyWaits, MayDestroy, poolVars, HoldersActive, CallerHoldsAll,
         Active, TypeOK
<1>4. /\ failed = {}
      /\ \A u \in Threads : u # t => pc[u] \in {"idle", "using", "releasing", "notifying"}
  BY DEF Destroy, DestroyWaits, MayDestroy, DestroyerAlone, TypeOK
<1>5. /\ failed' = {}
      /\ pc'[t] \in {"destroy_wait", "destroyed"}
      /\ \A u \in Threads : u # t => pc'[u] = pc[u]
  BY <1>4 DEF Destroy, DestroyWaits, TypeOK
<1>6. DestroyerAlone'
  BY <1>4, <1>5 DEF DestroyerAlone
<1>7. NoStuckWaiter'
  <2>1. CASE Destroy(t)
    BY <2>1, <1>4 DEF Destroy, NoStuckWaiter, Waiting, TypeOK
  <2>2. CASE DestroyWaits(t)
    <3>1. SUFFICES ASSUME m_num_workers > 0
                   PROVE  NoStuckWaiter'
      BY <2>2 DEF DestroyWaits, poolVars, NoStuckWaiter
    <3>2. PICK u \in Threads : held[u] # {}
      BY <2>2, <3>1, SomeoneHolds DEF DestroyWaits
    <3>3. u # t /\ pc[u] \in Active
      BY <2>2, <3>2 DEF DestroyWaits, MayDestroy, HoldersActive, Active
    <3>4. QED
      BY <1>5, <3>3 DEF NoStuckWaiter, Active, Waiting
  <2>3. QED
    BY <2>1, <2>2
<1>8. QED
  BY <1>1, <1>2, <1>3, <1>6, <1>7

\* The steps that neither take nor return a worker nor wake anybody else.
LEMMA LocalIndInv ==
  ASSUME IndInv, NEW t \in Threads,
         FinishUse(t) \/ FinishCalling(t) \/ Catch(t) \/ SpuriousWakeup(t)
  PROVE  IndInv'
<1> USE DEF IndInv
<1>1. EveryWorkerHasOneOwner'
  BY SamePool DEF FinishUse, FinishCalling, Catch, SpuriousWakeup, poolVars
<1>2. TypeOK'
  BY DEF FinishUse, FinishCalling, Catch, SpuriousWakeup, Woken, Waiting, poolVars,
         TypeOK, Places
<1>3. HoldersActive' /\ CallerHoldsAll'
  BY DEF FinishUse, FinishCalling, Catch, SpuriousWakeup, Woken, Waiting, poolVars,
         HoldersActive, CallerHoldsAll, Active, TypeOK
<1>4. DestroyerAlone'
  BY DEF FinishUse, FinishCalling, Catch, SpuriousWakeup, Woken, Waiting,
         DestroyerAlone, TypeOK
<1>5. NoStuckWaiter'
  BY DEF FinishUse, FinishCalling, Catch, SpuriousWakeup, Woken, Waiting, poolVars,
         NoStuckWaiter, TypeOK
<1>6. QED
  BY <1>1, <1>2, <1>3, <1>4, <1>5

LEMMA NextIndInv == IndInv /\ [Next]_vars => IndInv'
<1> SUFFICES ASSUME IndInv, [Next]_vars
             PROVE  IndInv'
  OBVIOUS
<1>1. CASE Crash
  BY <1>1, SamePool
     DEF Crash, IndInv, TypeOK, HoldersActive, CallerHoldsAll, DestroyerAlone, NoStuckWaiter
<1>2. CASE UNCHANGED vars
  BY <1>2, SamePool
     DEF vars, IndInv, TypeOK, HoldersActive, CallerHoldsAll, DestroyerAlone, NoStuckWaiter
<1>3. QED
  BY <1>1, <1>2, GetWorkerIndInv, CallAllIndInv, ReleaseIndInv, NotifyIndInv,
     DestroyIndInv, LocalIndInv DEF Next

-----------------------------------------------------------------------------
(* The theorems.                                                           *)

\* The inductive invariant holds in every reachable state.
THEOREM Invariance == Spec => []IndInv
BY InitIndInv, NextIndInv, PTL DEF Spec

\* The fields of worker_pool keep their types.
THEOREM TypeCorrect == Spec => []TypeOK
<1>1. IndInv => TypeOK
  BY DEF IndInv
<1>2. QED
  BY <1>1, Invariance, PTL

\* Every worker is available or held by exactly one thread, and m_num_workers is
\* their number, whatever crashes and replacements happen in release_worker().
THEOREM WorkersAreConserved == Spec => []EveryWorkerHasOneOwner
<1>1. IndInv => EveryWorkerHasOneOwner
  BY DEF IndInv
<1>2. QED
  BY <1>1, Invariance, PTL

\* call_all_workers() may read m_num_workers without the lock: it holds the
\* whole pool while it does.
THEOREM CallHasWholePool == Spec => []CallSeesWholePool
<1>1. ASSUME IndInv
      PROVE  CallSeesWholePool
  <2>1. SUFFICES ASSUME NEW t \in Threads, pc[t] = "calling"
                 PROVE  held[t] = Pool
    BY <1>1 DEF IndInv, CallSeesWholePool, EveryWorkerHasOneOwner
  <2>2. QED
    BY <1>1, <2>1, PoolIsFinite DEF IndInv, CallerHoldsAll, Pool
<1>2. QED
  BY <1>1, Invariance, PTL

\* A pool with a worker never leaves all its users waiting.
THEOREM NobodyStuck == Spec => []NoStuckWaiter
<1>1. IndInv => NoStuckWaiter
  BY DEF IndInv
<1>2. QED
  BY <1>1, Invariance, PTL
=============================================================================
