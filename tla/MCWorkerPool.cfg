\* Three threads on two workers, of which two may die.
CONSTANTS
  Threads = {t1, t2, t3}
  InitialWorkers = 2
  MaxCrashes = 2
SPECIFICATION FairSpec
CHECK_DEADLOCK FALSE
INVARIANTS
  TypeOK
  EveryWorkerHasOneOwner
  CallSeesWholePool
  NoStuckWaiter
PROPERTIES
  EveryCallIsServed
