\* get_worker() on a pool that has lost its last worker.
CONSTANTS
  Threads = {t1, t2, t3}
  InitialWorkers = 2
  MaxCrashes = 1
SPECIFICATION FairSpec
CHECK_DEADLOCK FALSE
PROPERTIES
  EmptyPoolThrows
