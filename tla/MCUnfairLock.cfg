\* Four contenders; epochs of two unlocks and intervals 0 .. 5.
CONSTANTS
  Threads = {1, 2, 3, 4}
  LOCKS_PER_EPOCH = 2
  DELTA = 1
  INITIAL_INTERVAL = 2
  MAX_INTERVAL = 4
SPECIFICATION FairSpec
INVARIANTS
  TypeOK
  NeverBlocksInside
  LowestFirst
  NoLostWakeup
PROPERTIES
  IntervalKeepsMoving
  LockKeepsBeingGranted
  LowestIsServed
