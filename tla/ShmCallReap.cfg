\* Another worker is started while this one dies.
CONSTANTS
  BufferSize = 3
  Lengths = {1, 3, 6}
  MaxCalls = 2
  MaxSpawns = 1
SPECIFICATION FairSpec
CHECK_DEADLOCK FALSE
PROPERTIES
  DeadWorkerIsReaped
