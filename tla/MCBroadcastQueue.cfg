\* Three consumers on the cache limit execution_node uses.
CONSTANTS
  Consumers = {c1, c2, c3}
  CacheLimit = 2
  MaxPushed = 9
SPECIFICATION Spec
CHECK_DEADLOCK FALSE
INVARIANTS
  TypeOK
  OpenFileHasReaderBehind
  NothingLostOrRepeated
  WithinLimits
  EveryFileHasOneUse
PROPERTIES
  ReadFilesAreFinal
  ImplementsBroadcast
