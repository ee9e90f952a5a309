\* Five rows in blocks of two; two failures, a cancellation and a reset.
SPECIFICATION Spec
CONSTANTS
  Plans <- SameRatePlans
  NumRows = 5
  BlockSize = 2
  MaxFailures = 2
  CanCancel = TRUE
  MaxResets = 1
INVARIANTS
  TypeOK
  OutputIsRight
  NullMeansEnd
  ConsumersInStep
  NoSilentTruncation
  RootCauseIsReported
PROPERTIES
  Terminates
CHECK_DEADLOCK FALSE
