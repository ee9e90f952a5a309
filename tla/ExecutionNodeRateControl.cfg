SPECIFICATION Spec
CONSTANTS
  Plans <- RateControlPlans
  NumRows = 6
  BlockSize = 2
  MaxFailures = 0
  CanCancel = FALSE
  MaxResets = 0
INVARIANTS
  OutputIsRight
CHECK_DEADLOCK FALSE
