CHECK_DEADLOCK FALSE
SPECIFICATION BreakerFairSpec
CONSTANTS
  Caller = {c1, c2}
  Operator = {}
  FailureThreshold = 1
  SuccessThreshold = 1
  HalfOpenMax = 1
  MayCancel = FALSE
  MaxFailures = 1
PROPERTIES
  OpenIsLeft
