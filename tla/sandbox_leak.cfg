SPECIFICATION Spec
CONSTANTS
  r1 = r1
  r2 = r2
  d1 = d1
  Requests <- TwoRequests
  Known <- TwoRequests
  Destroyers <- OneDestroyer
  MaxConcurrent = 2
  LifetimeCovers = TRUE
  FaultKinds <- CrashFaults
  MaxFaults = 1
INVARIANT DestroyedLeavesNothing
CHECK_DEADLOCK FALSE
