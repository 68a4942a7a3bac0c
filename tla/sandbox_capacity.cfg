SPECIFICATION Spec
CONSTANTS
  r1 = r1
  r2 = r2
  d1 = d1
  Requests <- TwoRequests
  Known <- TwoRequests
  Destroyers <- OneDestroyer
  MaxConcurrent = 1
  LifetimeCovers = TRUE
  FaultKinds <- NoFaults
  MaxFaults = 0
INVARIANT CapacityIsCeiling
CHECK_DEADLOCK FALSE
