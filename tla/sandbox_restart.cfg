SPECIFICATION Spec
CONSTANTS
  r1 = r1
  r2 = r2
  d1 = d1
  Requests <- TwoRequests
  Known <- TwoRequests
  Destroyers <- OneDestroyer
  MaxConcurrent = 2
  LifetimeCovers = FALSE
  FaultKinds <- CrashFaults
  MaxFaults = 1
INVARIANTS SlotsHeldByLive OverIsClean
CHECK_DEADLOCK FALSE
