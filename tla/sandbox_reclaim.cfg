SPECIFICATION TrafficSpec
CONSTANTS
  r1 = r1
  r2 = r2
  d1 = d1
  Requests <- TwoRequests
  Known <- OneRequest
  Destroyers <- OneDestroyer
  MaxConcurrent = 2
  LifetimeCovers = TRUE
  FaultKinds <- StoreFaults
  MaxFaults = 2
INVARIANTS TypeOK QuietIsSettled
PROPERTIES LifecycleSpec TrafficReclaims
