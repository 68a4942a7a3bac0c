SPECIFICATION Spec
CONSTANTS
  s1 = s1
  Patches = {p1}
  Pipelines = {s1}
  Clients = {c1}
  p1 = p1
  c1 = c1
  ScanOf <- MCScanOf
  FaultKinds = {"store"}
  MaxFaults = 0
INVARIANTS RerunIsAdmitted
