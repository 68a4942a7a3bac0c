SPECIFICATION Spec
CONSTANTS
  s1 = s1
  s2 = s2
  c1 = c1
  c2 = c2
  Scans <- TwoScans
  Clients <- OneClient
  RingPerScan = 2
  MaxScans = 1
  MaxLastId = 9
  MaxEvents = 2
  MaxTime = 1
PROPERTY LastIdGrows
CHECK_DEADLOCK FALSE
