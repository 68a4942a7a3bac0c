SPECIFICATION FrontendSpec
CONSTANTS
  s1 = s1
  s2 = s2
  c1 = c1
  c2 = c2
  Scans <- TwoScans
  Clients <- TwoClients
  RingPerScan = 2
  MaxScans = 1
  MaxLastId = 2
  MaxEvents = 2
  MaxTime = 1
  ScanIds = {"new", "old"}
  OldScans = {"old"}
  MaxVisits = 2
  MaxFetches = 1
  Demos = {"askbit", "webgoat"}
  RealScan = "real"
  FindingsIn <- MCFindingsIn
  PlannedIn <- MCPlannedIn
  ExploitedIn <- MCPatchedIn
  PatchedIn <- MCPatchedIn
  MarkedIn <- MCMarkedIn
  Scenarios = {"full_approved", "critic_rejected", "baseline_failed"}
  Speeds = {10, 100, 1000}
  MaxStarts = 3
INVARIANTS FrontendTypeOK BusIsExact ViewIsFaithful ShownAtRest ReplayHolds
SYMMETRY Symmetry
CHECK_DEADLOCK FALSE
