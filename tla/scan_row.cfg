SPECIFICATION FairSpec
CONSTANTS
  Scans = {s1}
  Vulns = {v1}
  MaxFaults = 0
PROPERTIES RowMoves
CHECK_DEADLOCK FALSE
