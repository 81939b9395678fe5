CONSTANTS
  Patches <- MCPatches
  Reports <- MCReports
  NoHits = NoHits
SPECIFICATION LinesSpec
INVARIANTS LinesFound TotalOfCode
CHECK_DEADLOCK FALSE
