CONSTANTS
  Patches <- MCPatches
  Reports <- MCReports
  NoHits = NoHits
SPECIFICATION LinesSpec
INVARIANT EveryFileCounts
CHECK_DEADLOCK FALSE
