CONSTANTS
  N = 3
  D = 2
  Times <- MCTimes
  NoTime = NoTime
  Limits = {2, NoTime}
  NoBackdoor = NoBackdoor
SPECIFICATION BaselineSpec
INVARIANT SecondsToFirst
CHECK_DEADLOCK FALSE
