CONSTANTS
  Ips = {i1, i2}
  Pids = {p1, p2}
  Limits <- MCLimits
  Defaults <- MCDefaults
  FileKinds = {"good", "missing"}
  MaxEdits = 1
  None = None
SPECIFICATION Spec
INVARIANTS NoBug CountsExact LimitsRespected ReloadNotLost
PROPERTY ZombiesReaped
CHECK_DEADLOCK FALSE
