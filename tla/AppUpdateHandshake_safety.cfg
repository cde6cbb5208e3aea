CONSTANTS
  r1 = r1
  r2 = r2
  r3 = r3
  None = None
  Requests = {r1, r2, r3}
  MaxReboots = 2
  MaxAborts = 1
  MaxKills = 1
SPECIFICATION Spec
CHECK_DEADLOCK FALSE
INVARIANTS ReportsOwnResult NothingLeftBehind
PROPERTIES InstallerEnds CallsOnce
