SPECIFICATION ObservedSpec
CONSTANTS
  None = None
  Pids = {p1, p2, p3}
  Observed = p1
  ErrorsPile = FALSE
INVARIANTS
  TypeOK
  OneNamedDaemon
  KillLeavesNone
PROPERTIES
  StartsSettle
CHECK_DEADLOCK FALSE
