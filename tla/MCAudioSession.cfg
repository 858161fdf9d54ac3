CONSTANTS
  Pid = {p1, p2}
  Stream = {s1}
  MaxCbIdNum = 2
  MaxCalls = 6
  MaxCallbacks = 2
SPECIFICATION Spec
INVARIANTS
  KnownTimersWatchEmptySessions
PROPERTIES
  OnlyRemoveFromMonitorMapOrphans
  OnlyStaleIdsRob
  EmptySessionsEnd
CHECK_DEADLOCK FALSE
