SPECIFICATION Spec
CONSTANTS
  Streams = {s1, s2}
  Worker = worker
  MaxCalls = 3
  MaxFailures = 1
INVARIANTS
  RunningIsHeard
PROPERTIES
  SilentDeviceStops
\* When the applications have made their calls nothing more happens.
CHECK_DEADLOCK FALSE
