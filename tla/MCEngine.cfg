SPECIFICATION FairESpec
CONSTANTS
  Caller = {manager, trigger}
  Manager = manager
  Trigger = trigger
  Device = {d1, d2}
INVARIANTS
  StoppedMeansStopped
  QuietUnlessDropped
  ThreadKeepsItsWord
PROPERTIES
  RemovedStreamIsUnused
  EngineCallReturns
\* A torn playbackThread_ has no defined next step.
CHECK_DEADLOCK FALSE
