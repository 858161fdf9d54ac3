SPECIFICATION FairSpec
CONSTANTS
  Sender = {c1, c2}
  Session = {s1, s2}
  MaxRequests = 2
INVARIANTS
  NoSleepOverWork
  StateFollowsRequests
  EveryWaitIsTimed
  OnlyTruncationOversleeps
PROPERTIES
  RequestsAreServed
  DeInitReturns
CHECK_DEADLOCK FALSE
