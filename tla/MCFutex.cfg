SPECIFICATION FairSpec
CONSTANTS
  Waiter = {w1}
  Waker = {k1, k2}
  WaitTryCount = 3
  MaxWake = 3
INVARIANTS
  NoLostWakeup
  PreExitReachesAll
PROPERTIES
  SleeperReturns
