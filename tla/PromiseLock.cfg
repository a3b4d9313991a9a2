SPECIFICATION LockFairSpec
CONSTANTS
  Keys = {k1, k2}
  Jobs = {j1, j2, j3, j4}
  None = None
INVARIANTS
  LockTypeOK
  ChainReachesEveryJob
PROPERTIES
  ImplementsFifoLock
CHECK_DEADLOCK FALSE
