SPECIFICATION MCFairSpec
CONSTANTS
  Procs = {p1, p2}
  NoOwner = NoOwner
  MaxDepth = 1
  MaxValue = 1
  MaxPosts = 2
  MaxReads = 1
  Files = {f1, f2}
  Region = {"write", "flush"}
CHECK_DEADLOCK FALSE
PROPERTIES
  LockReturns
  WaitReturns
  SemaphoreReturns
  RWLockAndOnceGetIn
  FlushAndCloseReturn
