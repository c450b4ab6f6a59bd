SPECIFICATION MCSpec
CONSTANTS
  Procs = {p1, p2, p3}
  NoOwner = NoOwner
  MaxDepth = 2
  MaxValue = 2
  MaxPosts = 4
  MaxReads = 2
  Files = {f1, f2}
  Region = {"write", "flush"}
SYMMETRY Symmetry
CHECK_DEADLOCK FALSE
INVARIANTS
  MutexSafe
  CondSafe
  RWLockSafe
  OnceSafe
  FileLocksSafe
PROPERTIES
  SemaphoreSafe
