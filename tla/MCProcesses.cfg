SPECIFICATION MCFairSpec
CONSTANTS
  Procs = {p1, p2}
  Jobs = {j1, j2, j3}
  NoJob = NoJob
  MaxOpen = 2
  Exiter = p1
  ATEXIT_MAX = 2
  MaxRegs = 3
  MaxDepth = 2
  NFiles = 3
  NMlib = 1
  CookieFiles = {1, 3}
  FewRegs = 1
CHECK_DEADLOCK FALSE
INVARIANTS
  PopenSafe
  ExitSafe
PROPERTIES
  ProcessesEnd
