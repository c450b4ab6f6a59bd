SPECIFICATION MCSpec
CONSTANTS
  Procs = {p1, p2}
  Jobs = {j1, j2, j3}
  NoJob = NoJob
  MaxOpen = 2
  Exiter = p1
  ATEXIT_MAX = 2
  MaxRegs = 1
  MaxDepth = 1
  NFiles = 0
  NMlib = 0
  CookieFiles = {}
  FewRegs = 1
CHECK_DEADLOCK FALSE
INVARIANT
  EofFollowsClose
