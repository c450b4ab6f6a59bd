SPECIFICATION MCSpec
CONSTANTS
  Procs = {p1, p2, p3}
  Self = Self
  Keys = {k1, k2, k3}
  WithDtor = {k1, k2}
  MaxRounds = 4
  NoKey = NoKey
  Callers = {s1, s2}
  Caller = s1
  Handlers = {h1, h2}
  MaxPumps = 3
CHECK_DEADLOCK FALSE
INVARIANT
  TableMatchesPump
