SPECIFICATION MCSpec
CONSTANTS
  Parts = {"files"}
  Procs = {p1, p2}
  Carriers = {c1}
  GenMod = 4
  MaxObj = 3
  Getters = {g1, g2}
  Mutators = {g1}
  Names = {n1, n2}
  EnvValues = {v1, v2}
  Unset = Unset
  MaxBufs = 2
  MaxSnaps = 2
  MallocFails = FALSE
  Elements = {e1, e2, e3, e4, e5}
  NilElement = Nil
  TreeKeys = {1, 2, 3, 4, 5, 6}
  NoKey = 0
  MAXH = 4
  TableKeys = {1, 2, 3, 4, 5, 6, 7}
  Values = {1, 2}
  NoValue = 0
  MINSIZE = 8
  MAXSLOTS = 16
  Threads = {t1, t2}
  Addresses = {a1, a2, a3}
  FewAddresses = {a1, a2}
  NoAddress = NoAddress
  MaxSize = 2
  Users = {u1, u2, u3}
  Engines = {x1, x2, x3}
  Clients = {i1, i2}
  Files = {f1, f2}
  OneFile = f1
  Locks = {l1, l2}
  None = None
CHECK_DEADLOCK FALSE
INVARIANT
  KeepsItsLock
