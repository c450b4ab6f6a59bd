SPECIFICATION MCSpec
CONSTANTS
  Parts = {"fds", "dirs", "files"}
  Procs = {p1, p2}
  Nodes = {tty, hostfile, g}
  Terminal = tty
  HostNode = hostfile
  MaxFd = 5
  FileMaxFd = 5
  Closed = Closed
  Lost = {0}
  Swapped = {1}
  Redirected = {0, 1}
  Carriers = {r, m}
  Managed = {m}
  Readers = {r}
  Dirs = {d1, d2}
  Full = d1
  Names = {a, b}
  OneName = a
  Gone = Gone
  Plain = Plain
  DirMaxFd = 4
  Batch = 2
  MaxChanges = 1
  AllocFails = {"opendir", "fdopendir"}
  StdinLost = TRUE
  Blocks = {x, y, z}
  NoFile = NoFile
  Used = {1}
SYMMETRY Symmetry
CHECK_DEADLOCK FALSE
INVARIANTS
  OneOwner
PROPERTIES
  ImplementsDescriptors
  FilesSafe
