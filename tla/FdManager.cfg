CONSTANTS
  Paths = {p1, p2, p3}
  Workers = {w1}
  Requests = {"read", "write", "fallocate", "rep_sync_data", "rep_update_index"}
  FDs = {f1, f2, f3}
  NoPath = NoPath
  NoFd = NoFd
  MaxFdNum = 2
  MaxIno = 3
SPECIFICATION Spec
SYMMETRY Sym
INVARIANTS CacheSound CoherentUnlessRenamed WorkersSafe
CHECK_DEADLOCK FALSE
