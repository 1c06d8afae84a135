CONSTANTS
  f1 = f1
  f2 = f2
  t1 = t1
  t2 = t2
  Files = {f1, f2}
  Threads = {t1, t2}
  FileOf <- TwoFiles
  SyncHandles = TRUE
  Mmio = {"ok"}
  MaxPendingJobs = 8
  MaxPendingPerFile = 4
  MaxJobs = 2
  LruSize = 4
  Env = {"close", "waitTimeout", "drainTimeout", "free", "error", "enableFails"}
SYMMETRY Sessions
CHECK_DEADLOCK FALSE
SPECIFICATION Spec
INVARIANTS
  NoUseAfterFree
  OnePlace
  OrphansReaped
  BuffersHeld
