CONSTANTS
  f1 = f1
  f2 = f2
  t1 = t1
  t2 = t2
  Files = {f1, f2}
  Threads = {t1, t2}
  FileOf <- TwoFiles
  SyncHandles = TRUE
  Mmio = {"ok", "none", "short"}
  MaxPendingJobs = 8
  MaxPendingPerFile = 4
  MaxJobs = 2
  LruSize = 4
  Env = {"error", "waitTimeout"}
SPECIFICATION FairSpec
PROPERTIES
  JobsFinish
  RequestsReturn
