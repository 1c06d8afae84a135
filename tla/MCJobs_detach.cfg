CONSTANTS
  f1 = f1
  f2 = f2
  t1 = t1
  t2 = t2
  Files = {f1}
  Threads = {t1}
  FileOf <- OneFile
  SyncHandles = TRUE
  Mmio = {"ok"}
  MaxPendingJobs = 8
  MaxPendingPerFile = 4
  MaxJobs = 3
  LruSize = 4
  Env = {"peer", "peerDetach", "peerDrops", "iommuGone", "close"}
CONSTRAINT Running
CHECK_DEADLOCK FALSE
SPECIFICATION Spec
INVARIANTS
  TypeOK
  OneDriver
