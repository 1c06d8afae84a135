CONSTANTS
  f1 = f1
  f2 = f2
  t1 = t1
  t2 = t2
  Files = {f1, f2}
  Threads = {t1, t2}
  FileOf <- TwoFiles
  SyncHandles = TRUE
  Mmio = {"ok"}
  MaxPendingJobs = 2
  MaxPendingPerFile = 2
  MaxJobs = 3
  LruSize = 4
  Env = {"peer", "peerRejects", "waitTimeout"}
SYMMETRY Sessions
CONSTRAINT Running
SPECIFICATION Spec
INVARIANTS
  SlotsAgree
  NoLostKick
