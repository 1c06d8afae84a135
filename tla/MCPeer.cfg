CONSTANTS
  MaxKicks = 2
  MaxAttach = 2
  Mmio = {"ok", "none", "short"}
  PoolFails = TRUE
CHECK_DEADLOCK FALSE
SPECIFICATION FairSpec
INVARIANTS
  ForeignJobsLive
PROPERTIES
  KeepsContract
  WorkersReturn
