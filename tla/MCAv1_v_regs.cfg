CONSTANTS
  f1 = f1
  f2 = f2
  Files = {f1, f2}
  MaxJobs = 3
  Regs = {1}
  MaxPendingJobs = 2
  MaxPendingPerFile = 2
  MaxCycles = 1
  Faults = TRUE
SYMMETRY Sessions
CHECK_DEADLOCK FALSE
SPECIFICATION Spec
INVARIANT RegsFromScratch
