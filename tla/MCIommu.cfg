CONSTANTS
  IovaPages = 4
  PtEntries = 2
  RcbPages = 1
  Buffers = {1, 2}
  PageCount <- MCPageCount
  MaxGen = 2
  MaxFaults = 1
SPECIFICATION Spec
CHECK_DEADLOCK FALSE
INVARIANTS
  IovaExact
  DmaExact
  PagingFlagTrue
  BoundToLiveDomain
