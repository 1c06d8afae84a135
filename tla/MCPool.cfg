CONSTANTS
  f1 = f1
  f2 = f2
  t1 = t1
  t2 = t2
  t3 = t3
  Files = {f1, f2}
  Threads = {t1, t2, t3}
  FileOf <- TwoHandles
  Requests = {1, 3, 5}
  PageSize = 2
  MaxBufferBytes = 4
  MaxFileBytes = 6
  MaxGlobalBytes = 8
  MaxFileBufferCount = 2
  MaxCookie = 4
  Overlap = {}
SPECIFICATION Spec
SYMMETRY Symmetry
CHECK_DEADLOCK FALSE
INVARIANTS
  FreedOnce
  QuotaBound
  ChargesAgree
  NoResourceLost
