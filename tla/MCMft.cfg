CONSTANTS
  Vp9Refs = {0, 1}
  Vp9Pool = {1, 2, 3}
  Vp9Ctxs = {0, 1}
  Av1Refs = {0, 1}
  Av1PoolSize = 3
  Av1Reorder = 1
  Av1Cap = 2
  Kinds = {"H264", "H265", "VP9", "AV1"}
  GenInputs <- MCGenInputs
  Vp9Inputs <- MCVp9Inputs
  Av1Inputs <- MCAv1Inputs
  Dims = {2, 3}
  Ptss <- MCPtss
  GenReorder = 1
  GenPool = 3
  MinCap = 2
  Vp9Cap = 2
  MaxInputs <- MCMaxInputs
  MaxFlush = 1
  MaxTypes = 2
CHECK_DEADLOCK FALSE
SPECIFICATION Spec
INVARIANTS
  EmittedFresh
  EmittedAsNegotiated
  HoldsAccounted
  NoStall
  RefsFresh
  CtxClean
