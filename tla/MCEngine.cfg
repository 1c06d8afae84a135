SPECIFICATION Spec
CONSTANTS
    PoolSize = 5
    MaxFrameNum = 4
    Codecs = {"H264", "H265"}
    SpsRefFrames = 3
    SpsReorder = 2
    Gops <- MCGops
    MaxLive = 1
    MaxGops = 2
    MaxFlush <- MCMaxFlush
    MaxFail = 1
INVARIANTS
  FramesIntact
  TrapsOnTagOnly
  RefsExact
  ListsInOrder
  NoStall
PROPERTIES
  DisplayOrder
