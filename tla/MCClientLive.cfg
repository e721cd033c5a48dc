\* Fewer frames than the ring has slots; one packet is lost.
CONSTANTS
  RingSize = 3
  PoolSize = 2
  MaxFragments = 2
  NackSpan = 2
  MaxNacks = 1
  FecGroup = 2
  FecRing = 1
  FecPool = 1
  FecStride = 1
  NoGroup = NoGroup
  NoFrame = NoFrame
  JitterSize = 3
  JitterMargin = 1
  NoEntry = NoEntry
  MaxFrames = 3
  Fragments <- MCFragments
  GapLimit = 0
  MaxLost = 1
SPECIFICATION FairPipelineSpec
PROPERTY PartialFrameAsked
PROPERTY KeyframeUnblocks
PROPERTY JitterDrains
