CONSTANTS
  RingSize = 3
  PoolSize = 2
  MaxFragments = 2
  NackSpan = 2
  MaxNacks = 1
  FecGroup = 2
  FecRing = 1
  FecPool = 1
  FecStride = 1
  NoGroup = NoGroup
  NoFrame = NoFrame
  JitterSize = 3
  JitterMargin = 1
  NoEntry = NoEntry
  MaxFrames = 5
  Fragments <- MCFragments
  GapLimit = 1
  MaxLost = 0
SPECIFICATION PipelineSpec
INVARIANT BuffersConserved
INVARIANT ReferencesKept
INVARIANT PipelineSound
