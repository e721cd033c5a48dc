\* Window of two 2-bit words; numbers up to twice the window, so bits are
\* reused and the jump past a whole window happens.
CONSTANTS
  WordBits = 2
  Words = 2
  Seqs <- MCSeqs
\* One producer: the use the class is written for.
CONSTANTS
  Capacity = 4
  IndexMod = 16
  Items = {i1, i2}
  Producers <- SpscProducers
  Null = Null
\* A group of frame 0 and the one of frame 2 share a slot of m_fecRing, whose pool
\* never runs dry.
CONSTANTS
  RingSize = 2
  PoolSize = 1
  MaxFragments = 3
  NackSpan = 2
  MaxNacks = 1
  FecGroup = 2
  FecRing = 3
  FecPool = 3
  FecStride = 2
  NoGroup = NoGroup
  NoFrame = NoFrame
  MaxFrames = 3
  Fragments <- MCFragments
  Keyframes = {0, 2}
\* The cache at its full size; the ninth frame takes the slots of the first.
CONSTANTS
  CacheSlots = 512
  FragmentCounts <- MCFragmentCounts
  CachedFrames = 8
SPECIFICATION PartsSpec
INVARIANT WindowExact
PROPERTY NeverTwice
PROPERTY ImplementsFilter
INVARIANT NoSlotRace
PROPERTY ImplementsFifo
INVARIANT FragmentsJustified
INVARIANT ParityUsed
INVARIANT NothingLeaks
 
