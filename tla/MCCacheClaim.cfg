CONSTANTS
    CacheSlots = 512
    FragmentCounts <- MCSmallFrames
    CachedFrames = 8
SPECIFICATION CacheSpec
INVARIANT CollisionResistant
