SPECIFICATION HSpec
CONSTANTS
    NumBlocks = 3
    v1 = v1
    Values <- MCValues
    Blocks <- OneStrayBlock
    CacheSizes <- MCCacheSizes
    NotCached = NotCached
    Absent = Absent
    NoBlock = NoBlock
    MaxTime = 5
INVARIANT
    WithinCacheSize
PROPERTY
    KeepsFreshBlocks
