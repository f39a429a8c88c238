SPECIFICATION Spec
CONSTANTS
    NumBlocks = 2
    v1 = v1
    v2 = v2
    Values <- MCValues
    Blocks <- MCBlocks
    CacheSizes <- MCCacheSizes
    NotCached = NotCached
    Absent = Absent
    NoBlock = NoBlock
    MaxTime = 4
INVARIANTS
    TypeOK
    CleanEntriesMatchDevice
PROPERTY
    ImplementsBlockStore
