SPECIFICATION Spec
CONSTANTS
    NumBlocks = 5
    Blocks <- MCBlocks
    Blank = Blank
    NoIndex = NoIndex
    None = None
INVARIANTS
    TypeOK
    FreeListSound
    FreeNotInUse
    UsedBlocksMarked
    SuperblockStored
PROPERTY
    ImplementsBlockPool
    OnlyTreeBlocksComeBack
CHECK_DEADLOCK FALSE
