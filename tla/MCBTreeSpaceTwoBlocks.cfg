SPECIFICATION Spec
CONSTANTS
    NumBlocks = 2
    Blocks <- MCBlocks
    Blank = Blank
    NoIndex = NoIndex
    None = None
PROPERTY
    TreeBlocksNeverHandedOut
CHECK_DEADLOCK FALSE
