SPECIFICATION Spec
CONSTANTS
    NumBlocks = 8
    Keys = {1, 2, 3, 4}
    u = u
    v = v
    Values = {u, v}
    Trees <- MCTrees
    Args <- MCArgs
    Blank = Blank
    NoValue = NoValue
INVARIANTS
    TypeOK
    NothingSkipped
    LookupIsRight
    FoundWasStored
    ListingIsComplete
PROPERTIES
    WholeIndexesNeverAbort
    CallsEnd
