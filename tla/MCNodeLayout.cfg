SPECIFICATION Spec
CONSTANTS
    Word = 5
    PtrSize = 1
    HeaderSize = 1
    Memory = 3
    Sizes <- MCSizes
    MaxKeys = 2
    Types = {"INTERIOR", "LEAF", "SUPERBLOCK"}
    Byte = {0, 1}
    ZeroByte = 0
    NoNode = NoNode
    NoData = NoData
INVARIANTS
    TypeOK
    AccessesStayInside
PROPERTY
    ImplementsNodeArrays
CHECK_DEADLOCK FALSE
