SPECIFICATION Spec
CONSTANTS
    Word = 3
    Configs <- MCConfigs
    Values = {zero, v}
    Zero = zero
    Residues = {0, 1}
    MaxCount = 2
    Notified = {1}
    Absent = Absent
    Empty = Empty
    NoConfig = NoConfig
    NoTail = NoTail
INVARIANTS
    TypeOK
    UnhurtDisksOpen
    AllocationsRemembered
    WaitsLessThanARevolution
PROPERTIES
    DataOutsideWindowUntouched
    BlocksAreIndependent
    
