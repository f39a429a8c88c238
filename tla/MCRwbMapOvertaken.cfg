CONSTANTS
    Views = {v1, v2}
    Cycles = {c1}
    Categories <- TwoCategories
    Blank = Blank
    MaxActs = 3
    MaxRequests = 6
SPECIFICATION Spec
CHECK_DEADLOCK FALSE
INVARIANT ReadyMeansRedrawn
