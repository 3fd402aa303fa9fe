SPECIFICATION Spec
CONSTANTS
    PageSize = 6
    HDR = 1
    Lens <- MCLens
    MaxPages = 2
    ListSize = 2
    Vals = {v1, v2}
    NULL = NULL
    MaxOpens = 3
    MaxCrashes = 1
INVARIANTS
    ReadsBack
    CleanMark
PROPERTIES
    Allocates
    
CHECK_DEADLOCK FALSE
