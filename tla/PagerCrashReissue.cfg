SPECIFICATION Spec
CONSTANTS
    PageSize = 6
    HDR = 1
    Lens <- MCLens
    MaxPages = 2
    ListSize = 2
    Vals = {v1, v2}
    NULL = NULL
    MaxOpens = 2
    MaxCrashes = 1
INVARIANT NoReissue
CHECK_DEADLOCK FALSE
