SPECIFICATION Spec
CONSTANTS
    PageSize = 12
    HDR = 1
    Keys = {k1, k2}
    Lens = {3, 4, 5}
    Vals = {v1, v2}
    NoKey = NoKey
    BlobInfo = 1
    HistBytes = 1
    HistListSize = 4
    Slots = 2
    Density = 75
    MaxPages = 2
    MaxHistory = 2
INVARIANT RecordsIntact
CHECK_DEADLOCK FALSE
