SPECIFICATION Spec
CONSTANTS
    PageSize = 17
    HDR = 1
    Keys = {k1, k2}
    Lens = {3, 4, 5}
    Vals = {v1, v2}
    NoKey = NoKey
    BlobInfo = 1
    HistBytes = 1
    HistListSize = 4
    Slots = 2
    Density = 75
    MaxPages = 1
    MaxHistory = 2
INVARIANTS
    RecordsIntact
    CacheSound
    HistoryIntact
    FreeCount
    VersionsRetrievable
SYMMETRY KeySymmetry
CHECK_DEADLOCK FALSE
