SPECIFICATION Spec
CONSTANTS
    PageSize = 8
    HDR = 1
    Tables = {1, 3, 5}
    Contents = {c1, c2, c3}
    CacheSlots = 4
    None = None
INVARIANTS
    CacheCoherent
