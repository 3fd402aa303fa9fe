SPECIFICATION Spec
CONSTANTS
    Vals = {v1, v2}
    Elements = {a1, a2}
    Names = {n1, n2}
    None = None
    AliasListSize = 3
    Workloads <- All
INVARIANTS
    ListsFit
    
    
    
    IndexesOnGroups
    IndexCurrent
    DeleteTakes
    
 
SYMMETRY NameSymmetry
CHECK_DEADLOCK FALSE
