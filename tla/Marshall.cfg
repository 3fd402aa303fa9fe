SPECIFICATION Spec
CONSTANTS
    Vals = {v1, v2}
    Elements = {a, b}
    None = None
    Docs <- MCDocs
    Args <- MCArgs
    Selectors <- MCSelectors
INVARIANTS
    
    SeparateExact
    ConditionRows
    
CHECK_DEADLOCK FALSE
