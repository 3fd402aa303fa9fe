SPECIFICATION Spec
CONSTANTS
    T = 5
    Workloads <- Missing
INVARIANTS
    LookupExact
CHECK_DEADLOCK FALSE
