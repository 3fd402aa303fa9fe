SPECIFICATION Spec
CONSTANTS
    T = 5
    Workloads <- Sound
INVARIANTS
    TablesOwned
    SearchTree
    LookupExact
    CountsExact
    InterruptedTree
    InterruptedRecords
CHECK_DEADLOCK FALSE
