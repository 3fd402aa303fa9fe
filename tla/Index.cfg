SPECIFICATION Spec
CONSTANTS
    MSize = 2
    Workloads <- Indexes
INVARIANTS
    NodesOwned
    Balanced
    UniqueFound
