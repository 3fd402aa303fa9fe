SPECIFICATION Spec
CONSTANTS
    Clients = {c1, c2}
    Requests <- MCRequests
    MaxFds = 2
    MaxFiles = 1
    None = None
INVARIANTS
    UsedWhole
    OwnError
    
PROPERTIES
    Answered
    Stops
