SPECIFICATION Spec
CONSTANTS
    Starts <- MCStarts
    Depth = 4
INVARIANTS
    ValidExact
    DecodeExact
PROPERTY RoundTrip
CHECK_DEADLOCK FALSE
