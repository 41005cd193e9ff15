SPECIFICATION Spec
CONSTANTS
    None = None
    Universe <- MCUniverse
    InitialRows <- MCInitialRows
    Host = 1
    Requests <- MCRequests
    DefaultLimit = 2
    MaxLimit = 3
INVARIANTS
    ObjectsAreOfTheKind
