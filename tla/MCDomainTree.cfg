SPECIFICATION FairSpec
CONSTANTS
    R = R
    A = A
    B = B
    C = C
    D = D
    c1 = c1
    c2 = c2
    None = None
    Callers = {c1, c2}
    Domains = {R, A, B, C, D}
    Names = {"r", "a", "b", "c", "d"}
    CacheEnabled = TRUE
    Requests <- TreeCalls
    MaxCalls = 5
INVARIANTS
    TreeInv
    IntervalsNest
PROPERTIES
    ImplementsDomainForest
    FreshInsertsKeepSubtrees
    RowsOnlyGrow
    DomainCallsReturn
CHECK_DEADLOCK FALSE
