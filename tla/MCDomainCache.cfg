SPECIFICATION FairSpec
CONSTANTS
    R = R
    M = M
    B = B
    C = C
    L = L
    s1 = s1
    s2 = s2
    c1 = c1
    c2 = c2
    x1 = x1
    x2 = x2
    None = None
    Callers = {c1, c2}
    Systems = {s1, s2}
    Domains = {R, M, B, C, L}
    Names = {"r", "m", "b"}
    Connections = {x1, x2}
    InitialRows <- MCRows
    Requests <- MCRequests
    MaxCalls = 3
INVARIANTS
    CacheInv
    ClimbInv
    SystemsAreKeptApart
    RepliesAreTrue
PROPERTIES
    ImplementsDomainForest
    DomainStoreCallsReturn
CHECK_DEADLOCK FALSE
