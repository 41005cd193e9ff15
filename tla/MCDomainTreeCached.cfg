SPECIFICATION Spec
CONSTANTS
    R = R
    A = A
    B = B
    C = C
    D = D
    c1 = c1
    c2 = c2
    None = None
    Callers = {c1}
    Domains = {R, A, B, C, D}
    Names = {"r", "a", "b", "c", "d"}
    CacheEnabled = TRUE
    Requests <- TreeWrites
    MaxCalls = 5
INVARIANT
    SubtreesAreExact
CHECK_DEADLOCK FALSE
