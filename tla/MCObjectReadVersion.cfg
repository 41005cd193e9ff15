SPECIFICATION System
CONSTANTS
    c1 = c1
    c2 = c2
    d1 = d1
    u1 = u1
    u2 = u2
    v1 = v1
    v1b = v1b
    v2 = v2
    v3 = v3
    None = None
    Callers = {c1, c2}
    Readers = {d1}
    UUIDs = {u1, u2}
    Names = {"n"}
    Kinds = {"system_kind", "other_kind", "domain_kind"}
    DomainScoped = {"domain_kind"}
    KindVersions = {v1, v1b, v2, v3}
    KindOf <- MCKindOf
    Domains = {"d"}
    Requests <- UpgradeWrites
    ReadRequests <- UpgradeReads
    MaxGeneration = 2
    MaxWrites = 2
    MaxReads = 2
INVARIANT
    ReadKindVersionIsWritten
CHECK_DEADLOCK FALSE
