SPECIFICATION FairSpec
CONSTANTS
    c1 = c1
    c2 = c2
    c3 = c3
    u1 = u1
    u2 = u2
    v1 = v1
    v2 = v2
    None = None
    Callers = {c1, c2, c3}
    UUIDs = {u1, u2}
    Names = {"n"}
    Kinds = {"system_kind", "domain_kind"}
    DomainScoped = {"domain_kind"}
    KindVersions = {v1, v2}
    KindOf <- MCKindOf
    Domains = {"d"}
    Requests <- MCRequests
    MaxGeneration = 3
    MaxWrites = 3
INVARIANTS
    TransactionInv
    GenerationsContiguous
    UpdateNeverSerializes
    AcknowledgedIsStored
    RefusedLeavesNoTrace
    NamesIdentifyObjects
    WaitsAreOrdered
PROPERTIES
    CallsReturn
    ImplementsVersionedObjects
    HistoryIsImmutable
    ConflictIsReal
CHECK_DEADLOCK FALSE
