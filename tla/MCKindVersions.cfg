SPECIFICATION FairSpec
CONSTANTS
    app = app
    lib = lib
    k1 = k1
    k2 = k2
    v100 = v100
    v110 = v110
    s1 = s1
    s2 = s2
    None = None
    Callers = {c1, c2}
    Kinds = {app, lib}
    UUIDs = {k1, k2}
    Versions = {v100, v110}
    InitialVersions = {v100}
    Schemas = {s1, s2}
    Connections = {x1, x2}
    Cached = {"kind", "version"}
    Requests <- SeriesCalls
    MaxCalls = 5
INVARIANTS
    VersionInv
    AnswersAreTrue
PROPERTIES
    ImplementsVersionSeries
    VersionCallsReturn
CHECK_DEADLOCK FALSE
