--------------------------- MODULE MCKindVersions ---------------------------
(***************************************************************************)
(* Instances of KindVersions: as many connections as writers, so that the  *)
(* writers can hold them all and wait for one more.                        *)
(***************************************************************************)
EXTENDS KindVersions

CONSTANTS app, lib, k1, k2, v100, v110, s1, s2

WriteKind(k, u) == [op |-> "write_kind", kind |-> k, uuid |-> u]
ReadKind == [op |-> "read_kind", kind |-> app]
WriteVersion(v, s) == [op |-> "write_version", kind |-> app, version |-> v, schema |-> s]
ReadVersion(v) == [op |-> "read_version", kind |-> app, version |-> v]

\* A kind with one of two uuids and another kind with the first of them, the first version
\* by two authors, the version after it, and reads.
SeriesCalls ==
    {WriteKind(app, k1), WriteKind(app, k2), WriteKind(lib, k1), ReadKind,
     WriteVersion(v100, s1), WriteVersion(v100, s2), WriteVersion(v110, s1),
     ReadVersion(v100)}

=============================================================================
