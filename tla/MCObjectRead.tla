---------------------------- MODULE MCObjectRead ----------------------------
(* A small instance of ObjectRead: one reader beside two writers.          *)
EXTENDS ObjectRead, TLC

CONSTANTS c1, c2, d1, u1, u2, v1, v1b, v2, v3

\* v1 and v1b are two versions of one system-scoped kind, v2 is a version of
\* another and v3 a version of a domain-scoped kind.
MCKindOf == (v1 :> "system_kind") @@ (v1b :> "system_kind")
            @@ (v2 :> "other_kind") @@ (v3 :> "domain_kind")

Request(u, v, d, g) ==
    [uuid |-> u, kindversion |-> v, domain |-> d, name |-> "n", generation |-> g]
ByUUID(u, v, d, g) ==
    [uuid |-> u, kindversion |-> v, domain |-> d, name |-> None, generation |-> g]
ByName(v, d, g) ==
    [uuid |-> None, kindversion |-> v, domain |-> d, name |-> "n", generation |-> g]

\* The name in three scopes, an update that changes the kind, and a domain that an object
\* of a system-scoped kind is stored in, or is not.
MixedWrites ==
    {Request(u1, v1, None, 0), Request(u1, v1, None, 1), Request(u1, v2, None, 1),
     Request(u2, v2, "d", 0), Request(u2, v3, "d", 0)}
MixedReads ==
    {ByUUID(u1, v1, None, 0), ByUUID(u1, v1, None, 2), ByUUID(u1, v2, None, 0),
     ByUUID(u2, v3, "d", 0), ByUUID(u2, v3, "e", 0), ByName(v1, None, 0),
     ByName(v2, "e", 0),
     ByName(v3, "d", 1), ByName(v3, None, 0)}

WriterSymmetry == Permutations(Callers)

\* Two kinds share a name.
SharedNameWrites == {Request(u1, v1, None, 0), Request(u2, v2, None, 0)}
SharedNameReads == {ByName(v1, None, 0), ByName(v2, None, 0)}

\* An object is updated with a newer version of its kind.
UpgradeWrites == {Request(u1, v1, None, 0), Request(u1, v1b, None, 1)}
UpgradeReads == {ByUUID(u1, v1, None, 0), ByUUID(u1, v1b, None, 0)}

=============================================================================
