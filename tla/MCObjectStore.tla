--------------------------- MODULE MCObjectStore ---------------------------
(* A small instance of ObjectStore: two objects, a system-scoped and a     *)
(* domain-scoped kind.                                                     *)
EXTENDS ObjectStore, TLC

CONSTANTS c1, c2, c3, u1, u2, v1, v2

MCKindOf == (v1 :> "system_kind") @@ (v2 :> "domain_kind")

Request(u, v, d, n, g) ==
    [uuid |-> u, kindversion |-> v, domain |-> d, name |-> n, generation |-> g]

\* First writers of two objects that share a name, updates that expect the right
\* generation, an old one or one that does not exist yet, and the same name in a
\* domain-scoped kind, with and without its domain.
MCRequests ==
    {Request(u1, v1, None, "n", 0), Request(u2, v1, None, "n", 0)}
    \union {Request(u1, v1, None, "n", g) : g \in 1..(MaxGeneration - 1)}
    \union {Request(u2, v2, "d", "n", 0), Request(u2, v2, None, "n", 0)}

=============================================================================
