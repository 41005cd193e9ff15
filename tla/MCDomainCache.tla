--------------------------- MODULE MCDomainCache ---------------------------
(* A small instance of DomainCache: a lone root in each of two systems,    *)
(* under one name, and below the first a domain and a new one below that,  *)
(* whose read needs one connection more than there are.                    *)
(***************************************************************************)
EXTENDS DomainCache, TLC

CONSTANTS c1, c2, R, M, B, C, L, s1, s2

Row(s, n, p, r) == [system |-> s, name |-> n, parent |-> p, root |-> r]

MCRows == (R :> Row(s1, "r", None, R)) @@ (M :> Row(s1, "m", R, R)) @@ (L :> Row(s2, "r", None, L)) @@ (B :> None) @@ (C :> None)

Key(by, of) == [by |-> by, of |-> of]
Read(s, key) == [op |-> "read", system |-> s, key |-> key]
Write(s, u, n, p, id) ==
    [op |-> "write", system |-> s, uuid |-> u, name |-> n, parent |-> p, id |-> id]

MCRequests ==
    {Write(s1, C, "b", Key("name", "m"), L), Write(s1, B, "b", Key("uuid", R), R),
     Write(s2, B, "b", None, None),
     Read(s1, Key("name", "b")), Read(s2, Key("uuid", R)), Read(s2, Key("name", "r"))}

=============================================================================
