----------------------------- MODULE MCQueries -----------------------------
(* A small instance of Queries: the host system 1 has a system-scoped kind *)
(* "k" and a domain-scoped kind "d"; system 2, without a tag, comes later. *)
(***************************************************************************)
EXTENDS Queries, TLC

Row(type, uuid, system) ==
    [type |-> type, uuid |-> uuid, system |-> system, name |-> "-", kind |-> "-",
     version |-> "-", scope |-> "-", root |-> 0, within |-> {}, tagged |-> FALSE]

System(uuid, tagged) == [Row("system", uuid, uuid) EXCEPT !.tagged = tagged]
Kind(uuid, s, name, scope) == [Row("kind", uuid, s) EXCEPT !.name = name, !.scope = scope]
Version(uuid, s, kind, v) == [Row("kindversion", uuid, s) EXCEPT !.kind = kind, !.version = v]
Domain(uuid, s, name, root, within) ==
    [Row("domain", uuid, s) EXCEPT !.name = name, !.root = root, !.within = within]
Object(uuid, s, name, kind, v, scope) ==
    [Row("object", uuid, s) EXCEPT !.name = name, !.kind = kind, !.version = v, !.scope = scope]

MCInitialRows ==
    {System(1, TRUE), Kind(2, 1, "k", "system"), Kind(3, 1, "d", "domain"),
     Version(1, 1, "d", "v1"), Version(3, 1, "k", "v1"),
     Domain(2, 1, "r", 2, {2}),
     Object(2, 1, "n", "k", "v1", "system"), Object(5, 1, "n", "d", "v1", "domain")}

MCUniverse == MCInitialRows \union
    {System(2, FALSE), Kind(1, 2, "k", "system"),
     Version(2, 1, "k", "v2"), Version(4, 2, "k", "v1"),
     Domain(1, 1, "c", 2, {1, 2}), Domain(3, 2, "r", 3, {3}),
     Object(3, 1, "m", "k", "v2", "system"), Object(1, 2, "n", "k", "v1", "system")}

P(on, op, values) == [on |-> on, op |-> op, values |-> values]

Q(type, form, parts, limit, kind, version) ==
    [type |-> type, form |-> form, parts |-> parts, limit |-> limit,
     kind |-> kind, version |-> version]

One(type, p, limit) == Q(type, "unary", <<p>>, limit, "-", None)
Objects(kind, version, form, parts) == Q("object", form, parts, 3, kind, version)

SystemIn == P("system", "in", {1, 2})
Name(n) == P("name", "equal", {n})

MCRequests ==
    {One("system", P("uuid", "in", {1, 2}), 3), One("system", Name("-"), 0),
     One("kind", P("uuid", "in", {1, 2}), 1), One("kind", Name("k"), 3),
     One("kind", SystemIn, 5), One("kind", SystemIn, 0), One("kind", P("system", "equal", {2}), 5),
     One("kindversion", SystemIn, 5), One("kindversion", P("system", "in", {2, 3}), 3),
     One("kindversion", P("kindversion", "equal", {<<"z", "v1">>}), 3),
     One("kindversion", P("kindversion", "in", {<<"z", "v1">>}), 3),
     One("kindversion", P("kindversion", "in", {<<"k", "v2">>, <<"z", "v1">>}), 3),
     One("domain", P("root_uuid", "equal", {2}), 3), One("domain", P("root_name", "equal", {"r"}), 3),
     One("domain", P("parent_uuid", "equal", {1}), 3), One("domain", P("root_name", "in", {"r"}), 3),
     One("domain", SystemIn, 3),
     Objects("k", None, "none", <<>>), Objects("k", "v2", "none", <<>>),
     Objects("z", None, "none", <<>>), Objects("d", "v1", "none", <<>>),
     Objects("d", None, "unary", <<Name("m")>>), Objects("d", None, "or", <<Name("n"), Name("m")>>),
     Objects("k", None, "or", <<P("system", "equal", {2}), Name("n")>>),
     Objects("k", None, "unary", <<P("uuid", "in", {1, 3})>>),
     Objects("k", "v1", "unary", <<P("kind", "equal", {"k"})>>),
     Objects("k", None, "and", <<Name("n"), P("uuid", "equal", {2})>>),
     Objects("k", None, "and", <<P("uuid", "in", {2})>>),
     Objects("k", "v1", "or", <<Name("m"), Name("n")>>)}

=============================================================================
