------------------------------ MODULE Queries ------------------------------
(***************************************************************************)
(* SystemQuery, KindQuery, KindVersionQuery, DomainQuery and ObjectQuery:  *)
(* how an expression becomes a WHERE clause, against what the expression   *)
(* means, and how one page of the rows becomes the answer.                 *)
(*                                                                         *)
(* A query first looks up, each in its own transaction, the systems and    *)
(* kinds that its expression names; then it selects; then it reads what    *)
(* the rows refer to.  Meanwhile others write.  Nothing is ever deleted or *)
(* moved, and queries share nothing, so one at a time is enough.           *)
(*                                                                         *)
(* A reference is by row id in the code, by uuid or by name here.          *)
(***************************************************************************)
EXTENDS Naturals, Sequences, FiniteSets

CONSTANTS
    Universe,      \* the rows that may come to be stored
    InitialRows,   \* those that are stored already
    Host,          \* uuid of the driver's own system
    Requests,      \* the queries that are made
    DefaultLimit,  \* Default...QueryLimit
    MaxLimit,      \* Max...QueryLimit
    None           \* no request, no reply, no version

Types == {"system", "kind", "kindversion", "domain", "object"}

\* Values of "kindversion" are pairs of a kind's name and a version.
Attributes == {"uuid", "name", "system", "root_uuid", "root_name", "parent_uuid",
               "kind", "kindversion"}

\* ref has to be stored before row.
RefersTo(row, ref) ==
    \/ /\ ref.type = "system" /\ row.type # "system"
       /\ ref.uuid = row.system
    \/ /\ ref.type = "kind" /\ row.type \in {"kindversion", "object"}
       /\ ref.system = row.system /\ ref.name = row.kind
    \/ /\ ref.type = "kindversion" /\ row.type = "object"
       /\ ref.system = row.system /\ ref.kind = row.kind /\ ref.version = row.version
    \/ /\ ref.type = "domain" /\ row.type = "domain"
       /\ ref # row /\ ref.uuid \in row.within

\* Numbers stand for uuids, in the order in which queries sort (for the versions of
\* kinds: by kind and version).  A kind's scope says in which table the names of its
\* objects are.  A domain is `within' the domains whose interval holds its left side:
\* itself and those above it, up to the root (DomainTree).
ASSUME UniverseAssumption == \A row \in Universe :
    /\ row.type \in Types /\ row.uuid \in Nat
    /\ row.type # "system" =>
        \E ref \in Universe : ref.type = "system" /\ RefersTo(row, ref)
    /\ row.type = "kind" => row.scope \in {"system", "domain"}
    /\ row.type \in {"kindversion", "object"} =>
        \E ref \in Universe : ref.type = "kind" /\ RefersTo(row, ref)
    /\ row.type = "domain" =>
        /\ {row.uuid, row.root} \subseteq row.within
        /\ \A u \in row.within : \E other \in Universe :
            other.type = "domain" /\ other.uuid = u /\ other.root = row.root

\* UNIQUE (uuid), and UNIQUE (system, name) of kinds.
ASSUME UniqueAssumption == \A row, other \in Universe :
    /\ row.type = other.type /\ row.uuid = other.uuid => row = other
    /\ row.type = "kind" /\ other.type = "kind"
       /\ row.system = other.system /\ row.name = other.name => row = other
    /\ row.type = "object" /\ other.type = "kind" /\ RefersTo(row, other) =>
        row.scope = other.scope
ASSUME InitialRowsAssumption ==
    /\ InitialRows \subseteq Universe
    /\ \A row \in InitialRows, ref \in Universe : RefersTo(row, ref) => ref \in InitialRows
ASSUME LimitsAssumption == DefaultLimit \in Nat \ {0} /\ MaxLimit \in Nat \ {0}

\* A predicate is [on, op, values]; the op "equal" has one value.  An expression is
\* [form, parts]: no expression at all, one predicate, or several joined.  (Expressions
\* nested in a joined one are passed over by the code, and left out.)  `kind' and
\* `version' are those of an ObjectQuery, which may leave the version open.
ASSUME RequestsAssumption == \A q \in Requests :
    /\ q.type \in Types
    /\ q.form \in {"none", "unary", "and", "or"}
    /\ q.limit \in Nat
    /\ Len(q.parts) \in Nat /\ DOMAIN q.parts = 1..Len(q.parts)
    /\ q.form = "none" => q.parts = <<>>
    /\ q.form = "unary" => Len(q.parts) = 1
    /\ \A i \in DOMAIN q.parts :
        /\ q.parts[i].on \in Attributes
        /\ q.parts[i].op \in {"equal", "in"}
        /\ q.parts[i].on = "kindversion" => \A v \in q.parts[i].values : v = <<v[1], v[2]>>
        /\ q.parts[i].op = "equal" => \E v \in q.parts[i].values : q.parts[i].values = {v}
ASSUME NoneAssumption == None \notin Requests

VARIABLES
    stored,   \* committed rows
    pc,       \* the next step of the query
    req,      \* the request of the query
    pending,  \* the systems or kinds still to be looked up
    known,    \* those that were found
    rows,     \* the page of rows that was selected
    reply,    \* history: what the last step's query returned, if it ended one
    began     \* history: the rows stored when the query began

query == <<pc, req, pending, known, rows, began>>
vars == <<stored, pc, req, pending, known, rows, reply, began>>

Init ==
    /\ stored = InitialRows
    /\ pc = "idle"
    /\ req = None
    /\ pending = {}
    /\ known = {}
    /\ rows = {}
    /\ reply = None
    /\ began = {}

-----------------------------------------------------------------------------
(* The rows. *)

Kept(type) == {row \in stored : row.type = type}

SystemExists(s) == \E row \in Kept("system") : row.uuid = s
KindExists(s, name) == \E row \in Kept("kind") : row.system = s /\ row.name = name

\* The other calls of the drivers: a row is written after those that it refers to.
Write(row) ==
    /\ row \notin stored
    /\ \A ref \in Universe : RefersTo(row, ref) => ref \in stored
    /\ stored' = stored \union {row}
    /\ reply' = None
    /\ UNCHANGED query

-----------------------------------------------------------------------------
(* What an expression means. *)

RootOf(row) == {root \in Kept("domain") : row.type = "domain" /\ root.uuid = row.root}

\* What a row has for an attribute.
ValuesOf(row, on) ==
    CASE on = "uuid" -> {row.uuid}
      [] on = "name" -> {row.name}
      [] on = "system" -> {row.system}
      [] on = "root_uuid" -> {row.root}
      [] on = "root_name" -> {root.name : root \in RootOf(row)}
      [] on = "parent_uuid" -> row.within
      [] on = "kind" -> {row.kind}
      [] on = "kindversion" ->
            IF row.system = Host THEN {<<row.kind, row.version>>} ELSE {}

Satisfies(row, p) == ValuesOf(row, p.on) \intersect p.values # {}

\* The objects that an ObjectQuery is about.
InScope(row, q) ==
    /\ row.system = Host
    /\ row.kind = q.kind
    /\ q.version \in {None, row.version}

Means(row, q) ==
    /\ row.type = q.type
    /\ q.type = "object" => InScope(row, q)
    /\ q.form \in {"unary", "and"} => \A i \in DOMAIN q.parts : Satisfies(row, q.parts[i])
    /\ q.form = "or" => \E i \in DOMAIN q.parts : Satisfies(row, q.parts[i])

-----------------------------------------------------------------------------
(* What the stores support. *)

\* The predicates that the dbReadByExpression of each store knows.  (The name of a
\* version is the attribute "kindversion".)
Supported(type) ==
    CASE type = "system" -> {"uuid"} \X {"equal", "in"}
      [] type = "kind" -> {"uuid", "name", "system"} \X {"equal", "in"}
      [] type = "kindversion" -> {"kindversion", "system"} \X {"equal", "in"}
      [] type = "domain" ->
            ({"uuid", "name", "system"} \X {"equal", "in"})
            \union ({"root_uuid", "root_name", "parent_uuid"} \X {"equal"})

Kindish(p) == p.on \in {"kind", "kindversion"}

\* UnsupportedExpression, UnsupportedPredicate, UnsupportedPredicateOperator; for
\* objects ErrQueryKindPredicateInObjectQuery.
Refused(q) ==
    IF q.type = "object"
    THEN \E i \in DOMAIN q.parts : Kindish(q.parts[i])
    ELSE q.form # "unary" \/ <<q.parts[1].on, q.parts[1].op>> \notin Supported(q.type)

\* The predicates of an object query that reach the clause; the others are passed over.
Usable(form, p) ==
    /\ p.on \in {"uuid", "name"}
    /\ form = "and" => p.op = "equal"

UsableParts(q) == {i \in DOMAIN q.parts : Usable(q.form, q.parts[i])}

-----------------------------------------------------------------------------
(* The clause. *)

Names(q, on) == q.type # "object" /\ ~ Refused(q) /\ q.parts[1].on = on

\* The systems and kinds that are looked up to build it.
Lookups(q) ==
    CASE q.type = "object" -> {q.kind}
      [] Names(q, "system") -> q.parts[1].values
      [] Names(q, "kindversion") -> {v[1] : v \in q.parts[1].values}
      [] OTHER -> {}

Found(q, v) == IF Names(q, "system") THEN SystemExists(v) ELSE KindExists(Host, v)

\* There is no row id to compare with: an empty answer and no SELECT.
NothingFound(q) ==
    /\ known = {}
    /\ \/ Names(q, "system")
       \/ Names(q, "kindversion") /\ q.parts[1].op = "equal"

\* The subqueries and the join are on whatever domains there are.
RecordClause(row, p) ==
    CASE p.on \in {"uuid", "name"} -> ValuesOf(row, p.on) \subseteq p.values
      [] p.on = "system" -> row.system \in known
      [] p.on = "kindversion" -> \E v \in p.values :
            /\ v[1] \in known
            /\ row.system = Host /\ row.kind = v[1] /\ row.version = v[2]
      [] p.on = "root_uuid" -> \E root \in Kept("domain") :
            root.uuid \in p.values /\ row.root = root.uuid
      [] p.on = "root_name" -> \E root \in Kept("domain") :
            root.name \in p.values /\ row.root = root.uuid
      [] p.on = "parent_uuid" -> \E dset \in Kept("domain") :
            dset.root = row.root /\ dset.uuid \in p.values /\ dset.uuid \in row.within

\* Mutant: without kv.version = $3.
BaseOfAnyVersion(row, q) == row.system = Host /\ row.kind = q.kind

\* o.system = $1 AND kv.kind = $2 AND kv.version = $3.
Base(row, q) ==
    /\ row.system = Host
    /\ row.kind = q.kind
    /\ q.version \in {None, row.version}

\* The parts are joined as (a) AND (b), or as (a) OR (b), with the base before them and
\* no parentheses around them: AND binds tighter than OR.
SystemObjectClause(row, q) ==
    LET parts == UsableParts(q) IN
    IF q.form = "or"
    THEN \E i \in parts :
            /\ Satisfies(row, q.parts[i])
            /\ (\A j \in parts : i <= j) => Base(row, q)
    ELSE Base(row, q) /\ \A i \in parts : Satisfies(row, q.parts[i])

DomainQualified(q) == \E kind \in Kept("kind") :
    kind.system = Host /\ kind.name = q.kind /\ kind.scope = "domain"

\* Names are joined from the table of the kind's scope.  The query of domain-qualified
\* objects makes nothing of the expression.
Clause(row, q) ==
    /\ row.type = q.type
    /\ IF q.type # "object" THEN RecordClause(row, q.parts[1])
       ELSE IF DomainQualified(q) THEN row.scope = "domain" /\ Base(row, q)
       ELSE row.scope = "system" /\ SystemObjectClause(row, q)

\* The statement is no SQL when no part reaches the parentheses of a joined expression,
\* or no kind those of a list of versions; the subquery for a root's name fails when
\* several domains have it.
StatementFails(q) ==
    \/ /\ q.type = "object" /\ ~ DomainQualified(q)
       /\ q.form \in {"and", "or"} /\ UsableParts(q) = {}
    \/ Names(q, "kindversion") /\ known = {}
    \/ /\ Names(q, "root_name")
       /\ \E a, b \in Kept("domain") : a # b /\ {a.name, b.name} \subseteq q.parts[1].values

\* Mutant: the limit is not bounded.
AskedLimit(q) == IF q.limit = 0 THEN DefaultLimit ELSE q.limit

\* ...QueryBoundedOptions.
Limit(q) == LET limit == IF q.limit = 0 THEN DefaultLimit ELSE q.limit IN
            IF limit < MaxLimit THEN limit ELSE MaxLimit

\* Mutant: LIMIT without ORDER BY.
SomeRows(S, n) == {T \in SUBSET S : IsFiniteSet(T) /\ Cardinality(T) <= n
                                    /\ (T = S \/ Cardinality(T) = n)}

\* ORDER BY uuid LIMIT n: the page, the only one of its kind.
FirstRows(S, n) == {T \in SUBSET S :
    /\ IsFiniteSet(T) /\ Cardinality(T) <= n
    /\ T = S \/ Cardinality(T) = n
    /\ \A row \in T, other \in S \ T : row.uuid < other.uuid}

-----------------------------------------------------------------------------
(* A query. *)

Return(result, page, fault) ==
    /\ reply' = [req |-> req, result |-> result, rows |-> page, fault |-> fault,
                 began |-> began]
    /\ pc' = "idle"
    /\ req' = None
    /\ pending' = {}
    /\ known' = {}
    /\ rows' = {}
    /\ began' = {}
    /\ UNCHANGED stored

Query == \E q \in Requests :
    /\ pc = "idle"
    /\ req' = q
    /\ began' = stored
    /\ pending' = Lookups(q)
    /\ pc' = IF Lookups(q) = {} THEN "select" ELSE "lookup"
    /\ reply' = None
    /\ UNCHANGED <<stored, known, rows>>

\* Mutant: a system that does not exist is an error.
LookupOrFail == \E v \in pending :
    /\ pc = "lookup"
    /\ IF Found(req, v)
       THEN /\ pending' = pending \ {v}
            /\ known' = known \union {v}
            /\ pc' = IF pending = {v} THEN "select" ELSE "lookup"
            /\ reply' = None
            /\ UNCHANGED <<stored, req, rows, began>>
       ELSE Return("NotFound", {}, FALSE)

\* One lookup; what is not there is passed over, except the kind of an ObjectQuery.
Lookup == \E v \in pending :
    /\ pc = "lookup"
    /\ IF req.type = "object" /\ ~ Found(req, v)
       THEN Return("KindUnknown", {}, FALSE)
       ELSE /\ pending' = pending \ {v}
            /\ known' = IF Found(req, v) THEN known \union {v} ELSE known
            /\ pc' = IF pending = {v} THEN "select" ELSE "lookup"
            /\ reply' = None
            /\ UNCHANGED <<stored, req, rows, began>>

Refuse ==
    /\ pc = "select"
    /\ Refused(req)
    /\ Return("Refused", {}, FALSE)

AnswerNothing ==
    /\ pc = "select"
    /\ NothingFound(req)
    /\ Return("ok", {}, FALSE)

\* The one statement, in its own transaction.
Select ==
    /\ pc = "select"
    /\ ~ Refused(req)
    /\ ~ NothingFound(req)
    /\ IF StatementFails(req)
       THEN Return("Internal", {}, FALSE)
       ELSE /\ rows' \in FirstRows({row \in stored : Clause(row, req)}, Limit(req))
            /\ pc' = "convert"
            /\ reply' = None
            /\ UNCHANGED <<stored, req, pending, known, began>>

\* The tag of a system may be NULL, and then its row is read by uuid only: scanning it
\* into a string fails.
Untagged(row) == \E s \in Kept("system") :
    s.uuid = (IF row.type = "system" THEN row.uuid ELSE row.system) /\ ~ s.tagged

\* Each row becomes a record with its system, read by row id: from the cache, if it is
\* there, or from the table.  Systems themselves always come from the table.
Convert ==
    /\ pc = "convert"
    /\ \/ /\ req.type = "system" => \A row \in rows : ~ Untagged(row)
          /\ Return("ok", rows, FALSE)
       \/ /\ req.type # "object"
          /\ \E row \in rows : Untagged(row)
          /\ Return("Internal", {}, FALSE)

\* No connection, a failed statement, a refused cache entry.
Fail ==
    /\ pc # "idle"
    /\ Return("Internal", {}, TRUE)

-----------------------------------------------------------------------------

Next ==
    \/ Query
    \/ Lookup
    \/ Refuse
    \/ AnswerNothing
    \/ Select
    \/ Convert
    \/ Fail
    \/ \E row \in Universe : Write(row)

Spec == Init /\ [][Next]_vars

-----------------------------------------------------------------------------
(* Correctness. *)

\* A page is as long as was asked for, or as the default, and never longer than the
\* maximum.
PageIsBounded(page, q) ==
    /\ IsFiniteSet(page)
    /\ Cardinality(page) <= MaxLimit
    /\ Cardinality(page) <= IF q.limit = 0 THEN DefaultLimit ELSE q.limit

\* Types; everything a stored row refers to is stored; no page, selected or answered, is
\* longer than its query allows.
QueryInv ==
    /\ stored \subseteq Universe /\ rows \subseteq stored /\ began \subseteq stored
    /\ pc \in {"idle", "lookup", "select", "convert"}
    /\ req \in Requests \union {None}
    /\ pc = "idle" <=> req = None
    /\ \A row \in stored, ref \in Universe : RefersTo(row, ref) => ref \in stored
    /\ IF pc = "convert" THEN PageIsBounded(rows, req) ELSE rows = {}
    /\ reply # None => PageIsBounded(reply.rows, reply.req)

\* Every predicate of a joined expression that could match a row reaches the clause.
NoAlternativeIsLost(q) == q.type = "object" /\ q.form = "or" =>
    UsableParts(q) = DOMAIN q.parts

\* No answer skips a row: what was stored when the query began, and is meant by the
\* expression, is on the page, or the page is full and the row comes after it.
NothingIsSkipped == reply # None /\ reply.result = "ok" /\ NoAlternativeIsLost(reply.req) =>
    \A row \in reply.began \ reply.rows : Means(row, reply.req) =>
        /\ Cardinality(reply.rows) = Limit(reply.req)
        /\ \A other \in reply.rows : other.uuid < row.uuid

\* The queries whose expressions are translated whole: all but those for domain-qualified
\* objects that have an expression, those with predicates that are passed over, and those
\* that join several predicates by OR.
TranslatedWhole(q) == q.type = "object" =>
    /\ DomainQualified(q) => q.form = "none"
    /\ UsableParts(q) = DOMAIN q.parts
    /\ q.form = "or" => Len(q.parts) = 1

\* The clause compares every alternative with the kind.
KeepsToTheKind(q) ==
    \/ q.form # "or"
    \/ DomainQualified(q)
    \/ \A i, j \in UsableParts(q) : i = j

\* Every row of an answer is one that the expression means, if the store translates the
\* expression whole.  What an ObjectQuery answers is of the kind and version that it asks
\* for even if it does not, but for an OR that several predicates of reach the clause.
AnswersMatch == reply # None /\ reply.result = "ok" => \A row \in reply.rows :
    /\ TranslatedWhole(reply.req) => Means(row, reply.req)
    /\ reply.req.type = "object" /\ KeepsToTheKind(reply.req) => InScope(row, reply.req)

\* A query by systems, by versions of kinds, or for objects of a kind, of which nothing
\* is stored.
AsksForUnknown(q) ==
    /\ q.type = "object" \/ Names(q, "system") \/ Names(q, "kindversion")
    /\ \A v \in Lookups(q) : ~ Found(q, v)

\* What it is told: nothing was found (kind/db.go: `just return am empty result'), except
\* that objects of an unknown kind and lists of unknown versions are errors.
UnknownIsTold(q) ==
    CASE q.type = "object" -> "KindUnknown"
      [] Names(q, "kindversion") /\ q.parts[1].op = "in" -> "Internal"
      [] OTHER -> "ok"

\* What asks for nothing that is stored when it is answered has an empty page, and is told
\* so in one way only, whatever came to be stored meanwhile.
UnknownIsEmpty == reply # None /\ AsksForUnknown(reply.req) =>
    /\ reply.rows = {}
    /\ reply.result = IF reply.fault THEN "Internal" ELSE UnknownIsTold(reply.req)

\* ObjectQuery answers objects of the kind that it is asked for (driver/object.go:331:
\* `queries zero or more Objects of a specified kind or kindversion').
ObjectsAreOfTheKind == reply # None /\ reply.req.type = "object" =>
    \A row \in reply.rows : InScope(row, reply.req)

=============================================================================
