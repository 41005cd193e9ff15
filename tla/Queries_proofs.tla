-------------------------- MODULE Queries_proofs --------------------------
(***************************************************************************)
(* Proofs about Queries, for every set of rows, requests and limits.       *)
(***************************************************************************)
EXTENDS Queries, FiniteSetTheorems, TLAPS

-----------------------------------------------------------------------------
(* Sets of rows that hold what their rows refer to. *)

Closed(S) == \A row \in S, ref \in Universe : RefersTo(row, ref) => ref \in S

SystemIn(S, s) == \E row \in S : row.type = "system" /\ row.uuid = s
KindIn(S, name) ==
    \E row \in S : row.type = "kind" /\ row.system = Host /\ row.name = name

FoundIn(S, q, v) == IF Names(q, "system") THEN SystemIn(S, v) ELSE KindIn(S, v)

LEMMA FoundIsStored == \A q, v : Found(q, v) <=> FoundIn(stored, q, v)
BY DEF Found, FoundIn, SystemExists, KindExists, SystemIn, KindIn, Kept

LEMMA SystemIsThere ==
    ASSUME NEW S, S \subseteq Universe, Closed(S), NEW row \in S
    PROVE  SystemIn(S, row.system) \/ row.type = "system"
BY UniverseAssumption DEF Closed, SystemIn, RefersTo

LEMMA KindIsThere ==
    ASSUME NEW S, S \subseteq Universe, Closed(S), NEW row \in S,
           row.type \in {"kindversion", "object"}
    PROVE  \E kind \in S : /\ kind.type = "kind" /\ RefersTo(row, kind)
                           /\ kind.system = row.system /\ kind.name = row.kind
BY UniverseAssumption DEF Closed, RefersTo

\* The domains that a domain is within are stored before it.
LEMMA DomainsAreThere ==
    ASSUME NEW S, S \subseteq Universe, Closed(S), NEW row \in S, row.type = "domain",
           NEW u \in row.within
    PROVE  \E other \in S : /\ other.type = "domain"
                            /\ other.uuid = u /\ other.root = row.root
<1>1. PICK other \in Universe : /\ other.type = "domain"
                                /\ other.uuid = u /\ other.root = row.root
    BY UniverseAssumption
<1>2. other = row \/ RefersTo(row, other)
    BY <1>1 DEF RefersTo
<1>3. QED
    BY <1>1, <1>2 DEF Closed

\* A write changes nothing that a stored row has or means.
LEMMA RootsStay ==
    ASSUME QueryInv, NEW row \in stored, NEW new \in Universe, Write(new)
    PROVE  RootOf(row)' = RootOf(row)
<1>1. stored \subseteq Universe /\ Closed(stored) /\ stored' = stored \union {new}
    BY DEF QueryInv, Closed, Write
<1>2. ASSUME row.type = "domain", new.type = "domain", new.uuid = row.root
      PROVE  new \in stored
    <2>1. row.root \in row.within
        BY <1>1, <1>2, UniverseAssumption
    <2>2. PICK other \in stored : other.type = "domain" /\ other.uuid = row.root
        BY <1>1, <1>2, <2>1, DomainsAreThere
    <2>3. QED
        BY <1>1, <1>2, <2>2, UniqueAssumption
<1>3. QED
    BY <1>1, <1>2 DEF RootOf, Kept

LEMMA MeaningStays ==
    ASSUME QueryInv, NEW row \in stored, NEW new \in Universe, Write(new), NEW q
    PROVE  Means(row, q)' <=> Means(row, q)
<1>1. \A on : ValuesOf(row, on)' = ValuesOf(row, on)
    BY RootsStay DEF ValuesOf
<1>2. \A p : Satisfies(row, p)' <=> Satisfies(row, p)
    BY <1>1 DEF Satisfies
<1>3. QED
    BY <1>2 DEF Means, InScope

-----------------------------------------------------------------------------
(* What is known when the statement is made. *)

\* Every lookup is still to be made, was successful, or failed, and then the system or
\* the kind was not there when the query began.
LookupInv ==
    /\ known \subseteq Lookups(req) /\ pending \subseteq Lookups(req)
    /\ \A v \in known : FoundIn(stored, req, v)
    /\ \A v \in Lookups(req) \ (known \union pending) : ~ FoundIn(began, req, v)
    /\ req.type = "object" => Lookups(req) = known \union pending
    /\ pc \in {"select", "convert"} => pending = {}

LEMMA LookupsOfObjects == \A q : q.type = "object" => Lookups(q) = {q.kind} /\ ~ Names(q, "system")
BY DEF Lookups, Names

\* A query for objects selects after its kind was found.
LEMMA KindIsFound ==
    ASSUME LookupInv, pc \in {"select", "convert"}, req.type = "object"
    PROVE  KindIn(stored, req.kind)
BY LookupsOfObjects DEF LookupInv, FoundIn

\* A kind of a name has one scope, and its objects have it too.
LEMMA ScopeIsTheKinds ==
    ASSUME QueryInv, KindIn(stored, req.kind), NEW row \in stored, row.type = "object",
           InScope(row, req)
    PROVE  row.scope = IF DomainQualified(req) THEN "domain" ELSE "system"
<1>1. stored \subseteq Universe /\ Closed(stored)
    BY DEF QueryInv, Closed
<1>2. PICK kind \in stored : /\ kind.type = "kind" /\ RefersTo(row, kind)
                             /\ kind.system = row.system /\ kind.name = row.kind
    BY <1>1, KindIsThere
<1>3. row.scope = kind.scope /\ kind.scope \in {"system", "domain"}
    BY <1>1, <1>2, UniverseAssumption, UniqueAssumption
<1>4. kind.system = Host /\ kind.name = req.kind
    BY <1>2 DEF InScope
<1>5. DomainQualified(req) <=> kind.scope = "domain"
    BY <1>1, <1>2, <1>4, UniqueAssumption DEF DomainQualified, Kept
<1>6. QED
    BY <1>3, <1>5

-----------------------------------------------------------------------------
(* The clause against the meaning. *)

LEMMA RecordRequests ==
    ASSUME NEW q \in Requests, q.type # "object", ~ Refused(q)
    PROVE  /\ q.form = "unary" /\ DOMAIN q.parts = {1}
           /\ <<q.parts[1].on, q.parts[1].op>> \in Supported(q.type)
<1>1. q.form = "unary"
    BY DEF Refused
<1>2. Len(q.parts) = 1 /\ DOMAIN q.parts = 1..Len(q.parts)
    BY <1>1, RequestsAssumption
<1>3. DOMAIN q.parts = {1}
    BY <1>2
<1>4. QED
    BY <1>1, <1>3 DEF Refused

\* The predicates that reach the clause of a record.
LEMMA RecordPredicates ==
    ASSUME NEW q \in Requests, q.type # "object", ~ Refused(q)
    PROVE  /\ q.parts[1].on \in Attributes \ {"kind"}
           /\ q.parts[1].on \in {"root_uuid", "root_name", "parent_uuid"} => q.type = "domain"
           /\ q.parts[1].on = "kindversion" => q.type = "kindversion"
BY RecordRequests, RequestsAssumption DEF Supported, Types, Attributes

\* Every row that was stored when the query began, and is meant, is selected.
LEMMA MeantRecordsAreSelected ==
    ASSUME QueryInv, LookupInv, Closed(began), pc = "select", req \in Requests,
           req.type # "object", ~ Refused(req), NEW row \in began, Means(row, req)
    PROVE  RecordClause(row, req.parts[1])
<1> DEFINE p == req.parts[1]
<1>1. /\ row.type = req.type /\ Satisfies(row, p)
      /\ p.on \in Attributes \ {"kind"}
      /\ p.on \in {"root_uuid", "root_name", "parent_uuid"} => row.type = "domain"
      /\ p.on = "kindversion" => row.type = "kindversion"
    BY RecordRequests, RecordPredicates DEF Means
<1>2. /\ began \subseteq Universe /\ began \subseteq stored /\ pending = {}
      /\ stored \subseteq Universe /\ Closed(stored)
    BY DEF QueryInv, LookupInv, Closed
<1>3. CASE p.on \in {"uuid", "name"}
    BY <1>1, <1>3 DEF RecordClause, Satisfies, ValuesOf
<1>4. CASE p.on = "system"
    <2>1. Names(req, "system") /\ Lookups(req) = p.values /\ row.system \in p.values
        BY <1>1, <1>4 DEF Names, Lookups, Satisfies, ValuesOf
    <2>2. SystemIn(began, row.system)
        <3>1. CASE row.type = "system"
            BY <3>1, <1>1, <1>4, RecordRequests DEF Supported
        <3>2. CASE row.type # "system"
            BY <3>2, <1>2, SystemIsThere
        <3>3. QED
            BY <3>1, <3>2
    <2>3. row.system \in known
        BY <1>2, <2>1, <2>2 DEF LookupInv, FoundIn
    <2>4. QED
        BY <1>4, <2>3 DEF RecordClause
<1>5. CASE p.on = "kindversion"
    <2>1. <<row.kind, row.version>> \in p.values /\ row.system = Host
        BY <1>1, <1>5 DEF Satisfies, ValuesOf
    <2>2. ~ Names(req, "system") /\ Names(req, "kindversion")
        BY <1>5 DEF Names
    <2>3. Lookups(req) = {v[1] : v \in p.values}
        BY <2>2 DEF Lookups, Names
    <2>4. row.kind \in Lookups(req)
        BY <2>1, <2>3
    <2>5. KindIn(began, row.kind)
        BY <1>1, <1>2, <1>5, <2>1, KindIsThere DEF KindIn
    <2>6. row.kind \in known
        BY <1>2, <2>2, <2>4, <2>5 DEF LookupInv, FoundIn
    <2>7. QED
        BY <1>5, <2>1, <2>6 DEF RecordClause
<1>6. CASE p.on \in {"root_uuid", "root_name"}
    <2>1. row.type = "domain" /\ row.root \in row.within
        BY <1>1, <1>2, <1>6, UniverseAssumption
    <2>2. PICK root \in stored : root.type = "domain" /\ root.uuid = row.root
        BY <1>2, <2>1, DomainsAreThere
    <2>3. CASE p.on = "root_uuid"
        BY <1>1, <2>2, <2>3 DEF RecordClause, Satisfies, ValuesOf, Kept
    <2>4. CASE p.on = "root_name"
        <3>1. PICK r \in RootOf(row) : r.name \in p.values
            BY <1>1, <2>4 DEF Satisfies, ValuesOf
        <3>2. QED
            BY <2>4, <3>1 DEF RecordClause, RootOf
    <2>5. QED
        BY <1>6, <2>3, <2>4
<1>7. CASE p.on = "parent_uuid"
    <2>1. PICK u \in row.within : u \in p.values
        BY <1>1, <1>7 DEF Satisfies, ValuesOf
    <2>2. PICK dset \in stored :
            dset.type = "domain" /\ dset.uuid = u /\ dset.root = row.root
        BY <1>1, <1>2, <1>7, <2>1, DomainsAreThere
    <2>3. QED
        BY <1>7, <2>1, <2>2 DEF RecordClause, Kept
<1>8. QED
    BY <1>1, <1>3, <1>4, <1>5, <1>6, <1>7 DEF Attributes

LEMMA MeantObjectsAreSelected ==
    ASSUME QueryInv, LookupInv, pc = "select", req \in Requests, req.type = "object",
           NoAlternativeIsLost(req), NEW row \in stored, Means(row, req)
    PROVE  Clause(row, req)
<1>1. row.type = "object" /\ InScope(row, req) /\ Base(row, req)
    BY DEF Means, InScope, Base
<1>2. KindIn(stored, req.kind)
    BY KindIsFound
<1>3. row.scope = IF DomainQualified(req) THEN "domain" ELSE "system"
    BY <1>1, <1>2, ScopeIsTheKinds
<1>4. SystemObjectClause(row, req)
    <2>1. CASE req.form = "or"
        BY <1>1, <2>1 DEF SystemObjectClause, NoAlternativeIsLost, Means
    <2>2. CASE req.form \in {"unary", "and"}
        BY <1>1, <2>2 DEF SystemObjectClause, UsableParts, Means
    <2>3. CASE req.form = "none"
        BY <1>1, <2>3, RequestsAssumption DEF SystemObjectClause, UsableParts
    <2>4. QED
        BY <2>1, <2>2, <2>3, RequestsAssumption
<1>5. QED
    BY <1>1, <1>3, <1>4 DEF Clause

LEMMA MeantIsSelected ==
    ASSUME QueryInv, LookupInv, Closed(began), pc = "select", req \in Requests,
           ~ Refused(req), NoAlternativeIsLost(req), NEW row \in began, Means(row, req)
    PROVE  Clause(row, req)
<1>1. CASE req.type = "object"
    BY <1>1, MeantObjectsAreSelected DEF QueryInv
<1>2. CASE req.type # "object"
    BY <1>2, MeantRecordsAreSelected DEF Clause, Means
<1>3. QED
    BY <1>1, <1>2

\* Every row that is selected is meant, if the store translates the expression whole.
LEMMA SelectedRecordsAreMeant ==
    ASSUME QueryInv, LookupInv, pc = "select", req \in Requests, req.type # "object",
           ~ Refused(req), NEW row \in stored, Clause(row, req)
    PROVE  Means(row, req)
<1> DEFINE p == req.parts[1]
<1>1. /\ row.type = req.type /\ RecordClause(row, p)
      /\ p.on \in Attributes \ {"kind"}
      /\ p.on \in {"root_uuid", "root_name", "parent_uuid"} => row.type = "domain"
    BY RecordPredicates DEF Clause
<1> SUFFICES Satisfies(row, p)
    BY <1>1, RecordRequests DEF Means
<1>2. CASE p.on \in {"uuid", "name"}
    BY <1>1, <1>2 DEF RecordClause, Satisfies, ValuesOf
<1>3. CASE p.on = "system"
    <2>1. Lookups(req) = p.values
        BY <1>3 DEF Lookups, Names
    <2>2. QED
        BY <1>1, <1>3, <2>1 DEF LookupInv, RecordClause, Satisfies, ValuesOf
<1>4. CASE p.on = "kindversion"
    <2>1. 1 \in DOMAIN req.parts
        BY RecordRequests
    <2>2. PICK v \in p.values : row.system = Host /\ row.kind = v[1] /\ row.version = v[2]
        BY <1>1, <1>4 DEF RecordClause
    <2>3. <<row.kind, row.version>> = v
        BY <1>4, <2>1, <2>2, RequestsAssumption
    <2>4. QED
        BY <1>4, <2>2, <2>3 DEF Satisfies, ValuesOf
<1>5. CASE p.on = "root_uuid"
    BY <1>1, <1>5 DEF RecordClause, Satisfies, ValuesOf
<1>6. CASE p.on = "root_name"
    BY <1>1, <1>6 DEF RecordClause, Satisfies, ValuesOf, RootOf
<1>7. CASE p.on = "parent_uuid"
    BY <1>1, <1>7 DEF RecordClause, Satisfies, ValuesOf
<1>8. QED
    BY <1>1, <1>2, <1>3, <1>4, <1>5, <1>6, <1>7 DEF Attributes

LEMMA SelectedObjectsAreMeant ==
    ASSUME req \in Requests, req.type = "object", TranslatedWhole(req),
           NEW row, Clause(row, req)
    PROVE  Means(row, req)
<1>1. row.type = "object"
    BY DEF Clause
<1>2. CASE DomainQualified(req)
    BY <1>1, <1>2 DEF Clause, Base, TranslatedWhole, Means, InScope
<1>3. CASE ~ DomainQualified(req)
    <2>1. SystemObjectClause(row, req) /\ UsableParts(req) = DOMAIN req.parts
        BY <1>3 DEF Clause, TranslatedWhole
    <2>2. CASE req.form = "or"
        <3>1. Len(req.parts) = 1 /\ DOMAIN req.parts = 1..Len(req.parts)
            BY <2>2, RequestsAssumption DEF TranslatedWhole
        <3>2. DOMAIN req.parts = {1}
            BY <3>1
        <3>3. Base(row, req) /\ Satisfies(row, req.parts[1])
            BY <2>1, <2>2, <3>2 DEF SystemObjectClause
        <3>4. QED
            BY <1>1, <2>2, <3>2, <3>3 DEF Means, Base, InScope
    <2>3. CASE req.form # "or"
        BY <1>1, <2>1, <2>3 DEF SystemObjectClause, Means, Base, InScope
    <2>4. QED
        BY <2>2, <2>3
<1>4. QED
    BY <1>2, <1>3

\* Where one alternative reaches the clause, it is the one that the kind is joined to.
LEMMA SelectedObjectsAreInScope ==
    ASSUME NEW q \in Requests, q.type = "object", KeepsToTheKind(q), NEW row, Clause(row, q)
    PROVE  InScope(row, q)
<1>1. Base(row, q) => InScope(row, q)
    BY DEF Base, InScope
<1>2. CASE DomainQualified(q)
    BY <1>1, <1>2 DEF Clause
<1>3. CASE ~ DomainQualified(q) /\ q.form # "or"
    BY <1>1, <1>3 DEF Clause, SystemObjectClause
<1>4. CASE ~ DomainQualified(q) /\ q.form = "or"
    <2>1. \A i, j \in UsableParts(q) : i = j
        BY <1>4 DEF KeepsToTheKind
    <2>2. UsableParts(q) \subseteq Nat
        BY RequestsAssumption DEF UsableParts
    <2>3. PICK i \in UsableParts(q) : (\A j \in UsableParts(q) : i <= j) => Base(row, q)
        BY <1>4 DEF Clause, SystemObjectClause
    <2>4. \A j \in UsableParts(q) : i <= j
        BY <2>1, <2>2
    <2>5. QED
        BY <1>1, <2>3, <2>4
<1>5. QED
    BY <1>2, <1>3, <1>4

LEMMA SelectedIsMeant ==
    ASSUME QueryInv, LookupInv, pc = "select", req \in Requests, ~ Refused(req),
           TranslatedWhole(req), NEW row \in stored, Clause(row, req)
    PROVE  Means(row, req)
BY SelectedRecordsAreMeant, SelectedObjectsAreMeant

-----------------------------------------------------------------------------
(* The inductive invariant. *)

IdleInv == pc = "idle" => known = {} /\ pending = {} /\ rows = {} /\ began = {}

StatementNamesNothing(q) == Names(q, "kindversion") /\ known = {}

\* The rows between the SELECT and the answer.
PageInv == pc = "convert" =>
    /\ ~ Refused(req) /\ ~ NothingFound(req) /\ ~ StatementNamesNothing(req)
    /\ TranslatedWhole(req) => \A row \in rows : Means(row, req)
    /\ req.type = "object" /\ KeepsToTheKind(req) => \A row \in rows : InScope(row, req)
    /\ NoAlternativeIsLost(req) => \A row \in began \ rows : Means(row, req) =>
        /\ Cardinality(rows) = Limit(req)
        /\ \A other \in rows : other.uuid < row.uuid

QueryIInv ==
    /\ QueryInv
    /\ Closed(began)
    /\ IdleInv
    /\ pc # "idle" => LookupInv
    /\ PageInv

LEMMA EmptyPage == \A q \in Requests : PageIsBounded({}, q)
BY FS_EmptySet, LimitsAssumption, RequestsAssumption DEF PageIsBounded

LEMMA InitQueryIInv == Init => QueryIInv
<1> SUFFICES ASSUME Init PROVE QueryIInv
    OBVIOUS
<1>1. QueryInv
    BY InitialRowsAssumption DEF Init, QueryInv
<1>2. Closed(began) /\ IdleInv /\ PageInv /\ pc = "idle"
    BY DEF Init, Closed, IdleInv, PageInv
<1>3. QED
    BY <1>1, <1>2 DEF QueryIInv

LEMMA ReturnKeepsIInv ==
    ASSUME QueryIInv, NEW result, NEW page, NEW fault, Return(result, page, fault),
           PageIsBounded(page, req)
    PROVE  QueryIInv'
<1>1. reply'.rows = page /\ reply'.req = req
    BY DEF Return
<1>2. PageIsBounded(reply.rows, reply.req)'
    BY <1>1 DEF PageIsBounded
<1>3. QueryInv'
    BY <1>2, NoneAssumption DEF QueryIInv, QueryInv, Return
<1>4. Closed(began)' /\ IdleInv' /\ PageInv' /\ pc' = "idle"
    BY DEF Return, Closed, IdleInv, PageInv
<1>5. QED
    BY <1>3, <1>4 DEF QueryIInv

LEMMA ErrorKeepsIInv ==
    ASSUME QueryIInv, pc # "idle", NEW result, NEW fault, Return(result, {}, fault)
    PROVE  QueryIInv'
<1>1. req \in Requests
    BY DEF QueryIInv, QueryInv
<1>2. QED
    BY <1>1, EmptyPage, ReturnKeepsIInv

LEMMA QueryKeepsIInv == QueryIInv /\ Query => QueryIInv'
<1> SUFFICES ASSUME QueryIInv, Query PROVE QueryIInv'
    OBVIOUS
<1>1. PICK q \in Requests :
        /\ pc = "idle" /\ req' = q /\ began' = stored /\ pending' = Lookups(q)
        /\ pc' = IF Lookups(q) = {} THEN "select" ELSE "lookup"
        /\ reply' = None /\ UNCHANGED <<stored, known, rows>>
    BY DEF Query
<1>2. known = {} /\ rows = {}
    BY <1>1 DEF QueryIInv, IdleInv
<1>3. QueryInv'
    BY <1>1, <1>2, NoneAssumption DEF QueryIInv, QueryInv
<1>4. Closed(began)'
    BY <1>1 DEF QueryIInv, QueryInv, Closed
<1>5. LookupInv'
    BY <1>1, <1>2, LookupsOfObjects DEF LookupInv
<1>6. QED
    BY <1>1, <1>3, <1>4, <1>5 DEF QueryIInv, IdleInv, PageInv

LEMMA LookupKeepsIInv == QueryIInv /\ Lookup => QueryIInv'
<1> SUFFICES ASSUME QueryIInv, Lookup PROVE QueryIInv'
    OBVIOUS
<1>1. PICK v \in pending :
        /\ pc = "lookup"
        /\ IF req.type = "object" /\ ~ Found(req, v)
           THEN Return("KindUnknown", {}, FALSE)
           ELSE /\ pending' = pending \ {v}
                /\ known' = IF Found(req, v) THEN known \union {v} ELSE known
                /\ pc' = IF pending = {v} THEN "select" ELSE "lookup"
                /\ reply' = None
                /\ UNCHANGED <<stored, req, rows, began>>
    BY DEF Lookup
<1>2. CASE req.type = "object" /\ ~ Found(req, v)
    BY <1>1, <1>2, ErrorKeepsIInv
<1>3. CASE ~ (req.type = "object" /\ ~ Found(req, v))
    <2>1. /\ pending' = pending \ {v}
          /\ known' = IF Found(req, v) THEN known \union {v} ELSE known
          /\ pc' = IF pending = {v} THEN "select" ELSE "lookup"
          /\ reply' = None /\ UNCHANGED <<stored, req, rows, began>>
        BY <1>1, <1>3
    <2>2. LookupInv /\ began \subseteq stored
        BY <1>1 DEF QueryIInv, QueryInv
    <2>3. Found(req, v) <=> FoundIn(stored, req, v)
        BY FoundIsStored
    <2>4. FoundIn(began, req, v) => FoundIn(stored, req, v)
        BY <2>2 DEF FoundIn, SystemIn, KindIn
    <2>5. \A w : FoundIn(stored, req, w)' = FoundIn(stored, req, w)
        BY <2>1 DEF FoundIn, SystemIn, KindIn, Names
    <2>6. \A w : FoundIn(began, req, w)' = FoundIn(began, req, w)
        BY <2>1 DEF FoundIn, SystemIn, KindIn, Names
    <2>7. LookupInv'
        <3>1. known' \subseteq Lookups(req)' /\ pending' \subseteq Lookups(req)'
            BY <1>1, <2>1, <2>2 DEF LookupInv
        <3>2. \A w \in known' : FoundIn(stored, req, w)'
            BY <2>1, <2>2, <2>3, <2>5 DEF LookupInv
        <3>3. \A w \in Lookups(req)' \ (known' \union pending') : ~ FoundIn(began, req, w)'
            BY <2>1, <2>2, <2>3, <2>4, <2>6 DEF LookupInv
        <3>4. req'.type = "object" => Lookups(req)' = known' \union pending'
            BY <1>1, <1>3, <2>1, <2>2 DEF LookupInv
        <3>5. pc' \in {"select", "convert"} => pending' = {}
            BY <1>1, <2>1
        <3>6. QED
            BY <3>1, <3>2, <3>3, <3>4, <3>5 DEF LookupInv
    <2>8. QueryInv'
        BY <1>1, <2>1, NoneAssumption DEF QueryIInv, QueryInv
    <2>9. Closed(began)' /\ IdleInv' /\ PageInv'
        BY <2>1 DEF QueryIInv, Closed, IdleInv, PageInv
    <2>10. QED
        BY <2>7, <2>8, <2>9 DEF QueryIInv
<1>4. QED
    BY <1>2, <1>3

LEMMA SelectKeepsIInv == QueryIInv /\ Select => QueryIInv'
<1> SUFFICES ASSUME QueryIInv, Select PROVE QueryIInv'
    OBVIOUS
<1>1. CASE StatementFails(req)
    BY <1>1, ErrorKeepsIInv DEF Select
<1>2. CASE ~ StatementFails(req)
    <2> DEFINE S == {row \in stored : Clause(row, req)}
    <2>1. /\ pc = "select" /\ pc' = "convert" /\ ~ Refused(req) /\ ~ NothingFound(req)
          /\ ~ StatementNamesNothing(req) /\ reply' = None
          /\ rows' \in FirstRows(S, Limit(req))
          /\ UNCHANGED <<stored, req, pending, known, began>>
        BY <1>2 DEF Select, StatementFails, StatementNamesNothing
    <2>2. /\ QueryInv /\ LookupInv /\ Closed(began) /\ began \subseteq stored
          /\ req \in Requests
        BY <2>1 DEF QueryIInv, QueryInv
    <2>3. /\ Limit(req) <= MaxLimit /\ Limit(req) \in Nat
          /\ Limit(req) <= IF req.limit = 0 THEN DefaultLimit ELSE req.limit
        BY <2>2, LimitsAssumption, RequestsAssumption DEF Limit
    <2>4. /\ rows' \subseteq S /\ IsFiniteSet(rows') /\ Cardinality(rows') <= Limit(req)
          /\ rows' = S \/ Cardinality(rows') = Limit(req)
          /\ \A row \in rows', other \in S \ rows' : row.uuid < other.uuid
        BY <2>1 DEF FirstRows
    <2>5. QueryInv'
        <3>1. Cardinality(rows') \in Nat
            BY <2>4, FS_CardinalityType
        <3>2. PageIsBounded(rows', req)
            <4>1. req.limit \in Nat
                BY <2>2, RequestsAssumption
            <4>2. QED
                BY <2>3, <2>4, <3>1, <4>1, LimitsAssumption DEF PageIsBounded
        <3>3. PageIsBounded(rows, req)'
            BY <2>1, <3>2 DEF PageIsBounded
        <3>4. QED
            BY <2>1, <2>2, <2>4, <3>3, NoneAssumption DEF QueryInv
    <2>6. Closed(began)' /\ IdleInv' /\ LookupInv'
        <3>1. \A w : /\ FoundIn(stored, req, w)' = FoundIn(stored, req, w)
                     /\ FoundIn(began, req, w)' = FoundIn(began, req, w)
            BY <2>1 DEF FoundIn, SystemIn, KindIn, Names
        <3>2. QED
            BY <2>1, <2>2, <3>1 DEF Closed, IdleInv, LookupInv
    <2>7. \A row : Means(row, req)' = Means(row, req)
        BY <2>1 DEF Means, InScope, Satisfies, ValuesOf, RootOf, Kept
    <2>8. ASSUME TranslatedWhole(req)', NEW row \in rows' PROVE Means(row, req)'
        <3>1. TranslatedWhole(req)
            BY <2>1, <2>8 DEF TranslatedWhole, DomainQualified, Kept
        <3>2. row \in stored /\ Clause(row, req)
            BY <2>4
        <3>3. QED
            BY <2>1, <2>2, <2>7, <3>1, <3>2, SelectedIsMeant
    <2>9. req'.type = "object" /\ KeepsToTheKind(req)' => \A row \in rows' : InScope(row, req)'
        <3>1. KeepsToTheKind(req)' => KeepsToTheKind(req)
            BY <2>1 DEF KeepsToTheKind, DomainQualified, Kept
        <3>2. \A row \in rows' : Clause(row, req)
            BY <2>4
        <3>3. \A row : InScope(row, req)' = InScope(row, req)
            BY <2>1 DEF InScope
        <3>4. QED
            BY <2>1, <2>2, <3>1, <3>2, <3>3, SelectedObjectsAreInScope
    <2>10. ASSUME NoAlternativeIsLost(req)', NEW row \in (began \ rows)', Means(row, req)'
          PROVE  /\ Cardinality(rows') = Limit(req)'
                 /\ \A other \in rows' : other.uuid < row.uuid
        <3>1. NoAlternativeIsLost(req) /\ Means(row, req) /\ row \in began
            BY <2>1, <2>7, <2>10 DEF NoAlternativeIsLost
        <3>2. row \in S \ rows'
            BY <2>1, <2>2, <2>10, <3>1, MeantIsSelected
        <3>3. QED
            BY <2>1, <2>4, <3>2
    <2>11. PageInv'
        BY <2>1, <2>8, <2>9, <2>10 DEF PageInv, NothingFound, StatementNamesNothing
    <2>12. QED
        BY <2>5, <2>6, <2>11 DEF QueryIInv
<1>3. QED
    BY <1>1, <1>2

\* A kind that was found stays the one of its name.
LEMMA FoundKindStays ==
    ASSUME QueryInv, KindIn(stored, req.kind), NEW new \in Universe, Write(new)
    PROVE  DomainQualified(req)' = DomainQualified(req)
<1>1. /\ stored' = stored \union {new} /\ req' = req
      /\ stored \subseteq Universe
    BY DEF Write, query, QueryInv
<1>2. ASSUME new.type = "kind", new.system = Host, new.name = req.kind PROVE new \in stored
    BY <1>1, <1>2, UniqueAssumption DEF KindIn
<1>3. QED
    BY <1>1, <1>2 DEF DomainQualified, Kept

LEMMA WriteKeepsIInv ==
    ASSUME QueryIInv, NEW new \in Universe, Write(new)
    PROVE  QueryIInv'
<1>1. stored' = stored \union {new} /\ UNCHANGED <<pc, req, pending, known, rows, began>>
    BY DEF Write, query
<1>2. /\ QueryInv /\ rows \subseteq stored /\ began \subseteq stored
      /\ stored \subseteq Universe
    BY DEF QueryIInv, QueryInv
<1>3. QueryInv'
    <2>1. PageIsBounded(rows, req)' <=> PageIsBounded(rows, req)
        BY <1>1 DEF PageIsBounded
    <2>2. QED
        BY <1>1, <1>2, <2>1 DEF QueryInv, Write
<1>4. Closed(began)' /\ IdleInv'
    BY <1>1 DEF QueryIInv, Closed, IdleInv
<1>5. pc' # "idle" => LookupInv'
    <2>1. \A w : /\ FoundIn(stored, req, w) => FoundIn(stored, req, w)'
                 /\ FoundIn(began, req, w)' = FoundIn(began, req, w)
        BY <1>1 DEF FoundIn, SystemIn, KindIn, Names
    <2>2. QED
        BY <1>1, <2>1 DEF QueryIInv, LookupInv
<1>6. ASSUME pc' = "convert" PROVE
        /\ ~ Refused(req)' /\ ~ NothingFound(req)' /\ ~ StatementNamesNothing(req)'
        /\ TranslatedWhole(req)' => \A row \in rows' : Means(row, req)'
        /\ req'.type = "object" /\ KeepsToTheKind(req)' => \A row \in rows' : InScope(row, req)'
        /\ NoAlternativeIsLost(req)' => \A row \in (began \ rows)' : Means(row, req)' =>
            /\ Cardinality(rows') = Limit(req)'
            /\ \A other \in rows' : other.uuid < row.uuid
    <2>1. PageInv /\ LookupInv /\ pc = "convert"
        BY <1>1, <1>6 DEF QueryIInv
    <2>2. \A row \in stored : Means(row, req)' <=> Means(row, req)
        <3>1. TAKE row \in stored
        <3>2. \A q : Means(row, q)' <=> Means(row, q)
            BY <1>2, MeaningStays
        <3>3. QED
            BY <1>1, <3>2 DEF Means, Satisfies, ValuesOf, RootOf, Kept, InScope
    <2>3. TranslatedWhole(req)' => TranslatedWhole(req)
        <3>1. SUFFICES ASSUME TranslatedWhole(req)', req.type = "object", DomainQualified(req)
                       PROVE  req.form = "none"
            BY <1>1 DEF TranslatedWhole
        <3>2. DomainQualified(req)'
            BY <1>1, <3>1 DEF DomainQualified, Kept
        <3>3. QED
            BY <1>1, <3>1, <3>2 DEF TranslatedWhole
    <2>4. /\ ~ Refused(req)' /\ ~ NothingFound(req)' /\ ~ StatementNamesNothing(req)'
          /\ NoAlternativeIsLost(req)' = NoAlternativeIsLost(req)
        BY <1>1, <2>1 DEF PageInv, NothingFound, StatementNamesNothing, NoAlternativeIsLost
    <2>5. ASSUME req.type = "object", KeepsToTheKind(req)'
          PROVE  \A row \in rows' : InScope(row, req)'
        <3>1. DomainQualified(req)' = DomainQualified(req)
            BY <1>2, <2>1, <2>5, KindIsFound, FoundKindStays
        <3>2. KeepsToTheKind(req)
            BY <1>1, <2>5, <3>1 DEF KeepsToTheKind
        <3>3. \A row : InScope(row, req)' = InScope(row, req)
            BY <1>1 DEF InScope
        <3>4. QED
            BY <1>1, <2>1, <2>5, <3>2, <3>3 DEF PageInv
    <2>6. QED
        BY <1>1, <1>2, <2>1, <2>2, <2>3, <2>4, <2>5 DEF PageInv
<1>7. PageInv'
    BY <1>6 DEF PageInv
<1>8. QED
    BY <1>3, <1>4, <1>5, <1>7 DEF QueryIInv

LEMMA NextQueryIInv == QueryIInv /\ [Next]_vars => QueryIInv'
<1> SUFFICES ASSUME QueryIInv, [Next]_vars PROVE QueryIInv'
    OBVIOUS
<1>1. CASE Query
    BY <1>1, QueryKeepsIInv
<1>2. CASE Lookup
    BY <1>2, LookupKeepsIInv
<1>3. CASE Select
    BY <1>3, SelectKeepsIInv
<1>4. CASE Refuse \/ AnswerNothing \/ Convert \/ Fail
    <2>1. CASE Return("ok", rows, FALSE) /\ pc = "convert"
        BY <2>1, ReturnKeepsIInv DEF QueryIInv, QueryInv
    <2>2. QED
        BY <1>4, <2>1, ErrorKeepsIInv DEF Refuse, AnswerNothing, Convert, Fail
<1>5. CASE \E row \in Universe : Write(row)
    BY <1>5, WriteKeepsIInv
<1>6. CASE UNCHANGED vars
    <2>1. QueryInv' /\ Closed(began)' /\ IdleInv'
        BY <1>6 DEF vars, QueryIInv, QueryInv, PageIsBounded, Closed, IdleInv
    <2>2. (pc # "idle" => LookupInv)'
        BY <1>6 DEF vars, QueryIInv, LookupInv, FoundIn, SystemIn, KindIn, Names
    <2>3. \A row : Means(row, req)' = Means(row, req)
        BY <1>6 DEF vars, Means, InScope, Satisfies, ValuesOf, RootOf, Kept
    <2>4. PageInv'
        BY <1>6, <2>3 DEF vars, QueryIInv, PageInv, NothingFound, StatementNamesNothing,
            TranslatedWhole, KeepsToTheKind, InScope, DomainQualified, Kept, NoAlternativeIsLost
    <2>5. QED
        BY <2>1, <2>2, <2>4 DEF QueryIInv
<1>7. QED
    BY <1>1, <1>2, <1>3, <1>4, <1>5, <1>6 DEF Next

-----------------------------------------------------------------------------
(* Answers. *)

\* If nothing can be found, nothing was meant when the query began.
LEMMA NothingIsMeant ==
    ASSUME QueryIInv, pc = "select", ~ Refused(req), NothingFound(req),
           NEW row \in began, Means(row, req)
    PROVE  FALSE
<1>1. /\ QueryInv /\ LookupInv /\ Closed(began) /\ req \in Requests
      /\ req.type # "object" /\ known = {}
      /\ req.parts[1].on \in {"system", "kindversion"}
    BY DEF QueryIInv, QueryInv, NothingFound, Names
<1>2. RecordClause(row, req.parts[1])
    BY <1>1, MeantRecordsAreSelected
<1>3. QED
    BY <1>1, <1>2 DEF RecordClause

LEMMA UnknownIsNotFound ==
    ASSUME LookupInv, req \in Requests, pc \in {"select", "convert"}, AsksForUnknown(req)
    PROVE  /\ ~ Refused(req)
           /\ IF NothingFound(req) THEN UnknownIsTold(req) = "ok"
              ELSE StatementNamesNothing(req) /\ UnknownIsTold(req) = "Internal"
<1>1. known = {} /\ req.type # "object"
    BY FoundIsStored, LookupsOfObjects DEF LookupInv, AsksForUnknown
<1>2. ~ Refused(req) /\ (Names(req, "system") \/ Names(req, "kindversion"))
    BY <1>1 DEF AsksForUnknown, Names
<1>3. req.parts[1].op \in {"equal", "in"}
    BY <1>1, <1>2, RecordRequests, RequestsAssumption
<1>4. Names(req, "system") => ~ Names(req, "kindversion")
    BY DEF Names
<1>5. QED
    BY <1>1, <1>2, <1>3, <1>4 DEF NothingFound, StatementNamesNothing, UnknownIsTold

\* An answer is judged by the rows stored when it is given.
LEMMA JudgeAnswer ==
    ASSUME NEW result, NEW page, NEW fault, Return(result, page, fault)
    PROVE  /\ reply'.req = req /\ reply'.result = result /\ reply'.rows = page
           /\ reply'.fault = fault /\ reply'.began = began /\ stored' = stored
           /\ \A row, q : Means(row, q)' = Means(row, q)
           /\ \A q : TranslatedWhole(q)' = TranslatedWhole(q)
           /\ \A q : KeepsToTheKind(q)' = KeepsToTheKind(q)
           /\ \A q : AsksForUnknown(q)' = AsksForUnknown(q)
           /\ AsksForUnknown(reply.req)' => AsksForUnknown(req)
<1>1. /\ reply'.req = req /\ reply'.result = result /\ reply'.rows = page
      /\ reply'.fault = fault /\ reply'.began = began /\ stored' = stored
    BY DEF Return
<1>2. \A row, q : Means(row, q)' = Means(row, q)
    BY <1>1 DEF Means, InScope, Satisfies, ValuesOf, RootOf, Kept
<1>3. \A q : TranslatedWhole(q)' = TranslatedWhole(q)
    BY <1>1 DEF TranslatedWhole, DomainQualified, Kept
<1>4. \A q : KeepsToTheKind(q)' = KeepsToTheKind(q)
    BY <1>1 DEF KeepsToTheKind, DomainQualified, Kept
<1>5. \A q : AsksForUnknown(q)' = AsksForUnknown(q)
    BY <1>1 DEF AsksForUnknown, Found, SystemExists, KindExists, Kept, Names
<1>6. AsksForUnknown(reply.req)' => AsksForUnknown(req)
    BY <1>1 DEF AsksForUnknown, Found, SystemExists, KindExists, Kept, Names
<1>7. QED
    BY <1>1, <1>2, <1>3, <1>4, <1>5, <1>6

RightAnswer == NothingIsSkipped /\ AnswersMatch /\ UnknownIsEmpty

\* An error claims nothing, but that to ask for what is unknown is told by this one.
LEMMA ErrorsAreRight ==
    ASSUME NEW result, result # "ok", NEW fault, Return(result, {}, fault),
           AsksForUnknown(req) => result = IF fault THEN "Internal" ELSE UnknownIsTold(req)
    PROVE  RightAnswer'
<1>1. NothingIsSkipped' /\ AnswersMatch'
    BY JudgeAnswer DEF NothingIsSkipped, AnswersMatch
<1>2. UnknownIsTold(reply.req)' = UnknownIsTold(req)
    BY JudgeAnswer DEF UnknownIsTold, Names
<1>3. UnknownIsEmpty'
    BY <1>2, JudgeAnswer DEF UnknownIsEmpty
<1>4. QED
    BY <1>1, <1>3 DEF RightAnswer

LEMMA NextIsRight == QueryIInv /\ RightAnswer /\ [Next]_vars => RightAnswer'
<1> SUFFICES ASSUME QueryIInv, RightAnswer, [Next]_vars PROVE RightAnswer'
    OBVIOUS
<1>1. ASSUME reply' = None PROVE RightAnswer'
    BY <1>1 DEF RightAnswer, NothingIsSkipped, AnswersMatch, UnknownIsEmpty
<1>2. CASE Query \/ \E row \in Universe : Write(row)
    BY <1>1, <1>2 DEF Query, Write
<1>3. CASE Lookup
    <2>1. CASE reply' = None
        BY <1>1, <2>1
    <2>2. CASE Return("KindUnknown", {}, FALSE) /\ req.type = "object"
        <3>1. UnknownIsTold(req) = "KindUnknown"
            BY <2>2 DEF UnknownIsTold, Names
        <3>2. QED
            BY <2>2, <3>1, ErrorsAreRight
    <2>3. QED
        BY <1>3, <2>1, <2>2 DEF Lookup
<1>4. CASE Refuse
    <2>1. pc = "select" /\ Refused(req) /\ Return("Refused", {}, FALSE)
        BY <1>4 DEF Refuse
    <2>2. ~ AsksForUnknown(req)
        BY <2>1, UnknownIsNotFound DEF QueryIInv, QueryInv
    <2>3. QED
        BY <2>1, <2>2, ErrorsAreRight
<1>5. CASE AnswerNothing
    <2>1. /\ pc = "select" /\ NothingFound(req) /\ Return("ok", {}, FALSE)
          /\ ~ Refused(req)
        BY <1>5 DEF AnswerNothing, NothingFound, Names
    <2>2. NothingIsSkipped'
        BY <2>1, NothingIsMeant, JudgeAnswer DEF NothingIsSkipped
    <2>3. AnswersMatch' /\ UnknownIsEmpty'
        <3>1. reply'.result = "ok" /\ reply'.rows = {} /\ ~ reply'.fault /\ reply'.req = req
            BY <2>1 DEF Return
        <3>2. AsksForUnknown(req) => UnknownIsTold(req) = "ok"
            BY <2>1, UnknownIsNotFound DEF QueryIInv, QueryInv
        <3>3. UnknownIsTold(reply.req)' = UnknownIsTold(req)
            BY <3>1 DEF UnknownIsTold, Names
        <3>4. QED
            BY <2>1, <3>1, <3>2, <3>3, JudgeAnswer DEF AnswersMatch, UnknownIsEmpty
    <2>4. QED
        BY <2>2, <2>3 DEF RightAnswer
<1>6. CASE Select
    <2>1. CASE reply' = None
        BY <1>1, <2>1
    <2>2. CASE Return("Internal", {}, FALSE)
        <3>1. pc = "select" /\ ~ NothingFound(req) /\ LookupInv /\ req \in Requests
            BY <1>6 DEF Select, QueryIInv, QueryInv
        <3>2. QED
            BY <2>2, <3>1, UnknownIsNotFound, ErrorsAreRight
    <2>3. QED
        BY <1>6, <2>1, <2>2 DEF Select
<1>7. CASE Convert
    <2>1. pc = "convert" /\ PageInv /\ LookupInv
        BY <1>7 DEF Convert, QueryIInv
    <2>2. ~ AsksForUnknown(req)
        BY <2>1, UnknownIsNotFound DEF PageInv, QueryIInv, QueryInv
    <2>3. CASE Return("Internal", {}, FALSE)
        BY <2>2, <2>3, ErrorsAreRight
    <2>4. CASE Return("ok", rows, FALSE)
        <3>1. NothingIsSkipped'
            <4>1. Limit(reply'.req) = Limit(req)
                BY <2>4, JudgeAnswer
            <4>2. QED
                BY <2>1, <2>4, <4>1, JudgeAnswer DEF NothingIsSkipped, PageInv, NoAlternativeIsLost
        <3>2. AnswersMatch'
            <4>1. /\ TranslatedWhole(reply.req)' <=> TranslatedWhole(req)
                  /\ KeepsToTheKind(reply.req)' <=> KeepsToTheKind(req)
                BY <2>4, JudgeAnswer DEF TranslatedWhole, KeepsToTheKind, DomainQualified, Kept
            <4>2. \A row : InScope(row, reply.req)' <=> InScope(row, req)
                BY <2>4, JudgeAnswer DEF InScope
            <4>3. \A row : Means(row, reply.req)' <=> Means(row, req)
                <5>1. reply'.req = req /\ stored' = stored
                    BY <2>4, JudgeAnswer
                <5>2. \A row, p : Satisfies(row, p)' <=> Satisfies(row, p)
                    BY <5>1 DEF Satisfies, ValuesOf, RootOf, Kept
                <5>3. QED
                    BY <4>2, <5>1, <5>2 DEF Means
            <4>4. QED
                BY <2>1, <2>4, <4>1, <4>2, <4>3, JudgeAnswer DEF AnswersMatch, PageInv
        <3>3. UnknownIsEmpty'
            BY <2>2, <2>4, JudgeAnswer DEF UnknownIsEmpty
        <3>4. QED
            BY <3>1, <3>2, <3>3 DEF RightAnswer
    <2>5. QED
        BY <1>7, <2>3, <2>4 DEF Convert
<1>8. CASE Fail
    BY <1>8, ErrorsAreRight DEF Fail
<1>9. CASE UNCHANGED vars
    <2>1. reply' = reply /\ stored' = stored
        BY <1>9 DEF vars
    <2>2. /\ \A row : Means(row, reply.req)' = Means(row, reply.req)
          /\ \A row : InScope(row, reply.req)' = InScope(row, reply.req)
          /\ TranslatedWhole(reply.req)' = TranslatedWhole(reply.req)
          /\ KeepsToTheKind(reply.req)' = KeepsToTheKind(reply.req)
        BY <2>1 DEF Means, InScope, Satisfies, ValuesOf, RootOf, TranslatedWhole, KeepsToTheKind,
                    DomainQualified, Kept
    <2>3. /\ AsksForUnknown(reply.req)' = AsksForUnknown(reply.req)
          /\ UnknownIsTold(reply.req)' = UnknownIsTold(reply.req)
        BY <2>1 DEF AsksForUnknown, UnknownIsTold, Found, SystemExists, KindExists, Kept, Names
    <2>4. NothingIsSkipped' /\ AnswersMatch'
        BY <2>1, <2>2 DEF RightAnswer, NothingIsSkipped, AnswersMatch, NoAlternativeIsLost
    <2>5. UnknownIsEmpty'
        BY <2>1, <2>3 DEF RightAnswer, UnknownIsEmpty
    <2>6. QED
        BY <2>4, <2>5 DEF RightAnswer
<1>10. QED
    BY <1>2, <1>3, <1>4, <1>5, <1>6, <1>7, <1>8, <1>9 DEF Next

LEMMA QueriesAreRight == Spec => [](QueryIInv /\ RightAnswer)
<1>1. Init => QueryIInv /\ RightAnswer
    BY InitQueryIInv DEF Init, RightAnswer, NothingIsSkipped, AnswersMatch, UnknownIsEmpty
<1>2. QueryIInv /\ RightAnswer /\ [Next]_vars => (QueryIInv /\ RightAnswer)'
    BY NextQueryIInv, NextIsRight
<1>3. QED
    BY <1>1, <1>2, PTL DEF Spec

\* No page, selected or answered, is longer than its query asked for, or than the default
\* and the maximum allow, and rows come with what they refer to.
THEOREM PagesAreBounded == Spec => []QueryInv
<1>1. QueryIInv => QueryInv
    BY DEF QueryIInv
<1>2. QED
    BY <1>1, QueriesAreRight, PTL

\* An answer holds every row that was stored when the query began and is meant, up to
\* the end of its page.
THEOREM PagesSkipNothing == Spec => []NothingIsSkipped
<1>1. RightAnswer => NothingIsSkipped
    BY DEF RightAnswer
<1>2. QED
    BY <1>1, QueriesAreRight, PTL

\* An answer holds only rows that are meant, if the store translates the expression whole:
\* not for an expression over domain-qualified objects, predicates that are passed over and
\* several predicates joined by OR.  Even of these, what is answered is of the kind and
\* version that was asked for, unless several predicates of an OR reach the clause.
THEOREM RowsAreMeant == Spec => []AnswersMatch
<1>1. RightAnswer => AnswersMatch
    BY DEF RightAnswer
<1>2. QED
    BY <1>1, QueriesAreRight, PTL

\* A query that names only systems, versions of kinds or a kind of which nothing is stored
\* has an empty page, and is told so by one result: no error for systems and for one
\* version, KindUnknown for objects, Internal for a list of versions, and Internal for
\* whatever a connection that breaks interrupts.
THEOREM UnknownNamesAreEmpty == Spec => []UnknownIsEmpty
<1>1. RightAnswer => UnknownIsEmpty
    BY DEF RightAnswer
<1>2. QED
    BY <1>1, QueriesAreRight, PTL

=============================================================================
