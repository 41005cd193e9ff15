----------------------------- MODULE ObjectRead -----------------------------
(***************************************************************************)
(* Driver.ObjectRead beside the writers of ObjectStore.  A read by name is *)
(* a lookup of the uuid and then a read of the object; a read by uuid is a *)
(* lookup of the name and then the same read.  The two statements run in   *)
(* transactions of their own, so any number of commits may fall between.   *)
(***************************************************************************)
EXTENDS ObjectStore

CONSTANTS
    Readers,       \* callers of ObjectRead
    ReadRequests,  \* the selectors they pass
    MaxReads       \* bound: reads in all

\* rxpobject.Selector with the resolved kindversion and domain: a uuid or a name;
\* generation 0 is latestSentinel.
Selectors ==
    [kindversion: KindVersions, domain: Domains \union {None},
     uuid: UUIDs, name: {None}, generation: 0..MaxGeneration]
    \union
    [kindversion: KindVersions, domain: Domains \union {None},
     uuid: {None}, name: Names, generation: 0..MaxGeneration]

ReadResults == {"ok", "NotFound", "SelectorDomainRequired", "Internal"}

ASSUME ReadRequestsAssumption == ReadRequests \subseteq Selectors
ASSUME MaxReadsAssumption == MaxReads \in Nat
ASSUME NoSelectorAssumption == None \notin
    UUIDs \union Names \union Selectors \union [uuid: UUIDs, name: Names]

VARIABLES
    rpc,     \* the next step of each reader
    sel,     \* the selector of the read each reader is in
    found,   \* the uuid and name of the object, once looked up
    reads,   \* what each reader's previous read returned
    started, \* reads begun so far
    shown,   \* history: the highest generation of each object that a read returned
    floor    \* history: the generations that were known when a read began

readVars == <<rpc, sel, found, reads, started, shown, floor>>
allVars == <<vars, readVars>>

ReadInit ==
    /\ Init
    /\ rpc = [d \in Readers |-> "idle"]
    /\ sel = [d \in Readers |-> None]
    /\ found = [d \in Readers |-> None]
    /\ reads = [d \in Readers |-> None]
    /\ started = 0
    /\ shown = [u \in UUIDs |-> 0]
    /\ floor = [d \in Readers |-> None]

-----------------------------------------------------------------------------
(* The queries. *)

\* The name row of u is one that the lookups join: in the domain-qualified table
\* under the given domain, or in the system-qualified table.  No lookup compares
\* the kind.
NamedIn(u, s) ==
    /\ names[u] # None
    /\ names[u].domain = IF IsDomainScoped(s) THEN s.domain ELSE None

UUIDsFromName(s) == {u \in UUIDs : NamedIn(u, s) /\ names[u].name = s.name}

\* Mutant: the latest generation is read without o.generation = og.generation.
AnyGeneration(u, s) ==
    {g \in Generations : generations[<<u, g>>] # None /\ s.generation \in {0, g}}

\* Mutant: the sentinel 0 is compared like any other generation.
LiteralGeneration(u, s) ==
    {g \in Generations : generations[<<u, g>>] # None /\ g = s.generation}

\* The rows of object_generations that the selector's generation joins.
JoinedGenerations(u, s) ==
    {g \in Generations :
        /\ generations[<<u, g>>] # None
        /\ g = IF s.generation = 0 THEN Latest(u) ELSE s.generation}

\* Mutant: WHERE o.uuid = $1 alone.
MatchesAnyVersion(u, s) == objects[u] # None

\* WHERE o.uuid = $1 AND o.kindversion = $2: the version the object was created
\* with, for dbInsertGeneration leaves it alone.
Matches(u, s) == objects[u] # None /\ objects[u].kindversion = s.kindversion

-----------------------------------------------------------------------------
(* One ObjectRead. *)

\* The generations of u up to the latest that any caller has been told of.
KnownGenerations(u) == {g \in Generations :
    \/ g <= shown[u]
    \/ \E a \in answers : a.result = "ok" /\ a.uuid = u /\ g <= a.generation + 1}

\* The read of d returns a result and, if it is "ok", an object.
Finish(d, result, object) ==
    /\ reads' = [reads EXCEPT ![d] = [result |-> result, object |-> object,
                                     sel |-> sel[d], floor |-> floor[d]]]
    /\ rpc' = [rpc EXCEPT ![d] = "idle"]
    /\ sel' = [sel EXCEPT ![d] = None]
    /\ found' = [found EXCEPT ![d] = None]
    /\ floor' = [floor EXCEPT ![d] = None]
    /\ UNCHANGED started

ObjectRead(d) == \E s \in ReadRequests :
    /\ rpc[d] = "idle"
    /\ started < MaxReads
    /\ started' = started + 1
    /\ reads' = [reads EXCEPT ![d] = None]
    /\ sel' = [sel EXCEPT ![d] = s]
    /\ floor' = [floor EXCEPT ![d] = [u \in UUIDs |-> KnownGenerations(u)]]
    /\ rpc' = [rpc EXCEPT ![d] = IF IsDomainScoped(s) /\ s.domain = None
                                 THEN "refuse" ELSE "lookup"]
    /\ UNCHANGED <<found, shown>>

\* objectReadValidateScope
RefuseRead(d) ==
    /\ rpc[d] = "refuse"
    /\ Finish(d, "SelectorDomainRequired", None)
    /\ UNCHANGED shown

\* QueryRow takes the first row of an unordered result.
UUIDFromName(d) ==
    /\ rpc[d] = "lookup"
    /\ sel[d].uuid = None
    /\ \/ \E u \in UUIDsFromName(sel[d]) :
            /\ found' = [found EXCEPT ![d] = [uuid |-> u, name |-> sel[d].name]]
            /\ rpc' = [rpc EXCEPT ![d] = "read"]
            /\ UNCHANGED <<sel, reads, started, shown, floor>>
       \/ /\ UUIDsFromName(sel[d]) = {}
          /\ Finish(d, "NotFound", None)
          /\ UNCHANGED shown

\* Mutant: ErrNoRows is not an error, and the name stays empty.
NameOrNothing(d) ==
    LET u == sel[d].uuid IN
    /\ rpc[d] = "lookup"
    /\ u # None
    /\ found' = [found EXCEPT ![d] =
            [uuid |-> u, name |-> IF NamedIn(u, sel[d]) THEN names[u].name ELSE None]]
    /\ rpc' = [rpc EXCEPT ![d] = "read"]
    /\ UNCHANGED <<sel, reads, started, shown, floor>>

NameFromUUID(d) ==
    LET u == sel[d].uuid IN
    /\ rpc[d] = "lookup"
    /\ u # None
    /\ \/ /\ NamedIn(u, sel[d])
          /\ found' = [found EXCEPT ![d] = [uuid |-> u, name |-> names[u].name]]
          /\ rpc' = [rpc EXCEPT ![d] = "read"]
          /\ UNCHANGED <<sel, reads, started, shown, floor>>
       \/ /\ ~ NamedIn(u, sel[d])
          /\ Finish(d, "NotFound", None)
          /\ UNCHANGED shown

\* The object returned carries the name found first, and the kindversion and the domain
\* asked for: the query selects no domain, and objects.domain is compared with nothing.
ReadByUUIDAndGeneration(d) ==
    LET u == found[d].uuid
        s == sel[d]
        rows == JoinedGenerations(u, s)
    IN
    /\ rpc[d] = "read"
    /\ \/ \E g \in rows :
            /\ Matches(u, s)
            /\ Finish(d, "ok", [uuid |-> u, name |-> found[d].name,
                                kindversion |-> s.kindversion, domain |-> s.domain,
                                generation |-> g,
                                spec |-> generations[<<u, g>>].spec])
            /\ shown' = [shown EXCEPT ![u] = IF @ < g THEN g ELSE @]
       \/ /\ ~ Matches(u, s) \/ rows = {}
          /\ Finish(d, "NotFound", None)
          /\ UNCHANGED shown

\* Acquire, BeginTx or the query failed.
ReadFails(d) ==
    /\ rpc[d] \in {"lookup", "read"}
    /\ Finish(d, "Internal", None)
    /\ UNCHANGED shown

ReadNext == \E d \in Readers :
    \/ ObjectRead(d)
    \/ RefuseRead(d)
    \/ UUIDFromName(d)
    \/ NameFromUUID(d)
    \/ ReadByUUIDAndGeneration(d)
    \/ ReadFails(d)

\* Readers and writers share nothing but the tables.
SystemNext ==
    \/ Next /\ UNCHANGED readVars
    \/ ReadNext /\ UNCHANGED vars

System == ReadInit /\ [][SystemNext]_allVars

-----------------------------------------------------------------------------
(* Correctness. *)

\* Every variable of the read path has its type.
ReadTypeOK ==
    /\ rpc \in [Readers -> {"idle", "refuse", "lookup", "read"}]
    /\ sel \in [Readers -> ReadRequests \union {None}]
    /\ found \in [Readers -> [uuid: UUIDs, name: Names] \union {None}]
    /\ DOMAIN reads = Readers /\ DOMAIN floor = Readers
    /\ \A d \in Readers :
        /\ rpc[d] = "idle" <=> sel[d] = None
        /\ rpc[d] = "read" => found[d] # None
        /\ rpc[d] # "idle" => floor[d] \in [UUIDs -> SUBSET Generations]
        /\ reads[d] # None =>
            /\ reads[d].result \in ReadResults
            /\ reads[d].sel \in ReadRequests
            /\ reads[d].floor \in [UUIDs -> SUBSET Generations]
    /\ shown \in [UUIDs -> 0..MaxGeneration]
    /\ started \in 0..MaxReads

\* An object's name row is of the kind that the object was created in and, if names of
\* that kind belong to domains, of its domain.
NamesFollowObjects == \A u \in UUIDs : objects[u] # None =>
    /\ names[u].kind = KindOf[objects[u].kindversion]
    /\ IsDomainScoped(objects[u]) => names[u].domain = objects[u].domain

\* Callers have only been told of generations that are stored.
KnownIsStored ==
    /\ \A u \in UUIDs : shown[u] <= Latest(u)
    /\ \A d \in Readers, u \in UUIDs :
        /\ rpc[d] # "idle" => \A g \in floor[d][u] : g <= Latest(u)
        /\ reads[d] # None => \A g \in reads[d].floor[u] : g <= Latest(u)
    /\ \A d \in Readers : reads[d] # None /\ reads[d].result = "ok" =>
        /\ reads[d].object.uuid \in UUIDs
        /\ reads[d].object.generation \in 1..Latest(reads[d].object.uuid)

\* What the first transaction of a read has found is still so in the second.
FoundIsNamed == \A d \in Readers : rpc[d] = "read" =>
    /\ NamedIn(found[d].uuid, sel[d])
    /\ names[found[d].uuid].name = found[d].name
    /\ sel[d].uuid # None => found[d].uuid = sel[d].uuid
    /\ sel[d].uuid = None => found[d].name = sel[d].name

\* What lets the second transaction of a read go on from the first.
ReadInv == ReadTypeOK /\ NamesFollowObjects /\ KnownIsStored /\ FoundIsNamed

\* A read that asks for the latest generation returns one at least as recent as
\* every generation that a write or another read had returned before it began,
\* although it works in two transactions.
ReadsNeverGoBack == \A d \in Readers :
    LET read == reads[d] IN
    read # None /\ read.result = "ok" /\ read.sel.generation = 0
      => \A g \in read.floor[read.object.uuid] : g <= read.object.generation

\* The object that a read puts together from three tables is one object: it is
\* stored under the returned name in the kind that was asked for, its generation holds
\* the returned spec and, if objects of the kind belong to domains, it is stored in the
\* returned domain.  The lookups do not compare the kind; the kindversion filter of the
\* last query must make up for it.  (In a kind whose objects belong to the system the
\* returned domain is the one asked for, wherever the object is: nothing compares the two.)
ReadIsOneObject == \A d \in Readers :
    LET read == reads[d]
        object == read.object
    IN
    read # None /\ read.result = "ok"
      => /\ names[object.uuid] = QualifiedName([read.sel EXCEPT !.name = object.name])
         /\ IsDomainScoped(object) => object.domain = objects[object.uuid].domain
         /\ generations[<<object.uuid, object.generation>>].spec = object.spec

\* The selector s describes the object u.
Denotes(s, u) ==
    /\ Matches(u, s)
    /\ IF s.uuid = None THEN names[u] = QualifiedName(s)
       ELSE u = s.uuid /\ names[u].domain = QualifiedName(s).domain

\* The read of d found nothing although the object it describes, at the generation
\* it asks for, had been acknowledged before it began.
Missed(d) ==
    LET read == reads[d] IN
    /\ read # None
    /\ read.result = "NotFound"
    /\ \E u \in UUIDs :
        /\ Denotes(read.sel, u)
        /\ (IF read.sel.generation = 0 THEN 1 ELSE read.sel.generation) \in read.floor[u]

\* Two objects of different kinds that share a name, as the tables allow.
Namesakes(u, x) ==
    /\ names[u] # None /\ names[x] # None
    /\ names[u].name = names[x].name /\ names[u].domain = names[x].domain
    /\ names[u].kind # names[x].kind

\* A read finds every object that was acknowledged before it began, if it asks for the
\* kindversion the object was created with: but for one by name whose object has a
\* namesake.
OnlyNamesakesAreMissed == \A d \in Readers : Missed(d) =>
    /\ reads[d].sel.uuid = None
    /\ \E u, x \in UUIDs : Denotes(reads[d].sel, u) /\ Namesakes(u, x)

\* A read by name finds the object all the same: within its kind and domain a name
\* identifies the object (migrations/001_init.sql:11-12).
AcknowledgedIsFoundByName == \A d \in Readers :
    Missed(d) => reads[d].sel.uuid # None

\* The kindversion that a read returns with a generation is the one that the
\* generation was written with (driver/object.go: `We also want to ensure that the
\* KindVersion they specified in the ObjectRead call matches the KindVersion
\* associated with the object record itself').
ReadKindVersionIsWritten == \A d \in Readers :
    LET read == reads[d] IN
    read # None /\ read.result = "ok"
      => generations[<<read.object.uuid, read.object.generation>>].kindversion
            = read.object.kindversion

\* It is the one that the first generation was written with, whatever the later ones were.
ReadKindVersionIsFirst == \A d \in Readers :
    LET read == reads[d] IN
    read # None /\ read.result = "ok"
      => generations[<<read.object.uuid, 1>>].kindversion = read.object.kindversion

=============================================================================
