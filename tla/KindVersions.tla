--------------------------- MODULE KindVersions ---------------------------
(***************************************************************************)
(* Kinds and their versions: KindWrite, KindRead, KindVersionWrite and     *)
(* KindVersionRead of the driver, the kind and kindversion stores with     *)
(* their caches, and Exec, which runs every statement in a transaction on  *)
(* a connection of the pool.                                               *)
(*                                                                         *)
(* dbInsert of the kindversion store reads the versions that exist inside  *)
(* its transaction function, through an Exec of its own: a writer holds    *)
(* one connection while it waits for a second one, and looks at another    *)
(* snapshot than the one it writes in.                                     *)
(*                                                                         *)
(* One process and one system.                                             *)
(***************************************************************************)
EXTENDS Naturals

CONSTANTS
    Callers,          \* goroutines
    Kinds,            \* kind names
    UUIDs,            \* of kinds
    Versions,         \* semantic versions
    InitialVersions,  \* those whose minor and patch numbers are 0
    Schemas,          \* what a version says of its kind
    Connections,      \* the pool
    Cached,           \* the caches that are enabled: of kinds, of versions
    Requests,         \* the calls that callers make
    MaxCalls,         \* bound: calls in all
    None

KindWrites == [op: {"write_kind"}, kind: Kinds, uuid: UUIDs]
KindReads == [op: {"read_kind"}, kind: Kinds]
VersionWrites ==
    [op: {"write_version"}, kind: Kinds, version: Versions, schema: Schemas]
VersionReads == [op: {"read_version"}, kind: Kinds, version: Versions]

ASSUME CallsAssumption == MaxCalls \in Nat
ASSUME VersionsAssumption == InitialVersions \subseteq Versions
ASSUME CachedAssumption == Cached \subseteq {"kind", "version"}
ASSUME RequestsAssumption ==
    Requests \subseteq KindWrites \union KindReads \union VersionWrites \union VersionReads
ASSUME NoneAssumption == None \notin Schemas \union UUIDs \union Connections \union Requests

VARIABLES
    kinds,         \* committed rows of kinds: the uuid of each name
    kindversions,  \* committed rows of kindversions: the schema of each version
    kindCache,     \* what the caches from name to uuid to record say, like kinds
    versionCache,  \* the kindversion cache, like kindversions
    pc,            \* the next step of each caller
    req,           \* the request of the call each caller is in, or was in last
    reply,         \* the answer to it
    outer,         \* the connection of the transaction that each caller is in
    nested,        \* the connection of the transaction inside it
    seen,          \* the versions that dbVersionsForKind returned
    calls          \* calls made so far

tables == <<kinds, kindversions>>
caches == <<kindCache, versionCache>>
vars == <<kinds, kindversions, kindCache, versionCache, pc, req, reply, outer, nested,
          seen, calls>>

Waiting == {"acquire_kind", "acquire_write_kind", "acquire_write", "acquire_nested",
            "acquire_version"}
Working == {"select_kind", "insert_kind", "commit_kind", "select_versions", "insert",
            "commit", "select_version"}
Steps == {"idle", "lookup_kind", "lookup_version"} \union Waiting \union Working

\* nil, Internal, ErrKindUnknown, ErrNotFound, ExpectedFirstVersionInSeries,
\* ExpectedNotToExist, and DuplicateName, which dbInsert of the kind store returns inside
\* an Internal.
Errors == {"nil", "internal", "kind_unknown", "not_found", "first_expected", "exists",
           "duplicate"}
Replies == [error: Errors, found: Schemas \union UUIDs \union {None}]

Init ==
    /\ kinds = [k \in Kinds |-> None]
    /\ kindversions = [k \in Kinds |-> [v \in Versions |-> None]]
    /\ kindCache = [k \in Kinds |-> None]
    /\ versionCache = [k \in Kinds |-> [v \in Versions |-> None]]
    /\ pc = [c \in Callers |-> "idle"]
    /\ req = [c \in Callers |-> None]
    /\ reply = [c \in Callers |-> None]
    /\ outer = [c \in Callers |-> None]
    /\ nested = [c \in Callers |-> None]
    /\ seen = [c \in Callers |-> {}]
    /\ calls = 0

-----------------------------------------------------------------------------
(* Calls and Exec. *)

Goto(c, step) == pc' = [pc EXCEPT ![c] = step]

\* Every transaction the caller is in ends and its connections go back to the pool.
Return(c, error, found) ==
    /\ Goto(c, "idle")
    /\ reply' = [reply EXCEPT ![c] = [error |-> error, found |-> found]]
    /\ outer' = [outer EXCEPT ![c] = None]
    /\ nested' = [nested EXCEPT ![c] = None]
    /\ seen' = [seen EXCEPT ![c] = {}]
    /\ UNCHANGED <<req, calls>>

\* A transaction of its own, which is over.
EndExec(c, step) ==
    /\ outer' = [outer EXCEPT ![c] = None]
    /\ Goto(c, step)
    /\ UNCHANGED <<req, reply, nested, seen, calls>>

Call(c, r, step) ==
    /\ pc[c] = "idle"
    /\ calls < MaxCalls
    /\ calls' = calls + 1
    /\ req' = [req EXCEPT ![c] = r]
    /\ reply' = [reply EXCEPT ![c] = None]
    /\ Goto(c, step)
    /\ UNCHANGED <<kinds, kindversions, kindCache, versionCache, outer, nested, seen>>

KindWrite(c) == \E r \in Requests \intersect KindWrites :
    Call(c, r, "acquire_write_kind")

KindRead(c) == \E r \in Requests \intersect KindReads :
    Call(c, r, "lookup_kind")

KindVersionWrite(c) == \E r \in Requests \intersect VersionWrites :
    Call(c, r, "lookup_kind")

KindVersionRead(c) == \E r \in Requests \intersect VersionReads :
    Call(c, r, "lookup_kind")

\* An error anywhere: no server, a failed statement, a refused cache entry.  Exec rolls
\* the transactions back.
Fail(c) ==
    /\ pc[c] # "idle"
    /\ Return(c, "internal", None)
    /\ UNCHANGED <<tables, caches>>

Free == Connections \ UNION {{outer[c], nested[c]} : c \in Callers}

AfterAcquire == [acquire_kind |-> "select_kind", acquire_write_kind |-> "insert_kind",
                 acquire_write |-> "acquire_nested", acquire_version |-> "select_version"]

\* Pool.Acquire and BeginTx.
AcquireOuter(c) ==
    /\ pc[c] \in Waiting \ {"acquire_nested"}
    /\ \E conn \in Free : outer' = [outer EXCEPT ![c] = conn]
    /\ Goto(c, AfterAcquire[pc[c]])
    /\ UNCHANGED <<tables, caches, req, reply, nested, seen, calls>>

AcquireNested(c) ==
    /\ pc[c] = "acquire_nested"
    /\ \E conn \in Free : nested' = [nested EXCEPT ![c] = conn]
    /\ Goto(c, "select_versions")
    /\ UNCHANGED <<tables, caches, req, reply, outer, seen, calls>>

\* Mutant: Acquire without a deadline.
WaitForever(c) == FALSE /\ UNCHANGED vars

\* acquireTimeoutDuration has passed and no connection has come free.
AcquireTimeout(c) ==
    /\ pc[c] \in Waiting
    /\ Free = {}
    /\ Return(c, "internal", None)
    /\ UNCHANGED <<tables, caches>>

-----------------------------------------------------------------------------
(* KindWrite. *)

HoldsKind(d, r) == pc[d] = "commit_kind" /\ (req[d].kind = r.kind \/ req[d].uuid = r.uuid)

\* UNIQUE (uuid), UNIQUE (system, name).
KindTaken(r) == kinds[r.kind] # None \/ \E k \in Kinds : kinds[k] = r.uuid

\* The INSERT, which waits for an uncommitted row with the uuid or the name.  Either
\* duplicate is reported as one of the name.
InsertKind(c) ==
    /\ pc[c] = "insert_kind"
    /\ \A d \in Callers \ {c} : ~ HoldsKind(d, req[c])
    /\ UNCHANGED <<tables, caches>>
    /\ IF KindTaken(req[c])
       THEN Return(c, "duplicate", None)
       ELSE Goto(c, "commit_kind") /\ UNCHANGED <<req, reply, outer, nested, seen, calls>>

\* COMMIT, whose reply may be lost.
CommitKind(c) ==
    /\ pc[c] = "commit_kind"
    /\ kinds' = [kinds EXCEPT ![req[c].kind] = req[c].uuid]
    /\ UNCHANGED <<kindversions, caches>>
    /\ Return(c, "nil", None) \/ Return(c, "internal", None)

-----------------------------------------------------------------------------
(* KindRead, and the kind of a version: kindStore.ReadByName. *)

AfterKind(c) == IF req[c].op = "write_version" THEN "acquire_write" ELSE "lookup_version"

\* The record is KindRead's answer, and the other calls go on with it.
KindFound(c, uuid) ==
    IF req[c].op = "read_kind" THEN Return(c, "nil", uuid) ELSE EndExec(c, AfterKind(c))

LookupKind(c) ==
    LET cached == kindCache[req[c].kind] IN
    /\ pc[c] = "lookup_kind"
    /\ UNCHANGED <<tables, caches>>
    /\ IF cached # None
       THEN KindFound(c, cached)
       ELSE Goto(c, "acquire_kind") /\ UNCHANGED <<req, reply, outer, nested, seen, calls>>

\* Mutant: a kind that is not found is no error.
SelectAnyKind(c) ==
    /\ pc[c] = "select_kind"
    /\ UNCHANGED <<tables, caches>>
    /\ KindFound(c, kinds[req[c].kind])

\* The SELECT, and cacheWrite after it: rows of kinds do not change.
SelectKind(c) ==
    LET row == kinds[req[c].kind] IN
    /\ pc[c] = "select_kind"
    /\ UNCHANGED <<tables, versionCache>>
    /\ IF row = None
       THEN /\ Return(c, IF req[c].op = "read_kind" THEN "not_found" ELSE "kind_unknown", None)
            /\ kindCache' = kindCache
       ELSE /\ KindFound(c, row)
            /\ kindCache' = IF "kind" \in Cached THEN [kindCache EXCEPT ![req[c].kind] = row]
                                                 ELSE kindCache

-----------------------------------------------------------------------------
(* KindVersionWrite. *)

PublishedOf(k) == {v \in Versions : kindversions[k][v] # None}

\* Mutant: the inner transaction's connection is not released.
SelectVersionsAndLeak(c) ==
    /\ pc[c] = "select_versions"
    /\ seen' = [seen EXCEPT ![c] = PublishedOf(req[c].kind)]
    /\ Goto(c, "insert")
    /\ UNCHANGED <<tables, caches, req, reply, outer, nested, calls>>

\* dbVersionsForKind: an Exec inside the transaction function of dbInsert.
SelectVersions(c) ==
    /\ pc[c] = "select_versions"
    /\ seen' = [seen EXCEPT ![c] = PublishedOf(req[c].kind)]
    /\ nested' = [nested EXCEPT ![c] = None]
    /\ Goto(c, "insert")
    /\ UNCHANGED <<tables, caches, req, reply, outer, calls>>

FirstExpected(c) == seen[c] = {} /\ req[c].version \notin InitialVersions

HoldsVersion(d, r) ==
    pc[d] = "commit" /\ req[d].kind = r.kind /\ req[d].version = r.version

\* Mutant: the table's unique index is missing.
NeverPublished(r) == FALSE

\* UNIQUE (system, kind, version).
Published(r) == r.version \in PublishedOf(r.kind)

\* The checks on the versions seen, then the INSERT, which waits for an uncommitted row
\* of the same version.
Insert(c) ==
    /\ pc[c] = "insert"
    /\ UNCHANGED <<tables, caches>>
    /\ \/ FirstExpected(c) /\ Return(c, "first_expected", None)
       \/ req[c].version \in seen[c] /\ Return(c, "exists", None)
       \/ /\ ~ FirstExpected(c)
          /\ req[c].version \notin seen[c]
          /\ \A d \in Callers \ {c} : ~ HoldsVersion(d, req[c])
          /\ IF Published(req[c])
             THEN Return(c, "exists", None)
             ELSE Goto(c, "commit") /\ UNCHANGED <<req, reply, outer, nested, seen, calls>>

Commit(c) ==
    /\ pc[c] = "commit"
    /\ kindversions' = [kindversions EXCEPT ![req[c].kind][req[c].version] = req[c].schema]
    /\ UNCHANGED <<kinds, caches>>
    /\ Return(c, "nil", None) \/ Return(c, "internal", None)

-----------------------------------------------------------------------------
(* KindVersionRead: kindversionStore.ReadByName. *)

LookupVersion(c) ==
    LET cached == versionCache[req[c].kind][req[c].version] IN
    /\ pc[c] = "lookup_version"
    /\ UNCHANGED <<tables, caches>>
    /\ IF cached # None
       THEN Return(c, "nil", cached)
       ELSE Goto(c, "acquire_version") /\ UNCHANGED <<req, reply, outer, nested, seen, calls>>

\* The SELECT, and cacheWrite after it: rows of kindversions do not change.
SelectVersion(c) ==
    LET row == kindversions[req[c].kind][req[c].version] IN
    /\ pc[c] = "select_version"
    /\ UNCHANGED <<tables, kindCache>>
    /\ IF row = None
       THEN Return(c, "not_found", None) /\ versionCache' = versionCache
       ELSE /\ Return(c, "nil", row)
            /\ versionCache' = IF "version" \in Cached
                 THEN [versionCache EXCEPT ![req[c].kind][req[c].version] = row]
                 ELSE versionCache

-----------------------------------------------------------------------------

Step(c) ==
    \/ AcquireOuter(c) \/ AcquireNested(c) \/ AcquireTimeout(c)
    \/ InsertKind(c) \/ CommitKind(c)
    \/ LookupKind(c) \/ SelectKind(c)
    \/ SelectVersions(c) \/ Insert(c) \/ Commit(c)
    \/ LookupVersion(c) \/ SelectVersion(c)

Next == \E c \in Callers :
    \/ KindWrite(c) \/ KindRead(c) \/ KindVersionWrite(c) \/ KindVersionRead(c)
    \/ Step(c) \/ Fail(c)

Spec == Init /\ [][Next]_vars

\* A call in progress keeps running, and a deadline passes; calls and failures are never
\* forced.
FairSpec == Spec /\ \A c \in Callers : WF_vars(Step(c))

-----------------------------------------------------------------------------
(* Correctness. *)

VersionTypeOK ==
    /\ kinds \in [Kinds -> UUIDs \union {None}]
    /\ kindversions \in [Kinds -> [Versions -> Schemas \union {None}]]
    /\ kindCache \in [Kinds -> UUIDs \union {None}]
    /\ versionCache \in [Kinds -> [Versions -> Schemas \union {None}]]
    /\ pc \in [Callers -> Steps]
    /\ req \in [Callers -> Requests \union {None}]
    /\ reply \in [Callers -> Replies \union {None}]
    /\ outer \in [Callers -> Connections \union {None}]
    /\ nested \in [Callers -> Connections \union {None}]
    /\ seen \in [Callers -> SUBSET Versions]
    /\ calls \in 0..MaxCalls

\* Every kind's series has an initial version, although the check counts the versions in
\* another transaction than the one that inserts.
SeriesStartsInitially == \A k \in Kinds :
    PublishedOf(k) # {} => PublishedOf(k) \intersect InitialVersions # {}

\* A uuid belongs to one kind: the cache goes from a name to a uuid to a record, and would
\* answer one kind with the record of another.
UUIDsIdentifyKinds == \A j, k \in Kinds : kinds[j] # None /\ kinds[j] = kinds[k] => j = k

\* A version belongs to a stored kind: the table has no foreign key, and the kind was
\* read in another transaction or from the cache.
VersionsHaveKinds == \A k \in Kinds : PublishedOf(k) # {} => kinds[k] # None

\* Every answer is true, and stays so: an acknowledged row is the one stored, of two
\* writers of one version only one is acknowledged, a refused version exists.
AnswersAreTrue == \A c \in Callers : pc[c] = "idle" /\ reply[c] # None =>
    LET r == req[c]
        error == reply[c].error IN
    /\ error = "nil" /\ r.op = "write_kind" => kinds[r.kind] = r.uuid
    /\ error = "nil" /\ r.op = "read_kind" =>
            reply[c].found # None /\ kinds[r.kind] = reply[c].found
    /\ error = "nil" /\ r.op = "write_version" =>
            kindversions[r.kind][r.version] = r.schema
    /\ error = "nil" /\ r.op = "read_version" =>
            /\ reply[c].found # None
            /\ kindversions[r.kind][r.version] = reply[c].found
    /\ error = "exists" => Published(r)
    /\ error = "duplicate" => r.op = "write_kind" /\ KindTaken(r)
    /\ error = "first_expected" => r.version \notin InitialVersions

\* The stores implement the abstract series.
Series == INSTANCE VersionSeries
ImplementsVersionSeries == Series!Spec

\* Every call returns: one that waits for a connection gets it or its deadline passes,
\* even when every connection is held by a writer that waits for a second one.
VersionCallsReturn == \A c \in Callers : pc[c] # "idle" ~> pc[c] = "idle"

-----------------------------------------------------------------------------
(* Why the answers are true. *)

InOuter == {"select_kind", "insert_kind", "commit_kind", "acquire_nested",
            "select_versions", "insert", "commit", "select_version"}
OfVersionWrite == {"acquire_write", "acquire_nested", "select_versions", "insert", "commit"}
OfVersionRead == {"lookup_version", "acquire_version", "select_version"}

\* A connection serves one transaction, and none when the transaction is over.
ConnectionsServeOne == \A c \in Callers :
    /\ outer[c] # None <=> pc[c] \in InOuter
    /\ nested[c] # None <=> pc[c] = "select_versions"
    /\ outer[c] # None => outer[c] # nested[c]
    /\ \A d \in Callers \ {c} : \A conn \in Connections :
        ~ (conn \in {outer[c], nested[c]} /\ conn \in {outer[d], nested[d]})

\* Where a caller is tells what it asked for and what it has found out.
StepsFollow == \A c \in Callers :
    /\ pc[c] # "idle" \/ reply[c] # None => req[c] \in Requests
    /\ pc[c] \in {"acquire_write_kind", "insert_kind", "commit_kind"} => req[c] \in KindWrites
    /\ pc[c] \in {"lookup_kind", "acquire_kind", "select_kind"} =>
            req[c] \in KindReads \union VersionWrites \union VersionReads
    /\ pc[c] \in OfVersionWrite => req[c] \in VersionWrites /\ kinds[req[c].kind] # None
    /\ pc[c] \in OfVersionRead => req[c] \in VersionReads /\ kinds[req[c].kind] # None
    /\ seen[c] # {} => pc[c] \in {"insert", "commit"}
    /\ pc[c] \in {"insert", "commit"} => seen[c] \subseteq PublishedOf(req[c].kind)
    /\ pc[c] = "commit" => ~ FirstExpected(c) /\ ~ Published(req[c])
    /\ pc[c] = "commit_kind" => ~ KindTaken(req[c])

\* A row is inserted by one transaction at a time.
CommitsExclude == \A c, d \in Callers : c # d =>
    /\ pc[c] = "commit" => ~ HoldsVersion(d, req[c])
    /\ pc[c] = "commit_kind" => ~ HoldsKind(d, req[c])

CachesTellRows ==
    /\ \A k \in Kinds : kindCache[k] # None => kindCache[k] = kinds[k]
    /\ \A k \in Kinds, v \in Versions : versionCache[k][v] # None =>
            versionCache[k][v] = kindversions[k][v]

\* The inductive invariant.
VersionInv ==
    /\ VersionTypeOK
    /\ ConnectionsServeOne
    /\ StepsFollow
    /\ CommitsExclude
    /\ CachesTellRows
    /\ SeriesStartsInitially
    /\ UUIDsIdentifyKinds
    /\ VersionsHaveKinds
    /\ AnswersAreTrue

=============================================================================
