---------------------------- MODULE ObjectStore ----------------------------
(***************************************************************************)
(* The write path of the object store: Store.Write and its two            *)
(* transactions, dbInsertFirst and dbInsertGeneration, run by concurrent   *)
(* callers against the tables objects, *_qualified_object_names and        *)
(* object_generations.                                                     *)
(*                                                                         *)
(* One action is one SQL statement.  A transaction's own writes are        *)
(* `pending' until its COMMIT, which applies them to the tables at once.   *)
(* Other transactions feel pending writes only through PostgreSQL's rules  *)
(* for unique indexes and row locks: a statement that needs a key or a row *)
(* held by an open transaction waits until that transaction ends.          *)
(***************************************************************************)
EXTENDS Naturals

CONSTANTS
    Callers,        \* goroutines or processes that call ObjectWrite
    UUIDs,          \* object identities
    Names,          \* unqualified object names
    Kinds,          \* kinds, resolved by the driver
    DomainScoped,   \* the kinds whose scope is rxp.ScopeDomain
    KindVersions,   \* kindversion rows
    KindOf,         \* the kind of each kindversion
    Domains,        \* domain rows
    Requests,       \* the calls of ObjectWrite that callers make
    MaxGeneration,  \* bound: generations a run may reach
    MaxWrites,      \* bound: calls in all
    None            \* no row, no domain, no request

Generations == 1..MaxGeneration

\* What the driver passes to Store.Write, after resolving kind, version and domain.
\* The expected generation 0 says "I am the first writer".
WriteRequests ==
    [uuid: UUIDs, kindversion: KindVersions, domain: Domains \union {None},
     name: Names, generation: 0..(MaxGeneration - 1)]

\* Calls are numbered; the number stands for the spec, the created_by and the
\* created_on of the row the call inserts.
Writes == 1..MaxWrites

\* UNIQUE (system, kind, domain, name) and UNIQUE (system, kind, name).
QualifiedNames == [kind: Kinds, domain: Domains \union {None}, name: Names]

\* Rows are keyed by uuid; the surrogate key objects.id is abstracted away.
ObjectRows == [kindversion: KindVersions, domain: Domains \union {None},
               generation: Generations]
GenerationRows == [kindversion: KindVersions, spec: Writes]

Results == {"ok", "ExpectedNotToExist", "DuplicateName", "ExpectedToExist",
            "Conflict", "DomainRequired", "Internal"}
Answers == [write: Writes, uuid: UUIDs, generation: 0..(MaxGeneration - 1),
            result: Results]

ASSUME BoundsAssumption == MaxGeneration \in Nat \ {0} /\ MaxWrites \in Nat
ASSUME KindOfAssumption == KindOf \in [KindVersions -> Kinds]
ASSUME RequestsAssumption == Requests \subseteq WriteRequests
ASSUME NoneAssumption ==
    /\ None \notin ObjectRows
    /\ None \notin GenerationRows
    /\ None \notin QualifiedNames
    /\ None \notin WriteRequests
    /\ None \notin Writes

VARIABLES
    objects,      \* committed rows of objects, by uuid
    names,        \* committed rows of the two name tables, by object
    generations,  \* committed rows of object_generations, by (object, generation)
    pc,           \* the next statement of each caller
    req,          \* the request of the call each caller is in
    write,        \* the number of that call
    seen,         \* the objects row in each transaction's snapshot
    pending,      \* the uncommitted writes of each transaction
    issued,       \* calls made so far
    answers       \* what the calls returned

tables == <<objects, names, generations>>
vars == <<objects, names, generations, pc, req, write, seen, pending, issued, answers>>

Statements == {"idle", "insert_object", "insert_name", "select_object",
               "insert_generation", "update_object", "rollback", "commit"}
PendingWrites == {"object", "name", "generation", "row"}

Init ==
    /\ objects = [u \in UUIDs |-> None]
    /\ names = [u \in UUIDs |-> None]
    /\ generations = [key \in UUIDs \X Generations |-> None]
    /\ pc = [c \in Callers |-> "idle"]
    /\ req = [c \in Callers |-> None]
    /\ write = [c \in Callers |-> None]
    /\ seen = [c \in Callers |-> None]
    /\ pending = [c \in Callers |-> {}]
    /\ issued = 0
    /\ answers = {}

-----------------------------------------------------------------------------
(* Requests and the rows they write. *)

IsDomainScoped(r) == KindOf[r.kindversion] \in DomainScoped

\* The row of domain_qualified_object_names when the kind is domain scoped, of
\* system_qualified_object_names (no domain) in the default case.
QualifiedName(r) ==
    [kind |-> KindOf[r.kindversion],
     domain |-> IF IsDomainScoped(r) THEN r.domain ELSE None,
     name |-> r.name]

\* Both transactions insert the generation after the expected one.
GenerationKey(r) == <<r.uuid, r.generation + 1>>

-----------------------------------------------------------------------------
(* PostgreSQL: what open transactions hold. *)

HoldsUUID(d, u) == "object" \in pending[d] /\ req[d].uuid = u
HoldsName(d, n) == "name" \in pending[d] /\ QualifiedName(req[d]) = n
HoldsGeneration(d, key) ==
    "generation" \in pending[d] /\ GenerationKey(req[d]) = key
HoldsRow(d, u) == "row" \in pending[d] /\ req[d].uuid = u

\* Mutant: a unique constraint is missing, or the INSERT is an upsert.
NameNeverTaken(n) == FALSE
GenerationNeverTaken(key) == FALSE

\* A unique index looks at every committed row, whatever the snapshot.
UUIDTaken(u) == objects[u] # None
NameTaken(n) == \E u \in UUIDs : names[u] = n
GenerationTaken(key) == generations[key] # None

-----------------------------------------------------------------------------
(* How a transaction ends. *)

\* The call returns: the transaction is over and its connection released.
Return(c, result) ==
    /\ answers' = answers \union
         {[write |-> write[c], uuid |-> req[c].uuid,
           generation |-> req[c].generation, result |-> result]}
    /\ pc' = [pc EXCEPT ![c] = "idle"]
    /\ req' = [req EXCEPT ![c] = None]
    /\ write' = [write EXCEPT ![c] = None]
    /\ seen' = [seen EXCEPT ![c] = None]
    /\ pending' = [pending EXCEPT ![c] = {}]
    /\ issued' = issued

\* A statement raised an error or found no row: PostgreSQL has undone the
\* transaction's writes when the call returns.
Abort(c, result) == Return(c, result) /\ UNCHANGED tables

\* A statement took effect inside the transaction; `next' comes after it.
Wrote(c, effect, next) ==
    /\ pending' = [pending EXCEPT ![c] = @ \union {effect}]
    /\ pc' = [pc EXCEPT ![c] = next]
    /\ UNCHANGED <<tables, req, write, seen, issued, answers>>

-----------------------------------------------------------------------------
(* Store.Write *)

\* The expected generation selects the transaction.
FirstStatement(r) ==
    IF r.generation = 0 THEN "insert_object" ELSE "select_object"

Write(c) == \E r \in Requests :
    /\ pc[c] = "idle"
    /\ issued < MaxWrites
    /\ ~ (IsDomainScoped(r) /\ r.domain = None)
    /\ issued' = issued + 1
    /\ write' = [write EXCEPT ![c] = issued + 1]
    /\ req' = [req EXCEPT ![c] = r]
    /\ pc' = [pc EXCEPT ![c] = FirstStatement(r)]
    /\ UNCHANGED <<tables, seen, pending, answers>>

\* A domain-scoped kind without a domain is refused before any statement.
RefuseWrite(c) == \E r \in Requests :
    /\ pc[c] = "idle"
    /\ issued < MaxWrites
    /\ IsDomainScoped(r) /\ r.domain = None
    /\ issued' = issued + 1
    /\ answers' = answers \union
         {[write |-> issued + 1, uuid |-> r.uuid,
           generation |-> r.generation, result |-> "DomainRequired"]}
    /\ UNCHANGED <<tables, pc, req, write, seen, pending>>

-----------------------------------------------------------------------------
(* dbInsertFirst *)

InsertObject(c) ==
    /\ pc[c] = "insert_object"
    /\ \A d \in Callers \ {c} : ~ HoldsUUID(d, req[c].uuid)
    /\ \/ /\ ~ UUIDTaken(req[c].uuid)
          /\ Wrote(c, "object", "insert_name")
       \/ /\ UUIDTaken(req[c].uuid)
          /\ Abort(c, "ExpectedNotToExist")

InsertName(c) ==
    LET n == QualifiedName(req[c]) IN
    /\ pc[c] = "insert_name"
    /\ \A d \in Callers \ {c} : ~ HoldsName(d, n)
    /\ \/ /\ ~ NameTaken(n)
          /\ Wrote(c, "name", "insert_generation")
       \/ /\ NameTaken(n)
          /\ Abort(c, "DuplicateName")

(* dbInsertGeneration *)

\* The first statement takes the snapshot that the whole transaction reads.
SelectObject(c) ==
    /\ pc[c] = "select_object"
    /\ \/ /\ objects[req[c].uuid] # None
          /\ seen' = [seen EXCEPT ![c] = objects[req[c].uuid]]
          /\ pc' = [pc EXCEPT ![c] = "insert_generation"]
          /\ UNCHANGED <<tables, req, write, pending, issued, answers>>
       \/ /\ objects[req[c].uuid] = None
          /\ Abort(c, "ExpectedToExist")

\* The INSERT into object_generations that ends the one transaction and starts
\* the writes of the other.
InsertGeneration(c) ==
    LET key == GenerationKey(req[c]) IN
    /\ pc[c] = "insert_generation"
    /\ \A d \in Callers \ {c} : ~ HoldsGeneration(d, key)
    /\ \/ /\ ~ GenerationTaken(key)
          /\ Wrote(c, "generation",
                   IF req[c].generation = 0 THEN "commit" ELSE "update_object")
       \/ /\ GenerationTaken(key)
          /\ Abort(c, "Conflict")

\* Mutant: the UPDATE has no AND generation = $5.
UpdateAlwaysMatches(c) == TRUE

\* WHERE id = $4 AND generation = $5, evaluated on the snapshot.
UpdateMatches(c) == seen[c].generation = req[c].generation

\* The row that the snapshot shows has been replaced by a later commit.
SnapshotIsStale(c) == objects[req[c].uuid] # seen[c]

\* REPEATABLE READ refuses to update a stale row (SQLSTATE 40001); the code gives
\* that error no meaning of its own and returns it as Internal.
UpdateObject(c) ==
    /\ pc[c] = "update_object"
    /\ \/ /\ ~ UpdateMatches(c)
          /\ pc' = [pc EXCEPT ![c] = "rollback"]
          /\ UNCHANGED <<tables, req, write, seen, pending, issued, answers>>
       \/ /\ UpdateMatches(c)
          /\ \A d \in Callers \ {c} : ~ HoldsRow(d, req[c].uuid)
          /\ IF SnapshotIsStale(c) THEN Abort(c, "Internal")
                                   ELSE Wrote(c, "row", "commit")

-----------------------------------------------------------------------------
(* Store.Exec *)

\* Mutant: the UPDATE sets generation to the expected one, not the next.
CommittedWithoutAdvance(c) ==
    IF "object" \in pending[c]
    THEN [objects EXCEPT ![req[c].uuid] =
            [kindversion |-> req[c].kindversion, domain |-> req[c].domain,
             generation |-> 1]]
    ELSE objects

\* The tables with c's pending writes applied.
CommittedObjects(c) ==
    LET r == req[c] IN
    IF "object" \in pending[c]
    THEN [objects EXCEPT ![r.uuid] = [kindversion |-> r.kindversion,
                                      domain |-> r.domain, generation |-> 1]]
    ELSE IF "row" \in pending[c]
    THEN [objects EXCEPT ![r.uuid].generation = r.generation + 1]
    ELSE objects

CommittedNames(c) ==
    IF "name" \in pending[c]
    THEN [names EXCEPT ![req[c].uuid] = QualifiedName(req[c])]
    ELSE names

CommittedGenerations(c) ==
    IF "generation" \in pending[c]
    THEN [generations EXCEPT ![GenerationKey(req[c])] =
            [kindversion |-> req[c].kindversion, spec |-> write[c]]]
    ELSE generations

\* The reply to COMMIT may be lost, so a committed call may also return Internal.
Commit(c) == \E result \in {"ok", "Internal"} :
    /\ pc[c] = "commit"
    /\ objects' = CommittedObjects(c)
    /\ names' = CommittedNames(c)
    /\ generations' = CommittedGenerations(c)
    /\ Return(c, result)

\* Mutant: the error path returns the connection to the pool with the transaction
\* still open.
ReturnWithoutRollback(c) ==
    /\ pc[c] = "rollback"
    /\ pc' = [pc EXCEPT ![c] = "idle"]
    /\ UNCHANGED <<tables, req, write, seen, pending, issued, answers>>

\* Mutant: Exec commits whatever fn returned.
CommitOnError(c) ==
    /\ pc[c] = "rollback"
    /\ objects' = CommittedObjects(c)
    /\ names' = CommittedNames(c)
    /\ generations' = CommittedGenerations(c)
    /\ Return(c, "Conflict")

\* No row matched the UPDATE: fn returns ErrConflict, Exec rolls back.
Rollback(c) ==
    /\ pc[c] = "rollback"
    /\ Abort(c, "Conflict")

\* Mutant: the error of Commit is dropped.
FailureIsSuccess(c) == "ok"

\* Mutant: every database error is taken for a lost race.
FailureIsConflict(c) == "Conflict"

\* What a call returns when Acquire, BeginTx, a statement or Commit fails.
FailureResult(c) == "Internal"

\* Mutant: every statement commits on its own.
FailKeepsWrites(c) ==
    /\ pc[c] # "idle"
    /\ objects' = CommittedObjects(c)
    /\ names' = CommittedNames(c)
    /\ generations' = CommittedGenerations(c)
    /\ Return(c, FailureResult(c))

\* No free connection, a cancelled context, a broken connection: the server
\* forgets the transaction and the call returns.
Fail(c) ==
    /\ pc[c] # "idle"
    /\ Abort(c, FailureResult(c))

-----------------------------------------------------------------------------

\* The steps that the server and the goroutine take once a call is made.
Step(c) ==
    \/ InsertObject(c)
    \/ InsertName(c)
    \/ SelectObject(c)
    \/ InsertGeneration(c)
    \/ UpdateObject(c)
    \/ Rollback(c)
    \/ Commit(c)

Next == \E c \in Callers : Write(c) \/ RefuseWrite(c) \/ Step(c) \/ Fail(c)

Spec == Init /\ [][Next]_vars

\* A call in progress keeps running; making a call and failing are never forced.
FairSpec == Spec /\ \A c \in Callers : WF_vars(Step(c))

-----------------------------------------------------------------------------
(* Correctness. *)

\* Every variable has its type; a caller is idle exactly when it is in no call.
TypeOK ==
    /\ objects \in [UUIDs -> ObjectRows \union {None}]
    /\ names \in [UUIDs -> QualifiedNames \union {None}]
    /\ generations \in [UUIDs \X Generations -> GenerationRows \union {None}]
    /\ pc \in [Callers -> Statements]
    /\ req \in [Callers -> Requests \union {None}]
    /\ write \in [Callers -> Writes \union {None}]
    /\ seen \in [Callers -> ObjectRows \union {None}]
    /\ pending \in [Callers -> SUBSET PendingWrites]
    /\ issued \in 0..MaxWrites
    /\ answers \subseteq Answers
    /\ \A c \in Callers :
        /\ pc[c] = "idle" <=> req[c] = None
        /\ pc[c] = "idle" <=> write[c] = None

\* The latest generation of an object, 0 when there is no row for it.
Latest(u) == IF objects[u] = None THEN 0 ELSE objects[u].generation

\* The two tables that dbInsertGeneration writes in separate statements agree:
\* object_generations holds exactly the generations 1..objects.generation of every
\* object, with no gap and none beyond the latest.
GenerationsContiguous == \A u \in UUIDs, g \in Generations :
    generations[<<u, g>>] # None <=> g <= Latest(u)

\* dbInsertGeneration turns a lost race into ErrConflict only through the unique
\* violation and the row count.  That is enough: an UPDATE whose WHERE clause
\* matches never meets a row changed since the snapshot, so no caller is told
\* Internal (SQLSTATE 40001) for a plain write conflict.
UpdateNeverSerializes == \A c \in Callers :
    pc[c] = "update_object" /\ UpdateMatches(c) => ~ SnapshotIsStale(c)

\* A write that ObjectWrite reported as successful is stored under the generation
\* the caller was told, for good: no other write was accepted for that generation
\* and none replaces it.
AcknowledgedIsStored == \A a \in answers : a.result = "ok" =>
    /\ generations[<<a.uuid, a.generation + 1>>] # None
    /\ generations[<<a.uuid, a.generation + 1>>].spec = a.write

\* Of the writers that expect one generation of an object, at most one is told that its
\* write was accepted.
OneWriterWins == \A a, b \in answers :
    /\ a.result = "ok" /\ b.result = "ok"
    /\ a.uuid = b.uuid /\ a.generation = b.generation
    => a.write = b.write

\* A write refused with a definite error (anything but Internal) left no row,
\* although dbInsertFirst and dbInsertGeneration had already written some when
\* the later statement failed.
RefusedLeavesNoTrace == \A a \in answers :
    a.result \notin {"ok", "Internal"} =>
        \A key \in UUIDs \X Generations :
            generations[key] # None => generations[key].spec # a.write

\* Every object has one name row and every name row an object, and within the
\* scope of its kind and domain a name stands for one object.
NamesIdentifyObjects ==
    /\ \A u \in UUIDs : names[u] = None <=> objects[u] = None
    /\ \A u, v \in UUIDs : u # v /\ names[u] # None => names[u] # names[v]

\* No step renames an object, rewrites a stored generation, takes a generation
\* back or skips one.
HistoryIsImmutable == [][
    /\ \A u \in UUIDs :
        /\ names[u] # None => names'[u] = names[u]
        /\ Latest(u)' \in {Latest(u), Latest(u) + 1}
    /\ \A key \in UUIDs \X Generations :
        generations[key] # None => generations'[key] = generations[key]]_vars

\* ErrConflict is true: the object was not at the expected generation, in the
\* snapshot the call worked on or when the call returned.  (Both are needed: a
\* transaction may run on a snapshot older than the expected generation.)
ConflictIsReal == [][\A c \in Callers :
    /\ req[c] # None
    /\ \E a \in answers' \ answers : a.write = write[c] /\ a.result = "Conflict"
    => \/ Latest(req[c].uuid) # req[c].generation
       \/ seen[c] # None /\ seen[c].generation # req[c].generation]_vars

\* A statement needs a key or a row that another transaction holds.
WaitsFor(c, d) == c # d /\
    \/ pc[c] = "insert_object" /\ HoldsUUID(d, req[c].uuid)
    \/ pc[c] = "insert_name" /\ HoldsName(d, QualifiedName(req[c]))
    \/ pc[c] = "insert_generation" /\ HoldsGeneration(d, GenerationKey(req[c]))
    \/ pc[c] = "update_object" /\ UpdateMatches(c) /\ HoldsRow(d, req[c].uuid)

\* The order that both transactions keep: a statement takes what the one before it
\* leaves open.
Position(statement) ==
    CASE statement = "idle" -> 0
      [] statement \in {"insert_object", "select_object"} -> 1
      [] statement = "insert_name" -> 2
      [] statement = "insert_generation" -> 3
      [] statement = "update_object" -> 4
      [] statement \in {"rollback", "commit"} -> 5

\* Whoever is waited for has got further than who waits: nobody waits for a call that
\* has returned, and waiting transactions never form a circle, although they meet at
\* three unique indexes and at the row.
WaitsAreOrdered == \A c, d \in Callers :
    WaitsFor(c, d) => Position(pc[c]) < Position(pc[d])

\* Of any callers, one waits for none of the others.
NobodyWaitsInACircle == \A S \in SUBSET Callers : S # {} =>
    \E c \in S : \A d \in S : ~ WaitsFor(c, d)

\* Every call returns: waiting for another transaction's keys never lasts, because
\* every transaction takes them in the same order and gives them all back.
CallsReturn == \A c \in Callers : pc[c] # "idle" ~> pc[c] = "idle"

\* The tables behave as versioned registers written in one step.
Promise == INSTANCE VersionedObjects WITH
    latest <- [u \in UUIDs |-> Latest(u)],
    history <- generations,
    nameOf <- names,
    acked <- {a.write : a \in {b \in answers : b.result = "ok"}}

\* The two transactions implement the versioned registers of VersionedObjects:
\* concurrent multi-statement writes look like one compare-and-set each.
ImplementsVersionedObjects == Promise!Spec

-----------------------------------------------------------------------------
(* Why it is correct: the invariant of the open transactions. *)

\* The writes that a transaction has pending follow from its next statement.
PendingFollowsStatement == \A c \in Callers :
    /\ pc[c] \in {"idle", "insert_object", "select_object"} => pending[c] = {}
    /\ pc[c] = "insert_object" => req[c].generation = 0
    /\ pc[c] = "select_object" => req[c].generation # 0
    /\ pc[c] = "insert_name" =>
        req[c].generation = 0 /\ pending[c] = {"object"}
    /\ pc[c] = "insert_generation" =>
        \/ req[c].generation = 0 /\ pending[c] = {"object", "name"}
        \/ req[c].generation # 0 /\ pending[c] = {} /\ seen[c] # None
    /\ pc[c] \in {"update_object", "rollback"} =>
        req[c].generation # 0 /\ pending[c] = {"generation"} /\ seen[c] # None
    /\ pc[c] = "rollback" => seen[c].generation # req[c].generation
    /\ pc[c] = "commit" =>
        \/ req[c].generation = 0 /\ pending[c] = {"object", "name", "generation"}
        \/ req[c].generation # 0 /\ pending[c] = {"generation", "row"}

\* No two open transactions hold the same key of a unique index.
KeysExclusive == \A c, d \in Callers : c # d =>
    /\ "object" \in pending[c] /\ "object" \in pending[d]
        => req[c].uuid # req[d].uuid
    /\ "name" \in pending[c] /\ "name" \in pending[d]
        => QualifiedName(req[c]) # QualifiedName(req[d])
    /\ "generation" \in pending[c] /\ "generation" \in pending[d]
        => GenerationKey(req[c]) # GenerationKey(req[d])

\* What a transaction is about to commit is not committed yet, and the row it is
\* about to replace still has the generation it expects.
PendingIsNew == \A c \in Callers :
    /\ "object" \in pending[c] => objects[req[c].uuid] = None
    /\ "name" \in pending[c] => ~ NameTaken(QualifiedName(req[c]))
    /\ "generation" \in pending[c] => generations[GenerationKey(req[c])] = None
    /\ "row" \in pending[c] =>
        /\ objects[req[c].uuid] # None
        /\ objects[req[c].uuid].generation = req[c].generation

\* A snapshot shows an earlier state of the object's row.
SnapshotIsPast == \A c \in Callers : seen[c] # None =>
    /\ req[c] # None
    /\ objects[req[c].uuid] # None
    /\ seen[c].generation <= objects[req[c].uuid].generation
    /\ seen[c].generation = objects[req[c].uuid].generation
        => seen[c] = objects[req[c].uuid]

\* Call numbers are used once: the call in progress has answered nothing and stored
\* nothing yet.
WritesAreFresh ==
    /\ \A c \in Callers : pc[c] # "idle" =>
        /\ write[c] \in 1..issued
        /\ \A a \in answers : a.write # write[c]
        /\ \A key \in UUIDs \X Generations :
            generations[key] # None => generations[key].spec # write[c]
        /\ \A d \in Callers \ {c} : pc[d] # "idle" => write[d] # write[c]
    /\ \A a \in answers : a.write <= issued
    /\ \A key \in UUIDs \X Generations :
        generations[key] # None => generations[key].spec <= issued

\* The inductive invariant: no two open transactions are about to commit to the
\* same key, none is about to overwrite a row, and the tables agree.
TransactionInv ==
    /\ TypeOK
    /\ PendingFollowsStatement
    /\ KeysExclusive
    /\ PendingIsNew
    /\ SnapshotIsPast
    /\ WritesAreFresh
    /\ GenerationsContiguous
    /\ NamesIdentifyObjects

=============================================================================
