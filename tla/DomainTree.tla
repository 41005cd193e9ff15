---------------------------- MODULE DomainTree ----------------------------
(***************************************************************************)
(* Domains: DomainWrite and DomainRead of the driver, the domain store's   *)
(* read-through cache, and dbInsertRoot / dbInsertNonRoot, which keep each *)
(* tree of domains as a nested set: a row's interval left..right is meant  *)
(* to enclose the intervals of its descendants.                            *)
(*                                                                         *)
(* The place of a new domain is computed from a record of its parent that  *)
(* was read earlier, in another transaction or from the cache.             *)
(*                                                                         *)
(* One process and one system.  A domain's uuid stands for its row id too. *)
(***************************************************************************)
EXTENDS Naturals, Sequences

CONSTANTS
    Callers,       \* goroutines that read and write domains
    Domains,       \* uuids
    Names,         \* domain names, unique within the system
    CacheEnabled,  \* CacheConfig.Domain.Enabled
    Requests,      \* the calls that callers make
    MaxCalls,      \* bound: calls in all
    None           \* no row, no parent, no request

WriteRequests == [op: {"write"}, uuid: Domains, name: Names,
                  parent: Domains \union {None}]
ReadRequests == [op: {"read"}, uuid: Domains]

\* A domains row, and the fields of the record that a read makes of it.
Rows == [name: Names, root: Domains, parent: Domains \union {None},
         left: Nat, right: Nat]

\* What a row says of its domain whatever its interval is.
Nodes == [system: {"this"}, name: Names, parent: Domains \union {None}, root: Domains]

ASSUME CallsAssumption == MaxCalls \in Nat
ASSUME CacheAssumption == CacheEnabled \in BOOLEAN
ASSUME RequestsAssumption == Requests \subseteq WriteRequests \union ReadRequests
ASSUME NoneAssumption ==
    None \notin Rows \union Nodes \union Domains \union WriteRequests \union ReadRequests

VARIABLES
    domains,   \* committed rows of domains
    cache,     \* the byUUID cache
    pc,        \* the next step of each caller
    req,       \* the request of the call each caller is in
    fetched,   \* rows that a read has fetched and not cached yet, the last one first
    parent,    \* the parent record that DomainWrite hands to the store
    snapshot,  \* the snapshot of each open transaction
    calls      \* calls made so far

vars == <<domains, cache, pc, req, fetched, parent, snapshot, calls>>

Steps == {"idle", "lookup", "fetch", "cache_write", "begin", "update_rights",
          "update_lefts", "insert", "commit", "evict"}

\* A row and the domain it belongs to.
Frames == [domain: Domains, row: Rows]

Init ==
    /\ domains = [d \in Domains |-> None]
    /\ cache = [d \in Domains |-> None]
    /\ pc = [c \in Callers |-> "idle"]
    /\ req = [c \in Callers |-> None]
    /\ fetched = [c \in Callers |-> <<>>]
    /\ parent = [c \in Callers |-> None]
    /\ snapshot = [c \in Callers |-> None]
    /\ calls = 0

-----------------------------------------------------------------------------
(* Calls. *)

Return(c) ==
    /\ pc' = [pc EXCEPT ![c] = "idle"]
    /\ req' = [req EXCEPT ![c] = None]
    /\ fetched' = [fetched EXCEPT ![c] = <<>>]
    /\ parent' = [parent EXCEPT ![c] = None]
    /\ snapshot' = [snapshot EXCEPT ![c] = None]
    /\ calls' = calls

Goto(c, step) == pc' = [pc EXCEPT ![c] = step]

Call(c, r, step) ==
    /\ pc[c] = "idle"
    /\ calls < MaxCalls
    /\ calls' = calls + 1
    /\ req' = [req EXCEPT ![c] = r]
    /\ Goto(c, step)
    /\ UNCHANGED <<domains, cache, fetched, parent, snapshot>>

DomainRead(c) == \E r \in Requests \intersect ReadRequests :
    Call(c, r, "lookup")

\* A domain without a parent is a root and needs no read.
DomainWrite(c) == \E r \in Requests \intersect WriteRequests :
    Call(c, r, IF r.parent = None THEN "insert" ELSE "lookup")

\* An error anywhere: no connection, a failed statement, a refused cache entry.
\* The server undoes the transaction.
Fail(c) ==
    /\ pc[c] # "idle"
    /\ Return(c)
    /\ UNCHANGED <<domains, cache>>

-----------------------------------------------------------------------------
(* Reading a domain: ReadByUUID, ReadByName and ReadByRowID.  A record holds its  *)
(* parent's record, so a read of one domain reads its ancestors, each in its own  *)
(* transaction, before it caches what it read.  (The read of the root that        *)
(* follows adds nothing: reading the parent has cached the root already, or       *)
(* nothing is cached at all.)                                                     *)

\* The domain that the caller asked for.
Wanted(r) == IF r.op = "read" THEN r.uuid ELSE r.parent

\* The domain that the read turns to next.
Target(c) == IF fetched[c] = <<>> THEN Wanted(req[c])
             ELSE Head(fetched[c]).row.parent

\* The read is over: DomainRead answers, DomainWrite goes on to the store.
Deliver(c, row) ==
    IF req[c].op = "read"
    THEN Return(c)
    ELSE /\ parent' = [parent EXCEPT ![c] = row]
         /\ fetched' = [fetched EXCEPT ![c] = <<>>]
         /\ Goto(c, "begin")
         /\ UNCHANGED <<req, snapshot, calls>>

\* A hit needs no database; within a recursion it completes the record on top.
Lookup(c) ==
    /\ pc[c] = "lookup"
    /\ UNCHANGED <<domains, cache>>
    /\ \/ /\ cache[Target(c)] = None
          /\ Goto(c, "fetch")
          /\ UNCHANGED <<req, fetched, parent, snapshot, calls>>
       \/ /\ cache[Target(c)] # None
          /\ fetched[c] = <<>>
          /\ Deliver(c, cache[Target(c)])
       \/ /\ cache[Target(c)] # None
          /\ fetched[c] # <<>>
          /\ Goto(c, "cache_write")
          /\ UNCHANGED <<req, fetched, parent, snapshot, calls>>

\* SELECT ... FROM domains, in a transaction of its own.  A missing row is answered
\* ErrNotFound, or ErrDomainParentNotFound.
Fetch(c) ==
    /\ pc[c] = "fetch"
    /\ UNCHANGED <<domains, cache>>
    /\ \/ /\ domains[Target(c)] = None
          /\ Return(c)
       \/ /\ domains[Target(c)] # None
          /\ fetched' = [fetched EXCEPT ![c] =
                <<[domain |-> Target(c), row |-> domains[Target(c)]]>> \o @]
          /\ Goto(c, IF domains[Target(c)].parent = None
                     THEN "cache_write" ELSE "lookup")
          /\ UNCHANGED <<req, parent, snapshot, calls>>

\* cacheWrite, whatever the cache holds by now; then the record below is complete.
CacheWrite(c) ==
    LET top == Head(fetched[c]) IN
    /\ pc[c] = "cache_write"
    /\ cache' = IF CacheEnabled THEN [cache EXCEPT ![top.domain] = top.row] ELSE cache
    /\ domains' = domains
    /\ \/ /\ Len(fetched[c]) = 1
          /\ Deliver(c, top.row)
       \/ /\ Len(fetched[c]) > 1
          /\ fetched' = [fetched EXCEPT ![c] = Tail(@)]
          /\ UNCHANGED <<pc, req, parent, snapshot, calls>>

-----------------------------------------------------------------------------
(* dbInsertRoot and dbInsertNonRoot. *)

TreeOf(root) == {d \in Domains : domains[d] # None /\ domains[d].root = root}

\* An open transaction that has updated a tree holds its root row, whose right side
\* is never below the parent's.
HoldsTree(d, root) ==
    pc[d] \in {"update_lefts", "insert", "commit"} /\ parent[d] # None
    /\ parent[d].root = root

\* The snapshot of a REPEATABLE READ transaction is taken by its first statement.
Begin(c) ==
    /\ pc[c] = "begin"
    /\ snapshot' = [snapshot EXCEPT ![c] = domains]
    /\ Goto(c, "update_rights")
    /\ UNCHANGED <<domains, cache, req, fetched, parent, calls>>

\* The rows of the parent's tree that make room for the new one.  (A row whose left
\* side has to move is one whose right side has to.)
RowsToShift(c) ==
    IF parent[c] = None THEN {}
    ELSE {d \in Domains : /\ snapshot[c][d] # None
                          /\ snapshot[c][d].root = parent[c].root
                          /\ snapshot[c][d].right >= parent[c].right}

Replaced(c) == \E d \in RowsToShift(c) : domains[d] # snapshot[c][d]

\* UPDATE ... WHERE root = $1 AND right_side >= $2, which waits for a transaction
\* that holds one of the rows, and fails (SQLSTATE 40001) if one replaced them.
UpdateRights(c) ==
    /\ pc[c] = "update_rights"
    /\ \A d \in Callers \ {c} : ~ HoldsTree(d, parent[c].root)
    /\ UNCHANGED <<domains, cache>>
    /\ IF Replaced(c)
       THEN Return(c)
       ELSE Goto(c, "update_lefts") /\ UNCHANGED <<req, fetched, parent, snapshot, calls>>

\* UPDATE ... WHERE root = $1 AND left_side >= $2: rows it holds already.
UpdateLefts(c) ==
    /\ pc[c] = "update_lefts"
    /\ Goto(c, "insert")
    /\ UNCHANGED <<domains, cache, req, fetched, parent, snapshot, calls>>

\* Mutant: the INSERT is an upsert.
NeverTaken(r) == FALSE

\* UNIQUE (uuid) and UNIQUE (system, name).
Taken(r) == \/ domains[r.uuid] # None
            \/ \E d \in Domains : domains[d] # None /\ domains[d].name = r.name
HoldsKey(d, r) ==
    pc[d] = "commit" /\ (req[d].uuid = r.uuid \/ req[d].name = r.name)

\* Mutant: a taken key is tried again for ever.
InsertUntilFree(c) ==
    /\ pc[c] = "insert"
    /\ ~ Taken(req[c])
    /\ Goto(c, "commit")
    /\ UNCHANGED <<domains, cache, req, fetched, parent, snapshot, calls>>

\* Both errors for a taken key are wrapped as Internal.
Insert(c) ==
    /\ pc[c] = "insert"
    /\ \A d \in Callers \ {c} : ~ HoldsKey(d, req[c])
    /\ UNCHANGED <<domains, cache>>
    /\ IF Taken(req[c])
       THEN Return(c)
       ELSE Goto(c, "commit") /\ UNCHANGED <<req, fetched, parent, snapshot, calls>>

\* Every side from `from' on moves up by two.
Shift(side, from) == IF side >= from THEN side + 2 ELSE side

\* Mutant: the left sides stay where they are.
ShiftedRights(row, from) == [row EXCEPT !.right = Shift(@, from)]

\* Mutant: the right sides stay where they are.
ShiftedLefts(row, from) == [row EXCEPT !.left = Shift(@, from)]

\* The two UPDATEs of a row.
Shifted(row, from) == [row EXCEPT !.left = Shift(@, from), !.right = Shift(@, from)]

RowsAfter(c) == [d \in Domains |->
    IF d \in RowsToShift(c) THEN Shifted(snapshot[c][d], parent[c].right)
                            ELSE domains[d]]

\* Mutant: the new interval starts one before the parent's right side.
NewRowBefore(c) ==
    IF parent[c] = None
    THEN [name |-> req[c].name, root |-> req[c].uuid, parent |-> None,
          left |-> 1, right |-> 2]
    ELSE [name |-> req[c].name, root |-> parent[c].root, parent |-> req[c].parent,
          left |-> parent[c].right - 1, right |-> parent[c].right]

\* Mutant: the parent is taken for the root of the tree.
NewRowOfParent(c) ==
    [name |-> req[c].name, parent |-> req[c].parent,
     root |-> IF parent[c] = None THEN req[c].uuid ELSE req[c].parent,
     left |-> IF parent[c] = None THEN 1 ELSE parent[c].right,
     right |-> IF parent[c] = None THEN 2 ELSE parent[c].right + 1]

NewRow(c) ==
    IF parent[c] = None
    THEN [name |-> req[c].name, root |-> req[c].uuid, parent |-> None,
          left |-> 1, right |-> 2]
    ELSE [name |-> req[c].name, root |-> parent[c].root, parent |-> req[c].parent,
          left |-> parent[c].right, right |-> parent[c].right + 1]

\* The call of a root is over; after a child, Store.Write purges the cache.  The reply
\* to COMMIT may be lost (Internal) and then nothing is purged.
Commit(c) ==
    /\ pc[c] = "commit"
    /\ domains' = [RowsAfter(c) EXCEPT ![req[c].uuid] = NewRow(c)]
    /\ UNCHANGED cache
    /\ \/ Return(c)
       \/ /\ parent[c] # None
          /\ Goto(c, "evict")
          /\ snapshot' = [snapshot EXCEPT ![c] = None]
          /\ UNCHANGED <<req, fetched, parent, calls>>

\* The tree that cacheEvict purges is the one rooted at the internal id of the domain
\* passed to Write, which a new domain does not have; and only if the new domain
\* has been read into the cache since the COMMIT.
TreeToEvict(c) == IF cache[req[c].uuid] = None THEN {} ELSE TreeOf(None)

Evict(c) ==
    /\ pc[c] = "evict"
    /\ cache' = [d \in Domains |-> IF d \in TreeToEvict(c) THEN None ELSE cache[d]]
    /\ domains' = domains
    /\ Return(c)

-----------------------------------------------------------------------------

Step(c) ==
    \/ Lookup(c)
    \/ Fetch(c)
    \/ CacheWrite(c)
    \/ Begin(c)
    \/ UpdateRights(c)
    \/ UpdateLefts(c)
    \/ Insert(c)
    \/ Commit(c)
    \/ Evict(c)

Next == \E c \in Callers : DomainRead(c) \/ DomainWrite(c) \/ Step(c) \/ Fail(c)

Spec == Init /\ [][Next]_vars

\* A call in progress keeps running; making a call and failing are never forced.
FairSpec == Spec /\ \A c \in Callers : WF_vars(Step(c))

-----------------------------------------------------------------------------
(* Correctness. *)

\* Every variable has its type; what a transaction or a read works on is there.
TreeTypeOK ==
    /\ domains \in [Domains -> Rows \union {None}]
    /\ cache \in [Domains -> Rows \union {None}]
    /\ pc \in [Callers -> Steps]
    /\ req \in [Callers -> Requests \union {None}]
    /\ fetched \in [Callers -> Seq(Frames)]
    /\ parent \in [Callers -> Rows \union {None}]
    /\ snapshot \in [Callers -> [Domains -> Rows \union {None}] \union {None}]
    /\ calls \in 0..MaxCalls
    /\ \A c \in Callers : pc[c] = "idle" <=> req[c] = None

Stored == {d \in Domains : domains[d] # None}

SameTree(d, e) == domains[d].root = domains[e].root

\* The nested set of every tree stays one, whatever the parent record that a new
\* domain was placed by: two intervals are disjoint or one is inside the other (so
\* UNIQUE (root, left_side, right_side) never refuses a row), and the root's
\* encloses them all.
IntervalsNest == \A d \in Stored :
    /\ domains[d].left < domains[d].right
    /\ domains[d].root \in Stored
    /\ domains[domains[d].root].left <= domains[d].left
    /\ domains[d].right <= domains[domains[d].root].right
    /\ \A e \in Stored \ {d} : SameTree(d, e) =>
        \/ domains[d].right < domains[e].left
        \/ domains[e].right < domains[d].left
        \/ domains[e].left < domains[d].left /\ domains[d].right < domains[e].right
        \/ domains[d].left < domains[e].left /\ domains[e].right < domains[d].right

\* A domain's parent is a stored domain of the same tree: the table has no foreign
\* key, and the parent was looked up in another transaction.
ParentIsStored == \A d \in Stored : domains[d].parent # None =>
    domains[d].parent \in Stored /\ SameTree(d, domains[d].parent)

\* What DomainQuery answers for ParentUUIDEqual(p).
DomainsIn(p) == {d \in Stored :
    SameTree(d, p) /\ domains[d].left \in domains[p].left .. domains[p].right}

\* DomainQuery's trees are the parents' trees: a domain other than p is found under p
\* exactly when its parent is.
SubtreesAreExact == \A p \in Stored : \A d \in Stored \ {p} :
    d \in DomainsIn(p) <=> domains[d].parent \in DomainsIn(p)

\* An insertion placed by the parent's current row keeps DomainQuery's trees right:
\* only an outdated parent record can make them wrong.
FreshInsertsKeepSubtrees == [][
    \A c \in Callers :
        /\ SubtreesAreExact
        /\ Commit(c)
        /\ parent[c] # None => parent[c] = domains[req[c].parent]
        => SubtreesAreExact']_vars

\* Every insertion of a child is placed by its parent's current row.
InsertsAreFresh == [][\A c \in Callers :
    Commit(c) /\ parent[c] # None => parent[c] = domains[req[c].parent]]_vars

\* No committed row loses its name, parent or tree, and no interval shrinks, although
\* every insertion rewrites the rows of its tree.
RowsOnlyGrow == [][\A d \in Stored :
    LET row == domains[d]
        new == domains'[d] IN
    /\ new # None
    /\ new.name = row.name /\ new.parent = row.parent /\ new.root = row.root
    /\ new.right - new.left >= row.right - row.left]_vars

\* The table implements the abstract forest: intervals come and go in it, but names,
\* parents and roots are those that domains were created with.
Node(d) == IF domains[d] = None THEN None
    ELSE [system |-> "this", name |-> domains[d].name,
          parent |-> domains[d].parent, root |-> domains[d].root]
Forest == INSTANCE DomainForest WITH
    Systems <- {"this"}, forest <- [d \in Domains |-> Node(d)]
ImplementsDomainForest == Forest!Spec

\* Every call returns: a read climbs to the root and comes back, and an insertion that
\* waits for another one of the same tree gets its turn or its error.
DomainCallsReturn == \A c \in Callers : pc[c] # "idle" ~> pc[c] = "idle"

-----------------------------------------------------------------------------
(* Why the intervals nest. *)

\* A record is a past state of its row: it has the row's root, and the row's right side
\* has only moved up since.
Outdates(d, row) ==
    /\ d \in Stored
    /\ row.root = domains[d].root
    /\ row.parent = domains[d].parent
    /\ 1 < row.right
    /\ row.right <= domains[d].right

RecordsArePast ==
    /\ \A d \in Domains : cache[d] # None => Outdates(d, cache[d])
    /\ \A c \in Callers :
        /\ \A i \in 1..Len(fetched[c]) : Outdates(fetched[c][i].domain, fetched[c][i].row)
        /\ parent[c] # None =>
            /\ req[c] \in WriteRequests
            /\ req[c].parent # None
            /\ Outdates(req[c].parent, parent[c])

\* Where a caller is tells what it holds.
StepsFollow == \A c \in Callers :
    /\ pc[c] \in {"lookup", "fetch", "cache_write"} =>
        /\ Wanted(req[c]) \in Domains
        /\ parent[c] = None
        /\ fetched[c] # <<>> => fetched[c][Len(fetched[c])].domain = Wanted(req[c])
    /\ pc[c] = "idle" => fetched[c] = <<>> /\ parent[c] = None
    /\ pc[c] \in {"lookup", "fetch"} => Target(c) \in Domains
    /\ pc[c] = "cache_write" => fetched[c] # <<>>
    /\ pc[c] \in {"begin", "update_rights", "update_lefts", "evict"} => parent[c] # None
    /\ pc[c] \in {"begin", "update_rights", "update_lefts", "insert", "commit"} =>
        req[c] \in WriteRequests /\ (parent[c] = None <=> req[c].parent = None)
    /\ pc[c] = "commit" => ~ Taken(req[c])

\* Without the cache and without another caller nothing grows old: what a call has
\* fetched is what is stored.
NothingGrowsOld ==
    /\ \A d \in Domains : cache[d] = None
    /\ \A c \in Callers :
        /\ pc[c] \notin {"lookup", "fetch", "cache_write"} => fetched[c] = <<>>
        /\ \A i \in 1..Len(fetched[c]) : fetched[c][i].row = domains[fetched[c][i].domain]
        /\ parent[c] # None /\ pc[c] # "evict" => parent[c] = domains[req[c].parent]

\* Two transactions about to commit store different domains, and in different trees.
CommitsExclude == \A c, d \in Callers : c # d =>
    /\ pc[c] = "commit" /\ pc[d] = "commit" =>
        req[c].uuid # req[d].uuid /\ req[c].name # req[d].name
    /\ \A root \in Domains : ~ (HoldsTree(c, root) /\ HoldsTree(d, root))

\* The tree of a root as a snapshot shows it.
SeesTree(c, root) == \A d \in TreeOf(root) : snapshot[c][d] = domains[d]

\* A transaction that inserts a child.
InTree(c) ==
    parent[c] # None /\ pc[c] \in {"update_rights", "update_lefts", "insert", "commit"}

\* A transaction's snapshot shows the tree as it is, or a root row that has been
\* replaced since: the root's right side counts the insertions.  A transaction past
\* its first UPDATE sees the tree as it is.
SnapshotsArePast == \A c \in Callers : InTree(c) =>
    LET root == parent[c].root IN
    /\ snapshot[c] \in [Domains -> Rows \union {None}]
    /\ \A d \in Domains : snapshot[c][d] # None =>
        d \in Stored /\ domains[d].root = snapshot[c][d].root
    /\ root \in RowsToShift(c)
    /\ SeesTree(c, root) \/ snapshot[c][root].right < domains[root].right
    /\ HoldsTree(c, root) => SeesTree(c, root)

\* A row without a parent is the root of its tree, and the tree starts at 1.
RootsAreRoots == \A d \in Stored :
    /\ domains[domains[d].root].root = domains[d].root
    /\ domains[d].parent = None <=> domains[d].root = d
    /\ domains[d].parent = None => domains[d].left = 1

\* The inductive invariant.
TreeInv ==
    /\ TreeTypeOK
    /\ StepsFollow
    /\ RecordsArePast
    /\ CommitsExclude
    /\ SnapshotsArePast
    /\ RootsAreRoots
    /\ ParentIsStored
    /\ IntervalsNest

=============================================================================
