---------------------------- MODULE DomainCache ----------------------------
(***************************************************************************)
(* The domain store of one process under its cache lock and its connection *)
(* pool: ReadByUUID, ReadByName and ReadByRowID fill three caches, Write   *)
(* evicts from them.  A read that misses reads the parent and the root     *)
(* from inside its own transaction, so it holds one connection per level   *)
(* and meets the lock again at each; cacheEvict holds the lock and needs a *)
(* connection.  Domains belong to systems, row ids and uuids to all.       *)
(*                                                                         *)
(* A domain's uuid stands for its row id too.  An insertion is here for    *)
(* what it holds and waits for; the sides of the nested set are            *)
(* DomainTree's.                                                           *)
(***************************************************************************)
EXTENDS Naturals, Sequences, FiniteSets

CONSTANTS
    Callers,      \* goroutines
    Systems,      \* records of systems
    Domains,      \* uuids
    Names,        \* names, unique within a system
    Connections,  \* the pool
    InitialRows,  \* the rows that the process finds
    Requests,     \* the calls that callers make
    MaxCalls,     \* bound: calls in all
    None          \* no row, no parent, no entry, nobody

\* How a domain is looked for.
Keys == [by: {"uuid", "rowid"}, of: Domains] \union [by: {"name"}, of: Names]

\* A written value that was copied from a record carries the record's internal id.
ReadRequests == [op: {"read"}, system: Systems, key: Keys]
WriteRequests == [op: {"write"}, system: Systems, uuid: Domains, name: Names,
                  parent: Keys \union {None}, id: Domains \union {None}]

Rows == [system: Systems, name: Names, parent: Domains \union {None}, root: Domains]

\* Rows refer to rows that were stored before them, so never in a circle: of any stored
\* domains, one has neither its parent nor another root among them.
IsGrounded(table) == \A S \in SUBSET {d \in Domains : table[d] # None} : S # {} =>
    \E d \in S : table[d].parent \notin S /\ table[d].root \notin S \ {d}

\* A tree is stored whole, and lies in one system.
ASSUME InitialRowsAssumption ==
    /\ IsGrounded(InitialRows)
    /\ InitialRows \in [Domains -> Rows \union {None}]
    /\ \A d \in Domains : InitialRows[d] # None =>
        \A e \in {InitialRows[d].parent, InitialRows[d].root} \ {None} :
            InitialRows[e] # None /\ InitialRows[e].system = InitialRows[d].system
ASSUME RequestsAssumption == Requests \subseteq ReadRequests \union WriteRequests
ASSUME CallsAssumption == MaxCalls \in Nat
ASSUME NoneAssumption == None \notin
    Callers \union Systems \union Domains \union Rows \union Keys
    \union ReadRequests \union WriteRequests

VARIABLES
    rows,     \* committed rows of domains
    byUUID,   \* cache: the system that each record is labelled with
    byName,   \* cache: system and name to uuid
    byRowID,  \* cache: the row ids in it
    holder,   \* who holds cacheLock exclusively across a step
    held,     \* the connections of each caller
    pc,       \* the next step of each caller
    req,      \* the request of the call each caller is in
    stack,    \* the reads each caller is in, the innermost first
    parent,   \* the parent that DomainWrite found
    calls,    \* calls made so far
    reply,    \* history: what the last step's call returned, if it ended one
    began,    \* history: the domains stored when a call began
    asked     \* history: systems, and the domains asked for under them by id

caches == <<byUUID, byName, byRowID>>
local == <<req, stack, parent, calls, began, asked>>
vars == <<rows, byUUID, byName, byRowID, holder, held, pc, req, stack, parent, calls,
          reply, began, asked>>

AcquireSteps == {"acquire_read", "acquire_write", "acquire_evict"}
ReadSteps == {"lookup", "acquire_read", "select", "nested", "cache_write"}
EvictSteps == {"acquire_evict", "evict_select", "evict_parent"}
WriteSteps == {"acquire_write", "update", "insert", "insert_name", "commit", "evict_lock"}
              \union EvictSteps
Steps == {"idle"} \union ReadSteps \union WriteSteps

\* A read of a domain; what is still to be read of its relatives, once it is found.
Frames == [key: Keys, domain: Domains \union {None}, todo: SUBSET {"parent", "root"}]

Frame(key) == [key |-> key, domain |-> None, todo |-> {}]

Init ==
    /\ rows = InitialRows
    /\ byUUID = [d \in Domains |-> None]
    /\ byName = [k \in Systems \X Names |-> None]
    /\ byRowID = {}
    /\ holder = None
    /\ held = [c \in Callers |-> {}]
    /\ pc = [c \in Callers |-> "idle"]
    /\ req = [c \in Callers |-> None]
    /\ stack = [c \in Callers |-> <<>>]
    /\ parent = [c \in Callers |-> None]
    /\ calls = 0
    /\ reply = None
    /\ began = [c \in Callers |-> {}]
    /\ asked = {}

Stored == {d \in Domains : rows[d] # None}

Free == Connections \ UNION {held[c] : c \in Callers}

-----------------------------------------------------------------------------
(* Calls. *)

Goto(c, step) == pc' = [pc EXCEPT ![c] = step] /\ reply' = None

\* Mutant: the lock is not given back by a deferred call.
ReturnWithLock(c, outcome) ==
    /\ reply' = [outcome |-> outcome, req |-> req[c], began |-> began[c]]
    /\ pc' = [pc EXCEPT ![c] = "idle"]
    /\ held' = [held EXCEPT ![c] = {}]
    /\ req' = [req EXCEPT ![c] = None]
    /\ stack' = [stack EXCEPT ![c] = <<>>]
    /\ parent' = [parent EXCEPT ![c] = None]
    /\ began' = [began EXCEPT ![c] = {}]
    /\ UNCHANGED <<holder, calls, asked>>

\* Deferred calls give the connections and the lock back, innermost first.
Return(c, outcome) ==
    /\ reply' = [outcome |-> outcome, req |-> req[c], began |-> began[c]]
    /\ pc' = [pc EXCEPT ![c] = "idle"]
    /\ held' = [held EXCEPT ![c] = {}]
    /\ holder' = IF holder = c THEN None ELSE holder
    /\ req' = [req EXCEPT ![c] = None]
    /\ stack' = [stack EXCEPT ![c] = <<>>]
    /\ parent' = [parent EXCEPT ![c] = None]
    /\ began' = [began EXCEPT ![c] = {}]
    /\ UNCHANGED <<calls, asked>>

Result(r) == [result |-> r]
Answer(d, system) == [result |-> "ok", domain |-> d, system |-> system]

\* The key of the domain that a call begins with: of the parent, for a write.
Wanted(r) == IF r.op = "read" THEN r.key ELSE r.parent

DomainCall(c) == \E r \in Requests :
    /\ pc[c] = "idle"
    /\ calls < MaxCalls
    /\ calls' = calls + 1
    /\ req' = [req EXCEPT ![c] = r]
    /\ began' = [began EXCEPT ![c] = Stored]
    /\ UNCHANGED <<rows, caches, holder, held, parent>>
    /\ \/ /\ Wanted(r) = None
          /\ Goto(c, "acquire_write")
          /\ UNCHANGED <<stack, asked>>
       \/ /\ Wanted(r) # None
          /\ Goto(c, "lookup")
          /\ stack' = [stack EXCEPT ![c] = <<Frame(Wanted(r))>>]
          /\ asked' = IF Wanted(r).by = "name" THEN asked
                      ELSE asked \union {<<r.system, Wanted(r).of>>}

-----------------------------------------------------------------------------
(* Exec. *)

\* A root needs no room in a tree.
AfterAcquire(c) ==
    CASE pc[c] = "acquire_read" -> "select"
      [] pc[c] = "acquire_write" -> IF parent[c] = None THEN "insert" ELSE "update"
      [] pc[c] = "acquire_evict" -> "evict_select"

Acquire(c) ==
    /\ pc[c] \in AcquireSteps
    /\ Free # {}
    /\ held' = [held EXCEPT ![c] = @ \union {CHOOSE x \in Free : TRUE}]
    /\ Goto(c, AfterAcquire(c))
    /\ UNCHANGED <<rows, caches, holder, local>>

\* Mutant: Acquire without a deadline.
WaitForConnection(c) == FALSE

\* The deadline of 500 ms.
AcquireTimeout(c) ==
    /\ pc[c] \in AcquireSteps
    /\ Free = {}
    /\ Return(c, Result("Internal"))
    /\ UNCHANGED <<rows, caches>>

\* The steps in the transaction of a write or of an eviction.
TransactionSteps == {"update", "insert", "insert_name", "commit", "evict_select"}

DatabaseSteps == AcquireSteps \union TransactionSteps \union {"select", "nested"}

\* Mutant: the error of COMMIT is dropped.
CommitErrorIsLost(c) ==
    /\ pc[c] \in DatabaseSteps
    /\ Return(c, Result(IF pc[c] = "commit" THEN "ok" ELSE "Internal"))
    /\ UNCHANGED <<rows, caches>>

\* No connection, a failed statement (an UPDATE also fails if a row was replaced since its
\* snapshot: when, is DomainTree's), a COMMIT that did not happen.
Fail(c) ==
    /\ pc[c] \in DatabaseSteps
    /\ Return(c, Result("Internal"))
    /\ UNCHANGED <<rows, caches>>

-----------------------------------------------------------------------------
(* Reading: ReadByUUID, ReadByName, ReadByRowID.                                  *)

Top(c) == Head(stack[c])

\* The domains found in the caches and in the table.  A uuid or a row id is looked
\* for whatever the system.
CachedDomains(s, key) == {d \in Domains :
    /\ byUUID[d] # None
    /\ CASE key.by = "uuid" -> d = key.of
         [] key.by = "rowid" -> d = key.of /\ d \in byRowID
         [] key.by = "name" -> d = byName[<<s, key.of>>]}

\* Mutant: WHERE name = $1.
MatchingInAnySystem(s, key) == {d \in Stored :
    IF key.by = "name" THEN rows[d].name = key.of ELSE d = key.of}

Matching(s, key) == {d \in Stored :
    IF key.by = "name" THEN rows[d].system = s /\ rows[d].name = key.of
                       ELSE d = key.of}

\* The innermost read has found d, labelled with a system.
Deliver(c, d, system) ==
    \/ /\ Len(stack[c]) > 1
       /\ stack' = [stack EXCEPT ![c] = Tail(@)]
       /\ Goto(c, "nested")
       /\ UNCHANGED <<holder, held, req, parent, calls, began, asked>>
    \/ /\ Len(stack[c]) = 1
       /\ req[c].op = "read"
       /\ Return(c, Answer(d, system))
    \/ /\ Len(stack[c]) = 1
       /\ req[c].op = "write"
       /\ stack' = [stack EXCEPT ![c] = <<>>]
       /\ parent' = [parent EXCEPT ![c] = d]
       /\ Goto(c, "acquire_write")
       /\ UNCHANGED <<holder, held, req, calls, began, asked>>

\* Under the read lock, so not while an eviction holds it.  An entry may be missing
\* because ristretto dropped it to make room; it is kept here, and missed.
Lookup(c) ==
    /\ pc[c] = "lookup"
    /\ holder = None
    /\ UNCHANGED <<rows, caches>>
    /\ \/ \E d \in CachedDomains(req[c].system, Top(c).key) : Deliver(c, d, byUUID[d])
       \/ /\ Goto(c, "acquire_read")
          /\ UNCHANGED <<holder, held, local>>

\* Mutant: the root is read even if it is the domain itself.
EveryRelative(d) == {"root"} \union (IF rows[d].parent = None THEN {} ELSE {"parent"})

\* The relatives that a record of d holds.
Relatives(d) == {r \in {"parent", "root"} :
    IF r = "parent" THEN rows[d].parent # None ELSE rows[d].root # d}

Relative(d, r) == IF r = "parent" THEN rows[d].parent ELSE rows[d].root

\* A missing row is ErrNotFound, or ErrDomainParentNotFound.
Select(c) ==
    LET found == Matching(req[c].system, Top(c).key) IN
    /\ pc[c] = "select"
    /\ UNCHANGED <<rows, caches>>
    /\ \/ /\ found = {}
          /\ Return(c, Result("NotFound"))
       \/ \E d \in found :
            /\ stack' = [stack EXCEPT ![c] =
                    <<[key |-> Top(c).key, domain |-> d, todo |-> Relatives(d)]>> \o Tail(@)]
            /\ Goto(c, "nested")
            /\ UNCHANGED <<holder, held, req, parent, calls, began, asked>>

\* Still inside the transaction, the parent and then the root are read; then it ends.
ReadRelative(c) ==
    LET r == IF "parent" \in Top(c).todo THEN "parent" ELSE "root"
        key == [by |-> "rowid", of |-> Relative(Top(c).domain, r)]
    IN
    /\ pc[c] = "nested"
    /\ Top(c).todo # {}
    /\ stack' = [stack EXCEPT ![c] =
            <<Frame(key), [Top(c) EXCEPT !.todo = @ \ {r}]>> \o Tail(@)]
    /\ Goto(c, "lookup")
    /\ UNCHANGED <<rows, caches, holder, held, req, parent, calls, began, asked>>

EndRead(c) ==
    /\ pc[c] = "nested"
    /\ Top(c).todo = {}
    /\ held' = [held EXCEPT ![c] = @ \ {CHOOSE x \in held[c] : TRUE}]
    /\ Goto(c, "cache_write")
    /\ UNCHANGED <<rows, caches, holder, local>>

\* cacheWrite sets three entries one after the other; ristretto may refuse any, and
\* then the ones before it stay.
CacheWrite(c) ==
    LET d == Top(c).domain
        s == req[c].system
    IN
    /\ pc[c] = "cache_write"
    /\ holder = None
    /\ rows' = rows
    /\ \E set \in 0..3 :
        /\ byUUID' = IF set < 1 THEN byUUID ELSE [byUUID EXCEPT ![d] = s]
        /\ byName' = IF set < 2 THEN byName ELSE [byName EXCEPT ![<<s, rows[d].name>>] = d]
        /\ byRowID' = IF set < 3 THEN byRowID ELSE byRowID \union {d}
        /\ IF set < 3 THEN Return(c, Result("Internal")) ELSE Deliver(c, d, s)

-----------------------------------------------------------------------------
(* Writing. *)

NewRow(c) ==
    [system |-> req[c].system, name |-> req[c].name, parent |-> parent[c],
     root |-> IF parent[c] = None THEN req[c].uuid ELSE rows[parent[c]].root]

\* Mutant: uuids are not unique.
NeverTaken(r) == FALSE

\* UNIQUE (uuid) and UNIQUE (system, name).
UUIDTaken(r) == rows[r.uuid] # None
NameTaken(r) == \E d \in Stored : rows[d].system = r.system /\ rows[d].name = r.name

\* What an open transaction holds: the rows of the tree that its UPDATEs have shifted,
\* and the keys that its INSERT has entered, one index after the other.
HoldsTree(d, root) ==
    /\ pc[d] \in {"insert", "insert_name", "commit"}
    /\ parent[d] # None /\ rows[parent[d]].root = root
HoldsUUID(d, r) == pc[d] \in {"insert_name", "commit"} /\ req[d].uuid = r.uuid
HoldsName(d, r) ==
    pc[d] = "commit" /\ req[d].system = r.system /\ req[d].name = r.name

\* The two UPDATEs of a child's insertion: every row of the second is one of the first.
Update(c) ==
    /\ pc[c] = "update"
    /\ \A d \in Callers \ {c} : ~ HoldsTree(d, rows[parent[c]].root)
    /\ Goto(c, "insert")
    /\ UNCHANGED <<rows, caches, holder, held, local>>

\* The INSERT meets the index on uuids and then the one on names.  Both errors for a
\* taken key are wrapped as Internal.
Insert(c) ==
    /\ pc[c] = "insert"
    /\ \A d \in Callers \ {c} : ~ HoldsUUID(d, req[c])
    /\ UNCHANGED <<rows, caches>>
    /\ IF UUIDTaken(req[c])
       THEN Return(c, Result("Internal"))
       ELSE Goto(c, "insert_name") /\ UNCHANGED <<holder, held, local>>

InsertName(c) ==
    /\ pc[c] = "insert_name"
    /\ \A d \in Callers \ {c} : ~ HoldsName(d, req[c])
    /\ UNCHANGED <<rows, caches>>
    /\ IF NameTaken(req[c])
       THEN Return(c, Result("Internal"))
       ELSE Goto(c, "commit") /\ UNCHANGED <<holder, held, local>>

\* The reply to COMMIT may be lost.  Only the write of a child goes on to evict.
Commit(c) ==
    /\ pc[c] = "commit"
    /\ rows' = [rows EXCEPT ![req[c].uuid] = NewRow(c)]
    /\ UNCHANGED caches
    /\ \/ Return(c, Result("Internal"))
       \/ /\ parent[c] = None
          /\ Return(c, Result("ok"))
       \/ /\ parent[c] # None
          /\ Goto(c, "evict_lock")
          /\ held' = [held EXCEPT ![c] = {}]
          /\ UNCHANGED <<holder, local>>

\* cacheEvict locks, and is done if nobody has cached the new domain meanwhile, or
\* ristretto has dropped it.
EvictLock(c) ==
    /\ pc[c] = "evict_lock"
    /\ holder = None
    /\ UNCHANGED <<rows, caches>>
    /\ \/ Return(c, Result("ok"))
       \/ /\ byUUID[req[c].uuid] # None
          /\ holder' = c
          /\ Goto(c, "acquire_evict")
          /\ UNCHANGED <<held, local>>

\* The tree rooted at the internal id of the value passed to DomainWrite.
TreeToEvict(c) == {d \in Stored : rows[d].root = req[c].id}

\* The records of a tree come with their parents, read by ReadByRowID: its read lock
\* is refused for ever while this call holds the lock, so there is no step after
\* "evict_parent".
EvictSelect(c) ==
    /\ pc[c] = "evict_select"
    /\ rows' = rows
    /\ \/ /\ \E d \in TreeToEvict(c) : rows[d].parent # None
          /\ Goto(c, "evict_parent")
          /\ held' = [held EXCEPT ![c] = {}]
          /\ UNCHANGED <<caches, holder, local>>
       \/ /\ \A d \in TreeToEvict(c) : rows[d].parent = None
          /\ byUUID' = [d \in Domains |-> IF d \in TreeToEvict(c) THEN None ELSE byUUID[d]]
          /\ byName' = [k \in Systems \X Names |->
                IF \E d \in TreeToEvict(c) : k = <<rows[d].system, rows[d].name>>
                THEN None ELSE byName[k]]
          /\ byRowID' = byRowID \ TreeToEvict(c)
          /\ Return(c, Result("ok"))

-----------------------------------------------------------------------------

Step(c) ==
    \/ Acquire(c)
    \/ AcquireTimeout(c)
    \/ Lookup(c)
    \/ Select(c)
    \/ ReadRelative(c)
    \/ EndRead(c)
    \/ CacheWrite(c)
    \/ Update(c)
    \/ Insert(c)
    \/ InsertName(c)
    \/ Commit(c)
    \/ EvictLock(c)
    \/ EvictSelect(c)

Next == \E c \in Callers : DomainCall(c) \/ Step(c) \/ Fail(c)

Spec == Init /\ [][Next]_vars

\* A call in progress keeps running; making a call and failing are never forced.
FairSpec == Spec /\ \A c \in Callers : WF_vars(Step(c))

-----------------------------------------------------------------------------
(* Correctness. *)

\* Every variable has its type.
CacheTypeOK ==
    /\ rows \in [Domains -> Rows \union {None}]
    /\ byUUID \in [Domains -> Systems \union {None}]
    /\ byName \in [Systems \X Names -> Domains \union {None}]
    /\ byRowID \subseteq Domains
    /\ holder \in Callers \union {None}
    /\ held \in [Callers -> SUBSET Connections]
    /\ pc \in [Callers -> Steps]
    /\ req \in [Callers -> Requests \union {None}]
    /\ stack \in [Callers -> Seq(Frames)]
    /\ parent \in [Callers -> Domains \union {None}]
    /\ calls \in 0..MaxCalls
    /\ began \in [Callers -> SUBSET Domains]
    /\ asked \subseteq Systems \X Domains
    /\ \A c \in Callers : pc[c] = "idle" <=> req[c] = None

\* A caller holds the cache lock across steps exactly while it evicts, so cacheEvict
\* never overlaps another one, a lookup or a fill of the caches.
LockIsHeldToEvict == \A c \in Callers : holder = c <=> pc[c] \in EvictSteps

\* No connection serves two callers, and every call gives back what it took.
ConnectionsAreExclusive ==
    /\ \A c, d \in Callers : c # d => held[c] \intersect held[d] = {}
    /\ \A c \in Callers : pc[c] = "idle" => held[c] = {}

\* What a record or a cache refers to is stored.
RecordsAreStored ==
    /\ \A d \in Stored : rows[d].root \in Stored /\ rows[d].parent \in Stored \union {None}
    /\ \A d \in Domains : byUUID[d] # None => d \in Stored
    /\ \A c \in Callers :
        /\ parent[c] \in Stored \union {None}
        /\ began[c] \subseteq Stored

\* The reads of a call: the outermost is the one that the call asked for, those in it
\* are of relatives, and only the innermost may still look for its domain.
ReadsNest(c) ==
    LET reads == stack[c] IN
    /\ reads # <<>> <=> pc[c] \in ReadSteps
    /\ reads # <<>> => reads[Len(reads)].key = Wanted(req[c])
    /\ \A i \in 1..Len(reads) :
        /\ i < Len(reads) => reads[i].key.by = "rowid" /\ reads[i].key.of \in Stored
        /\ reads[i].domain = None <=> i = 1 /\ pc[c] \in {"lookup", "acquire_read", "select"}
        /\ reads[i].domain # None =>
            /\ reads[i].domain \in Matching(req[c].system, reads[i].key)
            /\ reads[i].todo \subseteq Relatives(reads[i].domain)

\* The keys that an INSERT has entered are not in the table.
KeysAreNew(c) ==
    /\ pc[c] \in {"insert_name", "commit"} => ~ UUIDTaken(req[c])
    /\ pc[c] = "commit" => ~ NameTaken(req[c])

\* The domain that a call writes is stored from its COMMIT on, and not before.
WriteIsCommitted(c) ==
    /\ IF pc[c] \in WriteSteps
       THEN req[c].op = "write" /\ (req[c].parent = None <=> parent[c] = None)
       ELSE parent[c] = None
    /\ pc[c] = "update" => parent[c] # None
    /\ KeysAreNew(c)
    /\ pc[c] \in {"evict_lock"} \union EvictSteps =>
        /\ rows[req[c].uuid] # None
        /\ rows[req[c].uuid].system = req[c].system
        /\ rows[req[c].uuid].name = req[c].name
        /\ rows[req[c].uuid].parent = parent[c] /\ parent[c] # None

\* No key and no tree is held by two open transactions.
HoldsAreExclusive == \A c, d \in Callers : c # d =>
    /\ pc[c] \in {"insert_name", "commit"} => ~ HoldsUUID(d, req[c])
    /\ pc[c] = "commit" => ~ HoldsName(d, req[c])
    /\ pc[c] \in {"insert", "insert_name", "commit"} /\ parent[c] # None =>
        ~ HoldsTree(d, rows[parent[c]].root)

\* Every id was asked for under the system of its domain.
AskedProperly == \A p \in asked : rows[p[2]] # None => rows[p[2]].system = p[1]

\* What a call looks for by id is recorded in `asked'.
IsRecorded(c) == stack[c] # <<>> /\ Wanted(req[c]).by # "name" =>
    <<req[c].system, Wanted(req[c]).of>> \in asked

TreesStayApart == \A d \in Stored : \A e \in {rows[d].parent, rows[d].root} \ {None} :
    rows[e].system = rows[d].system

\* A record is cached under its own system, and a cached name leads to the domain of
\* that name in that system.
CachesStayApart ==
    /\ \A d \in Domains : byUUID[d] # None => rows[d] # None /\ byUUID[d] = rows[d].system
    /\ \A s \in Systems, n \in Names :
        LET d == byName[<<s, n>>] IN
        d # None => rows[d] # None /\ rows[d].system = s /\ rows[d].name = n

\* What a call has found is of the system that it asks about.
CallStaysApart(c) ==
    /\ parent[c] # None => rows[parent[c]].system = req[c].system
    /\ \A i \in 1..Len(stack[c]) :
        /\ i < Len(stack[c]) => rows[stack[c][i].key.of].system = req[c].system
        /\ stack[c][i].domain # None => rows[stack[c][i].domain].system = req[c].system

\* The lock, the connections, and what lets the steps of nested reads and of writes
\* trust what earlier steps have found.
CacheInv ==
    /\ CacheTypeOK
    /\ LockIsHeldToEvict
    /\ ConnectionsAreExclusive
    /\ RecordsAreStored
    /\ \A c \in Callers : ReadsNest(c) /\ WriteIsCommitted(c) /\ IsRecorded(c)
    /\ HoldsAreExclusive
    /\ AskedProperly =>
        TreesStayApart /\ CachesStayApart /\ \A c \in Callers : CallStaysApart(c)

\* The frames whose transactions are open: those below a nested read and, past
\* Acquire, the innermost one.
OpenReads(c) == IF stack[c] = <<>> THEN 0
                ELSE Len(stack[c]) - (IF pc[c] \in {"select", "nested"} THEN 0 ELSE 1)

\* Every open transaction of a call holds a connection of its own, and nothing else does.
ConnectionsAreCounted(c) ==
    /\ IsFiniteSet(held[c])
    /\ Cardinality(held[c]) =
        OpenReads(c) + (IF pc[c] \in TransactionSteps THEN 1 ELSE 0)

\* A read climbs: it never selects a domain that it is already reading, so it holds at
\* most one connection for each domain of the tree, and one per open transaction.
ReadsClimb == \A c \in Callers :
    /\ \A i, j \in 1..Len(stack[c]) : i < j =>
        stack[c][i].domain = None \/ stack[c][i].domain # stack[c][j].domain
    /\ ConnectionsAreCounted(c)

\* A nested read is of the parent or of another root of the domain around it.
ReadsFollow(c) == \A i \in 1..Len(stack[c]) : i < Len(stack[c]) =>
    LET around == stack[c][i + 1].domain IN
    stack[c][i].key.of \in {rows[around].parent, rows[around].root} \ {around}

\* Why reads climb: relatives never form a circle, and a nested read is of a relative.
ClimbInv ==
    /\ IsGrounded(rows)
    /\ \A c \in Callers : ReadsFollow(c)
    /\ ReadsClimb

\* A call that cannot go on until another one has: the lock is held exclusively, or an
\* open transaction holds its tree or a key.  (For a connection it waits up to a deadline.)
WaitsFor(c, d) ==
    \/ pc[c] \in {"lookup", "cache_write", "evict_lock"} /\ holder = d
    \/ /\ c # d
       /\ \/ pc[c] = "update" /\ HoldsTree(d, rows[parent[c]].root)
          \/ pc[c] = "insert" /\ HoldsUUID(d, req[c])
          \/ pc[c] = "insert_name" /\ HoldsName(d, req[c])

\* An eviction that reads the parent of a record waits for its own lock.
WaitsForItself(c) == pc[c] = "evict_parent"

\* Of any callers, one waits for none of the others.  A call that waits may hold what
\* others wait for: an INSERT that meets an uncommitted key has the rows of its tree, and
\* one that meets an uncommitted name has its uuid.
NobodyWaitsInACircle == \A S \in SUBSET Callers : S # {} =>
    \E c \in S : \A d \in S : ~ WaitsFor(c, d)

\* As long as nobody asks for a domain by its id under another system than its own,
\* the caches hold committed domains only, a cached name leads to the domain of that
\* name in that system, and every answer is labelled with the domain's own system.
\* (The lookups by uuid and row id do not look at the system, and what they read is
\* cached under the system they were given.)
SystemsAreKeptApart == AskedProperly =>
    /\ CachesStayApart
    /\ reply # None /\ reply.req.op = "read" /\ reply.outcome.result = "ok" =>
        LET answer == reply.outcome IN
        /\ answer.domain \in Matching(reply.req.system, reply.req.key)
        /\ answer.system = rows[answer.domain].system

\* What a call answers is so: an acknowledged write is stored as it was asked for,
\* also when the eviction after it had to be made, and a domain that was stored when
\* a call began is not answered NotFound, in whatever state the caches are.
RepliesAreTrue == reply # None =>
    LET r == reply.req
        result == reply.outcome.result
    IN
    /\ r.op = "write" /\ result = "ok" =>
        /\ rows[r.uuid] # None
        /\ rows[r.uuid].system = r.system /\ rows[r.uuid].name = r.name
        /\ r.parent = None <=> rows[r.uuid].parent = None
    /\ result = "NotFound" =>
        reply.began \intersect Matching(r.system, Wanted(r)) = {}

\* The table implements the abstract forest, whatever the caches say: the parent that a
\* write has found in one of them is a domain that exists, and the root that its row takes
\* is the parent's.
Forest == INSTANCE DomainForest WITH forest <- rows
ImplementsDomainForest == Forest!Spec

\* Every call returns, although evictions wait for connections and reads for the lock
\* while they hold connections: Acquire's deadline breaks the circle.  The exception is
\* an eviction for a value that carries the internal id of another tree's root.
DomainStoreCallsReturn == \A c \in Callers :
    \/ <>(\E d \in Callers : WaitsForItself(d))
    \/ (pc[c] # "idle" ~> pc[c] = "idle")

=============================================================================
