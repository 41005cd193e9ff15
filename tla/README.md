# Verification of rxp-pg

rxp-pg is a Go library that stores *systems*, *kinds*, *kind versions*, *domains* and
*objects* in PostgreSQL. Many goroutines, and many processes, use one database. This
directory holds TLA+ models of it, the TLC configurations that check them on small
instances, and proofs of their main properties for every value of the constants, checked
by TLAPS.

Run `tlc -config X.cfg M` for a run of `PROJECT.json` and `tlapm M_proofs.tla` for the
proofs.

## 1. The system

### Components

| Component | State | Operations | Uses |
|---|---|---|---|
| Driver (`internal/driver`) | host system record, stores, pool, close callbacks | `New`, `Close`; Read, Write and Query of the five types | the stores |
| `Exec` (`internal/store/db.go`) | one connection and one transaction per call | acquire with a 500 ms deadline, BEGIN REPEATABLE READ, the function, COMMIT or ROLLBACK, release | pgx pool |
| System store | rows of `systems`; caches by uuid and row id | read through the cache, insert | Exec, cache |
| Kind store | rows of `kinds`; caches by uuid, name and row id | read through the cache, insert, query | Exec, cache |
| Kindversion store | rows of `kindversions`; caches by name and row id | read through the cache, insert after a look at the versions that exist, query | Exec (nested), kind records |
| Domain store | rows of `domains`, a nested set per tree; caches | read with all ancestors, insert a root or a child, evict, query a subtree | Exec (nested), system store |
| Object store | `objects`, two name tables, `object_generations` | first write, next generation, lookups of names, read of a generation, query | Exec, records of all the others |
| Record cache (`internal/cache`) | a ristretto cache | get, set, delete, close | |
| Schema (`migrations`) | tables and unique indexes, no foreign keys | | |
| Configuration, metrics, entry point, test helpers | | | |

A call of the driver resolves names into records, each in a read transaction of its own or
from a cache, and then does its work in one more transaction. No lock covers the whole
call. What one process holds in its caches another one changes in the tables.

### What is hard

* **Interleaving.** A call is several transactions of several statements. PostgreSQL makes
  statements wait for uncommitted keys and locked rows, and refuses updates of rows that
  are newer than the snapshot. Whether a lost race surfaces as a definite error or as
  Internal depends on the order of the statements.
* **Stale records.** The place of a new domain is computed from a record of its parent;
  the kind version of an object is checked on one row and stored on another.
* **Lost replies.** COMMIT may have happened although its reply never arrives.
* **Waiting.** Calls wait for keys, rows, locks and connections; a call may hold one
  connection and wait for another.
* **Nesting.** A read of a domain reads its parent and its root from inside its own
  transaction, through the same cache lock and the same pool, one connection per level.
* **Translation.** A query turns an expression into lookups and a WHERE clause; what it
  drops or joins wrongly shows in the rows only.
* **Starting and stopping.** Drivers start at the same time on an empty database, die at
  any point, and are closed beside their calls.

### What correctness means

* *Objects:* generations without gaps, no lost update, acknowledged writes stored for good,
  refused writes without a trace, true conflicts, names that identify; a read returns one
  object that is not older than what was already seen, and finds what was acknowledged.
* *Domains:* the intervals of every tree nest; a query by parent returns the subtree.
* *Kinds and versions:* a version is published once; a series starts at an initial version;
  answers, also those of the caches, are true.
* *Caches:* no entry speaks of what is not stored, or for another system than its own.
* *Queries:* a page holds what the expression means and skips nothing of it.
* *Systems and drivers:* drivers of one system agree on its record; New succeeds when the
  record is there; answers are true.
* *All:* every call returns.

## 2. The modules

| Module | Role |
|---|---|
| `VersionedObjects` | abstract: objects as registers with a generation counter, written in one step |
| `ObjectStore` | `ObjectWrite`: `dbInsertFirst` and `dbInsertGeneration`, one action per SQL statement; implements `VersionedObjects` |
| `ObjectRead` | extends `ObjectStore` with readers: `ObjectRead` in two transactions |
| `DomainForest` | abstract: trees of domains that only grow, with unique names and one root per tree |
| `DomainTree` | `DomainWrite` statement by statement, `DomainRead`, stale records, the nested set; implements `DomainForest` |
| `DomainCache` | the domain store of one process: three caches under their lock, nested reads, the pool, `cacheEvict`, several systems; implements `DomainForest` |
| `VersionSeries` | abstract: kinds with name and uuid, series of versions |
| `KindVersions` | `KindWrite`, `KindRead`, `KindVersionWrite`, `KindVersionRead`, their caches, the connection pool and nested `Exec`; implements `VersionSeries` |
| `SystemRegistry` | abstract: systems registered once, drivers that work with a registered record |
| `HostSystem` | several drivers on one database: `New`, `SystemRead`, `SystemWrite`, `Close`, crash and restart; implements `SystemRegistry` |
| `Queries` | the five queries: lookups, WHERE clause, page, conversion of the rows |
| `MC*` | instances for TLC: small sets of requests that bring the hazards about |
| `*_proofs` | theorems and proofs |

`PROJECT.json` maps every definition to the lines it models.

### How the models correspond to the code

*Transactions.* A transaction's writes are invisible until COMMIT, which applies them in
one action. What others feel of them before are PostgreSQL's rules, modelled as guards and
marked external in the map: an INSERT waits while another open transaction holds the same
key; an UPDATE waits while another one holds the row, and fails with a serialization error
when the row is newer than the snapshot. The snapshot is taken at the first statement.
Everywhere, `Fail` stands for each error return that does not depend on the data (no
connection, cancelled context, broken connection, refused cache entry), and COMMIT may
take effect without its reply.

*ObjectStore.* `objects`, `names` and `generations` are the tables; `pc` is the next
statement of each caller, `seen` its snapshot of the object's row, `pending` its
uncommitted writes. `answers` records what calls returned; the number of a call stands for
the spec it stores. The driver's lookups of system, kind, version and domain are inputs
(`Requests`): they read rows that never change.

*ObjectRead.* Each reader does the lookup (uuid to name, or name to uuid) in one step and
the read of the generation in another; each is one SELECT in its own transaction, so one
atomic step. `floor` remembers what had been returned when the read began. The answer is
put together from the request and from both SELECTs as the driver does it: uuid, generation
and spec are the second's, the name is the first's or the request's, the kind version is the
request's, and so is the domain, whether or not anything has compared it.

*DomainTree.* `domains` are the rows, `cache` the records by uuid. A read climbs from a
domain to its root (`fetched` is the recursion's stack), each level a lookup, a SELECT and
a cache write. An insertion takes the parent record it was given (`parent`), begins,
shifts the right sides and the left sides of the tree, inserts, and commits. `Evict` is
what `cacheEvict` does to the records. The locks and connections in between are
`DomainCache`'s. The refinement drops the sides of the rows, the part that insertions
rewrite.

*DomainCache.* `byUUID`, `byName` and `byRowID` are the three caches. `byUUID` maps a
domain to the *system its record is labelled with*, because the SELECTs by uuid and by row
id do not look at the system. `holder` is who holds `cacheLock` from one step to the next:
only `cacheEvict`, which selects the tree and may read a parent under it; lookups and
fills take the lock within a step and so only wait for the holder. `held` are the
connections of each caller. `stack` holds the reads a call is in, innermost first: a SELECT that finds a
domain goes on (`todo`) with its parent and its root, each as a read of its own that looks
into the cache, acquires a further connection and selects, while the transactions below it
stay open; the entry is written when its relatives are there. `AcquireTimeout` may happen
only when no connection is free. An insertion is its statements: the two UPDATEs of a child
(`Update`, one step, since every row of the second is one of the first), the INSERT at the
index on uuids (`Insert`) and at the one on names (`InsertName`), and COMMIT. `HoldsTree`,
`HoldsUUID` and `HoldsName` say what it holds from each of them to the next, so that a call
that waits may hold what others wait for. The rows of a tree are one lock. A domain's uuid
stands for its row id; a written value that was copied from a record carries that record's
internal id (`id`), which is what `cacheEvict` purges by. `reply`, `began` and `asked` are
history: what the last call answered, what was stored when it began, and which ids were
asked for under which system. Its rows have no sides, and are the abstract forest as they are.

*KindVersions.* `outer` and `nested` are the connections that a caller holds: `dbInsert`
runs `dbVersionsForKind` as an `Exec` inside its own transaction. `AcquireTimeout` may
happen only while no connection is free. `kinds` maps the name of each stored kind to its
uuid; `kindCache` is what the caches from name to uuid and from uuid to record say
together. The store reports a duplicate of either key as one of the name, inside an
Internal error.

*HostSystem.* A driver is one process with one call in progress, and `Close` beside it.
`req` is what the call asks of the system store; `New` makes three such requests, one after
the other (`initHostSystemRecord`). A crash loses everything but the committed rows. The
refinement maps the abstract `host` to the record of a driver that runs or is closed.

*Queries.* A query is four steps: the lookup of the systems and kinds that its expression
names, the SELECT, the conversion of the rows into records, and the answer; between them
other rows of `Universe` come to be stored. `Means` is what the expression says of a row.
`Clause` is the WHERE clause that the code builds from it: which predicates each of the
stores translates (`Supported`, `UsableParts`), how AND and OR are joined with the conditions on
system and kind, what an empty list of ids becomes. The properties compare the two.
Numbers stand for uuids in the order of ORDER BY; a domain's interval is the set of
domains it lies `within`.

## 3. The runs

| Run | Question | Result |
|---|---|---|
| `object_writes` | three callers race to create and update two objects that share a name in a system-scoped and a domain-scoped kind, connections break anywhere | no gap, no lost update, no partial write, no untrue answer; who waits is behind whom it waits for; every call returns; the store implements `VersionedObjects` |
| `object_read` | a reader beside two writers, one name under three kinds, an update that changes the kind | what is returned is one object, and of the domain asked for where the kind is domain-scoped; never older than before; it is found, unless it is asked for by a name that another kind has too |
| `object_read_by_name` | the same for reads by name | **violated**: the lookup ignores the kind |
| `object_read_version` | the version returned is the one the generation was written with | **violated**: `objects.kindversion` is never updated |
| `domain_tree` | two callers, two trees, cache on | intervals nest, rows only grow, fresh parents keep subtrees right, calls return; the table implements `DomainForest` |
| `domain_tree_cached` | one caller, cache on: queries by parent return the subtree | **violated**: nothing is evicted, and the parent record is stale |
| `domain_cache` | two callers, two connections, two systems: nested reads meet evictions, insertions wait for keys while they hold a tree | the caches hold stored rows under their own systems, replies are true, connections and lock are given back, nested reads climb and end, calls return; the table implements `DomainForest` |
| `kind_versions` | two writers and a pool of two connections, kinds that share a uuid or a name | one series, true answers, calls return; the stores implement `VersionSeries` |
| `host_system` | two drivers of one system start, crash, restart, call and close | they agree on the record; answers are true; calls and Close return; they implement `SystemRegistry` |
| `host_system_start` | New succeeds when another driver writes the record first | **violated**: the duplicate key is an error of New |
| `queries` | every predicate, over two systems whose rows appear meanwhile | pages within the limit asked for that skip nothing and hold what is meant; what is unknown gives an empty page, and one result per kind of query |
| `queries_or` | ObjectQuery answers objects of the kind it is asked for | **violated**: an OR escapes the conditions on system and kind |

Every violated property quotes a comment of the code in `PROJECT.json` ("findings"). Every
property of a passing run has a mutant, a small change of a mapped definition such as a
dropped guard, under which TLC finds the property violated.

Some properties of passing runs are conditional, and say so:

* `ReadIsOneObject` compares the domain of an answer with the stored one for domain-scoped
  kinds only. For the others the driver puts the domain that was asked for into the answer
  (`driver/object.go:125`) and has compared it with nothing, although its comment
  (`driver/object.go:57-60`) wants "to verify that the system/domain specified for the Object
  is valid and matches the system/domain we had stored". The run makes such reads.
* `SystemsAreKeptApart` holds as long as nobody asks for a domain by its id under another
  system than its own (`AskedProperly`). The SELECTs by uuid and by row id do not compare
  the system and label what they find with the system they were given; one such call puts
  a record with the wrong label into the cache. The property shows that nothing else does.
* `DomainStoreCallsReturn` excludes the eviction for a value whose internal id is the root
  of another tree (`WaitsForItself`): `cacheEvict` then reads the parents of that tree
  through `ReadByRowID`, which waits for the lock that the eviction itself holds.
* `AnswersMatch` compares rows with the meaning of the expression where the store translates
  it whole (`TranslatedWhole`). It does not for three kinds of ObjectQuery: any expression
  over objects of a domain-scoped kind, none of which reaches the clause although the comment of
  the function (`object/db.go:684-686`) speaks of the given expression; predicates that the
  store does not know, and those with IN under an AND, which are passed over; several predicates joined by OR
  (`queries_or`). Of the first two, and of an OR of which one predicate reaches the clause,
  it says that the answer is of the kind and version asked for (`KeepsToTheKind`).
* `NothingIsSkipped` is about the one page that a query can get, and excludes an OR of which
  predicates are passed over (`NoAlternativeIsLost`). A clause that is too wide skips nothing.
* `UnknownIsEmpty` says that a query of which nothing that it names is stored has an empty
  page. What it is told differs, and the property states it: no error for systems and for
  one version, `ErrKindUnknown` for ObjectQuery, Internal for a list of versions, whose
  clause becomes an empty pair of parentheses.

### Bounds, and why they are enough

* *ObjectStore:* three callers, two objects, three generations, three writes. A race needs
  two callers at one generation; a third sees the state between; three generations give an
  expected generation that is right, old or not there yet.
* *ObjectRead:* one reader, two writers, three writes, two reads. Readers share nothing, so
  one is enough; two reads in sequence can go back in time. The two writers are symmetric. One object of a
  system-scoped kind has a domain, another has none, and reads ask under the right domain, a
  wrong one and none.
* *DomainTree:* five domains and five calls: a root, two siblings and one insertion by an
  outdated record below one of them is the smallest tree that goes wrong. Two callers make
  two open transactions in one tree or in two.
* *DomainCache:* two callers, two connections, three calls. Two callers are enough for one to
  hold the lock and want a connection while the other holds connections and wants the lock.
  The tree reaches three levels with the new domain, so that a cold read of it needs one
  connection more than the pool has. The second system has a root of the same name. The
  requests include an insertion by name and by uuid, values that carry the id of either
  tree's root, and a read under the wrong system. Two insertions go to one tree; two, into
  different systems, have one uuid, so that one waits for the key while it holds its tree; two
  have one name. A caller that waits for one that waits takes a third caller: that there is
  still no circle is a theorem.
* *KindVersions:* two connections for two writers, so that both hold one and wait for one.
  Five calls: two kinds, one uuid in common, an initial version by two authors, a later
  version, the reads.
* *HostSystem:* two drivers, three starts (both, and one restart) and two calls.
* *Queries:* one query at a time, since queries share nothing and rows are never deleted. 16
  rows are two or three of each type; limits of 2 (default) and 3 (maximum) make pages that
  are full, one row short, or cut off; limits are asked for below, at and above the maximum.
* Each `Max...` constant but those of the query limits caps only how many calls are made, or
  how high a generation goes, never what a call in progress may do.

`CHECK_DEADLOCK FALSE` is set where the number of calls is bounded: when all have
returned, the system stops. `Queries` has no such bound and deadlock is checked. That
nobody waits for ever is what the liveness properties (`CallsReturn`, `DomainCallsReturn`,
`DomainStoreCallsReturn`, `VersionCallsReturn`, `SystemCallsReturn`, `CloseReturns`) say.

### Fairness

Weak fairness of each caller's `Step`, and of Close once it has been called. A goroutine
that can run does run; PostgreSQL wakes a transaction whose key or row has been released
and answers statements; Acquire has a deadline of 500 ms; `sync.RWMutex` does not starve
those who wait. Making a call, failing, closing and crashing are never forced. No strong
fairness is assumed: a waiting step stays enabled once what it waits for is released, or is
taken by another caller whose turn ends too, and the calls are bounded.

## 4. The proofs

TLC checks instances; the theorems hold for all callers, objects, domains, kinds, versions,
systems, drivers, connections, requests and bounds. They assume of the constants only what
the modules' `ASSUME`s say (`None` is no member of the sets it is used with, requests are
well formed, bounds are natural numbers, the initial rows of `DomainCache` and `Queries`
refer to each other, those of `DomainCache` never in a circle), which TLC evaluates in every
run; where a theorem needs more, it states that as its hypothesis. Each module has one
inductive invariant, checked by TLC too:

* `TransactionInv` (**ObjectStore**). That the generations have no gap is not inductive: one
  must know what each open transaction has pending, that no two of them hold one key
  (`KeysExclusive`), that what is pending is not committed yet (`PendingIsNew`), and that a
  snapshot is a past state of the row (`SnapshotIsPast`). With it, acknowledged writes,
  refusals, history and conflicts follow step by step, and so does the refinement of
  `VersionedObjects`: COMMIT maps to `Create` or `Replace`, everything else to a stutter.
  Transactions never deadlock, whatever the number of callers: who waits for a key or a row
  has not got as far in the order of the statements as the transaction that holds it
  (`WaitsStayOrdered`), so of any set of callers the furthest waits for none of the others
  (`WritersNeverDeadlock`). And no update is lost: of the writers that expect one generation
  one at most is told that it has written it (`UpdatesAreNotLost`).
* `ReadInv` (**ObjectRead**). The two transactions of a read see different states of the
  database, so what the first found must still be true at the second: an object keeps its
  name and kind, and generations only grow, so the `floor` of a read stays below what it
  will find. That names and histories never change is `HistoryIsImmutable` of the store; from there,
  `ReadIsOneObject` and `ReadsNeverGoBack` follow for any number of readers, although TLC
  runs one. The domain of the answer is the stored one where names are looked up by domain;
  for the other kinds nothing can be proved of it. The two violated runs are delimited: a read that asks for the kind version an
  object was created with finds the object, unless it asks by a name that an object of
  another kind has too (`AcknowledgedIsFound`), and what it finds is always labelled with
  that first kind version (`LabelsAreOfTheFirst`).
* `TreeInv` (**DomainTree**). A new interval is placed by a record that may be old. The
  argument is that a record is a past state of its row, whose right side only grows
  (`RecordsArePast`), that the sides of a snapshot which passes the REPEATABLE READ check
  are the current ones (`SnapshotsArePast`), and that only one transaction holds the rows
  of a tree. Then making room at *any* former right side keeps the set nested
  (`IntervalsAlwaysNest`). It does not keep it *exact*: that is proved for a current parent
  record only (`FreshParentsKeepSubtrees`), and `domain_tree_cached` shows the rest. That
  an outdated record is the only way to go wrong is a theorem too: if every child is placed
  by its parent's current row, for any number of callers, queries by parent are exact
  (`FreshInsertsSuffice`), and one caller without the cache does place them so
  (`OneUncachedCallerIsExact`, from the invariant `NothingGrowsOld`).
* `CacheInv` (**DomainCache**). A nested read trusts what the reads around it found in other
  transactions, earlier; it may because rows are never removed or changed in system, name,
  parent and root, so that whatever a frame of the stack or a cache entry refers to is still stored
  (`RecordsAreStored`, `ReadsNest`). The write that evicts trusts its own COMMIT
  (`WriteIsCommitted`). Separation of systems is proved under `AskedProperly`, which looks
  at the whole history of ids asked for: then trees, caches and calls stay apart together,
  none of the three without the others. Nested reads end (`ReadsAlwaysClimb`): the rows refer
  to each other in no circle (`IsGrounded`: of any stored domains one refers to none of the
  others), which a COMMIT keeps because a new row refers to stored rows and itself; each
  frame of the stack is of the parent or root of the frame around it (`ReadsFollow`). Were one domain
  in two frames, the domains of the frames between would have no such one. Together with
  `ConnectionsAreCounted` this bounds what a call holds by the depth of the tree. A call that waits
  for a key holds a tree, and may be waited for; but each wait is for a call that has got
  further (the cache lock is only held by evictions, which come after COMMIT; a tree by who is
  past its UPDATEs; a uuid by who waits for the name at most), so of any set of callers the
  furthest waits for none of the others (`DomainCallsNeverDeadlock`). That trees and keys have
  one holder each is `HoldsAreExclusive`, and that what an INSERT found free stays free until
  its COMMIT is `KeysAreNew`: both are parts of the invariant.
* **The forest.** `DomainTree` and `DomainCache` each abstract what the other models, and both
  implement `DomainForest` (`TableImplementsForest`, `CachedWritesKeepForest`): COMMIT maps
  to `CreateRoot` or `CreateChild`, because the parent that was read, in an old transaction
  or out of a cache, is still stored under the same root. The second theorem assumes that the
  process finds a forest in the table, as the first process does, which finds it empty.
  What holds in every forest is proved once (`DomainForest_proofs`): nothing is ever moved or
  renamed, and the root that a domain names exists and is a root, for trees of any depth. The
  argument takes the set of domains whose root fails, one in it whose parent is outside, and
  there the failure is not. `RootsAlwaysStand` carries it over to the cached store.
* `VersionInv` (**KindVersions**). The check of the series and the insert look at different
  snapshots. It is sound because versions are never removed, so what was seen is still
  there at COMMIT (`RowsAreForEver`), and the unique index decides between two writers of
  one version. That a series has an initial version (`SeriesStartsInitially`) is a part of
  the invariant and a theorem of its own. That
  the caches answer truly rests on `UUIDsIdentifyKinds`, which the unique index on uuids
  keeps although the store never looks at it.
* `HostInv` (**HostSystem**). Two drivers cannot both insert a system, the ids of open
  transactions are nobody else's, and every copy of a record is the stored one, so drivers
  of one system agree on its id whoever won. The refinement of `SystemRegistry` follows: a
  COMMIT maps to `Register`; any other step starts or stops one driver's work with the
  stored record, or is a stutter. Rows of systems are for ever (`SystemsAreForEver`).
  `host_system_start` shows a New that is refused; `OwnHostsAlwaysStart` shows what that
  takes: if no two drivers have one host system and no call writes one (`HostsAreOwn`), New
  is never refused its record, since what it has not found nobody else writes
  (`AbsentHostsStayAbsent`).
* `QueryInv` (**Queries**). What a lookup found stays stored, what it did not find was not stored
  when the query began, so the clause built from it may only miss rows that came later; the
  page is the first rows of what was stored at the SELECT. `PagesAreBounded` is about the limit
  that was asked for as well as about the maximum. `PagesSkipNothing`, `RowsAreMeant` and
  `UnknownNamesAreEmpty` have the conditions listed in section 3, and no others: for any
  rows, any requests, and writes between any two steps.

Only model-checked: the liveness properties. TLAPS has no support for `ENABLED`, so weak
fairness cannot be used in a proof; for the same reason it is read off the guards, and not
proved, that `WaitsFor` of `ObjectStore` and `DomainCache` holds exactly when a step is
disabled. The violated properties have no theorem, but the theorems named above say when
they hold.

## 5. Not modelled, and assumptions

* The contents of specs, timestamps, callers' identities, logging and metrics.
* Equality of semantic versions is taken as equality of their text.
* The unique keys are single columns or fields here; surrogate ids are left out except for
  systems, where they are what drivers must agree on.
* The rows that an UPDATE of a tree meets are one lock in `DomainTree` and `DomainCache`: every
  insertion into a tree meets the row of its root. Two UPDATEs that scan a tree's rows in
  different orders could wait in a circle, which PostgreSQL ends by an error, and errors
  are what `Fail` stands for.
* The caches of kinds, versions and systems set all entries of a record or none; that
  ristretto refuses one after another was set is modelled for domains, where evictions meet
  the rest.
* *Reads that the driver does not make, or makes through a path that is modelled:* kinds by
  uuid and by row id and versions by row id fill the same caches from the same rows as the reads by name;
  `ReadByRowIDAndGeneration` of objects has no caller.
* *Paths that end the process or the driver:* `Exec`'s panic path, a ROLLBACK that fails, a
  second Close, the pool that a failed New leaves behind (nothing counts pools).
* *A system without a tag:* `dbReadByRowID` of the system store and `SystemQuery` fail on
  it (`Queries` models this as a failure of the conversion); no comment promises otherwise, so
  that no property is about it.
* *Pages after the first:* a full page's marker is returned to the caller and no query takes
  it, so there is no next page to model.
* *Numbers:* generations are bounded by 32-bit columns; no run gets there, and PostgreSQL
  refuses the write that would.
* Configuration, metrics, tables of runs, archives: no state that the program reads back.

## 6. Plan

Written, run and proved, in this order: `ObjectStore` with `VersionedObjects` and
`ObjectRead`, the data that users store; `DomainTree`, the nested set and its stale records;
`KindVersions` with `VersionSeries`, nested transactions and the pool; `HostSystem` with
`SystemRegistry`, the life of drivers; `DomainCache`, lock and pool; `Queries`, clause and
page; `DomainForest`, what the two models of the domain store have in common.

Left:

1. The composition of `DomainTree` and `DomainCache`: sides of records in the cache under the
   lock. Each module abstracts the other's part; the product of their states is beyond what
   TLC explores with the bounds that matter to either.
2. An abstract specification of reads over `ObjectRead` (a read takes effect at one point
   between its call and its return) and its refinement.
