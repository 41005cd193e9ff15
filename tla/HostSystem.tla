----------------------------- MODULE HostSystem -----------------------------
(***************************************************************************)
(* Drivers that share a database: New, which finds or writes the record of *)
(* the driver's host system, SystemRead and SystemWrite, Close, and the    *)
(* crash of the process at any point; with the system store and its cache. *)
(*                                                                         *)
(* A driver is one process with one call in progress at a time, and Close  *)
(* may run beside the call.  The internal id of hostSystemRecord is what   *)
(* every other store writes into its rows.                                 *)
(***************************************************************************)
EXTENDS Naturals

CONSTANTS
    Drivers,    \* processes
    Systems,    \* system UUIDs
    Tags,       \* the tags of systems
    HostOf,     \* the UUID in each driver's configuration
    TagOf,      \* the tag in each driver's configuration
    APICalls,   \* the SystemRead and SystemWrite calls that are made
    MaxStarts,  \* bound: calls of New in all
    MaxCalls,   \* bound: SystemRead and SystemWrite calls in all
    None

ASSUME HostAssumption == HostOf \in [Drivers -> Systems] /\ TagOf \in [Drivers -> Tags]
ASSUME CallsAssumption ==
    APICalls \subseteq [op: {"read", "write"}, system: Systems, tag: Tags]
ASSUME BoundsAssumption == MaxStarts \in Nat /\ MaxCalls \in Nat

Rows == [id: Nat, tag: Tags]
ASSUME NoneAssumption == None \notin Rows

VARIABLES
    systems,  \* committed rows of systems, by UUID
    lastId,   \* the sequence of systems.id
    phase,    \* of each driver
    pool,     \* its connection pool
    cache,    \* its system cache by UUID; None when the store is not there or closed
    host,     \* its hostSystemRecord
    step,     \* the next step of its call
    req,      \* what the call, or the last one, asks of the system store
    row,      \* the row of its uncommitted INSERT, or the record it has read
    reply,    \* the outcome of the last call
    starts, calls

database == <<systems, lastId>>
driver == <<phase, pool, cache, host>>
call == <<step, req, row, reply>>
vars == <<database, driver, call, starts, calls>>

\* The three calls of initHostSystemRecord, and the two of the driver's API.
HostOps == {"host_read", "host_write", "host_reread"}
WriteOps == {"host_write", "write"}
Requests == [op: HostOps \union {"read", "write"}, system: Systems, tag: Tags]
Replies == [error: {"nil", "internal", "duplicate", "not_found"}, row: Rows \union {None}]

EmptyCache == [s \in Systems |-> None]

Init ==
    /\ systems = [s \in Systems |-> None]
    /\ lastId = 0
    /\ phase = [d \in Drivers |-> "down"]
    /\ pool = [d \in Drivers |-> "none"]
    /\ cache = [d \in Drivers |-> None]
    /\ host = [d \in Drivers |-> None]
    /\ step = [d \in Drivers |-> "idle"]
    /\ req = [d \in Drivers |-> None]
    /\ row = [d \in Drivers |-> None]
    /\ reply = [d \in Drivers |-> None]
    /\ starts = 0
    /\ calls = 0

-----------------------------------------------------------------------------
(* The beginning and the end of calls. *)

FirstStep(op) == IF op \in WriteOps THEN "acquire" ELSE "lookup"

Ask(d, op, s, t) ==
    /\ req' = [req EXCEPT ![d] = [op |-> op, system |-> s, tag |-> t]]
    /\ step' = [step EXCEPT ![d] = FirstStep(op)]
    /\ row' = [row EXCEPT ![d] = None]
    /\ reply' = [reply EXCEPT ![d] = None]

Answer(d, error, r) ==
    /\ step' = [step EXCEPT ![d] = "idle"]
    /\ row' = [row EXCEPT ![d] = None]
    /\ reply' = [reply EXCEPT ![d] = [error |-> error, row |-> r]]
    /\ UNCHANGED req

Goto(d, next) == step' = [step EXCEPT ![d] = next]

\* New returns an error and no Driver, and nothing closes its pool.
Discard(d) ==
    /\ phase' = [phase EXCEPT ![d] = "down"]
    /\ pool' = [pool EXCEPT ![d] = "none"]
    /\ cache' = [cache EXCEPT ![d] = None]
    /\ host' = [host EXCEPT ![d] = None]

\* The call ends with an error; so does New if it made the call.
Refuse(d, error) ==
    /\ Answer(d, error, None)
    /\ IF phase[d] = "starting" THEN Discard(d) ELSE UNCHANGED driver

\* The record that the system store has read reaches the one who asked.  New makes the
\* remaining stores with it.
Deliver(d, r) ==
    /\ Answer(d, "nil", r)
    /\ IF req[d].op \in HostOps
       THEN host' = [host EXCEPT ![d] = r] /\ phase' = [phase EXCEPT ![d] = "running"]
       ELSE UNCHANGED <<host, phase>>

\* No such row: New writes it.
NotFound(d) ==
    IF req[d].op = "host_read"
    THEN Ask(d, "host_write", HostOf[d], TagOf[d]) /\ UNCHANGED driver
    ELSE Refuse(d, "not_found")

\* The row is written: New reads it back, for its id.
Written(d) ==
    IF req[d].op = "host_write"
    THEN Ask(d, "host_reread", HostOf[d], TagOf[d])
    ELSE Answer(d, "nil", None)

-----------------------------------------------------------------------------
(* The driver. *)

\* New up to initSystemStore; its errors leave the process as it was.
New(d) ==
    /\ phase[d] \in {"down", "closed"}
    /\ step[d] = "idle"
    /\ starts < MaxStarts
    /\ starts' = starts + 1
    /\ phase' = [phase EXCEPT ![d] = "starting"]
    /\ pool' = [pool EXCEPT ![d] = "open"]
    /\ cache' = [cache EXCEPT ![d] = EmptyCache]
    /\ host' = [host EXCEPT ![d] = None]
    /\ Ask(d, "host_read", HostOf[d], TagOf[d])
    /\ UNCHANGED <<database, calls>>

Call(d, r) ==
    /\ phase[d] \in {"running", "closed"}
    /\ step[d] = "idle"
    /\ calls < MaxCalls
    /\ calls' = calls + 1
    /\ Ask(d, r.op, r.system, r.tag)
    /\ UNCHANGED <<database, driver, starts>>

\* The tag of a read means nothing.
SystemRead(d) == \E r \in APICalls : r.op = "read" /\ Call(d, r)
SystemWrite(d) == \E r \in APICalls : r.op = "write" /\ Call(d, r)

\* Close: the pool first, which waits for the connections in use.
Close(d) ==
    /\ phase[d] = "running"
    /\ pool[d] = "open"
    /\ pool' = [pool EXCEPT ![d] = "closing"]
    /\ UNCHANGED <<database, phase, cache, host, call, starts, calls>>

\* Mutant: a failed INSERT does not release its connection.
HoldsOrLeaks(d) ==
    \/ step[d] \in {"insert", "commit"}
    \/ reply[d] # None /\ reply[d].error = "duplicate"

HoldsConnection(d) == step[d] \in {"insert", "commit"}

ClosePool(d) ==
    /\ pool[d] = "closing"
    /\ ~ HoldsConnection(d)
    /\ pool' = [pool EXCEPT ![d] = "closed"]
    /\ UNCHANGED <<database, phase, cache, host, call, starts, calls>>

\* Then the callbacks, which close the stores' caches.
CloseStores(d) ==
    /\ phase[d] = "running"
    /\ pool[d] = "closed"
    /\ phase' = [phase EXCEPT ![d] = "closed"]
    /\ cache' = [cache EXCEPT ![d] = None]
    /\ UNCHANGED <<database, pool, host, call, starts, calls>>

\* The process dies, and its uncommitted row with it.
Crash(d) ==
    /\ phase[d] # "down"
    /\ Discard(d)
    /\ step' = [step EXCEPT ![d] = "idle"]
    /\ req' = [req EXCEPT ![d] = None]
    /\ row' = [row EXCEPT ![d] = None]
    /\ reply' = [reply EXCEPT ![d] = None]
    /\ UNCHANGED <<database, starts, calls>>

-----------------------------------------------------------------------------
(* The system store. *)

\* An error anywhere: no server, a failed statement, a refused cache entry.
Fail(d) ==
    /\ step[d] # "idle"
    /\ Refuse(d, "internal")
    /\ UNCHANGED <<database, starts, calls>>

Cached(d) == IF cache[d] = None THEN None ELSE cache[d][req[d].system]

Lookup(d) ==
    /\ step[d] = "lookup"
    /\ UNCHANGED <<database, pool, cache, starts, calls>>
    /\ IF Cached(d) # None
       THEN Deliver(d, Cached(d))
       ELSE Goto(d, "select") /\ UNCHANGED <<phase, host, req, row, reply>>

\* dbReadByUUID, which needs a connection.
Select(d) ==
    LET found == systems[req[d].system] IN
    /\ step[d] = "select"
    /\ UNCHANGED <<database, starts, calls>>
    /\ \/ pool[d] # "open" /\ Refuse(d, "internal")
       \/ pool[d] = "open" /\ found = None /\ NotFound(d)
       \/ /\ pool[d] = "open" /\ found # None
          /\ row' = [row EXCEPT ![d] = found]
          /\ Goto(d, "cache_write")
          /\ UNCHANGED <<driver, req, reply>>

\* cacheWrite, after the transaction: a closed cache takes nothing.
CacheWrite(d) ==
    /\ step[d] = "cache_write"
    /\ UNCHANGED <<database, starts, calls>>
    /\ IF cache[d] = None
       THEN Refuse(d, "internal")
       ELSE /\ cache' = [cache EXCEPT ![d][req[d].system] = row[d]]
            /\ Deliver(d, row[d])
            /\ UNCHANGED pool

\* Mutant: Pool.Close does not refuse the calls that come after it.
AcquireAnyway(d) ==
    /\ step[d] = "acquire"
    /\ Goto(d, "insert")
    /\ UNCHANGED <<database, driver, req, row, reply, starts, calls>>

Acquire(d) ==
    /\ step[d] = "acquire"
    /\ UNCHANGED <<database, starts, calls>>
    /\ IF pool[d] = "open"
       THEN Goto(d, "insert") /\ UNCHANGED <<driver, req, row, reply>>
       ELSE Refuse(d, "internal")

HoldsRow(d, s) == step[d] = "commit" /\ req[d].system = s

\* UNIQUE (uuid).
Taken(s) == systems[s] # None

NewRow(d) == [id |-> lastId + 1, tag |-> req[d].tag]

\* Mutant: INSERT ... ON CONFLICT DO NOTHING, and then the record is there anyway.
InsertOrIgnore(d) ==
    /\ step[d] = "insert"
    /\ \A e \in Drivers \ {d} : ~ HoldsRow(e, req[d].system)
    /\ lastId' = lastId + 1
    /\ UNCHANGED <<systems, starts, calls, driver>>
    /\ IF Taken(req[d].system)
       THEN Written(d)
       ELSE row' = [row EXCEPT ![d] = NewRow(d)] /\ Goto(d, "commit") /\ UNCHANGED <<req, reply>>

\* Mutant: INSERT again and again while the key is taken.
InsertUntilFree(d) ==
    /\ step[d] = "insert"
    /\ ~ Taken(req[d].system)
    /\ \A e \in Drivers \ {d} : ~ HoldsRow(e, req[d].system)
    /\ lastId' = lastId + 1
    /\ row' = [row EXCEPT ![d] = NewRow(d)]
    /\ Goto(d, "commit")
    /\ UNCHANGED <<systems, driver, req, reply, starts, calls>>

\* dbInsert: the unique index waits for an uncommitted row.  The id is taken from the
\* sequence also when the statement fails.
Insert(d) ==
    /\ step[d] = "insert"
    /\ \A e \in Drivers \ {d} : ~ HoldsRow(e, req[d].system)
    /\ lastId' = lastId + 1
    /\ UNCHANGED <<systems, starts, calls>>
    /\ IF Taken(req[d].system)
       THEN Refuse(d, "duplicate")
       ELSE /\ row' = [row EXCEPT ![d] = NewRow(d)]
            /\ Goto(d, "commit")
            /\ UNCHANGED <<driver, req, reply>>

\* Mutant: New works with the record that it has written, whose id it does not know.
CommitUnread(d) ==
    /\ step[d] = "commit"
    /\ systems' = [systems EXCEPT ![req[d].system] = row[d]]
    /\ UNCHANGED <<lastId, starts, calls>>
    /\ \/ req[d].op = "write" /\ Answer(d, "nil", None) /\ UNCHANGED driver
       \/ /\ req[d].op = "host_write"
          /\ Deliver(d, [row[d] EXCEPT !.id = 0])
          /\ UNCHANGED <<pool, cache>>
       \/ Refuse(d, "internal")

\* COMMIT, whose reply may be lost.
Commit(d) ==
    /\ step[d] = "commit"
    /\ systems' = [systems EXCEPT ![req[d].system] = row[d]]
    /\ UNCHANGED <<lastId, starts, calls>>
    /\ \/ Written(d) /\ UNCHANGED driver
       \/ Refuse(d, "internal")

-----------------------------------------------------------------------------

Step(d) ==
    \/ Lookup(d) \/ Select(d) \/ CacheWrite(d)
    \/ Acquire(d) \/ Insert(d) \/ Commit(d)

Closing(d) == ClosePool(d) \/ CloseStores(d)

Next == \E d \in Drivers :
    \/ New(d) \/ SystemRead(d) \/ SystemWrite(d) \/ Close(d)
    \/ Step(d) \/ Closing(d)
    \/ Fail(d) \/ Crash(d)

Spec == Init /\ [][Next]_vars

\* A call in progress keeps running, and so does Close.
FairSpec == Spec /\ \A d \in Drivers : WF_vars(Step(d)) /\ WF_vars(Closing(d))

-----------------------------------------------------------------------------
(* Correctness. *)

HostTypeOK ==
    /\ systems \in [Systems -> Rows \union {None}]
    /\ lastId \in Nat
    /\ phase \in [Drivers -> {"down", "starting", "running", "closed"}]
    /\ pool \in [Drivers -> {"none", "open", "closing", "closed"}]
    /\ cache \in [Drivers -> [Systems -> Rows \union {None}] \union {None}]
    /\ host \in [Drivers -> Rows \union {None}]
    /\ step \in [Drivers -> {"idle", "lookup", "select", "cache_write", "acquire", "insert",
                             "commit"}]
    /\ req \in [Drivers -> Requests \union {None}]
    /\ row \in [Drivers -> Rows \union {None}]
    /\ reply \in [Drivers -> Replies \union {None}]
    /\ starts \in 0..MaxStarts
    /\ calls \in 0..MaxCalls

\* A driver that runs has the stored record of its host system, id and tag, whoever wrote
\* it and whatever tag its own configuration names: two drivers of one system never write
\* rows under different ids.
HostIsStored == \A d \in Drivers : phase[d] \in {"running", "closed"} =>
    host[d] # None /\ host[d] = systems[HostOf[d]]

\* Ids tell systems apart.
IdsAreDistinct == \A s, t \in Systems :
    s # t /\ systems[s] # None /\ systems[t] # None => systems[s].id # systems[t].id

\* What SystemRead and SystemWrite answered is true of the table, also across the crash
\* and restart of other drivers.
SystemAnswersAreTrue == \A d \in Drivers : step[d] = "idle" /\ reply[d] # None =>
    LET stored == systems[req[d].system] IN
    /\ reply[d].error = "nil" /\ req[d].op = "write" => stored # None /\ stored.tag = req[d].tag
    /\ reply[d].error = "nil" /\ req[d].op # "write" => reply[d].row # None /\ reply[d].row = stored
    /\ reply[d].error = "duplicate" => stored # None

\* Close waits for the transactions in progress, and none begins on a closed pool.
ClosedPoolsAreIdle == \A d \in Drivers :
    pool[d] \in {"none", "closed"} => ~ HoldsConnection(d)

\* What a call is about tells where it is.
StepsFollow == \A d \in Drivers :
    /\ step[d] # "idle" \/ reply[d] # None => req[d] \in Requests
    /\ step[d] \in {"acquire", "insert", "commit"} => req[d].op \in WriteOps
    /\ step[d] \in {"lookup", "select", "cache_write"} => req[d].op \notin WriteOps
    /\ phase[d] = "starting" => step[d] # "idle" /\ req[d].op \in HostOps
    /\ phase[d] = "down" => step[d] = "idle"
    /\ phase[d] \in {"running", "closed"} /\ step[d] # "idle" => req[d].op \notin HostOps
    /\ step[d] # "idle" /\ req[d].op \in HostOps => req[d].system = HostOf[d]

\* No two transactions insert one system, or take one id.
PendingRows == \A d \in Drivers : step[d] = "commit" =>
    /\ row[d] # None /\ row[d].id <= lastId /\ row[d].tag = req[d].tag
    /\ ~ Taken(req[d].system)
    /\ \A s \in Systems : systems[s] # None => systems[s].id # row[d].id
    /\ \A e \in Drivers \ {d} : step[e] = "commit" =>
            row[e].id # row[d].id /\ req[e].system # req[d].system

\* What a driver has read is what is stored.
CopiesAreStored == \A d \in Drivers :
    /\ step[d] = "cache_write" => row[d] # None /\ row[d] = systems[req[d].system]
    /\ cache[d] # None => \A s \in Systems :
            cache[d][s] # None => cache[d][s] = systems[s]

\* The inductive invariant.
HostInv ==
    /\ HostTypeOK
    /\ StepsFollow
    /\ \A s \in Systems : systems[s] # None => systems[s].id <= lastId
    /\ PendingRows
    /\ CopiesAreStored
    /\ HostIsStored
    /\ IdsAreDistinct
    /\ SystemAnswersAreTrue
    /\ ClosedPoolsAreIdle

\* New never refuses to start because another driver has written the record that it needs.
StartsAreNotRefused == \A d \in Drivers :
    reply[d] # None /\ req[d].op \in HostOps => reply[d].error # "duplicate"

\* What it takes for that: every driver has a host system of its own, and SystemWrite is not
\* used for the host system of anyone.
HostsAreOwn ==
    /\ \A d, e \in Drivers : HostOf[d] = HostOf[e] => d = e
    /\ \A r \in APICalls, d \in Drivers : r.op = "write" => r.system # HostOf[d]

\* A system that New has not found stays away until New has written it.
AbsentHostsStayAbsent == \A d \in Drivers : step[d] # "idle" =>
    /\ req[d].op = "write" => \A e \in Drivers : req[d].system # HostOf[e]
    /\ req[d].op = "host_write" => systems[HostOf[d]] = None

\* The drivers and the table implement the abstract registry: New and Close start and stop
\* to work with a record, and only a COMMIT registers a system.
HostRecord(d) == IF phase[d] \in {"running", "closed"} THEN host[d] ELSE None
Registry == INSTANCE SystemRegistry WITH host <- [d \in Drivers |-> HostRecord(d)]
ImplementsSystemRegistry == Registry!Spec

\* Every call returns, New among them, also when another driver holds the row that it
\* waits for and when Close comes in between.
SystemCallsReturn == \A d \in Drivers : step[d] # "idle" ~> step[d] = "idle"

\* Close returns.
CloseReturns == \A d \in Drivers : pool[d] = "closing" ~> phase[d] \in {"closed", "down"}

=============================================================================
