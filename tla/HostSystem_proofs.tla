------------------------- MODULE HostSystem_proofs -------------------------
(***************************************************************************)
(* Proofs about HostSystem, for every set of drivers, systems and tags and *)
(* every configuration of the drivers.                                     *)
(***************************************************************************)
EXTENDS HostSystem, TLAPS

LEMMA InitHostInv == Init => HostInv
<1> SUFFICES ASSUME Init PROVE HostInv
    OBVIOUS
<1> USE DEF Init
<1>1. HostTypeOK
    BY BoundsAssumption DEF HostTypeOK
<1>2. StepsFollow /\ PendingRows /\ CopiesAreStored
    BY DEF StepsFollow, PendingRows, CopiesAreStored
<1>3. HostIsStored /\ IdsAreDistinct /\ SystemAnswersAreTrue /\ ClosedPoolsAreIdle
    BY DEF HostIsStored, IdsAreDistinct, SystemAnswersAreTrue, ClosedPoolsAreIdle,
           HoldsConnection
<1>4. QED
    BY <1>1, <1>2, <1>3 DEF HostInv

-----------------------------------------------------------------------------
(* The invariant of one driver, and what the steps of others do to it. *)

Own(d) ==
    /\ StepsFollow!(d)
    /\ CopiesAreStored!(d)
    /\ HostIsStored!(d)
    /\ SystemAnswersAreTrue!(d)
    /\ ClosedPoolsAreIdle!(d)

\* What all drivers share.
Shared ==
    /\ \A s \in Systems : systems[s] # None => systems[s].id <= lastId
    /\ PendingRows
    /\ IdsAreDistinct

LEMMA Parts == HostInv <=> HostTypeOK /\ Shared /\ \A d \in Drivers : Own(d)
BY DEF HostInv, Own, Shared, StepsFollow, CopiesAreStored, HostIsStored,
       SystemAnswersAreTrue, ClosedPoolsAreIdle

\* The driver that takes a step, and nobody else.
OnlyMoves(d) == \A e \in Drivers \ {d} :
    /\ phase'[e] = phase[e] /\ pool'[e] = pool[e] /\ cache'[e] = cache[e]
    /\ host'[e] = host[e] /\ step'[e] = step[e] /\ req'[e] = req[e]
    /\ row'[e] = row[e] /\ reply'[e] = reply[e]

\* Rows of systems are neither changed nor removed.
RowsStay == \A s \in Systems : systems[s] # None => systems'[s] = systems[s]

LEMMA OthersKeepTheirs ==
    ASSUME HostInv, RowsStay, NEW d \in Drivers, OnlyMoves(d), NEW e \in Drivers \ {d}
    PROVE  Own(e)'
<1>1. HostTypeOK /\ Own(e)
    BY Parts
<1>2. /\ phase'[e] = phase[e] /\ pool'[e] = pool[e] /\ cache'[e] = cache[e]
      /\ host'[e] = host[e] /\ step'[e] = step[e] /\ req'[e] = req[e]
      /\ row'[e] = row[e] /\ reply'[e] = reply[e]
    BY DEF OnlyMoves
<1>3. StepsFollow!(e)' /\ ClosedPoolsAreIdle!(e)'
    BY <1>1, <1>2 DEF Own, HoldsConnection
<1>4. step[e] \in {"cache_write"} \/ (step[e] = "idle" /\ reply[e] # None) =>
        req[e].system \in Systems
    BY <1>1 DEF Own, Requests
<1>5. CopiesAreStored!(e)'
    BY <1>1, <1>2, <1>4 DEF Own, RowsStay
<1>6. HostIsStored!(e)'
    BY <1>1, <1>2, HostAssumption DEF Own, RowsStay
<1>7. SystemAnswersAreTrue!(e)'
    BY <1>1, <1>2, <1>4 DEF Own, RowsStay
<1>8. QED
    BY <1>3, <1>5, <1>6, <1>7 DEF Own

\* A step of d, of whose effects only those on d and on the shared part are left to show.
LEMMA DriverStep ==
    ASSUME HostInv, NEW d \in Drivers, OnlyMoves(d), RowsStay, HostTypeOK', Shared', Own(d)'
    PROVE  HostInv'
<1>1. \A e \in Drivers : Own(e)'
    BY OthersKeepTheirs
<1>2. QED
    BY <1>1 DEF HostInv, Own, Shared, StepsFollow, CopiesAreStored, HostIsStored,
                SystemAnswersAreTrue, ClosedPoolsAreIdle

\* A step that inserts no row and commits none.
LEMMA SharedStays ==
    ASSUME HostInv, NEW d \in Drivers, OnlyMoves(d), systems' = systems,
           lastId' \in {lastId, lastId + 1}, step'[d] # "commit"
    PROVE  Shared' /\ RowsStay
<1> USE DEF HostInv, HostTypeOK
<1>1. \A s \in Systems : systems[s] # None => systems[s].id \in Nat /\ systems[s].id <= lastId
    BY DEF Rows
<1>2. \A s \in Systems : systems[s] # None => systems[s].id <= lastId'
    BY <1>1
<1>3. PendingRows'
    <2> SUFFICES ASSUME NEW e \in Drivers, step'[e] = "commit"
                 PROVE  PendingRows!(e)!2'
        BY DEF PendingRows
    <2>1. e # d /\ step[e] = "commit" /\ row'[e] = row[e] /\ req'[e] = req[e]
        BY DEF OnlyMoves
    <2>2. PendingRows!(e)!2
        BY <2>1 DEF PendingRows
    <2>3. row[e].id \in Nat /\ row[e].id <= lastId'
        BY <2>2 DEF Rows
    <2>4. \A f \in Drivers \ {e} : step'[f] = "commit" =>
            row'[f].id # row'[e].id /\ req'[f].system # req'[e].system
        BY <2>1, <2>2 DEF OnlyMoves
    <2>5. QED
        BY <2>1, <2>2, <2>3, <2>4 DEF Taken
<1>4. QED
    BY <1>2, <1>3 DEF Shared, IdsAreDistinct, RowsStay

-----------------------------------------------------------------------------
(* The ends of calls. *)

Errors == {"internal", "duplicate", "not_found"}

LEMMA RefuseInv ==
    ASSUME HostInv, NEW d \in Drivers, NEW error \in Errors, step[d] # "idle",
           Refuse(d, error), systems' = systems, lastId' \in {lastId, lastId + 1},
           UNCHANGED <<starts, calls>>,
           error = "duplicate" => Taken(req[d].system)
    PROVE  HostInv'
<1>1. HostTypeOK /\ Own(d)
    BY Parts
<1> USE DEF HostTypeOK
<1>2. /\ step' = [step EXCEPT ![d] = "idle"]
      /\ row' = [row EXCEPT ![d] = None]
      /\ reply' = [reply EXCEPT ![d] = [error |-> error, row |-> None]]
      /\ req' = req
    BY DEF Refuse, Answer
<1>3. \/ /\ phase[d] = "starting"
         /\ phase' = [phase EXCEPT ![d] = "down"]
         /\ pool' = [pool EXCEPT ![d] = "none"]
         /\ cache' = [cache EXCEPT ![d] = None]
         /\ host' = [host EXCEPT ![d] = None]
      \/ phase[d] # "starting" /\ UNCHANGED <<phase, pool, cache, host>>
    BY DEF Refuse, Discard, driver
<1>4. OnlyMoves(d)
    BY <1>1, <1>2, <1>3 DEF OnlyMoves
<1>5. HostTypeOK'
    <2>1. /\ phase' \in [Drivers -> {"down", "starting", "running", "closed"}]
          /\ pool' \in [Drivers -> {"none", "open", "closing", "closed"}]
          /\ cache' \in [Drivers -> [Systems -> Rows \union {None}] \union {None}]
          /\ host' \in [Drivers -> Rows \union {None}]
        BY <1>1, <1>3
    <2>2. [error |-> error, row |-> None] \in Replies
        BY DEF Replies, Errors
    <2>3. /\ step' \in [Drivers -> {"idle", "lookup", "select", "cache_write", "acquire",
                                   "insert", "commit"}]
          /\ req' \in [Drivers -> Requests \union {None}]
          /\ row' \in [Drivers -> Rows \union {None}]
          /\ reply' \in [Drivers -> Replies \union {None}]
        BY <1>1, <1>2, <2>2
    <2>4. lastId' \in Nat
        BY <1>1
    <2>5. QED
        BY <1>1, <2>1, <2>3, <2>4
<1>6. Shared' /\ RowsStay
    BY <1>1, <1>2, <1>4, SharedStays
<1>7. req[d] \in Requests
    BY <1>1 DEF Own
<1>8. Own(d)'
    <2>1. StepsFollow!(d)' /\ ClosedPoolsAreIdle!(d)'
        BY <1>1, <1>2, <1>3, <1>7 DEF Own, HoldsConnection
    <2>2. CopiesAreStored!(d)'
        BY <1>1, <1>2, <1>3 DEF Own
    <2>3. HostIsStored!(d)'
        BY <1>1, <1>2, <1>3 DEF Own
    <2>4. SystemAnswersAreTrue!(d)'
        BY <1>1, <1>2 DEF Taken, Errors
    <2>5. QED
        BY <2>1, <2>2, <2>3, <2>4 DEF Own
<1>9. QED
    BY <1>4, <1>5, <1>6, <1>8, DriverStep

\* The system store has the row r for the one who asked; the cache has it too, or not.
LEMMA DeliverInv ==
    ASSUME HostInv, NEW d \in Drivers, step[d] \in {"lookup", "cache_write"}, cache[d] # None,
           NEW r, r # None, r = systems[req[d].system], Deliver(d, r),
           cache' \in {cache, [cache EXCEPT ![d][req[d].system] = r]},
           UNCHANGED <<database, pool, starts, calls>>
    PROVE  HostInv'
<1>1. HostTypeOK /\ Own(d)
    BY Parts
<1> USE DEF HostTypeOK
<1>2. /\ req[d] \in Requests /\ req[d].system \in Systems
      /\ req[d].op \notin WriteOps
      /\ req[d].op \in HostOps => req[d].system = HostOf[d]
    BY <1>1 DEF Own, Requests, HostOps
<1>3. /\ step' = [step EXCEPT ![d] = "idle"]
      /\ row' = [row EXCEPT ![d] = None]
      /\ reply' = [reply EXCEPT ![d] = [error |-> "nil", row |-> r]]
      /\ UNCHANGED <<req, systems, lastId, pool, starts, calls>>
    BY DEF Deliver, Answer, database
<1>4. \/ /\ req[d].op \in HostOps
         /\ host' = [host EXCEPT ![d] = r]
         /\ phase' = [phase EXCEPT ![d] = "running"]
      \/ req[d].op \notin HostOps /\ UNCHANGED <<host, phase>>
    BY DEF Deliver
<1>5. r \in Rows /\ cache[d] \in [Systems -> Rows \union {None}]
    BY <1>1, <1>2
<1>6. /\ cache' \in [Drivers -> [Systems -> Rows \union {None}] \union {None}]
      /\ \A e \in Drivers \ {d} : cache'[e] = cache[e]
      /\ \A s \in Systems : cache'[d][s] # None => cache'[d][s] = systems[s]
    <2>1. \A s \in Systems : cache[d][s] # None => cache[d][s] = systems[s]
        BY <1>1 DEF Own
    <2>2. CASE cache' = cache
        BY <1>1, <2>1, <2>2
    <2>3. CASE cache' = [cache EXCEPT ![d][req[d].system] = r]
        <3>1. cache'[d] = [cache[d] EXCEPT ![req[d].system] = r]
            BY <1>1, <2>3
        <3>2. QED
            BY <1>1, <1>2, <1>5, <2>1, <2>3, <3>1
    <2>4. QED
        BY <2>2, <2>3
<1>7. OnlyMoves(d)
    BY <1>1, <1>3, <1>4, <1>6 DEF OnlyMoves
<1>8. HostTypeOK'
    BY <1>1, <1>3, <1>4, <1>5, <1>6 DEF Replies
<1>9. Shared' /\ RowsStay
    BY <1>1, <1>3, <1>7, SharedStays
<1>10. Own(d)'
    <2>1. StepsFollow!(d)'
        BY <1>1, <1>2, <1>3, <1>4 DEF Own
    <2>2. CopiesAreStored!(d)'
        BY <1>1, <1>3, <1>6
    <2>3. HostIsStored!(d)'
        BY <1>1, <1>2, <1>3, <1>4 DEF Own
    <2>4. SystemAnswersAreTrue!(d)'
        BY <1>1, <1>2, <1>3 DEF WriteOps
    <2>5. ClosedPoolsAreIdle!(d)'
        BY <1>1, <1>3 DEF HoldsConnection
    <2>6. QED
        BY <2>1, <2>2, <2>3, <2>4, <2>5 DEF Own
<1>11. QED
    BY <1>7, <1>8, <1>9, <1>10, DriverStep

-----------------------------------------------------------------------------
(* The driver's steps. *)

LEMMA NewInv ==
    ASSUME HostInv, NEW d \in Drivers, New(d)
    PROVE  HostInv'
<1>1. HostTypeOK /\ Own(d)
    BY Parts
<1> USE DEF HostTypeOK
<1> DEFINE r == [op |-> "host_read", system |-> HostOf[d], tag |-> TagOf[d]]
<1>2. /\ phase' = [phase EXCEPT ![d] = "starting"]
      /\ pool' = [pool EXCEPT ![d] = "open"]
      /\ cache' = [cache EXCEPT ![d] = EmptyCache]
      /\ host' = [host EXCEPT ![d] = None]
      /\ req' = [req EXCEPT ![d] = r]
      /\ step' = [step EXCEPT ![d] = "lookup"]
      /\ row' = [row EXCEPT ![d] = None]
      /\ reply' = [reply EXCEPT ![d] = None]
      /\ starts < MaxStarts /\ starts' = starts + 1
      /\ UNCHANGED <<systems, lastId, calls>>
    BY DEF New, Ask, FirstStep, WriteOps, database
<1>3. r \in Requests /\ r.op = "host_read" /\ r.system = HostOf[d]
    BY HostAssumption DEF Requests, HostOps
<1> HIDE DEF r
<1>4. EmptyCache \in [Systems -> Rows \union {None}] /\ \A s \in Systems : EmptyCache[s] = None
    BY DEF EmptyCache
<1>5. OnlyMoves(d)
    BY <1>1, <1>2 DEF OnlyMoves
<1>6. HostTypeOK'
    BY <1>1, <1>2, <1>3, <1>4, BoundsAssumption
<1>7. Shared' /\ RowsStay
    BY <1>1, <1>2, <1>5, SharedStays
<1>8. Own(d)'
    BY <1>1, <1>2, <1>3, <1>4 DEF Own, HoldsConnection, HostOps, WriteOps
<1>9. QED
    BY <1>5, <1>6, <1>7, <1>8, DriverStep

LEMMA CallInv ==
    ASSUME HostInv, NEW d \in Drivers, SystemRead(d) \/ SystemWrite(d)
    PROVE  HostInv'
<1>1. HostTypeOK /\ Own(d)
    BY Parts
<1> USE DEF HostTypeOK
<1>2. PICK r \in APICalls : Call(d, r)
    BY DEF SystemRead, SystemWrite
<1>3. /\ r \in Requests /\ r.op \in {"read", "write"}
      /\ r = [op |-> r.op, system |-> r.system, tag |-> r.tag]
    BY CallsAssumption DEF Requests
<1> DEFINE first == FirstStep(r.op)
<1>4. /\ req' = [req EXCEPT ![d] = r]
      /\ step' = [step EXCEPT ![d] = first]
      /\ row' = [row EXCEPT ![d] = None]
      /\ reply' = [reply EXCEPT ![d] = None]
      /\ phase[d] \in {"running", "closed"}
      /\ calls < MaxCalls /\ calls' = calls + 1
      /\ UNCHANGED <<systems, lastId, phase, pool, cache, host, starts>>
    BY <1>2, <1>3 DEF Call, Ask, database, driver
<1>5. /\ r.op = "read" => first = "lookup"
      /\ r.op = "write" => first = "acquire"
    BY DEF FirstStep, WriteOps
<1> HIDE DEF first
<1>6. OnlyMoves(d)
    BY <1>1, <1>4 DEF OnlyMoves
<1>7. HostTypeOK'
    BY <1>1, <1>3, <1>4, <1>5, BoundsAssumption
<1>8. Shared' /\ RowsStay
    BY <1>1, <1>3, <1>4, <1>5, <1>6, SharedStays
<1>9. Own(d)'
    BY <1>1, <1>3, <1>4, <1>5 DEF Own, HoldsConnection, HostOps, WriteOps
<1>10. QED
    BY <1>6, <1>7, <1>8, <1>9, DriverStep

LEMMA CloseInv ==
    ASSUME HostInv, NEW d \in Drivers, Close(d) \/ Closing(d)
    PROVE  HostInv'
<1>1. HostTypeOK /\ Own(d)
    BY Parts
<1> USE DEF HostTypeOK
<1>2. /\ UNCHANGED <<systems, lastId, host, step, req, row, reply, starts, calls>>
      /\ \/ /\ pool' = [pool EXCEPT ![d] = "closing"]
            /\ UNCHANGED <<phase, cache>>
         \/ /\ ~ HoldsConnection(d)
            /\ pool' = [pool EXCEPT ![d] = "closed"]
            /\ UNCHANGED <<phase, cache>>
         \/ /\ phase[d] = "running"
            /\ phase' = [phase EXCEPT ![d] = "closed"]
            /\ cache' = [cache EXCEPT ![d] = None]
            /\ UNCHANGED pool
    BY DEF Close, Closing, ClosePool, CloseStores, database, call
<1>3. OnlyMoves(d)
    BY <1>1, <1>2 DEF OnlyMoves
<1>4. HostTypeOK'
    BY <1>1, <1>2
<1>5. Shared' /\ RowsStay
    BY <1>2 DEF HostInv, Shared, RowsStay, PendingRows, IdsAreDistinct, Taken
<1>6. Own(d)'
    BY <1>1, <1>2 DEF Own, HoldsConnection
<1>7. QED
    BY <1>3, <1>4, <1>5, <1>6, DriverStep

LEMMA CrashInv ==
    ASSUME HostInv, NEW d \in Drivers, Crash(d)
    PROVE  HostInv'
<1>1. HostTypeOK /\ Own(d)
    BY Parts
<1> USE DEF HostTypeOK
<1>2. /\ phase' = [phase EXCEPT ![d] = "down"]
      /\ pool' = [pool EXCEPT ![d] = "none"]
      /\ cache' = [cache EXCEPT ![d] = None]
      /\ host' = [host EXCEPT ![d] = None]
      /\ req' = [req EXCEPT ![d] = None]
      /\ step' = [step EXCEPT ![d] = "idle"]
      /\ row' = [row EXCEPT ![d] = None]
      /\ reply' = [reply EXCEPT ![d] = None]
      /\ UNCHANGED <<systems, lastId, starts, calls>>
    BY DEF Crash, Discard, database
<1>3. OnlyMoves(d)
    BY <1>1, <1>2 DEF OnlyMoves
<1>4. HostTypeOK'
    BY <1>1, <1>2
<1>5. Shared' /\ RowsStay
    BY <1>1, <1>2, <1>3, SharedStays
<1>6. Own(d)'
    BY <1>1, <1>2 DEF Own, HoldsConnection
<1>7. QED
    BY <1>3, <1>4, <1>5, <1>6, DriverStep

-----------------------------------------------------------------------------
(* The system store's steps. *)

LEMMA FailInv ==
    ASSUME HostInv, NEW d \in Drivers, Fail(d)
    PROVE  HostInv'
<1>1. /\ step[d] # "idle" /\ Refuse(d, "internal")
      /\ UNCHANGED <<systems, lastId, starts, calls>>
    BY DEF Fail, database
<1>2. QED
    BY <1>1, RefuseInv DEF Errors

\* The call goes on with the same request.
LEMMA GotoInv ==
    ASSUME HostInv, NEW d \in Drivers,
           NEW next \in {"select", "cache_write", "insert"},
           step[d] \in {"lookup", "select", "acquire"},
           next = "insert" <=> step[d] = "acquire",
           next = "insert" => pool[d] = "open",
           Goto(d, next), NEW r \in Rows \union {None}, row' = [row EXCEPT ![d] = r],
           next = "cache_write" => r # None /\ r = systems[req[d].system],
           UNCHANGED <<database, driver, req, reply, starts, calls>>
    PROVE  HostInv'
<1>1. HostTypeOK /\ Own(d)
    BY Parts
<1> USE DEF HostTypeOK, database, driver
<1>2. step' = [step EXCEPT ![d] = next]
    BY DEF Goto
<1>3. OnlyMoves(d)
    BY <1>1, <1>2 DEF OnlyMoves
<1>4. HostTypeOK'
    BY <1>1, <1>2
<1>5. Shared' /\ RowsStay
    BY <1>1, <1>2, <1>3, SharedStays
<1>6. Own(d)'
    BY <1>1, <1>2 DEF Own, HoldsConnection
<1>7. QED
    BY <1>3, <1>4, <1>5, <1>6, DriverStep

LEMMA LookupInv ==
    ASSUME HostInv, NEW d \in Drivers, Lookup(d)
    PROVE  HostInv'
<1>1. HostTypeOK /\ Own(d)
    BY Parts
<1>2. req[d].system \in Systems
    BY <1>1 DEF Own, Requests, Lookup
<1>3. CASE Cached(d) # None
    <2>1. cache[d] # None /\ Cached(d) = systems[req[d].system]
        BY <1>1, <1>2, <1>3 DEF Own, Cached
    <2>2. Deliver(d, Cached(d)) /\ step[d] = "lookup" /\ cache' = cache
          /\ UNCHANGED <<database, pool, starts, calls>>
        BY <1>3 DEF Lookup
    <2>3. QED
        BY <1>3, <2>1, <2>2, DeliverInv
<1>4. CASE Cached(d) = None
    <2>1. /\ Goto(d, "select") /\ step[d] = "lookup"
          /\ UNCHANGED <<database, driver, req, reply, row, starts, calls>>
        BY <1>4 DEF Lookup, driver
    <2>2. row[d] \in Rows \union {None} /\ row' = [row EXCEPT ![d] = row[d]]
        BY <1>1, <2>1 DEF HostTypeOK
    <2>3. QED
        BY <2>1, <2>2, GotoInv
<1>5. QED
    BY <1>3, <1>4

LEMMA SelectInv ==
    ASSUME HostInv, NEW d \in Drivers, Select(d)
    PROVE  HostInv'
<1>1. HostTypeOK /\ Own(d)
    BY Parts
<1> DEFINE found == systems[req[d].system]
<1>2. /\ step[d] = "select" /\ req[d] \in Requests /\ req[d].system \in Systems
      /\ UNCHANGED <<database, starts, calls>>
    BY <1>1 DEF Select, Own, Requests
<1>3. CASE Refuse(d, "internal") \/ Refuse(d, "not_found")
    BY <1>2, <1>3, RefuseInv DEF Errors, database
<1>4. CASE /\ pool[d] = "open" /\ found # None
           /\ row' = [row EXCEPT ![d] = found]
           /\ Goto(d, "cache_write")
           /\ UNCHANGED <<driver, req, reply>>
    <2>1. found \in Rows \union {None}
        BY <1>1, <1>2 DEF HostTypeOK
    <2>2. QED
        BY <1>2, <1>4, <2>1, GotoInv
<1>5. CASE /\ req[d].op = "host_read"
           /\ Ask(d, "host_write", HostOf[d], TagOf[d])
           /\ UNCHANGED driver
    <2> DEFINE r == [op |-> "host_write", system |-> HostOf[d], tag |-> TagOf[d]]
    <2>1. /\ req' = [req EXCEPT ![d] = r]
          /\ step' = [step EXCEPT ![d] = "acquire"]
          /\ row' = [row EXCEPT ![d] = None]
          /\ reply' = [reply EXCEPT ![d] = None]
          /\ UNCHANGED <<systems, lastId, phase, pool, cache, host, starts, calls>>
        BY <1>2, <1>5 DEF Ask, FirstStep, WriteOps, database, driver
    <2>2. r \in Requests /\ r.op = "host_write" /\ r.system = HostOf[d]
        BY HostAssumption DEF Requests, HostOps
    <2> HIDE DEF r
    <2>3. OnlyMoves(d)
        BY <1>1, <2>1 DEF OnlyMoves, HostTypeOK
    <2>4. HostTypeOK'
        BY <1>1, <2>1, <2>2 DEF HostTypeOK
    <2>5. Shared' /\ RowsStay
        BY <1>1, <2>1, <2>3, SharedStays DEF HostTypeOK
    <2>6. Own(d)'
        BY <1>1, <1>2, <1>5, <2>1, <2>2
           DEF Own, HostTypeOK, HoldsConnection, HostOps, WriteOps
    <2>7. QED
        BY <2>3, <2>4, <2>5, <2>6, DriverStep
<1>6. QED
    BY <1>3, <1>4, <1>5 DEF Select, NotFound

LEMMA CacheWriteInv ==
    ASSUME HostInv, NEW d \in Drivers, CacheWrite(d)
    PROVE  HostInv'
<1>1. HostTypeOK /\ Own(d)
    BY Parts
<1>2. /\ step[d] = "cache_write" /\ row[d] # None /\ row[d] = systems[req[d].system]
      /\ UNCHANGED <<database, starts, calls>>
    BY <1>1 DEF Own, CacheWrite
<1>3. CASE cache[d] = None
    BY <1>2, <1>3, RefuseInv DEF CacheWrite, Errors, database
<1>4. CASE cache[d] # None
    BY <1>2, <1>4, DeliverInv DEF CacheWrite
<1>5. QED
    BY <1>3, <1>4

LEMMA AcquireInv ==
    ASSUME HostInv, NEW d \in Drivers, Acquire(d)
    PROVE  HostInv'
<1>1. HostTypeOK
    BY Parts
<1>2. CASE pool[d] = "open"
    <2>1. /\ Goto(d, "insert") /\ step[d] = "acquire"
          /\ UNCHANGED <<database, driver, req, row, reply, starts, calls>>
        BY <1>2 DEF Acquire
    <2>2. row[d] \in Rows \union {None} /\ row' = [row EXCEPT ![d] = row[d]]
        BY <1>1, <2>1 DEF HostTypeOK
    <2>3. QED
        BY <1>2, <2>1, <2>2, GotoInv
<1>3. CASE pool[d] # "open"
    BY <1>3, RefuseInv DEF Acquire, Errors, database
<1>4. QED
    BY <1>2, <1>3

LEMMA InsertInv ==
    ASSUME HostInv, NEW d \in Drivers, Insert(d)
    PROVE  HostInv'
<1>1. HostTypeOK /\ Own(d) /\ Shared
    BY Parts
<1> USE DEF HostTypeOK
<1>2. /\ step[d] = "insert" /\ req[d] \in Requests /\ req[d].system \in Systems
      /\ lastId' = lastId + 1
      /\ UNCHANGED <<systems, starts, calls>>
    BY <1>1 DEF Insert, Own, Requests
<1>3. CASE Taken(req[d].system)
    BY <1>2, <1>3, RefuseInv DEF Insert, Errors
<1>4. CASE ~ Taken(req[d].system)
    <2> DEFINE r == NewRow(d)
    <2>1. /\ row' = [row EXCEPT ![d] = r]
          /\ step' = [step EXCEPT ![d] = "commit"]
          /\ UNCHANGED <<phase, pool, cache, host, req, reply>>
          /\ \A e \in Drivers \ {d} : ~ HoldsRow(e, req[d].system)
        BY <1>4 DEF Insert, Goto, driver
    <2>2. r \in Rows /\ r # None /\ r.id = lastId + 1 /\ r.tag = req[d].tag
        <3>1. r \in Rows /\ r.id = lastId + 1 /\ r.tag = req[d].tag
            BY <1>1, <1>2 DEF NewRow, Rows, Requests
        <3>2. QED
            BY <3>1, NoneAssumption
    <2> HIDE DEF r
    <2>3. OnlyMoves(d)
        BY <1>1, <2>1 DEF OnlyMoves
    <2>4. HostTypeOK'
        BY <1>1, <1>2, <2>1, <2>2
    <2>5. RowsStay
        BY <1>2 DEF RowsStay
    <2>6. \A s \in Systems : systems[s] # None =>
            systems[s].id \in Nat /\ systems[s].id <= lastId /\ systems[s].id # r.id
        BY <1>1, <2>2 DEF Shared, Rows
    <2>7. ASSUME NEW e \in Drivers \ {d}, step[e] = "commit"
          PROVE  /\ PendingRows!(e)!2 /\ row[e].id \in Nat /\ row[e].id # r.id
                 /\ req[e].system # req[d].system
                 /\ step'[e] = "commit" /\ row'[e] = row[e] /\ req'[e] = req[e]
        <3>1. PendingRows!(e)!2
            BY <1>1, <2>7 DEF Shared, PendingRows
        <3>2. row[e].id \in Nat
            BY <1>1, <3>1 DEF Rows
        <3>3. QED
            BY <1>1, <2>1, <2>2, <2>3, <2>7, <3>1, <3>2 DEF HoldsRow, OnlyMoves
    <2>8. PendingRows'
        <3>1. PendingRows!(d)!2'
            <4>1. row'[d] = r /\ req'[d] = req[d] /\ step'[d] = "commit"
                BY <1>1, <2>1
            <4>2. r.id <= lastId'
                BY <1>1, <1>2, <2>2
            <4>3. \A e \in Drivers \ {d} : step'[e] = "commit" =>
                    row'[e].id # row'[d].id /\ req'[e].system # req'[d].system
                BY <2>3, <2>7, <4>1 DEF OnlyMoves
            <4>4. QED
                BY <1>2, <1>4, <2>2, <2>6, <4>1, <4>2, <4>3 DEF Taken
        <3>2. ASSUME NEW e \in Drivers \ {d}, step'[e] = "commit"
              PROVE  PendingRows!(e)!2'
            <4>1. step[e] = "commit"
                BY <2>3, <3>2 DEF OnlyMoves
            <4>2. row[e].id <= lastId'
                BY <1>1, <1>2, <2>7, <4>1
            <4>3. \A f \in Drivers \ {e} : step'[f] = "commit" =>
                    row'[f].id # row'[e].id /\ req'[f].system # req'[e].system
                <5> TAKE f \in Drivers \ {e}
                <5>1. CASE f = d
                    BY <1>1, <2>1, <2>7, <4>1, <5>1
                <5>2. CASE f # d
                    BY <2>3, <2>7, <4>1, <5>2 DEF OnlyMoves
                <5>3. QED
                    BY <5>1, <5>2
            <4>4. QED
                BY <1>2, <2>7, <4>1, <4>2, <4>3 DEF Taken
        <3>3. QED
            BY <3>1, <3>2 DEF PendingRows
    <2>9. Shared'
        BY <1>1, <1>2, <2>6, <2>8 DEF Shared, IdsAreDistinct
    <2>10. Own(d)'
        BY <1>1, <1>2, <2>1 DEF Own, HoldsConnection
    <2>11. QED
        BY <2>3, <2>4, <2>5, <2>9, <2>10, DriverStep
<1>5. QED
    BY <1>3, <1>4

LEMMA CommitInv ==
    ASSUME HostInv, NEW d \in Drivers, Commit(d)
    PROVE  HostInv'
<1>1. HostTypeOK /\ Own(d) /\ Shared
    BY Parts
<1> USE DEF HostTypeOK
<1> DEFINE sys == req[d].system
<1>2. /\ step[d] = "commit" /\ req[d] \in Requests /\ sys \in Systems
      /\ req[d].op \in WriteOps
      /\ row[d] # None /\ row[d] \in Rows /\ row[d].id <= lastId /\ row[d].tag = req[d].tag
      /\ systems[sys] = None
      /\ systems' = [systems EXCEPT ![sys] = row[d]]
      /\ UNCHANGED <<lastId, starts, calls>>
    BY <1>1 DEF Commit, Own, Requests, Shared, PendingRows, Taken
<1>3. /\ systems'[sys] = row[d]
      /\ \A s \in Systems \ {sys} : systems'[s] = systems[s]
    BY <1>1, <1>2
<1>4. RowsStay
    BY <1>2, <1>3 DEF RowsStay
<1>5. \A s \in Systems \ {sys} : systems[s] # None => systems[s].id # row[d].id
    BY <1>1, <1>2 DEF Shared, PendingRows
<1>6. IdsAreDistinct' /\ \A s \in Systems : systems'[s] # None => systems'[s].id <= lastId'
    BY <1>1, <1>2, <1>3, <1>5 DEF Shared, IdsAreDistinct
<1>7. ASSUME OnlyMoves(d), step'[d] # "commit"
      PROVE  Shared'
    <2> SUFFICES ASSUME NEW e \in Drivers, step'[e] = "commit"
                 PROVE  PendingRows!(e)!2'
        BY <1>6 DEF Shared, PendingRows
    <2>1. e # d /\ step[e] = "commit" /\ row'[e] = row[e] /\ req'[e] = req[e]
        BY <1>7 DEF OnlyMoves
    <2>2. PendingRows!(e)!2
        BY <1>1, <2>1 DEF Shared, PendingRows
    <2>3. row[e].id # row[d].id /\ req[e].system # sys
        BY <1>2, <2>1, <2>2
    <2>4. req[e].system \in Systems
        BY <1>1, <2>1, Parts DEF Own, Requests
    <2>5. \A f \in Drivers \ {e} : step'[f] = "commit" =>
            row'[f].id # row'[e].id /\ req'[f].system # req'[e].system
        BY <1>7, <2>1, <2>2 DEF OnlyMoves
    <2>6. \A s \in Systems : systems'[s] # None => systems'[s].id # row'[e].id
        BY <1>3, <2>1, <2>2, <2>3
    <2>7. QED
        BY <1>2, <1>3, <2>1, <2>2, <2>3, <2>4, <2>5, <2>6 DEF Taken
<1>8. \A s \in Systems : systems[s] # None => systems'[s] = systems[s]
    BY <1>4 DEF RowsStay
<1>9. CASE Refuse(d, "internal")
    <2>1. /\ step' = [step EXCEPT ![d] = "idle"]
          /\ row' = [row EXCEPT ![d] = None]
          /\ reply' = [reply EXCEPT ![d] = [error |-> "internal", row |-> None]]
          /\ req' = req
        BY <1>9 DEF Refuse, Answer
    <2>2. \/ /\ phase[d] = "starting"
             /\ phase' = [phase EXCEPT ![d] = "down"]
             /\ pool' = [pool EXCEPT ![d] = "none"]
             /\ cache' = [cache EXCEPT ![d] = None]
             /\ host' = [host EXCEPT ![d] = None]
          \/ phase[d] # "starting" /\ UNCHANGED <<phase, pool, cache, host>>
        BY <1>9 DEF Refuse, Discard, driver
    <2>3. OnlyMoves(d)
        BY <1>1, <2>1, <2>2 DEF OnlyMoves
    <2>4. HostTypeOK'
        BY <1>1, <1>2, <2>1, <2>2 DEF Replies
    <2>5. Own(d)'
        <3>1. StepsFollow!(d)' /\ ClosedPoolsAreIdle!(d)'
            BY <1>1, <1>2, <2>1, <2>2 DEF Own, HoldsConnection
        <3>2. CopiesAreStored!(d)' /\ HostIsStored!(d)'
            BY <1>1, <1>2, <1>8, <2>1, <2>2, HostAssumption DEF Own
        <3>3. SystemAnswersAreTrue!(d)'
            BY <1>1, <2>1
        <3>4. QED
            BY <3>1, <3>2, <3>3 DEF Own
    <2>6. QED
        BY <1>1, <1>4, <1>7, <2>1, <2>3, <2>4, <2>5, DriverStep
<1>10. CASE Written(d) /\ UNCHANGED driver /\ req[d].op = "host_write"
    <2> DEFINE r == [op |-> "host_reread", system |-> HostOf[d], tag |-> TagOf[d]]
    <2>1. /\ req' = [req EXCEPT ![d] = r]
          /\ step' = [step EXCEPT ![d] = "lookup"]
          /\ row' = [row EXCEPT ![d] = None]
          /\ reply' = [reply EXCEPT ![d] = None]
          /\ UNCHANGED <<phase, pool, cache, host>>
        BY <1>10 DEF Written, Ask, FirstStep, WriteOps, driver
    <2>2. r \in Requests /\ r.op = "host_reread" /\ r.system = HostOf[d]
        BY HostAssumption DEF Requests, HostOps
    <2> HIDE DEF r
    <2>3. OnlyMoves(d)
        BY <1>1, <2>1 DEF OnlyMoves
    <2>4. HostTypeOK'
        BY <1>1, <1>2, <2>1, <2>2
    <2>5. Own(d)'
        BY <1>1, <1>2, <1>8, <1>10, <2>1, <2>2, HostAssumption
           DEF Own, HoldsConnection, HostOps, WriteOps
    <2>6. QED
        BY <1>1, <1>4, <1>7, <2>1, <2>3, <2>4, <2>5, DriverStep
<1>11. CASE Written(d) /\ UNCHANGED driver /\ req[d].op # "host_write"
    <2>1. /\ step' = [step EXCEPT ![d] = "idle"]
          /\ row' = [row EXCEPT ![d] = None]
          /\ reply' = [reply EXCEPT ![d] = [error |-> "nil", row |-> None]]
          /\ UNCHANGED <<req, phase, pool, cache, host>>
        BY <1>11 DEF Written, Answer, driver
    <2>2. OnlyMoves(d)
        BY <1>1, <2>1 DEF OnlyMoves
    <2>3. HostTypeOK'
        BY <1>1, <1>2, <2>1 DEF Replies
    <2>4. req[d].op = "write" /\ phase[d] # "starting"
        BY <1>1, <1>2, <1>11 DEF WriteOps, HostOps, Own
    <2>5. Own(d)'
        <3>1. StepsFollow!(d)' /\ ClosedPoolsAreIdle!(d)'
            BY <1>1, <1>2, <2>1, <2>4 DEF Own, HoldsConnection
        <3>2. CopiesAreStored!(d)' /\ HostIsStored!(d)'
            BY <1>1, <1>2, <1>8, <2>1, HostAssumption DEF Own
        <3>3. SystemAnswersAreTrue!(d)'
            BY <1>1, <1>2, <1>3, <2>1, <2>4
        <3>4. QED
            BY <3>1, <3>2, <3>3 DEF Own
    <2>6. QED
        BY <1>1, <1>4, <1>7, <2>1, <2>2, <2>3, <2>5, DriverStep
<1>12. QED
    BY <1>9, <1>10, <1>11 DEF Commit

LEMMA StutterInv ==
    ASSUME HostInv, UNCHANGED vars
    PROVE  HostInv'
BY DEF HostInv, HostTypeOK, StepsFollow, PendingRows, CopiesAreStored, HostIsStored,
       IdsAreDistinct, SystemAnswersAreTrue, ClosedPoolsAreIdle, HoldsConnection, Taken,
       vars, database, driver, call

LEMMA NextHostInv == HostInv /\ [Next]_vars => HostInv'
<1> SUFFICES ASSUME HostInv, [Next]_vars
             PROVE  HostInv'
    OBVIOUS
<1>1. ASSUME NEW d \in Drivers, New(d) \/ SystemRead(d) \/ SystemWrite(d)
      PROVE  HostInv'
    BY <1>1, NewInv, CallInv
<1>2. ASSUME NEW d \in Drivers, Close(d) \/ Closing(d) \/ Crash(d)
      PROVE  HostInv'
    BY <1>2, CloseInv, CrashInv
<1>3. ASSUME NEW d \in Drivers, Step(d) \/ Fail(d)
      PROVE  HostInv'
    BY <1>3, LookupInv, SelectInv, CacheWriteInv, AcquireInv, InsertInv, CommitInv, FailInv
       DEF Step
<1>4. QED
    BY <1>1, <1>2, <1>3, StutterInv DEF Next

-----------------------------------------------------------------------------
(* The theorems. *)

\* Every state satisfies the inductive invariant; in it, transactions that insert a system
\* exclude one another and what a driver has read is what is stored.
THEOREM SystemsAreConsistent == Spec => []HostInv
BY InitHostInv, NextHostInv, PTL DEF Spec

\* Every driver that runs has the stored record of its host system: drivers of one system
\* write their rows under one id, whoever won the race to insert it.
THEOREM DriversAgree == Spec => []HostIsStored
<1>1. HostInv => HostIsStored
    BY DEF HostInv
<1>2. QED
    BY <1>1, SystemsAreConsistent, PTL

\* What SystemRead and SystemWrite have answered is true of the table and stays so.
THEOREM SystemAnswersStayTrue == Spec => []SystemAnswersAreTrue
<1>1. HostInv => SystemAnswersAreTrue
    BY DEF HostInv
<1>2. QED
    BY <1>1, SystemsAreConsistent, PTL

\* A step that is no COMMIT leaves the table alone, and the records of other drivers.
LEMMA OnlyCommitRegisters ==
    ASSUME HostInv, NEW d \in Drivers,
           \/ New(d) \/ SystemRead(d) \/ SystemWrite(d) \/ Close(d) \/ Closing(d)
           \/ Lookup(d) \/ Select(d) \/ CacheWrite(d) \/ Acquire(d) \/ Insert(d)
           \/ Fail(d) \/ Crash(d)
    PROVE  systems' = systems /\ \A e \in Drivers \ {d} : HostRecord(e)' = HostRecord(e)
<1> DEFINE Others == \A e \in Drivers \ {d} : phase'[e] = phase[e] /\ host'[e] = host[e]
<1> USE DEF HostInv, HostTypeOK, database, driver
<1>1. ASSUME NEW error, Refuse(d, error) PROVE Others
    BY <1>1 DEF Refuse, Discard
<1>2. ASSUME NEW r, Deliver(d, r) PROVE Others
    BY <1>2 DEF Deliver
<1>3. CASE New(d) \/ SystemRead(d) \/ SystemWrite(d) \/ Close(d) \/ Closing(d)
    BY <1>3 DEF New, SystemRead, SystemWrite, Call, Close, Closing, ClosePool, CloseStores,
                HostRecord
<1>4. CASE Lookup(d) \/ CacheWrite(d)
    BY <1>1, <1>2, <1>4 DEF Lookup, CacheWrite, HostRecord
<1>5. CASE Select(d) \/ Acquire(d) \/ Insert(d)
    BY <1>1, <1>5 DEF Select, NotFound, Acquire, Insert, HostRecord
<1>6. CASE Fail(d) \/ Crash(d)
    BY <1>1, <1>6 DEF Fail, Crash, Discard, HostRecord
<1>7. QED
    BY <1>3, <1>4, <1>5, <1>6

\* The drivers implement the abstract registry: a COMMIT registers a system, under an id
\* that no other one has; New starts to work with the record, and Close, a crash and a new
\* start stop it.
THEOREM DriversImplementRegistry == Spec => ImplementsSystemRegistry
<1> DEFINE hosts == [d \in Drivers |-> HostRecord(d)]
<1>1. Init => Registry!Init
    BY DEF Init, Registry!Init, HostRecord
<1>2. ASSUME HostInv, HostInv', [Next]_vars
      PROVE  [Registry!Next]_<<systems, hosts>>
    <2>1. ASSUME NEW d \in Drivers, Commit(d)
          PROVE  \E s \in Systems : Registry!Register(s)
        <3> PICK s : s = req[d].system
            OBVIOUS
        <3>1. /\ s \in Systems /\ systems[s] = None /\ row[d] # None
              /\ systems' = [systems EXCEPT ![s] = row[d]]
              /\ \A t \in Systems : systems[t] # None => systems[t].id # row[d].id
            BY <1>2, <2>1 DEF HostInv, HostTypeOK, StepsFollow, PendingRows, Commit, Taken,
                              Requests
        <3>2. systems \in [Systems -> Rows \union {None}]
              /\ systems' \in [Systems -> Rows \union {None}]
            BY <1>2 DEF HostInv, HostTypeOK
        <3>3. hosts' = hosts
            <4>1. ASSUME NEW e \in Drivers PROVE HostRecord(e)' = HostRecord(e)
                <5>1. CASE UNCHANGED driver
                    BY <5>1 DEF driver, HostRecord
                <5>2. CASE phase[d] = "starting" /\ Discard(d)
                    BY <1>2, <5>2 DEF HostInv, HostTypeOK, Discard, HostRecord
                <5>3. QED
                    BY <2>1, <5>1, <5>2 DEF Commit, Refuse
            <4>2. QED
                BY <4>1
        <3>4. QED
            BY <3>1, <3>2, <3>3 DEF Registry!Register, Registry!Records, Rows
    <2>2. ASSUME NEW d \in Drivers, systems' = systems,
                 \A e \in Drivers \ {d} : HostRecord(e)' = HostRecord(e)
          PROVE  Registry!Start(d) \/ Registry!Stop(d) \/ UNCHANGED <<systems, hosts>>
        <3>1. /\ HostRecord(d) = None \/ HostRecord(d) = systems[HostOf[d]]
              /\ HostRecord(d)' = None \/ HostRecord(d)' = systems[HostOf[d]]
            BY <1>2, <2>2 DEF HostInv, HostIsStored, HostRecord
        <3>2. hosts' = [hosts EXCEPT ![d] = HostRecord(d)']
            BY <2>2
        <3>3. QED
            BY <2>2, <3>1, <3>2 DEF Registry!Start, Registry!Stop
    <2>3. CASE UNCHANGED vars
        BY <2>3 DEF vars, database, driver, HostRecord
    <2>4. QED
        BY <1>2, <2>1, <2>2, <2>3, OnlyCommitRegisters DEF Next, Step, Registry!Next
<1>3. QED
    BY <1>1, <1>2, SystemsAreConsistent, PTL DEF Spec, ImplementsSystemRegistry, Registry!Spec

-----------------------------------------------------------------------------
(* When New is never refused its host system. *)

\* Only the driver that takes a step moves.
LEMMA OneDriverMoves ==
    ASSUME HostTypeOK, NEW d \in Drivers,
           \/ New(d) \/ SystemRead(d) \/ SystemWrite(d) \/ Close(d) \/ Closing(d)
           \/ Step(d) \/ Fail(d) \/ Crash(d)
    PROVE  OnlyMoves(d)
<1> USE DEF HostTypeOK, OnlyMoves, database, driver, call
<1>1. ASSUME NEW op, NEW s, NEW t, Ask(d, op, s, t)
      PROVE  \A e \in Drivers \ {d} :
                step'[e] = step[e] /\ req'[e] = req[e] /\ row'[e] = row[e] /\ reply'[e] = reply[e]
    BY <1>1 DEF Ask
<1>2. ASSUME NEW error, NEW r, Answer(d, error, r)
      PROVE  \A e \in Drivers \ {d} :
                step'[e] = step[e] /\ req'[e] = req[e] /\ row'[e] = row[e] /\ reply'[e] = reply[e]
    BY <1>2 DEF Answer
<1>3. ASSUME NEW error, Refuse(d, error) PROVE OnlyMoves(d)
    BY <1>2, <1>3 DEF Refuse, Discard
<1>4. CASE New(d) \/ SystemRead(d) \/ SystemWrite(d)
    BY <1>1, <1>4 DEF New, SystemRead, SystemWrite, Call
<1>5. CASE Close(d) \/ Closing(d) \/ Crash(d)
    BY <1>5 DEF Close, Closing, ClosePool, CloseStores, Crash, Discard
<1>6. CASE Lookup(d) \/ CacheWrite(d)
    BY <1>2, <1>3, <1>6 DEF Lookup, CacheWrite, Deliver, Goto
<1>7. CASE Select(d)
    BY <1>1, <1>3, <1>7 DEF Select, NotFound, Goto
<1>8. CASE Acquire(d) \/ Insert(d) \/ Fail(d)
    BY <1>3, <1>8 DEF Acquire, Insert, Fail, Goto
<1>9. CASE Commit(d)
    BY <1>1, <1>2, <1>3, <1>9 DEF Commit, Written
<1>10. QED
    BY <1>4, <1>5, <1>6, <1>7, <1>8, <1>9 DEF Step

StartInv == AbsentHostsStayAbsent /\ StartsAreNotRefused

StartOf(d) == AbsentHostsStayAbsent!(d) /\ StartsAreNotRefused!(d)

\* Nobody else inserts the host system of e.
LEMMA OthersStart ==
    ASSUME HostsAreOwn, HostInv, StartInv, NEW d \in Drivers, OnlyMoves(d),
           systems' = systems \/ Commit(d),
           NEW e \in Drivers \ {d}
    PROVE  StartOf(e)'
<1>1. HostTypeOK /\ Own(d) /\ StartOf(e)
    BY Parts DEF StartInv, AbsentHostsStayAbsent, StartsAreNotRefused, StartOf
<1>2. /\ step'[e] = step[e] /\ req'[e] = req[e] /\ reply'[e] = reply[e]
      /\ HostOf[e] \in Systems /\ HostOf[d] # HostOf[e]
    BY HostAssumption DEF OnlyMoves, HostsAreOwn
<1>3. CASE systems' = systems
    BY <1>1, <1>2, <1>3 DEF StartOf
<1>4. CASE Commit(d)
    <2>1. /\ step[d] = "commit" /\ req[d].op \in WriteOps
          /\ req[d].op \in HostOps => req[d].system = HostOf[d]
        BY <1>1, <1>4 DEF Commit, Own
    <2>2. req[d].system # HostOf[e]
        BY <1>2, <2>1 DEF WriteOps, HostOps, StartInv, AbsentHostsStayAbsent
    <2>3. systems'[HostOf[e]] = systems[HostOf[e]]
        BY <1>1, <1>2, <1>4, <2>2 DEF HostTypeOK, Commit
    <2>4. QED
        BY <1>1, <1>2, <2>3 DEF StartOf
<1>5. QED
    BY <1>3, <1>4

\* A call that begins or goes on with another request.
LEMMA AskStarts ==
    ASSUME HostTypeOK, NEW d \in Drivers, NEW op, NEW s, NEW t, Ask(d, op, s, t),
           op = "write" => \A e \in Drivers : s # HostOf[e],
           op = "host_write" => systems'[HostOf[d]] = None
    PROVE  StartOf(d)'
BY DEF HostTypeOK, Ask, StartOf

LEMMA RefuseStarts ==
    ASSUME HostTypeOK, NEW d \in Drivers, NEW error, Refuse(d, error),
           error = "duplicate" => req[d].op \notin HostOps
    PROVE  StartOf(d)'
BY DEF HostTypeOK, Refuse, Answer, StartOf

LEMMA DeliverStarts ==
    ASSUME HostTypeOK, NEW d \in Drivers, NEW r, Answer(d, "nil", r)
    PROVE  StartOf(d)'
BY DEF HostTypeOK, Answer, StartOf

\* A call that goes on with its request, or a driver that has none.
LEMMA GoOnStarts ==
    ASSUME HostTypeOK, NEW d \in Drivers, StartOf(d),
           step'[d] = step[d] \/ step[d] # "idle",
           UNCHANGED <<systems, req, reply>>
    PROVE  StartOf(d)'
BY DEF HostTypeOK, StartOf

LEMMA NextStarts ==
    ASSUME HostsAreOwn, HostInv, StartInv, [Next]_vars
    PROVE  StartInv'
<1>1. HostTypeOK /\ \A d \in Drivers : Own(d) /\ StartOf(d)
    BY Parts DEF StartInv, AbsentHostsStayAbsent, StartsAreNotRefused, StartOf
<1> USE <1>1
<1>2. ASSUME NEW d \in Drivers,
             \/ New(d) \/ SystemRead(d) \/ SystemWrite(d) \/ Close(d) \/ Closing(d)
             \/ Step(d) \/ Fail(d) \/ Crash(d)
      PROVE  StartOf(d)'
    <2>1. CASE New(d)
        BY <2>1, AskStarts DEF New
    <2>2. CASE SystemRead(d) \/ SystemWrite(d)
        BY <2>2, AskStarts, CallsAssumption DEF SystemRead, SystemWrite, Call, HostsAreOwn
    <2>3. CASE Close(d) \/ Closing(d)
        BY <2>3, GoOnStarts
           DEF Close, Closing, ClosePool, CloseStores, database, call
    <2>4. CASE Crash(d)
        BY <2>4 DEF Crash, HostTypeOK, StartOf
    <2>5. CASE Fail(d)
        BY <2>5, RefuseStarts DEF Fail
    <2>6. CASE Lookup(d)
        <3>1. step'[d] = "select" \/ Deliver(d, Cached(d))
            BY <2>6 DEF Lookup, Goto, HostTypeOK
        <3>2. QED
            BY <2>6, <3>1, GoOnStarts, DeliverStarts DEF Lookup, Deliver, database
    <2>7. CASE Select(d)
        <3>1. CASE NotFound(d) /\ systems[req[d].system] = None
            <4>1. req[d].op = "host_read" => req[d].system = HostOf[d]
                BY <2>7 DEF Select, Own, HostOps
            <4>2. QED
                BY <2>7, <3>1, <4>1, AskStarts, RefuseStarts DEF Select, NotFound, database
        <3>2. CASE Refuse(d, "internal")
            BY <3>2, RefuseStarts
        <3>3. CASE Goto(d, "cache_write") /\ UNCHANGED <<driver, req, reply>>
            BY <2>7, <3>3, GoOnStarts DEF Select, database
        <3>4. QED
            BY <2>7, <3>1, <3>2, <3>3 DEF Select
    <2>8. CASE CacheWrite(d)
        BY <2>8, RefuseStarts, DeliverStarts DEF CacheWrite, Deliver
    <2>9. CASE Acquire(d)
        BY <2>9, RefuseStarts, GoOnStarts DEF Acquire, database
    <2>10. CASE Insert(d)
        <3>1. /\ req[d].op \in WriteOps /\ step[d] # "idle"
              /\ req[d].op \in HostOps => req[d].system = HostOf[d]
            BY <2>10 DEF Insert, Own
        <3>2. Taken(req[d].system) => req[d].op \notin HostOps
            BY <3>1 DEF Taken, StartOf, WriteOps, HostOps
        <3>3. QED
            BY <2>10, <3>1, <3>2, RefuseStarts, GoOnStarts DEF Insert
    <2>11. CASE Commit(d)
        BY <2>11, RefuseStarts, AskStarts, DeliverStarts DEF Commit, Written
    <2>12. QED
        BY <1>2, <2>1, <2>2, <2>3, <2>4, <2>5, <2>6, <2>7, <2>8, <2>9, <2>10, <2>11 DEF Step
<1>3. ASSUME NEW d \in Drivers,
             \/ New(d) \/ SystemRead(d) \/ SystemWrite(d) \/ Close(d) \/ Closing(d)
             \/ Step(d) \/ Fail(d) \/ Crash(d)
      PROVE  StartInv'
    <2>1. OnlyMoves(d)
        BY <1>3, OneDriverMoves
    <2>2. systems' = systems \/ Commit(d)
        BY <1>3, OnlyCommitRegisters DEF Step
    <2>3. \A e \in Drivers : StartOf(e)'
        BY <1>2, <1>3, <2>1, <2>2, OthersStart
    <2>4. QED
        BY <2>3 DEF StartInv, AbsentHostsStayAbsent, StartsAreNotRefused, StartOf
<1>4. CASE UNCHANGED vars
    BY <1>4 DEF StartInv, AbsentHostsStayAbsent, StartsAreNotRefused, vars, database, call
<1>5. QED
    BY <1>3, <1>4 DEF Next

\* If every driver has a host system of its own that SystemWrite leaves alone, New is never
\* refused the host system that it writes, in whatever order drivers start, crash and start
\* again: that New reads first and writes then is not enough only for drivers that share one.
THEOREM OwnHostsAlwaysStart ==
    ASSUME HostsAreOwn
    PROVE  Spec => []StartsAreNotRefused
<1>1. Init => StartInv
    BY DEF Init, StartInv, AbsentHostsStayAbsent, StartsAreNotRefused
<1>2. HostInv /\ StartInv /\ [Next]_vars => StartInv'
    BY NextStarts
<1>3. StartInv => StartsAreNotRefused
    BY DEF StartInv
<1>4. QED
    BY <1>1, <1>2, <1>3, SystemsAreConsistent, PTL DEF Spec

-----------------------------------------------------------------------------
(* Records of systems are for ever. *)

\* No step changes or removes the record of a system, also not a COMMIT whose reply is lost
\* or one that was prepared before another driver wrote the same system: caches, which
\* nothing invalidates, and the ids that other stores have written rest on it.
THEOREM SystemsAreForEver == Spec => [][RowsStay]_vars
<1>1. ASSUME HostInv, [Next]_vars
      PROVE  [RowsStay]_vars
    <2>1. ASSUME NEW d \in Drivers, Commit(d)
          PROVE  RowsStay
        <3>1. systems[req[d].system] = None
            BY <1>1, <2>1 DEF HostInv, PendingRows, Commit, Taken
        <3>2. QED
            BY <1>1, <2>1, <3>1 DEF HostInv, HostTypeOK, Commit, RowsStay
    <2>2. CASE UNCHANGED vars
        BY <2>2
    <2>3. QED
        BY <1>1, <2>1, <2>2, OnlyCommitRegisters DEF Next, Step, RowsStay
<1>2. QED
    BY <1>1, SystemsAreConsistent, PTL DEF Spec

=============================================================================
