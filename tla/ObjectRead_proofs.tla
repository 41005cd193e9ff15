-------------------------- MODULE ObjectRead_proofs --------------------------
(***************************************************************************)
(* Proofs about ObjectRead: what a read puts together in two transactions, *)
(* for any number of readers and writers.  The proofs rest on what no      *)
(* writer ever does, so the invariant of ObjectStore's transactions comes  *)
(* first.                                                                  *)
(***************************************************************************)
EXTENDS ObjectRead, ObjectStore_proofs

\* A selector names either the uuid or the name.
LEMMA SelectorType ==
    ASSUME NEW s \in ReadRequests
    PROVE  /\ s # None
           /\ s.kindversion \in KindVersions
           /\ s.generation \in 0..MaxGeneration
           /\ s.uuid \in UUIDs \union {None}
           /\ s.uuid = None => s.name \in Names
           /\ \A n : LET t == [s EXCEPT !.name = n] IN
                /\ t.kindversion = s.kindversion
                /\ t.domain = s.domain
                /\ t.name = n
BY ReadRequestsAssumption, NoSelectorAssumption DEF Selectors

-----------------------------------------------------------------------------
(* The writers, seen from a read. *)

\* The reads leave the writers' steps alone.
LEMMA WritersRun == System => Spec
<1>1. ReadInit => Init
    BY DEF ReadInit
<1>2. [SystemNext]_allVars => [Next]_vars
    BY DEF SystemNext, allVars
<1>3. QED
    BY <1>1, <1>2, PTL DEF System, Spec

LEMMA LatestType ==
    ASSUME TransactionInv, NEW u \in UUIDs
    PROVE  /\ Latest(u) \in 0..MaxGeneration
           /\ objects[u] = None <=> Latest(u) = 0
BY BoundsAssumption DEF TransactionInv, TypeOK, Latest, ObjectRows, Generations

\* Every generation up to the latest has its three rows.
LEMMA LatestIsStored ==
    ASSUME TransactionInv, NEW u \in UUIDs, NEW g \in 1..Latest(u)
    PROVE  /\ g \in Generations
           /\ objects[u] # None /\ names[u] # None
           /\ generations[<<u, g>>] # None
<1>1. Latest(u) \in 0..MaxGeneration /\ (objects[u] = None <=> Latest(u) = 0)
    BY LatestType
<1>2. g \in Generations /\ g <= Latest(u) /\ Latest(u) # 0
    BY <1>1, BoundsAssumption DEF Generations
<1>3. QED
    BY <1>1, <1>2 DEF TransactionInv, NamesIdentifyObjects, GenerationsContiguous

\* No step of a writer loses an object, renames it, moves it to another kindversion or
\* domain or takes a generation back.
LEMMA WritersKeepObjects ==
    ASSUME TransactionInv, [Next]_vars, NEW u \in UUIDs
    PROVE  /\ Latest(u) <= Latest(u)'
           /\ Latest(u)' \in Nat
           /\ objects[u] # None =>
                /\ objects'[u] # None
                /\ objects'[u].kindversion = objects[u].kindversion
                /\ objects'[u].domain = objects[u].domain
                /\ names[u] # None
                /\ names'[u] = names[u]
<1>1. Latest(u) \in Nat /\ (objects[u] # None => names[u] # None)
    BY LatestType DEF TransactionInv, NamesIdentifyObjects
<1>2. ASSUME NEW c \in Callers, Commit(c), u = req[c].uuid
      PROVE  /\ Latest(u)' = Latest(u) + 1
             /\ objects[u] # None =>
                    /\ objects'[u] # None
                    /\ objects'[u].kindversion = objects[u].kindversion
                    /\ objects'[u].domain = objects[u].domain
                    /\ names'[u] = names[u]
    BY <1>1, <1>2, CommitEffect DEF Latest
<1>3. ASSUME NEW c \in Callers, Commit(c), u # req[c].uuid
      PROVE  objects'[u] = objects[u] /\ names'[u] = names[u]
    BY <1>3, CommitEffect
<1>4. CASE UNCHANGED tables
    BY <1>1, <1>4 DEF tables, Latest
<1>5. QED
    BY <1>1, <1>2, <1>3, <1>4, StepKinds DEF Latest, RefuseWrite, Abort

\* Only the first write of an object gives it a kindversion, a domain and a name, and
\* all from one request.
LEMMA WritersFollowObjects ==
    ASSUME TransactionInv, NamesFollowObjects, [Next]_vars
    PROVE  NamesFollowObjects'
<1> SUFFICES ASSUME NEW u \in UUIDs, objects'[u] # None
             PROVE  /\ names'[u].kind = KindOf[objects'[u].kindversion]
                    /\ IsDomainScoped(objects'[u]) => names'[u].domain = objects'[u].domain
    BY DEF NamesFollowObjects, IsDomainScoped
<1>1. CASE objects[u] # None
    BY <1>1, WritersKeepObjects DEF NamesFollowObjects, IsDomainScoped
<1>2. CASE objects[u] = None
    <2>1. PICK c \in Callers : Commit(c)
        BY <1>2, StepKinds DEF RefuseWrite, Abort, tables
    <2>2. u = req[c].uuid
        BY <1>2, <2>1, CommitEffect
    <2>3. /\ names' = [names EXCEPT ![u] = QualifiedName(req[c])]
          /\ objects'[u].kindversion = req[c].kindversion
          /\ objects'[u].domain = req[c].domain
        BY <1>2, <2>1, <2>2, CommitEffect
    <2>4. names'[u] = QualifiedName(req[c])
        BY <2>3 DEF TransactionInv, TypeOK
    <2>5. QED
        BY <2>3, <2>4 DEF QualifiedName, IsDomainScoped
<1>3. QED
    BY <1>1, <1>2

\* The selector of d finds an object by the same name row as before.
LEMMA NamedInKept ==
    ASSUME TransactionInv, [Next]_vars, NEW u \in UUIDs, NEW s, NamedIn(u, s)
    PROVE  NamedIn(u, s)' /\ names'[u] = names[u]
<1>1. objects[u] # None
    BY DEF NamedIn, TransactionInv, NamesIdentifyObjects
<1>2. QED
    BY <1>1, WritersKeepObjects DEF NamedIn, IsDomainScoped

\* A step of a writer disturbs no read.
LEMMA WriterReadInv ==
    ASSUME TransactionInv, ReadInv, [Next]_vars, UNCHANGED readVars
    PROVE  ReadInv'
<1> USE DEF ReadInv
<1>1. ReadTypeOK'
    BY DEF ReadTypeOK, readVars
<1>2. NamesFollowObjects'
    BY WritersFollowObjects
<1>3. KnownIsStored'
    <2>1. \A u \in UUIDs : Latest(u) \in Nat /\ Latest(u)' \in Nat /\ Latest(u) <= Latest(u)'
        BY LatestType, WritersKeepObjects
    <2>2. \A u \in UUIDs : (shown[u] <= Latest(u))'
        BY <2>1 DEF KnownIsStored, ReadTypeOK, readVars
    <2>3. ASSUME NEW d \in Readers, NEW u \in UUIDs, rpc[d] # "idle", NEW g \in floor[d][u]
          PROVE  g <= Latest(u)'
        <3>1. g \in Nat /\ g <= Latest(u)
            BY <2>3 DEF KnownIsStored, ReadTypeOK, Generations
        <3>2. QED
            BY <2>1, <3>1
    <2>4. ASSUME NEW d \in Readers, NEW u \in UUIDs, reads[d] # None,
                 NEW g \in reads[d].floor[u]
          PROVE  g <= Latest(u)'
        <3>1. g \in Nat /\ g <= Latest(u)
            BY <2>4 DEF KnownIsStored, ReadTypeOK, Generations
        <3>2. QED
            BY <2>1, <3>1
    <2>5. ASSUME NEW d \in Readers, reads[d] # None, reads[d].result = "ok"
          PROVE  /\ reads[d].object.uuid \in UUIDs
                 /\ reads[d].object.generation \in 1..Latest(reads[d].object.uuid)'
        <3>1. PICK u \in UUIDs : u = reads[d].object.uuid /\ u = reads'[d].object.uuid
            BY <2>5 DEF KnownIsStored, readVars
        <3>2. reads[d].object.generation \in 1..Latest(u)
            BY <2>5, <3>1 DEF KnownIsStored
        <3>3. reads[d].object.generation \in 1..Latest(u)'
            BY <2>1, <3>2
        <3>4. QED
            BY <3>1, <3>3
    <2>6. rpc' = rpc /\ reads' = reads /\ floor' = floor /\ shown' = shown
        BY DEF readVars
    <2>7. QED
        BY <2>2, <2>3, <2>4, <2>5, <2>6 DEF KnownIsStored
<1>4. FoundIsNamed'
    <2> SUFFICES ASSUME NEW d \in Readers, rpc[d] = "read"
                 PROVE  /\ NamedIn(found[d].uuid, sel[d])'
                        /\ names'[found[d].uuid].name = found[d].name
                        /\ sel[d].uuid # None => found[d].uuid = sel[d].uuid
                        /\ sel[d].uuid = None => found[d].name = sel[d].name
        BY DEF FoundIsNamed, readVars
    <2>1. found[d].uuid \in UUIDs
        BY DEF ReadTypeOK
    <2>2. NamedIn(found[d].uuid, sel[d]) /\ names[found[d].uuid].name = found[d].name
          /\ (sel[d].uuid # None => found[d].uuid = sel[d].uuid)
          /\ (sel[d].uuid = None => found[d].name = sel[d].name)
        BY DEF FoundIsNamed
    <2>3. names'[found[d].uuid] = names[found[d].uuid]
          /\ names[found[d].uuid] # None
          /\ names[found[d].uuid].domain =
                IF IsDomainScoped(sel[d]) THEN sel[d].domain ELSE None
        BY <2>1, <2>2, NamedInKept DEF NamedIn
    <2>4. found' = found /\ sel' = sel
        BY DEF readVars
    <2>5. NamedIn(found[d].uuid, sel[d])'
        BY <2>3, <2>4 DEF NamedIn, IsDomainScoped
    <2>6. QED
        BY <2>2, <2>3, <2>5
<1>5. QED
    BY <1>1, <1>2, <1>3, <1>4

-----------------------------------------------------------------------------
(* The steps of the readers. *)

\* A read that returns leaves the other reads, and what callers have been told.
LEMMA FinishInv ==
    ASSUME TransactionInv, ReadInv, UNCHANGED vars,
           NEW d \in Readers, rpc[d] # "idle",
           NEW result \in ReadResults, NEW object, Finish(d, result, object),
           shown' \in [UUIDs -> 0..MaxGeneration],
           \A u \in UUIDs : shown'[u] <= Latest(u),
           result = "ok" => /\ object.uuid \in UUIDs
                            /\ object.generation \in 1..Latest(object.uuid)
    PROVE  ReadInv'
<1> USE DEF ReadInv
<1> DEFINE read == [result |-> result, object |-> object,
                    sel |-> sel[d], floor |-> floor[d]]
<1>1. /\ reads' = [reads EXCEPT ![d] = read]
      /\ rpc' = [rpc EXCEPT ![d] = "idle"]
      /\ sel' = [sel EXCEPT ![d] = None]
      /\ found' = [found EXCEPT ![d] = None]
      /\ floor' = [floor EXCEPT ![d] = None]
      /\ started' = started
    BY DEF Finish
<1>2. sel[d] \in ReadRequests /\ sel[d] # None
      /\ floor[d] \in [UUIDs -> SUBSET Generations]
    BY DEF ReadTypeOK
<1>3. ReadTypeOK'
    BY <1>1, <1>2 DEF ReadTypeOK
<1>4. NamesFollowObjects'
    BY DEF NamesFollowObjects, IsDomainScoped, vars
<1>5. KnownIsStored'
    <2>1. \A u \in UUIDs : Latest(u)' = Latest(u)
        BY DEF Latest, vars
    <2>2. ASSUME NEW e \in Readers, NEW u \in UUIDs
          PROVE  /\ rpc'[e] # "idle" => \A g \in floor'[e][u] : g <= Latest(u)
                 /\ reads'[e] # None => \A g \in reads'[e].floor[u] : g <= Latest(u)
        BY <1>1 DEF KnownIsStored, ReadTypeOK
    <2>3. ASSUME NEW e \in Readers, reads'[e] # None, reads'[e].result = "ok"
          PROVE  /\ reads'[e].object.uuid \in UUIDs
                 /\ reads'[e].object.generation \in 1..Latest(reads'[e].object.uuid)
        BY <1>1, <2>3 DEF KnownIsStored, ReadTypeOK
    <2>4. ASSUME NEW e \in Readers, reads'[e] # None, reads'[e].result = "ok"
          PROVE  /\ reads'[e].object.uuid \in UUIDs
                 /\ reads'[e].object.generation \in (1..Latest(reads[e].object.uuid))'
        <3>1. PICK u \in UUIDs : u = reads'[e].object.uuid
            BY <2>3, <2>4
        <3>2. reads'[e].object.generation \in 1..Latest(u)
            BY <2>3, <2>4, <3>1
        <3>3. QED
            BY <2>1, <3>1, <3>2
    <2>5. QED
        BY <2>1, <2>2, <2>4 DEF KnownIsStored
<1>6. FoundIsNamed'
    BY <1>1 DEF FoundIsNamed, ReadTypeOK, NamedIn, vars, IsDomainScoped
<1>7. QED
    BY <1>3, <1>4, <1>5, <1>6

\* So does a read that fails or finds nothing.
LEMMA NothingReadInv ==
    ASSUME TransactionInv, ReadInv, UNCHANGED vars,
           NEW d \in Readers, rpc[d] # "idle",
           NEW result \in ReadResults \ {"ok"}, NEW object, Finish(d, result, object),
           UNCHANGED shown
    PROVE  ReadInv'
<1>1. shown' \in [UUIDs -> 0..MaxGeneration] /\ \A u \in UUIDs : shown'[u] <= Latest(u)
    BY DEF ReadInv, ReadTypeOK, KnownIsStored
<1>2. QED
    BY <1>1, FinishInv

\* What a caller has been told when a read begins is stored.
LEMMA KnownType ==
    ASSUME TransactionInv, AcknowledgedIsStored, ReadInv, NEW u \in UUIDs
    PROVE  /\ KnownGenerations(u) \in SUBSET Generations
           /\ \A g \in KnownGenerations(u) : g <= Latest(u)
<1> SUFFICES ASSUME NEW g \in KnownGenerations(u) PROVE g <= Latest(u)
    BY DEF KnownGenerations
<1>1. g \in Nat /\ Latest(u) \in Nat
    BY LatestType DEF KnownGenerations, Generations
<1>2. CASE g <= shown[u]
    BY <1>1, <1>2 DEF ReadInv, ReadTypeOK, KnownIsStored
<1>3. ASSUME NEW a \in answers, a.result = "ok", a.uuid = u, g <= a.generation + 1
      PROVE  g <= Latest(u)
    <2>1. a.generation + 1 \in Generations /\ a.generation \in Nat
        BY BoundsAssumption DEF TransactionInv, TypeOK, Answers, Generations
    <2>2. generations[<<u, a.generation + 1>>] # None
        BY <1>3 DEF AcknowledgedIsStored
    <2>3. a.generation + 1 <= Latest(u)
        BY <2>1, <2>2 DEF TransactionInv, GenerationsContiguous
    <2>4. QED
        BY <1>1, <1>3, <2>1, <2>3
<1>4. QED
    BY <1>2, <1>3 DEF KnownGenerations

LEMMA ObjectReadInv ==
    ASSUME TransactionInv, AcknowledgedIsStored, ReadInv, UNCHANGED vars,
           NEW d \in Readers, ObjectRead(d)
    PROVE  ReadInv'
<1> USE DEF ReadInv
<1>1. PICK s \in ReadRequests :
        /\ rpc[d] = "idle"
        /\ started < MaxReads
        /\ started' = started + 1
        /\ reads' = [reads EXCEPT ![d] = None]
        /\ sel' = [sel EXCEPT ![d] = s]
        /\ floor' = [floor EXCEPT ![d] = [u \in UUIDs |-> KnownGenerations(u)]]
        /\ rpc' = [rpc EXCEPT ![d] = IF IsDomainScoped(s) /\ s.domain = None
                                     THEN "refuse" ELSE "lookup"]
        /\ UNCHANGED <<found, shown>>
    BY DEF ObjectRead
<1>2. s # None /\ rpc'[d] \in {"refuse", "lookup"}
    BY <1>1, SelectorType DEF ReadTypeOK
<1>3. /\ [u \in UUIDs |-> KnownGenerations(u)] \in [UUIDs -> SUBSET Generations]
      /\ \A u \in UUIDs : \A g \in KnownGenerations(u) : g <= Latest(u)
    BY KnownType
<1>4. ReadTypeOK'
    <2>1. started + 1 \in 0..MaxReads
        BY <1>1, MaxReadsAssumption DEF ReadTypeOK
    <2>2. QED
        BY <1>1, <1>2, <1>3, <2>1 DEF ReadTypeOK
<1>5. NamesFollowObjects'
    BY DEF NamesFollowObjects, IsDomainScoped, vars
<1>6. KnownIsStored'
    <2>1. \A u \in UUIDs : Latest(u)' = Latest(u)
        BY DEF Latest, vars
    <2>2. ASSUME NEW e \in Readers, NEW u \in UUIDs
          PROVE  /\ rpc'[e] # "idle" => \A g \in floor'[e][u] : g <= Latest(u)
                 /\ reads'[e] # None => \A g \in reads'[e].floor[u] : g <= Latest(u)
        BY <1>1, <1>3 DEF KnownIsStored, ReadTypeOK
    <2>3. ASSUME NEW e \in Readers, reads'[e] # None, reads'[e].result = "ok"
          PROVE  /\ reads'[e].object.uuid \in UUIDs
                 /\ reads'[e].object.generation \in (1..Latest(reads[e].object.uuid))'
        <3>1. reads'[e] = reads[e]
            BY <1>1, <2>3 DEF ReadTypeOK
        <3>2. PICK u \in UUIDs : u = reads'[e].object.uuid
            BY <2>3, <3>1 DEF KnownIsStored
        <3>3. reads[e].object.generation \in 1..Latest(u)
            BY <2>3, <3>1, <3>2 DEF KnownIsStored
        <3>4. QED
            BY <2>1, <3>1, <3>2, <3>3
    <2>4. QED
        BY <2>1, <2>2, <2>3, <1>1 DEF KnownIsStored
<1>7. FoundIsNamed'
    BY <1>1, <1>2 DEF FoundIsNamed, ReadTypeOK, NamedIn, vars, IsDomainScoped
<1>8. QED
    BY <1>4, <1>5, <1>6, <1>7

\* The first transaction has found a uuid and a name of one row.
LEMMA FoundInv ==
    ASSUME TransactionInv, ReadInv, UNCHANGED vars, NEW d \in Readers, rpc[d] = "lookup",
           NEW u \in UUIDs, NEW n \in Names,
           NamedIn(u, sel[d]), names[u].name = n,
           sel[d].uuid = u \/ (sel[d].uuid = None /\ sel[d].name = n),
           found' = [found EXCEPT ![d] = [uuid |-> u, name |-> n]],
           rpc' = [rpc EXCEPT ![d] = "read"],
           UNCHANGED <<sel, reads, started, shown, floor>>
    PROVE  ReadInv'
<1> USE DEF ReadInv
<1>1. [uuid |-> u, name |-> n] # None
    BY NoSelectorAssumption
<1>2. ReadTypeOK'
    BY <1>1 DEF ReadTypeOK
<1>3. NamesFollowObjects'
    BY DEF NamesFollowObjects, IsDomainScoped, vars
<1>4. KnownIsStored'
    <2>1. \A v \in UUIDs : Latest(v)' = Latest(v)
        BY DEF Latest, vars
    <2>2. ASSUME NEW e \in Readers PROVE rpc'[e] # "idle" => rpc[e] # "idle"
        BY DEF ReadTypeOK
    <2>3. ASSUME NEW e \in Readers, reads[e] # None, reads[e].result = "ok"
          PROVE  (reads[e].object.generation \in 1..Latest(reads[e].object.uuid))'
        <3>1. PICK v \in UUIDs : v = reads[e].object.uuid /\ v = reads'[e].object.uuid
            BY <2>3 DEF KnownIsStored
        <3>2. reads[e].object.generation \in 1..Latest(v)
            BY <2>3, <3>1 DEF KnownIsStored
        <3>3. QED
            BY <2>1, <3>1, <3>2
    <2>4. QED
        BY <2>1, <2>2, <2>3 DEF KnownIsStored
<1>5. FoundIsNamed'
    <2> SUFFICES ASSUME NEW e \in Readers, rpc'[e] = "read"
                 PROVE  FoundIsNamed!(e)!2'
        BY DEF FoundIsNamed
    <2>1. sel' = sel /\ names' = names /\ sel[d] # None
        BY DEF vars, ReadTypeOK
    <2>2. CASE e = d
        <3>1. found'[e].uuid = u /\ found'[e].name = n
            BY <2>2 DEF ReadTypeOK
        <3>2. QED
            BY <2>1, <2>2, <3>1, NoSelectorAssumption DEF NamedIn, IsDomainScoped
    <2>3. CASE e # d
        <3>1. found'[e] = found[e] /\ rpc[e] = "read"
            BY <2>3 DEF ReadTypeOK
        <3>2. QED
            BY <2>1, <3>1 DEF FoundIsNamed, NamedIn, IsDomainScoped
    <2>4. QED
        BY <2>2, <2>3
<1>6. QED
    BY <1>2, <1>3, <1>4, <1>5

LEMMA UUIDFromNameInv ==
    ASSUME TransactionInv, ReadInv, UNCHANGED vars, NEW d \in Readers, UUIDFromName(d)
    PROVE  ReadInv'
<1>1. rpc[d] = "lookup" /\ sel[d].uuid = None /\ sel[d] \in ReadRequests
    BY DEF UUIDFromName, ReadInv, ReadTypeOK
<1>2. CASE Finish(d, "NotFound", None) /\ UNCHANGED shown
    BY <1>1, <1>2, NothingReadInv DEF ReadResults
<1>3. ASSUME NEW u \in UUIDsFromName(sel[d]),
             found' = [found EXCEPT ![d] = [uuid |-> u, name |-> sel[d].name]],
             rpc' = [rpc EXCEPT ![d] = "read"],
             UNCHANGED <<sel, reads, started, shown, floor>>
      PROVE  ReadInv'
    <2>1. u \in UUIDs /\ NamedIn(u, sel[d]) /\ names[u].name = sel[d].name
          /\ sel[d].name \in Names
        BY <1>1, SelectorType DEF UUIDsFromName
    <2>2. QED
        BY <1>1, <1>3, <2>1, FoundInv
<1>4. QED
    BY <1>2, <1>3 DEF UUIDFromName

LEMMA NameFromUUIDInv ==
    ASSUME TransactionInv, ReadInv, UNCHANGED vars, NEW d \in Readers, NameFromUUID(d)
    PROVE  ReadInv'
<1> DEFINE u == sel[d].uuid
<1>1. rpc[d] = "lookup" /\ u \in UUIDs /\ sel[d] \in ReadRequests
    BY SelectorType DEF NameFromUUID, ReadInv, ReadTypeOK
<1>2. CASE Finish(d, "NotFound", None) /\ UNCHANGED shown
    BY <1>1, <1>2, NothingReadInv DEF ReadResults
<1>3. CASE /\ NamedIn(u, sel[d])
           /\ found' = [found EXCEPT ![d] = [uuid |-> u, name |-> names[u].name]]
           /\ rpc' = [rpc EXCEPT ![d] = "read"]
           /\ UNCHANGED <<sel, reads, started, shown, floor>>
    <2>1. names[u].name \in Names
        BY <1>1, <1>3 DEF NamedIn, TransactionInv, TypeOK, QualifiedNames
    <2>2. QED
        BY <1>1, <1>3, <2>1, FoundInv
<1>4. QED
    BY <1>2, <1>3 DEF NameFromUUID

\* The generation that is read is one of those stored.
LEMMA JoinedType ==
    ASSUME TransactionInv, NEW u \in UUIDs, NEW s, NEW g \in JoinedGenerations(u, s)
    PROVE  g \in Generations /\ g \in Nat /\ g \in 1..Latest(u)
<1>1. g \in Generations /\ g <= Latest(u) /\ Latest(u) \in Nat
    BY LatestType DEF JoinedGenerations, TransactionInv, GenerationsContiguous
<1>2. QED
    BY <1>1, BoundsAssumption DEF Generations

LEMMA ReadByUUIDAndGenerationInv ==
    ASSUME TransactionInv, ReadInv, UNCHANGED vars, NEW d \in Readers,
           ReadByUUIDAndGeneration(d)
    PROVE  ReadInv'
<1> DEFINE u == found[d].uuid
           s == sel[d]
<1>1. rpc[d] = "read" /\ u \in UUIDs
    BY DEF ReadByUUIDAndGeneration, ReadInv, ReadTypeOK
<1>2. CASE Finish(d, "NotFound", None) /\ UNCHANGED shown
    BY <1>1, <1>2, NothingReadInv DEF ReadResults
<1>3. ASSUME NEW g \in JoinedGenerations(u, s), NEW object,
             object.uuid = u, object.generation = g,
             Finish(d, "ok", object),
             shown' = [shown EXCEPT ![u] = IF @ < g THEN g ELSE @]
      PROVE  ReadInv'
    <2>1. g \in 1..Latest(u) /\ g \in 0..MaxGeneration
        BY <1>1, <1>3, JoinedType, BoundsAssumption DEF Generations
    <2>2. shown \in [UUIDs -> 0..MaxGeneration] /\ \A v \in UUIDs : shown[v] <= Latest(v)
        BY DEF ReadInv, ReadTypeOK, KnownIsStored
    <2>3. shown' \in [UUIDs -> 0..MaxGeneration] /\ \A v \in UUIDs : shown'[v] <= Latest(v)
        BY <1>1, <1>3, <2>1, <2>2
    <2>4. QED
        BY <1>1, <1>3, <2>1, <2>3, FinishInv DEF ReadResults
<1>4. QED
    BY <1>2, <1>3 DEF ReadByUUIDAndGeneration

\* Every step of the system keeps the invariant of the reads.
LEMMA NextReadInv ==
    ASSUME TransactionInv, AcknowledgedIsStored, ReadInv, [SystemNext]_allVars
    PROVE  ReadInv'
<1>1. CASE Next /\ UNCHANGED readVars
    BY <1>1, WriterReadInv
<1>2. CASE UNCHANGED allVars
    BY <1>2, WriterReadInv DEF allVars
<1>3. ASSUME NEW d \in Readers, UNCHANGED vars, ObjectRead(d) PROVE ReadInv'
    BY <1>3, ObjectReadInv
<1>4. ASSUME NEW d \in Readers, UNCHANGED vars, RefuseRead(d) \/ ReadFails(d)
      PROVE  ReadInv'
    BY <1>4, NothingReadInv DEF RefuseRead, ReadFails, ReadResults
<1>5. ASSUME NEW d \in Readers, UNCHANGED vars, UUIDFromName(d) \/ NameFromUUID(d)
      PROVE  ReadInv'
    BY <1>5, UUIDFromNameInv, NameFromUUIDInv
<1>6. ASSUME NEW d \in Readers, UNCHANGED vars, ReadByUUIDAndGeneration(d) PROVE ReadInv'
    BY <1>6, ReadByUUIDAndGenerationInv
<1>7. QED
    BY <1>1, <1>2, <1>3, <1>4, <1>5, <1>6 DEF SystemNext, ReadNext

LEMMA InitReadInv == ReadInit => ReadInv
<1> SUFFICES ASSUME ReadInit PROVE ReadInv
    OBVIOUS
<1>1. ReadTypeOK
    BY BoundsAssumption, MaxReadsAssumption DEF ReadInit, ReadTypeOK
<1>2. NamesFollowObjects /\ FoundIsNamed
    BY DEF ReadInit, Init, NamesFollowObjects, FoundIsNamed
<1>3. KnownIsStored
    BY DEF ReadInit, Init, KnownIsStored, Latest
<1>4. QED
    BY <1>1, <1>2, <1>3 DEF ReadInv

-----------------------------------------------------------------------------
(* The theorems. *)

\* The writers keep their invariants beside the readers.
LEMMA WritersAreIsolated == System => [](TransactionInv /\ AcknowledgedIsStored)
BY WritersRun, TransactionsAreIsolated, AcknowledgedWritesAreStored, PTL

\* Between the two transactions of an ObjectRead the object found keeps its name, its
\* kind and the generations that callers know of.
THEOREM ReadsAreSteady == System => []ReadInv
<1>1. TransactionInv /\ AcknowledgedIsStored /\ ReadInv /\ [SystemNext]_allVars => ReadInv'
    BY NextReadInv
<1>2. QED
    BY InitReadInv, <1>1, WritersAreIsolated, PTL DEF System

-----------------------------------------------------------------------------
(* What reads return. *)

\* What the read of d has just returned, by the rule that returned it.
ReturnsObject(d) ==
    /\ rpc[d] = "read"
    /\ Matches(found[d].uuid, sel[d])
    /\ \E g \in JoinedGenerations(found[d].uuid, sel[d]) :
        reads'[d] = [result |-> "ok",
                     object |-> [uuid |-> found[d].uuid, name |-> found[d].name,
                                 kindversion |-> sel[d].kindversion, domain |-> sel[d].domain,
                                 generation |-> g,
                                 spec |-> generations[<<found[d].uuid, g>>].spec],
                     sel |-> sel[d], floor |-> floor[d]]

ReturnsNothing(d) ==
    /\ rpc[d] # "idle"
    /\ reads'[d].result = "NotFound"
    /\ reads'[d].sel = sel[d] /\ reads'[d].floor = floor[d]
    /\ \/ sel[d].uuid = None /\ UUIDsFromName(sel[d]) = {}
       \/ sel[d].uuid # None /\ ~ NamedIn(sel[d].uuid, sel[d])
       \/ rpc[d] = "read" /\ ~ Matches(found[d].uuid, sel[d])
       \/ rpc[d] = "read" /\ JoinedGenerations(found[d].uuid, sel[d]) = {}

\* What d has read stands until its next read, which returns by one of the rules.
LEMMA ReadKinds ==
    ASSUME ReadInv, [SystemNext]_allVars, NEW d \in Readers, reads'[d] # None
    PROVE  \/ reads'[d] = reads[d] /\ [Next]_vars
           \/ UNCHANGED vars /\ ReturnsObject(d)
           \/ UNCHANGED vars /\ ReturnsNothing(d)
           \/ UNCHANGED vars /\ reads'[d].result \notin {"ok", "NotFound"}
<1> USE DEF ReadInv
<1>1. CASE (Next /\ UNCHANGED readVars) \/ UNCHANGED allVars
    BY <1>1 DEF readVars, allVars
<1>2. ASSUME UNCHANGED vars, NEW e \in Readers, ObjectRead(e)
      PROVE  reads'[d] = reads[d]
    BY <1>2 DEF ObjectRead, ReadTypeOK
<1>3. ASSUME UNCHANGED vars, NEW e \in Readers, RefuseRead(e) \/ ReadFails(e)
      PROVE  reads'[d] = reads[d] \/ reads'[d].result \notin {"ok", "NotFound"}
    BY <1>3 DEF RefuseRead, ReadFails, Finish, ReadTypeOK
<1>4. ASSUME UNCHANGED vars, NEW e \in Readers, UUIDFromName(e)
      PROVE  reads'[d] = reads[d] \/ ReturnsNothing(d)
    BY <1>4 DEF UUIDFromName, ReturnsNothing, Finish, ReadTypeOK
<1>5. ASSUME UNCHANGED vars, NEW e \in Readers, NameFromUUID(e)
      PROVE  reads'[d] = reads[d] \/ ReturnsNothing(d)
    BY <1>5 DEF NameFromUUID, ReturnsNothing, Finish, ReadTypeOK
<1>6. ASSUME UNCHANGED vars, NEW e \in Readers, ReadByUUIDAndGeneration(e)
      PROVE  reads'[d] = reads[d] \/ ReturnsNothing(d) \/ ReturnsObject(d)
    <2>1. CASE Finish(e, "NotFound", None)
               /\ (~ Matches(found[e].uuid, sel[e])
                   \/ JoinedGenerations(found[e].uuid, sel[e]) = {})
        BY <1>6, <2>1 DEF ReadByUUIDAndGeneration, ReturnsNothing, Finish, ReadTypeOK
    <2>2. ASSUME NEW g \in JoinedGenerations(found[e].uuid, sel[e]),
                 Matches(found[e].uuid, sel[e]),
                 Finish(e, "ok", [uuid |-> found[e].uuid, name |-> found[e].name,
                                  kindversion |-> sel[e].kindversion, domain |-> sel[e].domain,
                                  generation |-> g,
                                  spec |-> generations[<<found[e].uuid, g>>].spec])
          PROVE  reads'[d] = reads[d] \/ ReturnsObject(d)
        BY <1>6, <2>2 DEF ReadByUUIDAndGeneration, ReturnsObject, Finish, ReadTypeOK
    <2>3. QED
        BY <1>6, <2>1, <2>2 DEF ReadByUUIDAndGeneration
<1>7. QED
    BY <1>1, <1>2, <1>3, <1>4, <1>5, <1>6 DEF SystemNext, ReadNext

\* A read of the latest generation returns one at least as recent as any that a
\* caller had been told of when it began.
THEOREM ReadsAreRecent == System => []ReadsNeverGoBack
<1>1. ReadInit => ReadsNeverGoBack
    BY DEF ReadInit, ReadsNeverGoBack
<1>2. TransactionInv /\ ReadInv /\ ReadsNeverGoBack /\ [SystemNext]_allVars
        => ReadsNeverGoBack'
    <2> SUFFICES ASSUME TransactionInv, ReadInv, ReadsNeverGoBack, [SystemNext]_allVars,
                        NEW d \in Readers, reads'[d] # None, reads'[d].result = "ok",
                        reads'[d].sel.generation = 0,
                        NEW g \in reads'[d].floor[reads'[d].object.uuid]
                 PROVE  g <= reads'[d].object.generation
        BY DEF ReadsNeverGoBack
    <2>1. CASE reads'[d] = reads[d]
        BY <2>1 DEF ReadsNeverGoBack
    <2>2. CASE ReturnsObject(d)
        <3> DEFINE u == found[d].uuid
        <3>1. /\ u \in UUIDs
              /\ reads'[d].object.uuid = u
              /\ reads'[d].object.generation = Latest(u)
              /\ reads'[d].floor = floor[d]
            BY <2>2 DEF ReturnsObject, JoinedGenerations, ReadInv, ReadTypeOK
        <3>2. g <= Latest(u)
            BY <2>2, <3>1 DEF ReturnsObject, ReadInv, KnownIsStored
        <3>3. QED
            BY <3>1, <3>2
    <2>3. QED
        BY <2>1, <2>2, ReadKinds DEF ReturnsNothing
<1>3. QED
    BY <1>1, <1>2, ReadsAreSteady, WritersAreIsolated, PTL DEF System

\* The name, kind and spec that a read returns are those of one object, and so is the
\* domain in a kind whose objects belong to domains.
THEOREM ReadsAreConsistent == System => []ReadIsOneObject
<1>1. ReadInit => ReadIsOneObject
    BY DEF ReadInit, ReadIsOneObject
<1>2. TransactionInv /\ ReadInv /\ ReadIsOneObject /\ [SystemNext]_allVars
        => ReadIsOneObject'
    <2> SUFFICES ASSUME TransactionInv, ReadInv, ReadIsOneObject, [SystemNext]_allVars,
                        NEW d \in Readers, reads'[d] # None, reads'[d].result = "ok"
                 PROVE  LET read == reads'[d]
                            object == read.object
                        IN
                        /\ names'[object.uuid] =
                                QualifiedName([read.sel EXCEPT !.name = object.name])
                        /\ IsDomainScoped(object) =>
                                object.domain = objects'[object.uuid].domain
                        /\ generations'[<<object.uuid, object.generation>>].spec
                                = object.spec
        BY DEF ReadIsOneObject, QualifiedName, IsDomainScoped
    <2> DEFINE object == reads'[d].object
    <2>1. CASE reads'[d] = reads[d] /\ [Next]_vars
        <3>1. PICK u \in UUIDs : \E h \in 1..Latest(u) :
                u = object.uuid /\ h = object.generation
            BY <2>1 DEF ReadInv, KnownIsStored
        <3> PICK g \in 1..Latest(u) : u = object.uuid /\ g = object.generation
            BY <3>1
        <3>2. /\ names'[u] = names[u] /\ generations'[<<u, g>>] = generations[<<u, g>>]
              /\ objects'[u].domain = objects[u].domain
            BY <2>1, <3>1, LatestIsStored, WritersKeepObjects, StoredIsKept
        <3>3. QED
            BY <2>1, <3>1, <3>2 DEF ReadIsOneObject, IsDomainScoped
    <2>2. CASE UNCHANGED vars /\ ReturnsObject(d)
        <3> DEFINE u == found[d].uuid
                   s == sel[d]
                   t == [s EXCEPT !.name = object.name]
        <3>1. /\ u \in UUIDs
              /\ names[u].name = found[d].name
            BY <2>2 DEF ReturnsObject, ReadInv, ReadTypeOK, FoundIsNamed
        <3>2. /\ object.uuid = u
              /\ object.name = names[u].name
              /\ object.spec = generations[<<u, object.generation>>].spec
              /\ object.kindversion = s.kindversion /\ object.domain = s.domain
              /\ reads'[d].sel = s
            BY <2>2, <3>1 DEF ReturnsObject
        <3>3. /\ names[u] # None
              /\ names[u].domain = IF IsDomainScoped(s) THEN s.domain ELSE None
              /\ names[u].kind = KindOf[s.kindversion]
              /\ IsDomainScoped(s) => names[u].domain = objects[u].domain
            BY <2>2, <3>1, <3>2 DEF ReturnsObject, Matches, ReadInv, FoundIsNamed,
                                    NamedIn, NamesFollowObjects, IsDomainScoped
        <3>4. t.kindversion = s.kindversion /\ t.domain = s.domain /\ t.name = object.name
            BY <2>2, SelectorType DEF ReturnsObject, ReadInv, ReadTypeOK
        <3>5. names[u] = QualifiedName(t)
            BY <3>1, <3>2, <3>3, <3>4
               DEF QualifiedName, IsDomainScoped, TransactionInv, TypeOK, QualifiedNames
        <3>6. IsDomainScoped(object) => object.domain = objects[u].domain
            BY <3>2, <3>3 DEF IsDomainScoped
        <3>7. QED
            BY <2>2, <3>1, <3>2, <3>5, <3>6 DEF vars
    <2>3. QED
        BY <2>1, <2>2, ReadKinds DEF ReturnsNothing
<1>3. QED
    BY <1>1, <1>2, ReadsAreSteady, WritersAreIsolated, PTL DEF System

\* What a selector describes of a stored object, and who its namesakes are, is for good.
LEMMA DenotesIsOld ==
    ASSUME TransactionInv, [Next]_vars, NEW s, NEW u \in UUIDs, objects[u] # None
    PROVE  Denotes(s, u)' <=> Denotes(s, u)
<1>1. /\ objects'[u] # None
      /\ objects'[u].kindversion = objects[u].kindversion
      /\ names'[u] = names[u]
    BY WritersKeepObjects
<1>2. QED
    BY <1>1 DEF Denotes, Matches, QualifiedName, IsDomainScoped

LEMMA NamesakesStay ==
    ASSUME TransactionInv, [Next]_vars, NEW u \in UUIDs, NEW x \in UUIDs, Namesakes(u, x)
    PROVE  Namesakes(u, x)'
<1>1. objects[u] # None /\ objects[x] # None
    BY DEF Namesakes, TransactionInv, NamesIdentifyObjects
<1>2. names'[u] = names[u] /\ names'[x] = names[x]
    BY <1>1, WritersKeepObjects
<1>3. QED
    BY <1>2 DEF Namesakes

\* What a read describes and a caller knows of, it misses only by the name of another.
LEMMA KnownIsFound ==
    ASSUME TransactionInv, ReadInv, NEW d \in Readers, ReturnsNothing(d),
           NEW u \in UUIDs, Denotes(sel[d], u),
           (IF sel[d].generation = 0 THEN 1 ELSE sel[d].generation) \in floor[d][u]
    PROVE  sel[d].uuid = None /\ \E x \in UUIDs : Namesakes(u, x)
<1> DEFINE s == sel[d]
           g == IF s.generation = 0 THEN 1 ELSE s.generation
<1>1. /\ Matches(u, s)
      /\ IF s.uuid = None THEN names[u] = QualifiedName(s)
         ELSE u = s.uuid /\ names[u].domain = QualifiedName(s).domain
    BY DEF Denotes
<1>2. g \in Generations /\ g <= Latest(u) /\ Latest(u) \in 0..MaxGeneration
    BY LatestType DEF ReturnsNothing, ReadInv, ReadTypeOK, KnownIsStored
<1>3. g \in 1..Latest(u) /\ Latest(u) \in 1..Latest(u)
    BY <1>2, BoundsAssumption DEF Generations
<1>4. names[u] # None
    BY <1>3, LatestIsStored
<1>5. NamedIn(u, s)
    BY <1>1, <1>4 DEF NamedIn, QualifiedName
<1>6. JoinedGenerations(u, s) # {}
    <2>1. CASE s.generation = 0
        BY <1>3, <2>1, LatestIsStored DEF JoinedGenerations
    <2>2. CASE s.generation # 0
        BY <1>3, <2>2, LatestIsStored DEF JoinedGenerations
    <2>3. QED
        BY <2>1, <2>2
<1>7. PICK x : x = found[d].uuid
    OBVIOUS
<1>8. rpc[d] = "read" /\ x # u
    <2>1. s.uuid = None => u \in UUIDsFromName(s)
        BY <1>1, <1>5 DEF UUIDsFromName, QualifiedName
    <2>2. QED
        BY <1>1, <1>5, <1>6, <1>7, <2>1 DEF ReturnsNothing
<1>9. /\ x \in UUIDs /\ NamedIn(x, s)
      /\ names[x].name = found[d].name
      /\ s.uuid # None => x = s.uuid
      /\ s.uuid = None => found[d].name = s.name
    BY <1>7, <1>8 DEF ReadInv, ReadTypeOK, FoundIsNamed
<1>10. s.uuid = None
    BY <1>1, <1>8, <1>9
<1>11. /\ names[x] # None /\ names[u] # names[x]
       /\ names[x].name = names[u].name /\ names[x].domain = names[u].domain
    <2>1. names[x] # None /\ names[u] # names[x]
        BY <1>8, <1>9 DEF NamedIn, TransactionInv, NamesIdentifyObjects
    <2>2. QED
        BY <1>1, <1>9, <1>10, <2>1 DEF NamedIn, QualifiedName
<1>12. names[u].kind # names[x].kind
    <2>1. names[u] \in QualifiedNames /\ names[x] \in QualifiedNames
        BY <1>4, <1>9, <1>11 DEF TransactionInv, TypeOK
    <2>2. QED
        BY <1>11, <2>1 DEF QualifiedNames
<1>13. QED
    BY <1>4, <1>9, <1>10, <1>11, <1>12 DEF Namesakes

\* A read finds every object that was acknowledged before it began, but for one by name
\* whose object has a namesake of another kind.
THEOREM AcknowledgedIsFound == System => []OnlyNamesakesAreMissed
<1>1. ReadInit => OnlyNamesakesAreMissed
    BY DEF ReadInit, OnlyNamesakesAreMissed, Missed
<1>2. TransactionInv /\ ReadInv /\ OnlyNamesakesAreMissed /\ [SystemNext]_allVars
        => OnlyNamesakesAreMissed'
    <2> SUFFICES ASSUME TransactionInv, ReadInv, OnlyNamesakesAreMissed,
                        [SystemNext]_allVars, NEW d \in Readers, Missed(d)'
                 PROVE  /\ reads'[d].sel.uuid = None
                        /\ \E u, x \in UUIDs :
                                Denotes(reads[d].sel, u)' /\ Namesakes(u, x)'
        BY DEF OnlyNamesakesAreMissed
    <2> DEFINE read == reads'[d]
               g == IF read.sel.generation = 0 THEN 1 ELSE read.sel.generation
    <2>1. read # None /\ read.result = "NotFound"
        BY DEF Missed
    <2>2. PICK s : s = read.sel
        OBVIOUS
    <2>3. PICK u \in UUIDs : Denotes(s, u)' /\ g \in read.floor[u]
        BY <2>2 DEF Missed, Denotes, Matches, QualifiedName, IsDomainScoped
    <2>4. CASE read = reads[d] /\ [Next]_vars
        <3>1. g \in Generations /\ g <= Latest(u) /\ Latest(u) \in 0..MaxGeneration
              /\ (objects[u] = None <=> Latest(u) = 0)
            BY <2>1, <2>3, <2>4, LatestType DEF ReadInv, ReadTypeOK, KnownIsStored
        <3>2. objects[u] # None
            BY <3>1, BoundsAssumption DEF Generations
        <3>3. Denotes(s, u)
            BY <2>2, <2>3, <2>4, <3>2, DenotesIsOld
        <3>4. /\ reads[d] # None /\ reads[d].result = "NotFound" /\ reads[d].sel = s
              /\ (IF s.generation = 0 THEN 1 ELSE s.generation) \in reads[d].floor[u]
            BY <2>1, <2>2, <2>3, <2>4
        <3>5. Missed(d)
            BY <3>3, <3>4 DEF Missed
        <3>6. s.uuid = None
            BY <3>4, <3>5 DEF OnlyNamesakesAreMissed
        <3>7. PICK v \in UUIDs, x \in UUIDs : Denotes(s, v) /\ Namesakes(v, x)
            BY <3>4, <3>5 DEF OnlyNamesakesAreMissed
        <3>8. Denotes(s, v)' /\ Namesakes(v, x)'
            <4>1. objects[v] # None
                BY <3>7 DEF Namesakes, TransactionInv, NamesIdentifyObjects
            <4>2. QED
                BY <2>4, <3>7, <4>1, DenotesIsOld, NamesakesStay
        <3>9. QED
            BY <2>2, <3>6, <3>8 DEF Denotes, Matches, QualifiedName, IsDomainScoped
    <2>5. CASE UNCHANGED vars /\ ReturnsNothing(d)
        <3>1. Denotes(s, u)
            BY <2>3, <2>5 DEF vars, Denotes, Matches, QualifiedName, IsDomainScoped
        <3>2. s = sel[d] /\ read.floor = floor[d]
            BY <2>2, <2>5 DEF ReturnsNothing
        <3>3. PICK x \in UUIDs : s.uuid = None /\ Namesakes(u, x)
            BY <2>2, <2>3, <2>5, <3>1, <3>2, KnownIsFound
        <3>4. Denotes(s, u)' /\ Namesakes(u, x)'
            BY <2>3, <2>5, <3>3 DEF vars, Namesakes
        <3>5. QED
            BY <2>2, <3>3, <3>4 DEF Denotes, Matches, QualifiedName, IsDomainScoped
    <2>6. ReturnsObject(d) => reads'[d].result = "ok"
        BY DEF ReturnsObject
    <2>7. QED
        BY <2>1, <2>4, <2>5, <2>6, ReadKinds
<1>3. QED
    BY <1>1, <1>2, ReadsAreSteady, WritersAreIsolated, PTL DEF System

-----------------------------------------------------------------------------
(* The kindversion of an object. *)

\* The kindversion in objects is the one that the first generation was written with.
FirstVersionStays == \A u \in UUIDs : objects[u] # None =>
    generations[<<u, 1>>].kindversion = objects[u].kindversion

LEMMA WritersKeepFirstVersion ==
    ASSUME TransactionInv, FirstVersionStays, [Next]_vars
    PROVE  FirstVersionStays'
<1> SUFFICES ASSUME NEW u \in UUIDs, objects'[u] # None
             PROVE  generations'[<<u, 1>>].kindversion = objects'[u].kindversion
    BY DEF FirstVersionStays
<1> 1 \in Generations
    BY BoundsAssumption DEF Generations
<1>1. CASE objects[u] # None
    <2>1. generations[<<u, 1>>] # None
        <3>1. Latest(u) \in 0..MaxGeneration /\ Latest(u) # 0
            BY <1>1, LatestType
        <3>2. 1 \in 1..Latest(u)
            BY <3>1, BoundsAssumption
        <3>3. QED
            BY <3>2, LatestIsStored
    <2>2. generations'[<<u, 1>>] = generations[<<u, 1>>]
        BY <2>1, StoredIsKept
    <2>3. QED
        BY <1>1, <2>2, WritersKeepObjects DEF FirstVersionStays
<1>2. CASE objects[u] = None
    <2>1. PICK c \in Callers : Commit(c)
        BY <1>2, StepKinds DEF RefuseWrite, Abort, tables
    <2>2. u = req[c].uuid
        BY <1>2, <2>1, CommitEffect
    <2>3. /\ req[c].generation = 0
          /\ objects'[u].kindversion = req[c].kindversion
          /\ generations' = [generations EXCEPT ![GenerationKey(req[c])] =
                [kindversion |-> req[c].kindversion, spec |-> write[c]]]
        BY <1>2, <2>1, <2>2, CommitEffect
    <2>4. GenerationKey(req[c]) = <<u, 1>>
        BY <2>2, <2>3 DEF GenerationKey
    <2>5. generations'[<<u, 1>>].kindversion = req[c].kindversion
        BY <2>3, <2>4 DEF TransactionInv, TypeOK
    <2>6. QED
        BY <2>3, <2>5
<1>3. QED
    BY <1>1, <1>2

\* A read labels whatever generation it returns with the kindversion that the object's
\* first generation was written with: right as long as no update names another one.
THEOREM LabelsAreOfTheFirst == System => []ReadKindVersionIsFirst
<1>1. ReadInit => FirstVersionStays /\ ReadKindVersionIsFirst
    BY DEF ReadInit, Init, FirstVersionStays, ReadKindVersionIsFirst
<1>2. TransactionInv /\ FirstVersionStays /\ [SystemNext]_allVars => FirstVersionStays'
    <2>1. CASE UNCHANGED vars
        BY <2>1 DEF FirstVersionStays, vars
    <2>2. QED
        BY <2>1, WritersKeepFirstVersion DEF SystemNext, allVars
<1>3. TransactionInv /\ ReadInv /\ FirstVersionStays /\ ReadKindVersionIsFirst
        /\ [SystemNext]_allVars => ReadKindVersionIsFirst'
    <2> SUFFICES ASSUME TransactionInv, ReadInv, FirstVersionStays, ReadKindVersionIsFirst,
                        [SystemNext]_allVars, NEW d \in Readers,
                        reads'[d] # None, reads'[d].result = "ok"
                 PROVE  generations'[<<reads'[d].object.uuid, 1>>].kindversion
                            = reads'[d].object.kindversion
        BY DEF ReadKindVersionIsFirst
    <2>1. CASE reads'[d] = reads[d] /\ [Next]_vars
        <3>1. PICK u \in UUIDs : \E h \in 1..Latest(u) :
                u = reads[d].object.uuid /\ h = reads[d].object.generation
            BY <2>1 DEF ReadInv, KnownIsStored
        <3>2. 1 \in 1..Latest(u)
            BY <3>1, LatestType
        <3>3. generations'[<<u, 1>>] = generations[<<u, 1>>]
            BY <2>1, <3>2, LatestIsStored, StoredIsKept
        <3>4. QED
            BY <2>1, <3>1, <3>3 DEF ReadKindVersionIsFirst
    <2>2. CASE UNCHANGED vars /\ ReturnsObject(d)
        <3>1. /\ found[d].uuid \in UUIDs /\ Matches(found[d].uuid, sel[d])
              /\ reads'[d].object.uuid = found[d].uuid
              /\ reads'[d].object.kindversion = sel[d].kindversion
            BY <2>2 DEF ReturnsObject, ReadInv, ReadTypeOK
        <3>2. QED
            BY <2>2, <3>1 DEF Matches, FirstVersionStays, vars
    <2>3. QED
        BY <2>1, <2>2, ReadKinds DEF ReturnsNothing
<1>4. QED
    BY <1>1, <1>2, <1>3, ReadsAreSteady, WritersAreIsolated, PTL DEF System

=============================================================================
