------------------------- MODULE ObjectStore_proofs -------------------------
(***************************************************************************)
(* Proofs about ObjectStore, for every set of callers, objects, kinds and  *)
(* requests and every bound.                                               *)
(***************************************************************************)
EXTENDS ObjectStore, TLAPS

(* Requests and the rows made from them. *)

\* A request names rows of the right types, and leaves room for one generation.
LEMMA RequestType ==
    ASSUME NEW r \in Requests
    PROVE  /\ r # None
           /\ r \in WriteRequests
           /\ r.uuid \in UUIDs
           /\ r.kindversion \in KindVersions
           /\ r.domain \in Domains \union {None}
           /\ r.generation \in Nat
           /\ r.generation \in 0..(MaxGeneration - 1)
           /\ r.generation + 1 \in Generations
           /\ 1 \in Generations
           /\ QualifiedName(r) \in QualifiedNames
           /\ GenerationKey(r) \in UUIDs \X Generations
           /\ GenerationKey(r) = <<r.uuid, r.generation + 1>>
<1>1. r \in WriteRequests /\ r # None
    BY RequestsAssumption, NoneAssumption
<1>2. r.generation \in 0..(MaxGeneration - 1) /\ r.generation \in Nat
      /\ r.uuid \in UUIDs /\ r.kindversion \in KindVersions
      /\ r.domain \in Domains \union {None} /\ r.name \in Names
    BY <1>1, BoundsAssumption DEF WriteRequests
<1>3. r.generation + 1 \in Generations /\ 1 \in Generations
    BY <1>1, <1>2, BoundsAssumption DEF Generations
<1>4. KindOf[r.kindversion] \in Kinds
    BY <1>2, KindOfAssumption
<1>5. QualifiedName(r) \in QualifiedNames
    BY <1>2, <1>4 DEF QualifiedName, QualifiedNames
<1>6. QED
    BY <1>1, <1>2, <1>3, <1>5 DEF GenerationKey

\* A caller that is in a call has a request and a call number.
LEMMA ActiveType ==
    ASSUME TypeOK, NEW c \in Callers, pc[c] # "idle"
    PROVE  req[c] \in Requests /\ req[c] # None /\ write[c] \in Writes
BY DEF TypeOK

-----------------------------------------------------------------------------
(* Type correctness. *)

LEMMA InitTypeOK == Init => TypeOK
BY BoundsAssumption DEF Init, TypeOK, Statements, PendingWrites

LEMMA ReturnTypeOK ==
    ASSUME TypeOK, NEW c \in Callers, pc[c] # "idle", NEW result \in Results,
           Return(c, result)
    PROVE  /\ pc' \in [Callers -> Statements]
           /\ req' \in [Callers -> Requests \union {None}]
           /\ write' \in [Callers -> Writes \union {None}]
           /\ seen' \in [Callers -> ObjectRows \union {None}]
           /\ pending' \in [Callers -> SUBSET PendingWrites]
           /\ issued' \in 0..MaxWrites
           /\ answers' \subseteq Answers
           /\ \A d \in Callers : (pc'[d] = "idle" <=> req'[d] = None)
                              /\ (pc'[d] = "idle" <=> write'[d] = None)
<1>1. answers' \subseteq Answers
    BY ActiveType, RequestType DEF Return, Answers, TypeOK
<1>2. QED
    BY <1>1 DEF Return, TypeOK, Statements

LEMMA AbortTypeOK ==
    ASSUME TypeOK, NEW c \in Callers, pc[c] # "idle", NEW result \in Results,
           Abort(c, result)
    PROVE  TypeOK'
BY ReturnTypeOK DEF Abort, tables, TypeOK

LEMMA WroteTypeOK ==
    ASSUME TypeOK, NEW c \in Callers, pc[c] # "idle",
           NEW effect \in PendingWrites, NEW next \in Statements \ {"idle"},
           Wrote(c, effect, next)
    PROVE  TypeOK'
BY DEF Wrote, tables, TypeOK

\* What COMMIT writes are rows of the tables.
LEMMA CommittedType ==
    ASSUME TypeOK, PendingFollowsStatement, PendingIsNew,
           NEW c \in Callers, pc[c] = "commit"
    PROVE  /\ CommittedObjects(c) \in [UUIDs -> ObjectRows \union {None}]
           /\ CommittedNames(c) \in [UUIDs -> QualifiedNames \union {None}]
           /\ CommittedGenerations(c)
                \in [UUIDs \X Generations -> GenerationRows \union {None}]
<1> DEFINE r == req[c]
<1>1. r \in Requests /\ write[c] \in Writes
    BY ActiveType
<1>2. [kindversion |-> r.kindversion, spec |-> write[c]] \in GenerationRows
    BY <1>1, RequestType DEF GenerationRows
<1>3. [kindversion |-> r.kindversion, domain |-> r.domain, generation |-> 1] \in ObjectRows
    BY <1>1, RequestType DEF ObjectRows
<1>4. ASSUME "row" \in pending[c]
      PROVE  [objects[r.uuid] EXCEPT !.generation = r.generation + 1] \in ObjectRows
    <2>1. objects[r.uuid] \in ObjectRows
        BY <1>1, <1>4, RequestType DEF PendingIsNew, TypeOK
    <2>2. QED
        BY <2>1, <1>1, RequestType DEF ObjectRows
<1>5. CommittedObjects(c) \in [UUIDs -> ObjectRows \union {None}]
    BY <1>1, <1>3, <1>4, RequestType DEF CommittedObjects, TypeOK
<1>6. CommittedNames(c) \in [UUIDs -> QualifiedNames \union {None}]
    BY <1>1, RequestType DEF CommittedNames, TypeOK
<1>7. CommittedGenerations(c)
                \in [UUIDs \X Generations -> GenerationRows \union {None}]
    BY <1>1, <1>2, RequestType DEF CommittedGenerations, TypeOK
<1>8. QED
    BY <1>5, <1>6, <1>7

-----------------------------------------------------------------------------
(* The invariant of the open transactions, action by action. *)

LEMMA InitTransactionInv == Init => TransactionInv
<1> SUFFICES ASSUME Init PROVE TransactionInv
    OBVIOUS
<1>1. TypeOK
    BY InitTypeOK
<1>2. GenerationsContiguous
    BY BoundsAssumption DEF Init, GenerationsContiguous, Latest, Generations
<1>3. NamesIdentifyObjects
    BY DEF Init, NamesIdentifyObjects
<1>4. PendingFollowsStatement /\ KeysExclusive /\ PendingIsNew /\ SnapshotIsPast
    BY DEF Init, PendingFollowsStatement, KeysExclusive, PendingIsNew, SnapshotIsPast
<1>5. WritesAreFresh
    BY DEF Init, WritesAreFresh
<1>6. QED
    BY <1>1, <1>2, <1>3, <1>4, <1>5 DEF TransactionInv

\* The tables only change at COMMIT.
LEMMA UnchangedTables ==
    ASSUME GenerationsContiguous, NamesIdentifyObjects, UNCHANGED tables
    PROVE  GenerationsContiguous' /\ NamesIdentifyObjects'
BY DEF tables, GenerationsContiguous, NamesIdentifyObjects, Latest

\* A call that makes room for the next one: it returns without touching the tables.
LEMMA AbortInv ==
    ASSUME TransactionInv, NEW c \in Callers, pc[c] # "idle",
           NEW result \in Results, Abort(c, result)
    PROVE  TransactionInv'
<1> USE DEF TransactionInv
<1>1. TypeOK'
    BY AbortTypeOK
<1>2. GenerationsContiguous' /\ NamesIdentifyObjects'
    BY UnchangedTables DEF Abort
<1>3. PendingFollowsStatement'
    BY DEF PendingFollowsStatement, Abort, Return, TypeOK
<1>4. KeysExclusive'
    BY DEF KeysExclusive, Abort, Return, TypeOK
<1>5. PendingIsNew'
    BY DEF PendingIsNew, NameTaken, Abort, Return, tables, TypeOK
<1>6. SnapshotIsPast'
    BY DEF SnapshotIsPast, Abort, Return, tables, TypeOK
<1>7. WritesAreFresh'
    BY ActiveType DEF WritesAreFresh, Abort, Return, tables, TypeOK, Writes
<1>8. QED
    BY <1>1, <1>2, <1>3, <1>4, <1>5, <1>6, <1>7

\* What a statement inside a transaction leaves alone, whichever it is.
LEMMA WroteInv ==
    ASSUME TransactionInv, NEW c \in Callers, pc[c] # "idle",
           NEW effect \in PendingWrites, NEW next \in Statements \ {"idle"},
           Wrote(c, effect, next)
    PROVE  /\ TypeOK'
           /\ SnapshotIsPast'
           /\ WritesAreFresh'
           /\ GenerationsContiguous'
           /\ NamesIdentifyObjects'
<1> USE DEF TransactionInv
<1>1. TypeOK'
    BY WroteTypeOK
<1>2. GenerationsContiguous' /\ NamesIdentifyObjects'
    BY UnchangedTables DEF Wrote
<1>3. SnapshotIsPast'
    BY DEF SnapshotIsPast, Wrote, tables
<1>4. WritesAreFresh'
    BY DEF WritesAreFresh, Wrote, tables, TypeOK
<1>5. QED
    BY <1>1, <1>2, <1>3, <1>4

LEMMA WriteInv ==
    ASSUME TransactionInv, NEW c \in Callers, Write(c)
    PROVE  TransactionInv'
<1> USE DEF TransactionInv
<1>1. PICK r \in Requests :
        /\ pc[c] = "idle"
        /\ issued < MaxWrites
        /\ issued' = issued + 1
        /\ write' = [write EXCEPT ![c] = issued + 1]
        /\ req' = [req EXCEPT ![c] = r]
        /\ pc' = [pc EXCEPT ![c] = FirstStatement(r)]
        /\ UNCHANGED <<tables, seen, pending, answers>>
    BY DEF Write
<1>2. FirstStatement(r) \in Statements \ {"idle"}
      /\ (FirstStatement(r) = "insert_object" => r.generation = 0)
      /\ (FirstStatement(r) = "select_object" => r.generation # 0)
      /\ FirstStatement(r) \in {"insert_object", "select_object"}
    BY DEF FirstStatement, Statements
<1>3. issued + 1 \in Writes /\ issued + 1 \in 0..MaxWrites /\ issued + 1 # None
    BY <1>1, BoundsAssumption, NoneAssumption DEF TypeOK, Writes
<1>4. pending[c] = {}
    BY <1>1 DEF PendingFollowsStatement
<1>5. TypeOK'
    BY <1>1, <1>2, <1>3, RequestType DEF TypeOK, tables
<1>6. GenerationsContiguous' /\ NamesIdentifyObjects'
    BY <1>1, UnchangedTables
<1>7. PendingFollowsStatement'
    BY <1>1, <1>2, <1>4 DEF PendingFollowsStatement, TypeOK
<1>8. KeysExclusive'
    BY <1>1, <1>4 DEF KeysExclusive, TypeOK
<1>9. PendingIsNew'
    BY <1>1, <1>4 DEF PendingIsNew, NameTaken, tables, TypeOK
<1>10. SnapshotIsPast'
    <2>1. seen[c] = None
        BY <1>1 DEF SnapshotIsPast, TypeOK
    <2>2. QED
        BY <1>1, <2>1 DEF SnapshotIsPast, tables, TypeOK
<1>11. WritesAreFresh'
    <2>1. \A a \in answers : a.write \in Nat /\ a.write <= issued
        BY DEF WritesAreFresh, TypeOK, Answers, Writes
    <2>2. \A key \in UUIDs \X Generations : generations[key] # None =>
            generations[key].spec \in Nat /\ generations[key].spec <= issued
        BY DEF WritesAreFresh, TypeOK, GenerationRows, Writes
    <2>3. issued \in Nat /\ issued' = issued + 1
        BY <1>1 DEF TypeOK
    <2>4. ASSUME NEW d \in Callers, pc'[d] # "idle"
          PROVE  /\ write'[d] \in 1..issued'
                 /\ \A a \in answers : a.write # write'[d]
                 /\ \A key \in UUIDs \X Generations :
                        generations[key] # None => generations[key].spec # write'[d]
                 /\ \A e \in Callers \ {d} : pc'[e] # "idle" => write'[e] # write'[d]
        <3>1. ASSUME NEW e \in Callers, e # c, pc'[e] # "idle"
              PROVE  pc[e] # "idle" /\ write'[e] = write[e] /\ write[e] \in 1..issued
            BY <3>1, <1>1 DEF WritesAreFresh, TypeOK
        <3>2. CASE d = c
            BY <3>1, <3>2, <2>1, <2>2, <2>3, <1>1 DEF TypeOK
        <3>3. CASE d # c
            <4>1. \A e \in Callers \ {d} : pc'[e] # "idle" => write'[e] # write'[d]
                BY <3>1, <3>3, <2>3, <2>4, <1>1 DEF WritesAreFresh, TypeOK
            <4>2. QED
                BY <4>1, <3>1, <3>3, <2>3, <2>4 DEF WritesAreFresh
        <3>4. QED
            BY <3>2, <3>3
    <2>5. answers' = answers /\ generations' = generations
        BY <1>1 DEF tables
    <2>6. (\A a \in answers : a.write <= issued')
          /\ \A key \in UUIDs \X Generations :
                generations[key] # None => generations[key].spec <= issued'
        BY <2>1, <2>2, <2>3
    <2>7. QED
        BY <2>4, <2>5, <2>6 DEF WritesAreFresh
<1>12. QED
    BY <1>5, <1>6, <1>7, <1>8, <1>9, <1>10, <1>11

LEMMA RefuseWriteInv ==
    ASSUME TransactionInv, NEW c \in Callers, RefuseWrite(c)
    PROVE  TransactionInv'
<1> USE DEF TransactionInv
<1>1. PICK r \in Requests :
        /\ issued < MaxWrites
        /\ issued' = issued + 1
        /\ answers' = answers \union
             {[write |-> issued + 1, uuid |-> r.uuid,
               generation |-> r.generation, result |-> "DomainRequired"]}
        /\ UNCHANGED <<tables, pc, req, write, seen, pending>>
    BY DEF RefuseWrite
<1>2. issued \in Nat /\ issued + 1 \in Writes /\ issued + 1 \in 0..MaxWrites
    BY <1>1, BoundsAssumption DEF TypeOK, Writes
<1>3. TypeOK'
    BY <1>1, <1>2, RequestType DEF TypeOK, tables, Answers, Results
<1>4. GenerationsContiguous' /\ NamesIdentifyObjects'
    BY <1>1, UnchangedTables
<1>5. PendingFollowsStatement' /\ KeysExclusive'
    BY <1>1 DEF PendingFollowsStatement, KeysExclusive
<1>6. PendingIsNew' /\ SnapshotIsPast'
    BY <1>1 DEF PendingIsNew, SnapshotIsPast, NameTaken, tables
<1>7. WritesAreFresh'
    <2>1. \A a \in answers' : a.write = issued + 1 \/ a \in answers
        BY <1>1
    <2>2. \A a \in answers : a.write \in Nat
        BY DEF TypeOK, Answers, Writes
    <2>3. \A key \in UUIDs \X Generations :
            generations[key] # None => generations[key].spec \in Nat
        BY DEF TypeOK, GenerationRows, Writes
    <2>4. \A d \in Callers : pc[d] # "idle" => write[d] # issued + 1 /\ write[d] \in 1..issued'
        BY <1>1, <1>2 DEF WritesAreFresh
    <2>5. QED
        BY <1>1, <1>2, <2>1, <2>2, <2>3, <2>4 DEF WritesAreFresh, tables
<1>8. QED
    BY <1>3, <1>4, <1>5, <1>6, <1>7

LEMMA InsertObjectInv ==
    ASSUME TransactionInv, NEW c \in Callers, InsertObject(c)
    PROVE  TransactionInv'
<1> USE DEF TransactionInv
<1>1. pc[c] = "insert_object" /\ pending[c] = {} /\ req[c].generation = 0
    BY DEF InsertObject, PendingFollowsStatement
<1>2. CASE Abort(c, "ExpectedNotToExist")
    BY <1>1, <1>2, AbortInv DEF Results
<1>3. CASE ~ UUIDTaken(req[c].uuid) /\ Wrote(c, "object", "insert_name")
    <2>1. pending' = [pending EXCEPT ![c] = {"object"}]
          /\ pc' = [pc EXCEPT ![c] = "insert_name"]
          /\ UNCHANGED <<tables, req, write, seen, issued, answers>>
        BY <1>1, <1>3 DEF Wrote, TypeOK
    <2>2. /\ TypeOK' /\ SnapshotIsPast' /\ WritesAreFresh'
          /\ GenerationsContiguous' /\ NamesIdentifyObjects'
        BY <1>1, <1>3, WroteInv DEF PendingWrites, Statements
    <2>3. PendingFollowsStatement'
        BY <1>1, <2>1 DEF PendingFollowsStatement, TypeOK
    <2>4. KeysExclusive'
        BY <2>1 DEF KeysExclusive, InsertObject, HoldsUUID, TypeOK
    <2>5. PendingIsNew'
        BY <1>3, <2>1 DEF PendingIsNew, UUIDTaken, NameTaken, tables, TypeOK
    <2>6. QED
        BY <2>2, <2>3, <2>4, <2>5
<1>4. QED
    BY <1>2, <1>3 DEF InsertObject

LEMMA InsertNameInv ==
    ASSUME TransactionInv, NEW c \in Callers, InsertName(c)
    PROVE  TransactionInv'
<1> USE DEF TransactionInv
<1>1. pc[c] = "insert_name" /\ pending[c] = {"object"} /\ req[c].generation = 0
    BY DEF InsertName, PendingFollowsStatement
<1>2. CASE Abort(c, "DuplicateName")
    BY <1>1, <1>2, AbortInv DEF Results
<1>3. CASE ~ NameTaken(QualifiedName(req[c])) /\ Wrote(c, "name", "insert_generation")
    <2>1. pending' = [pending EXCEPT ![c] = {"object", "name"}]
          /\ pc' = [pc EXCEPT ![c] = "insert_generation"]
          /\ UNCHANGED <<tables, req, write, seen, issued, answers>>
        BY <1>1, <1>3 DEF Wrote, TypeOK
    <2>2. /\ TypeOK' /\ SnapshotIsPast' /\ WritesAreFresh'
          /\ GenerationsContiguous' /\ NamesIdentifyObjects'
        BY <1>1, <1>3, WroteInv DEF PendingWrites, Statements
    <2>3. PendingFollowsStatement'
        BY <1>1, <2>1 DEF PendingFollowsStatement, TypeOK
    <2>4. KeysExclusive'
        BY <1>1, <2>1 DEF KeysExclusive, InsertName, HoldsName, TypeOK
    <2>5. PendingIsNew'
        BY <1>1, <1>3, <2>1 DEF PendingIsNew, NameTaken, tables, TypeOK
    <2>6. QED
        BY <2>2, <2>3, <2>4, <2>5
<1>4. QED
    BY <1>2, <1>3 DEF InsertName

LEMMA SelectObjectInv ==
    ASSUME TransactionInv, NEW c \in Callers, SelectObject(c)
    PROVE  TransactionInv'
<1> USE DEF TransactionInv
<1>1. pc[c] = "select_object" /\ pending[c] = {} /\ req[c].generation # 0
    BY DEF SelectObject, PendingFollowsStatement
<1>2. req[c] \in Requests /\ req[c] # None /\ req[c].uuid \in UUIDs
    BY <1>1, ActiveType, RequestType
<1>3. CASE Abort(c, "ExpectedToExist")
    BY <1>1, <1>3, AbortInv DEF Results
<1>4. CASE /\ objects[req[c].uuid] # None
           /\ seen' = [seen EXCEPT ![c] = objects[req[c].uuid]]
           /\ pc' = [pc EXCEPT ![c] = "insert_generation"]
           /\ UNCHANGED <<tables, req, write, pending, issued, answers>>
    <2>1. TypeOK'
        BY <1>1, <1>2, <1>4 DEF TypeOK, Statements, tables
    <2>2. GenerationsContiguous' /\ NamesIdentifyObjects'
        BY <1>4, UnchangedTables
    <2>3. PendingFollowsStatement'
        BY <1>1, <1>4 DEF PendingFollowsStatement, TypeOK
    <2>4. KeysExclusive' /\ PendingIsNew'
        BY <1>4 DEF KeysExclusive, PendingIsNew, NameTaken, tables
    <2>5. SnapshotIsPast'
        <3>1. objects[req[c].uuid].generation \in Nat
            BY <1>2, <1>4 DEF TypeOK, ObjectRows, Generations
        <3>2. QED
            BY <1>2, <1>4, <3>1 DEF SnapshotIsPast, tables, TypeOK
    <2>6. WritesAreFresh'
        BY <1>1, <1>4 DEF WritesAreFresh, tables, TypeOK
    <2>7. QED
        BY <2>1, <2>2, <2>3, <2>4, <2>5, <2>6
<1>5. QED
    BY <1>3, <1>4 DEF SelectObject

LEMMA InsertGenerationInv ==
    ASSUME TransactionInv, NEW c \in Callers, InsertGeneration(c)
    PROVE  TransactionInv'
<1> USE DEF TransactionInv
<1> DEFINE next == IF req[c].generation = 0 THEN "commit" ELSE "update_object"
<1>1. pc[c] = "insert_generation"
      /\ (\/ req[c].generation = 0 /\ pending[c] = {"object", "name"}
          \/ req[c].generation # 0 /\ pending[c] = {} /\ seen[c] # None)
    BY DEF InsertGeneration, PendingFollowsStatement
<1>2. CASE Abort(c, "Conflict")
    BY <1>1, <1>2, AbortInv DEF Results
<1>3. CASE ~ GenerationTaken(GenerationKey(req[c])) /\ Wrote(c, "generation", next)
    <2>1. /\ pending' = [pending EXCEPT ![c] = pending[c] \union {"generation"}]
          /\ pc' = [pc EXCEPT ![c] = next]
          /\ UNCHANGED <<tables, req, write, seen, issued, answers>>
        BY <1>1, <1>3 DEF Wrote, TypeOK
    <2>2. /\ TypeOK' /\ SnapshotIsPast' /\ WritesAreFresh'
          /\ GenerationsContiguous' /\ NamesIdentifyObjects'
        BY <1>1, <1>3, WroteInv DEF PendingWrites, Statements
    <2>3. PendingFollowsStatement'
        BY <1>1, <2>1 DEF PendingFollowsStatement, TypeOK
    <2>4. KeysExclusive'
        BY <1>1, <2>1 DEF KeysExclusive, InsertGeneration, HoldsGeneration, TypeOK
    <2>5. PendingIsNew'
        BY <1>1, <1>3, <2>1 DEF PendingIsNew, GenerationTaken, NameTaken, tables, TypeOK
    <2>6. QED
        BY <2>2, <2>3, <2>4, <2>5
<1>4. QED
    BY <1>2, <1>3 DEF InsertGeneration


LEMMA UpdateObjectInv ==
    ASSUME TransactionInv, NEW c \in Callers, UpdateObject(c)
    PROVE  TransactionInv'
<1> USE DEF TransactionInv
<1>1. pc[c] = "update_object" /\ req[c].generation # 0
      /\ pending[c] = {"generation"} /\ seen[c] # None
    BY DEF UpdateObject, PendingFollowsStatement
<1>2. req[c] \in Requests /\ req[c].uuid \in UUIDs
    BY <1>1, ActiveType, RequestType
<1>3. CASE /\ ~ UpdateMatches(c)
           /\ pc' = [pc EXCEPT ![c] = "rollback"]
           /\ UNCHANGED <<tables, req, write, seen, pending, issued, answers>>
    <2>1. TypeOK'
        BY <1>1, <1>3 DEF TypeOK, Statements, tables
    <2>2. GenerationsContiguous' /\ NamesIdentifyObjects'
        BY <1>3, UnchangedTables
    <2>3. PendingFollowsStatement'
        BY <1>1, <1>3 DEF PendingFollowsStatement, UpdateMatches, TypeOK
    <2>4. KeysExclusive' /\ PendingIsNew' /\ SnapshotIsPast'
        BY <1>3 DEF KeysExclusive, PendingIsNew, SnapshotIsPast, NameTaken, tables
    <2>5. WritesAreFresh'
        BY <1>1, <1>3 DEF WritesAreFresh, tables, TypeOK
    <2>6. QED
        BY <2>1, <2>2, <2>3, <2>4, <2>5
<1>4. CASE Abort(c, "Internal")
    BY <1>1, <1>4, AbortInv DEF Results
<1>5. CASE UpdateMatches(c) /\ ~ SnapshotIsStale(c) /\ Wrote(c, "row", "commit")
    <2>1. /\ pending' = [pending EXCEPT ![c] = {"generation", "row"}]
          /\ pc' = [pc EXCEPT ![c] = "commit"]
          /\ UNCHANGED <<tables, req, write, seen, issued, answers>>
        BY <1>1, <1>5 DEF Wrote, TypeOK
    <2>2. /\ TypeOK' /\ SnapshotIsPast' /\ WritesAreFresh'
          /\ GenerationsContiguous' /\ NamesIdentifyObjects'
        BY <1>1, <1>5, WroteInv DEF PendingWrites, Statements
    <2>3. PendingFollowsStatement'
        BY <1>1, <2>1 DEF PendingFollowsStatement, TypeOK
    <2>4. KeysExclusive'
        BY <1>1, <2>1 DEF KeysExclusive, TypeOK
    <2>5. objects[req[c].uuid] # None
          /\ objects[req[c].uuid].generation = req[c].generation
        BY <1>1, <1>5 DEF SnapshotIsStale, UpdateMatches
    <2>6. PendingIsNew'
        BY <1>1, <2>1, <2>5 DEF PendingIsNew, NameTaken, tables, TypeOK
    <2>7. QED
        BY <2>2, <2>3, <2>4, <2>6
<1>6. QED
    BY <1>3, <1>4, <1>5 DEF UpdateObject

LEMMA RollbackInv ==
    ASSUME TransactionInv, NEW c \in Callers, Rollback(c)
    PROVE  TransactionInv'
BY AbortInv DEF Rollback, Results

LEMMA FailInv ==
    ASSUME TransactionInv, NEW c \in Callers, Fail(c)
    PROVE  TransactionInv'
BY AbortInv DEF Fail, FailureResult, Results

-----------------------------------------------------------------------------
(* COMMIT. *)

\* COMMIT stores one new generation, the one after the latest, under the object's
\* own uuid, and leaves the rows of all other objects alone.
LEMMA CommitEffect ==
    ASSUME TransactionInv, NEW c \in Callers, Commit(c)
    PROVE  LET u == req[c].uuid
               key == GenerationKey(req[c])
               row == [kindversion |-> req[c].kindversion, spec |-> write[c]]
           IN
           /\ pc[c] = "commit"
           /\ req[c] \in Requests /\ write[c] \in Writes
           /\ Latest(u) = req[c].generation
           /\ generations[key] = None
           /\ generations' = [generations EXCEPT ![key] = row]
           /\ objects'[u] # None
           /\ objects'[u].generation = req[c].generation + 1
           /\ \A v \in UUIDs \ {u} : objects'[v] = objects[v] /\ names'[v] = names[v]
           /\ \/ /\ req[c].generation = 0
                 /\ pending[c] = {"object", "name", "generation"}
                 /\ objects[u] = None
                 /\ ~ NameTaken(QualifiedName(req[c]))
                 /\ names' = [names EXCEPT ![u] = QualifiedName(req[c])]
                 /\ objects'[u].kindversion = req[c].kindversion
                 /\ objects'[u].domain = req[c].domain
              \/ /\ req[c].generation # 0
                 /\ pending[c] = {"generation", "row"}
                 /\ objects[u] # None
                 /\ names' = names
                 /\ objects'[u].kindversion = objects[u].kindversion
                 /\ objects'[u].domain = objects[u].domain
           /\ objects' \in [UUIDs -> ObjectRows \union {None}]
           /\ names' \in [UUIDs -> QualifiedNames \union {None}]
           /\ generations' \in [UUIDs \X Generations -> GenerationRows \union {None}]
<1> USE DEF TransactionInv
<1> DEFINE u == req[c].uuid
           key == GenerationKey(req[c])
           row == [kindversion |-> req[c].kindversion, spec |-> write[c]]
<1>1. pc[c] = "commit" /\ objects' = CommittedObjects(c)
      /\ names' = CommittedNames(c) /\ generations' = CommittedGenerations(c)
    BY DEF Commit
<1>2. req[c] \in Requests /\ req[c] # None /\ write[c] \in Writes
    BY <1>1, ActiveType
<1>3. /\ u \in UUIDs /\ req[c].generation \in Nat
      /\ key \in UUIDs \X Generations
      /\ QualifiedName(req[c]) \in QualifiedNames
      /\ 1 \in Generations /\ req[c].generation + 1 \in Generations
    BY <1>2, RequestType
<1>4. /\ objects' \in [UUIDs -> ObjectRows \union {None}]
      /\ names' \in [UUIDs -> QualifiedNames \union {None}]
      /\ generations' \in [UUIDs \X Generations -> GenerationRows \union {None}]
    BY <1>1, CommittedType
<1>5. CASE req[c].generation = 0 /\ pending[c] = {"object", "name", "generation"}
    <2>1. objects[u] = None /\ ~ NameTaken(QualifiedName(req[c]))
          /\ generations[key] = None
        BY <1>5 DEF PendingIsNew
    <2>2. names' = [names EXCEPT ![u] = QualifiedName(req[c])]
          /\ generations' = [generations EXCEPT ![key] = row]
        BY <1>1, <1>5 DEF CommittedNames, CommittedGenerations
    <2>3. objects' = [objects EXCEPT ![u] = [kindversion |-> req[c].kindversion,
                                domain |-> req[c].domain, generation |-> 1]]
        BY <1>1, <1>5 DEF CommittedObjects
    <2>4. objects'[u] = [kindversion |-> req[c].kindversion,
                         domain |-> req[c].domain, generation |-> 1]
          /\ \A v \in UUIDs \ {u} : objects'[v] = objects[v] /\ names'[v] = names[v]
        BY <2>2, <2>3, <1>3 DEF TypeOK
    <2>5. objects'[u] \in ObjectRows
        BY <2>4, <1>2, <1>3, RequestType DEF ObjectRows
    <2>6. QED
        BY <1>1, <1>2, <1>4, <1>5, <2>1, <2>2, <2>4, <2>5, NoneAssumption DEF Latest
<1>6. CASE req[c].generation # 0 /\ pending[c] = {"generation", "row"}
    <2>1. objects[u] # None /\ objects[u].generation = req[c].generation
          /\ generations[key] = None
        BY <1>6 DEF PendingIsNew
    <2>2. names' = names /\ generations' = [generations EXCEPT ![key] = row]
        BY <1>1, <1>6 DEF CommittedNames, CommittedGenerations
    <2>3. objects' = [objects EXCEPT ![u] =
                        [objects[u] EXCEPT !.generation = req[c].generation + 1]]
        BY <1>1, <1>6 DEF CommittedObjects
    <2>4. objects[u] \in ObjectRows
        BY <2>1, <1>3 DEF TypeOK
    <2>5. /\ objects'[u] \in ObjectRows
          /\ objects'[u].generation = req[c].generation + 1
          /\ objects'[u].kindversion = objects[u].kindversion /\ objects'[u].domain = objects[u].domain
        BY <2>3, <2>4, <1>3 DEF ObjectRows, TypeOK
    <2>6. \A v \in UUIDs \ {u} : objects'[v] = objects[v] /\ names'[v] = names[v]
        BY <2>2, <2>3, <1>3 DEF TypeOK
    <2>7. QED
        BY <1>1, <1>2, <1>4, <1>6, <2>1, <2>2, <2>5, <2>6, NoneAssumption DEF Latest
<1>7. QED
    BY <1>1, <1>5, <1>6 DEF PendingFollowsStatement

\* The caller that committed holds nothing any more; the others keep what they hold.
LEMMA ReturnLeavesOthers ==
    ASSUME TransactionInv, NEW c \in Callers, pc[c] # "idle",
           NEW result \in Results, Return(c, result)
    PROVE  /\ pc'[c] = "idle" /\ pending'[c] = {} /\ seen'[c] = None
           /\ \A d \in Callers \ {c} :
                /\ pc'[d] = pc[d] /\ req'[d] = req[d] /\ write'[d] = write[d]
                /\ seen'[d] = seen[d] /\ pending'[d] = pending[d]
           /\ issued' = issued
           /\ answers' = answers \union
                {[write |-> write[c], uuid |-> req[c].uuid,
                  generation |-> req[c].generation, result |-> result]}
BY DEF Return, TransactionInv, TypeOK

LEMMA CommitInv ==
    ASSUME TransactionInv, NEW c \in Callers, Commit(c)
    PROVE  TransactionInv'
<1> USE DEF TransactionInv
<1> DEFINE u == req[c].uuid
           key == GenerationKey(req[c])
           row == [kindversion |-> req[c].kindversion, spec |-> write[c]]
<1>1. PICK result \in {"ok", "Internal"} : Return(c, result)
    BY DEF Commit
<1>2. /\ pc[c] = "commit"
      /\ req[c] \in Requests /\ write[c] \in Writes
      /\ Latest(u) = req[c].generation
      /\ generations[key] = None
      /\ generations' = [generations EXCEPT ![key] = row]
      /\ objects'[u] # None
      /\ objects'[u].generation = req[c].generation + 1
      /\ \A v \in UUIDs \ {u} : objects'[v] = objects[v] /\ names'[v] = names[v]
    BY CommitEffect
<1>3. \/ /\ req[c].generation = 0
         /\ pending[c] = {"object", "name", "generation"}
         /\ objects[u] = None
         /\ ~ NameTaken(QualifiedName(req[c]))
         /\ names' = [names EXCEPT ![u] = QualifiedName(req[c])]
      \/ /\ req[c].generation # 0
         /\ pending[c] = {"generation", "row"}
         /\ objects[u] # None
         /\ names' = names
    BY CommitEffect
<1>4. /\ objects' \in [UUIDs -> ObjectRows \union {None}]
      /\ names' \in [UUIDs -> QualifiedNames \union {None}]
      /\ generations' \in [UUIDs \X Generations -> GenerationRows \union {None}]
    BY CommitEffect
<1>5. /\ pc'[c] = "idle" /\ pending'[c] = {} /\ seen'[c] = None
      /\ \A d \in Callers \ {c} :
           /\ pc'[d] = pc[d] /\ req'[d] = req[d] /\ write'[d] = write[d]
           /\ seen'[d] = seen[d] /\ pending'[d] = pending[d]
      /\ issued' = issued
      /\ answers' = answers \union
           {[write |-> write[c], uuid |-> u,
             generation |-> req[c].generation, result |-> result]}
    BY <1>1, <1>2, ReturnLeavesOthers DEF Results
<1>6. /\ u \in UUIDs /\ req[c].generation \in Nat
      /\ key \in UUIDs \X Generations /\ key = <<u, req[c].generation + 1>>
      /\ QualifiedName(req[c]) \in QualifiedNames
      /\ req[c].generation + 1 \in Generations
    BY <1>2, RequestType
<1>7. generations'[key] = row /\ row \in GenerationRows /\ row # None
      /\ \A k \in (UUIDs \X Generations) \ {key} : generations'[k] = generations[k]
    <2>1. row \in GenerationRows
        BY <1>2, RequestType DEF GenerationRows
    <2>2. QED
        BY <1>2, <1>6, <2>1, NoneAssumption DEF TypeOK
<1>8. TypeOK'
    BY <1>1, <1>2, <1>4, ReturnTypeOK DEF TypeOK, Results
<1>9. GenerationsContiguous'
    <2> SUFFICES ASSUME NEW v \in UUIDs, NEW g \in Generations
                 PROVE  generations'[<<v, g>>] # None <=> g <= Latest(v)'
        BY DEF GenerationsContiguous
    <2>1. CASE v # u
        BY <1>2, <1>6, <1>7, <2>1 DEF GenerationsContiguous, Latest
    <2>2. CASE v = u
        <3>1. Latest(v)' = req[c].generation + 1
            BY <1>2, <2>2 DEF Latest
        <3>2. g \in Nat
            BY DEF Generations
        <3>3. CASE g = req[c].generation + 1
            BY <1>6, <1>7, <2>2, <3>1, <3>2, <3>3
        <3>4. CASE g # req[c].generation + 1
            <4>1. generations'[<<v, g>>] = generations[<<v, g>>]
                BY <1>6, <1>7, <2>2, <3>4
            <4>2. generations[<<v, g>>] # None <=> g <= req[c].generation
                BY <1>2, <2>2 DEF GenerationsContiguous
            <4>3. QED
                BY <4>1, <4>2, <3>1, <3>2, <3>4, <1>6
        <3>5. QED
            BY <3>3, <3>4
    <2>3. QED
        BY <2>1, <2>2
<1>10. NamesIdentifyObjects'
    <2>1. CASE names' = names /\ objects[u] # None
        <3>1. \A v \in UUIDs : objects'[v] = None <=> objects[v] = None
            BY <1>2, <2>1
        <3>2. QED
            BY <2>1, <3>1 DEF NamesIdentifyObjects
    <2>2. CASE /\ ~ NameTaken(QualifiedName(req[c]))
               /\ names' = [names EXCEPT ![u] = QualifiedName(req[c])]
        <3>1. names'[u] = QualifiedName(req[c]) /\ QualifiedName(req[c]) # None
            BY <1>6, <2>2, NoneAssumption DEF TypeOK
        <3>2. \A v \in UUIDs : names[v] # QualifiedName(req[c])
            BY <2>2 DEF NameTaken
        <3>3. QED
            BY <1>2, <3>1, <3>2 DEF NamesIdentifyObjects
    <2>3. QED
        BY <1>3, <2>1, <2>2
<1>11. PendingFollowsStatement'
    BY <1>5 DEF PendingFollowsStatement
<1>12. KeysExclusive'
    BY <1>5 DEF KeysExclusive
<1>13. PendingIsNew'
    <2> SUFFICES ASSUME NEW d \in Callers, d # c
                 PROVE  /\ "object" \in pending[d] => objects'[req[d].uuid] = None
                        /\ "name" \in pending[d] => ~ NameTaken(QualifiedName(req[d]))'
                        /\ "generation" \in pending[d]
                             => generations'[GenerationKey(req[d])] = None
                        /\ "row" \in pending[d] =>
                             /\ objects'[req[d].uuid] # None
                             /\ objects'[req[d].uuid].generation = req[d].generation
        BY <1>5 DEF PendingIsNew, NameTaken
    <2> CASE pc[d] # "idle"
        <3>1. req[d] \in Requests /\ req[d].uuid \in UUIDs
              /\ GenerationKey(req[d]) \in UUIDs \X Generations
              /\ GenerationKey(req[d]) = <<req[d].uuid, req[d].generation + 1>>
              /\ req[d].generation \in Nat
            BY ActiveType, RequestType
        <3>2. "object" \in pending[d] => objects'[req[d].uuid] = None
            <4>1. ASSUME "object" \in pending[d] PROVE req[d].uuid # u
                BY <4>1, <1>3 DEF KeysExclusive, PendingIsNew
            <4>2. QED
                BY <4>1, <3>1, <1>2 DEF PendingIsNew
        <3>3. "name" \in pending[d] => ~ NameTaken(QualifiedName(req[d]))'
            <4>1. ASSUME "name" \in pending[d], NEW v \in UUIDs
                  PROVE  names'[v] # QualifiedName(req[d])
                <5>1. names[v] # QualifiedName(req[d])
                    BY <4>1 DEF PendingIsNew, NameTaken
                <5>2. "name" \in pending[c] => QualifiedName(req[d]) # QualifiedName(req[c])
                    BY <4>1 DEF KeysExclusive
                <5>3. QED
                    BY <5>1, <5>2, <1>3, <1>6 DEF TypeOK
            <4>2. QED
                BY <4>1, <1>5 DEF NameTaken
        <3>4. "generation" \in pending[d] => generations'[GenerationKey(req[d])] = None
            <4>1. "generation" \in pending[d] => GenerationKey(req[d]) # key
                BY <1>3 DEF KeysExclusive
            <4>2. QED
                BY <4>1, <3>1, <1>7 DEF PendingIsNew
        <3>5. ASSUME "row" \in pending[d]
              PROVE  /\ objects'[req[d].uuid] # None
                     /\ objects'[req[d].uuid].generation = req[d].generation
            <4>1. "generation" \in pending[d]
                BY <3>5 DEF PendingFollowsStatement, TypeOK, Statements
            <4>2. GenerationKey(req[d]) # key
                BY <4>1, <1>3 DEF KeysExclusive
            <4>3. objects[req[d].uuid] # None
                  /\ objects[req[d].uuid].generation = req[d].generation
                BY <3>5 DEF PendingIsNew
            <4>4. req[d].uuid # u
                BY <1>2, <1>6, <3>1, <4>2, <4>3 DEF Latest
            <4>5. QED
                BY <4>3, <4>4, <3>1, <1>2
        <3>6. QED
            BY <3>2, <3>3, <3>4, <3>5
    <2> CASE pc[d] = "idle"
        BY DEF PendingFollowsStatement
    <2> QED
        OBVIOUS
<1>14. SnapshotIsPast'
    <2> SUFFICES ASSUME NEW d \in Callers, d # c, seen[d] # None
                 PROVE  /\ req[d] # None
                        /\ objects'[req[d].uuid] # None
                        /\ seen[d].generation <= objects'[req[d].uuid].generation
                        /\ seen[d].generation = objects'[req[d].uuid].generation
                            => seen[d] = objects'[req[d].uuid]
        BY <1>5 DEF SnapshotIsPast
    <2>1. /\ req[d] # None
          /\ objects[req[d].uuid] # None
          /\ seen[d].generation <= objects[req[d].uuid].generation
          /\ seen[d].generation = objects[req[d].uuid].generation
                => seen[d] = objects[req[d].uuid]
        BY DEF SnapshotIsPast
    <2>2. req[d].uuid \in UUIDs /\ seen[d].generation \in Nat
        BY <2>1, RequestType DEF TypeOK, ObjectRows, Generations
    <2>3. CASE req[d].uuid = u
        BY <2>1, <2>2, <2>3, <1>2, <1>6 DEF Latest
    <2>4. CASE req[d].uuid # u
        BY <2>1, <2>2, <2>4, <1>2
    <2>5. QED
        BY <2>3, <2>4
<1>15. WritesAreFresh'
    <2>1. write[c] \in 1..issued /\ issued \in Nat
        BY <1>2 DEF WritesAreFresh, TypeOK
    <2>2. \A a \in answers' : a \in answers \/ a.write = write[c]
        BY <1>5
    <2>3. \A k \in UUIDs \X Generations :
            generations'[k] # None =>
                \/ generations[k] # None /\ generations'[k] = generations[k]
                \/ generations'[k].spec = write[c]
        BY <1>7
    <2>4. ASSUME NEW d \in Callers, pc'[d] # "idle"
          PROVE  d # c /\ pc[d] # "idle" /\ write'[d] = write[d] /\ write[d] # write[c]
        BY <2>4, <1>2, <1>5 DEF WritesAreFresh
    <2>5. ASSUME NEW d \in Callers, pc'[d] # "idle"
          PROVE  /\ write'[d] \in 1..issued'
                 /\ \A a \in answers' : a.write # write'[d]
                 /\ \A k \in UUIDs \X Generations :
                        generations'[k] # None => generations'[k].spec # write'[d]
                 /\ \A e \in Callers \ {d} : pc'[e] # "idle" => write'[e] # write'[d]
        BY <2>2, <2>3, <2>4, <2>5, <1>5 DEF WritesAreFresh
    <2>6. (\A a \in answers' : a.write <= issued')
          /\ \A k \in UUIDs \X Generations :
                generations'[k] # None => generations'[k].spec <= issued'
        BY <2>1, <2>2, <2>3, <1>5 DEF WritesAreFresh
    <2>7. QED
        BY <2>5, <2>6 DEF WritesAreFresh
<1>16. QED
    BY <1>8, <1>9, <1>10, <1>11, <1>12, <1>13, <1>14, <1>15

LEMMA StutterInv == TransactionInv /\ UNCHANGED vars => TransactionInv'
<1> SUFFICES ASSUME TransactionInv, UNCHANGED vars PROVE TransactionInv'
    OBVIOUS
<1> USE DEF TransactionInv, vars
<1>1. TypeOK'
    BY DEF TypeOK
<1>2. PendingFollowsStatement' /\ KeysExclusive' /\ SnapshotIsPast'
    BY DEF PendingFollowsStatement, KeysExclusive, SnapshotIsPast
<1>3. PendingIsNew' /\ WritesAreFresh'
    BY DEF PendingIsNew, NameTaken, WritesAreFresh
<1>4. GenerationsContiguous' /\ NamesIdentifyObjects'
    BY UnchangedTables DEF tables
<1>5. QED
    BY <1>1, <1>2, <1>3, <1>4

-----------------------------------------------------------------------------
(* The theorems. *)

\* Every step keeps it.
LEMMA NextTransactionInv == TransactionInv /\ [Next]_vars => TransactionInv'
<1> SUFFICES ASSUME TransactionInv, [Next]_vars PROVE TransactionInv'
    OBVIOUS
<1>1. ASSUME NEW c \in Callers, Write(c) PROVE TransactionInv'
    BY <1>1, WriteInv
<1>2. ASSUME NEW c \in Callers, RefuseWrite(c) PROVE TransactionInv'
    BY <1>2, RefuseWriteInv
<1>3. ASSUME NEW c \in Callers, InsertObject(c) PROVE TransactionInv'
    BY <1>3, InsertObjectInv
<1>4. ASSUME NEW c \in Callers, InsertName(c) PROVE TransactionInv'
    BY <1>4, InsertNameInv
<1>5. ASSUME NEW c \in Callers, SelectObject(c) PROVE TransactionInv'
    BY <1>5, SelectObjectInv
<1>6. ASSUME NEW c \in Callers, InsertGeneration(c) PROVE TransactionInv'
    BY <1>6, InsertGenerationInv
<1>7. ASSUME NEW c \in Callers, UpdateObject(c) PROVE TransactionInv'
    BY <1>7, UpdateObjectInv
<1>8. ASSUME NEW c \in Callers, Rollback(c) PROVE TransactionInv'
    BY <1>8, RollbackInv
<1>9. ASSUME NEW c \in Callers, Commit(c) PROVE TransactionInv'
    BY <1>9, CommitInv
<1>10. ASSUME NEW c \in Callers, Fail(c) PROVE TransactionInv'
    BY <1>10, FailInv
<1>11. CASE UNCHANGED vars
    BY <1>11, StutterInv
<1>12. QED
    BY <1>1, <1>2, <1>3, <1>4, <1>5, <1>6, <1>7, <1>8, <1>9, <1>10, <1>11
       DEF Next, Step

\* The invariant of the open transactions holds at every statement boundary of
\* every interleaving of dbInsertFirst and dbInsertGeneration.
THEOREM TransactionsAreIsolated == Spec => []TransactionInv
<1>1. Init => TransactionInv
    BY InitTransactionInv
<1>2. TransactionInv /\ [Next]_vars => TransactionInv'
    BY NextTransactionInv
<1>3. QED
    BY <1>1, <1>2, PTL DEF Spec

\* object_generations holds exactly the generations up to objects.generation.
THEOREM GenerationsAreContiguous == Spec => []GenerationsContiguous
<1>1. TransactionInv => GenerationsContiguous
    BY DEF TransactionInv
<1>2. QED
    BY <1>1, TransactionsAreIsolated, PTL

\* The writes that a transaction has pending say how far it has got.
LEMMA WaitsGoUp ==
    ASSUME TransactionInv
    PROVE  WaitsAreOrdered
<1> SUFFICES ASSUME NEW c \in Callers, NEW d \in Callers, WaitsFor(c, d)
             PROVE  Position(pc[c]) < Position(pc[d])
    BY DEF WaitsAreOrdered
<1>1. pc[d] \in Statements
    BY DEF TransactionInv, TypeOK
<1>2. CASE pc[c] = "insert_object" /\ "object" \in pending[d]
    <2>1. pc[d] \in {"insert_name", "insert_generation", "commit"}
        BY <1>1, <1>2 DEF TransactionInv, PendingFollowsStatement, Statements
    <2>2. QED
        BY <1>2, <2>1 DEF Position
<1>3. CASE pc[c] = "insert_name" /\ "name" \in pending[d]
    <2>1. pc[d] \in {"insert_generation", "commit"}
        BY <1>1, <1>3 DEF TransactionInv, PendingFollowsStatement, Statements
    <2>2. QED
        BY <1>3, <2>1 DEF Position
<1>4. CASE pc[c] = "insert_generation" /\ "generation" \in pending[d]
    <2>1. pc[d] \in {"update_object", "rollback", "commit"}
        BY <1>1, <1>4 DEF TransactionInv, PendingFollowsStatement, Statements
    <2>2. QED
        BY <1>4, <2>1 DEF Position
<1>5. CASE pc[c] = "update_object" /\ "row" \in pending[d]
    <2>1. pc[d] = "commit"
        BY <1>1, <1>5 DEF TransactionInv, PendingFollowsStatement, Statements
    <2>2. QED
        BY <1>5, <2>1 DEF Position
<1>6. QED
    BY <1>2, <1>3, <1>4, <1>5
       DEF WaitsFor, HoldsUUID, HoldsName, HoldsGeneration, HoldsRow

\* Whoever waits has not got as far as the transaction that it waits for.
THEOREM WaitsStayOrdered == Spec => []WaitsAreOrdered
<1>1. TransactionInv => WaitsAreOrdered
    BY WaitsGoUp
<1>2. QED
    BY <1>1, TransactionsAreIsolated, PTL

\* Of any callers one can go on, whatever the requests: the transactions of the object
\* store never deadlock.  The furthest of them waits for none of the others.
THEOREM WritersNeverDeadlock == Spec => []NobodyWaitsInACircle
<1>1. TransactionInv => NobodyWaitsInACircle
    <2> SUFFICES ASSUME TransactionInv, NEW S \in SUBSET Callers, S # {},
                        \A c \in S : \E d \in S : WaitsFor(c, d)
                 PROVE  FALSE
        BY DEF NobodyWaitsInACircle
    <2> DEFINE P(c) == Position(pc[c])
    <2>1. \A c \in S : P(c) \in 0..5
        <3> SUFFICES ASSUME NEW c \in S PROVE P(c) \in 0..5
            OBVIOUS
        <3>1. pc[c] \in Statements
            BY DEF TransactionInv, TypeOK
        <3>2. QED
            BY <3>1 DEF Statements, Position
    <2>2. \A c \in S : \E d \in S : P(c) < P(d)
        BY WaitsGoUp DEF WaitsAreOrdered
    <2> HIDE DEF P
    <2>3. \A c \in S : P(c) \in 0..4
        BY <2>1, <2>2
    <2>4. \A c \in S : P(c) \in 0..3
        BY <2>2, <2>3
    <2>5. \A c \in S : P(c) \in 0..2
        BY <2>2, <2>4
    <2>6. \A c \in S : P(c) \in 0..1
        BY <2>2, <2>5
    <2>7. \A c \in S : P(c) \in 0..0
        BY <2>2, <2>6
    <2>8. QED
        BY <2>2, <2>7
<1>2. QED
    BY <1>1, TransactionsAreIsolated, PTL

\* Objects and name rows correspond one to one, and no two objects share a name in
\* one scope.
THEOREM NamesAreUnique == Spec => []NamesIdentifyObjects
<1>1. TransactionInv => NamesIdentifyObjects
    BY DEF TransactionInv
<1>2. QED
    BY <1>1, TransactionsAreIsolated, PTL

\* The UPDATE of dbInsertGeneration never fails with SQLSTATE 40001: holding the next
\* generation's key while it is free means that nobody replaced the row.
THEOREM UpdatesNeverSerialize == Spec => []UpdateNeverSerializes
<1>1. TransactionInv => UpdateNeverSerializes
    <2> SUFFICES ASSUME TransactionInv, NEW c \in Callers, pc[c] = "update_object",
                        UpdateMatches(c)
                 PROVE  ~ SnapshotIsStale(c)
        BY DEF UpdateNeverSerializes
    <2> USE DEF TransactionInv
    <2> DEFINE u == req[c].uuid
    <2>1. pending[c] = {"generation"} /\ seen[c] # None
        BY DEF PendingFollowsStatement
    <2>2. /\ objects[u] # None
          /\ seen[c].generation <= objects[u].generation
          /\ seen[c].generation = objects[u].generation => seen[c] = objects[u]
        BY <2>1 DEF SnapshotIsPast
    <2>3. req[c] \in Requests /\ u \in UUIDs /\ req[c].generation \in Nat
          /\ req[c].generation + 1 \in Generations
          /\ GenerationKey(req[c]) = <<u, req[c].generation + 1>>
        BY ActiveType, RequestType
    <2>4. generations[<<u, req[c].generation + 1>>] = None
        BY <2>1, <2>3 DEF PendingIsNew
    <2>5. objects[u].generation \in Nat
        BY <2>2, <2>3 DEF TypeOK, ObjectRows, Generations
    <2>6. ~ (req[c].generation + 1 <= objects[u].generation)
        BY <2>2, <2>3, <2>4 DEF GenerationsContiguous, Latest
    <2>7. seen[c].generation = req[c].generation
        BY DEF UpdateMatches
    <2>8. QED
        BY <2>2, <2>3, <2>5, <2>6, <2>7 DEF SnapshotIsStale
<1>2. QED
    BY <1>1, TransactionsAreIsolated, PTL

-----------------------------------------------------------------------------
(* What the answers say about the tables. *)

\* Every step is one of four for the tables and the answers.
LEMMA StepKinds ==
    ASSUME TransactionInv, [Next]_vars
    PROVE  \/ UNCHANGED <<tables, answers>>
           \/ \E c \in Callers : RefuseWrite(c)
           \/ \E c \in Callers, result \in Results \ {"ok"} :
                pc[c] # "idle" /\ Abort(c, result)
           \/ \E c \in Callers : Commit(c)
<1>1. ASSUME NEW c \in Callers, Write(c) PROVE UNCHANGED <<tables, answers>>
    BY <1>1 DEF Write
<1>2. ASSUME NEW c \in Callers,
             InsertObject(c) \/ InsertName(c) \/ SelectObject(c) \/ InsertGeneration(c)
      PROVE  \/ UNCHANGED <<tables, answers>>
             \/ \E result \in Results \ {"ok"} : pc[c] # "idle" /\ Abort(c, result)
    BY <1>2 DEF InsertObject, InsertName, SelectObject, InsertGeneration, Wrote, Results
<1>3. ASSUME NEW c \in Callers, UpdateObject(c) \/ Rollback(c) \/ Fail(c)
      PROVE  \/ UNCHANGED <<tables, answers>>
             \/ \E result \in Results \ {"ok"} : pc[c] # "idle" /\ Abort(c, result)
    BY <1>3 DEF UpdateObject, Rollback, Fail, FailureResult, Wrote, Results
<1>4. CASE UNCHANGED vars
    BY <1>4 DEF vars, tables
<1>5. QED
    BY <1>1, <1>2, <1>3, <1>4 DEF Next, Step

\* A stored generation is never touched again: COMMIT only fills empty keys.
LEMMA StoredIsKept ==
    ASSUME TransactionInv, [Next]_vars,
           NEW key \in UUIDs \X Generations, generations[key] # None
    PROVE  generations'[key] = generations[key]
<1>1. ASSUME NEW c \in Callers, Commit(c)
      PROVE  generations'[key] = generations[key]
    <2>1. generations[GenerationKey(req[c])] = None
        BY <1>1, CommitEffect
    <2>2. \E row : generations' = [generations EXCEPT ![GenerationKey(req[c])] = row]
        BY <1>1, CommitEffect
    <2>3. QED
        BY <2>1, <2>2 DEF TransactionInv, TypeOK
<1>2. QED
    BY <1>1, StepKinds DEF RefuseWrite, Abort, tables

\* An answered key is a key of the table.
LEMMA AnswerType ==
    ASSUME TypeOK, NEW a \in answers
    PROVE  <<a.uuid, a.generation + 1>> \in UUIDs \X Generations
BY BoundsAssumption DEF TypeOK, Answers, Generations

\* Every step keeps the acknowledged writes, and adds only stored ones.
LEMMA NextAcknowledged ==
    TransactionInv /\ AcknowledgedIsStored /\ [Next]_vars => AcknowledgedIsStored'
<1> SUFFICES ASSUME TransactionInv, AcknowledgedIsStored, [Next]_vars,
                    NEW a \in answers', a.result = "ok"
             PROVE  /\ generations'[<<a.uuid, a.generation + 1>>] # None
                    /\ generations'[<<a.uuid, a.generation + 1>>].spec = a.write
    BY DEF AcknowledgedIsStored
<1>1. CASE a \in answers
    BY <1>1, AnswerType, StoredIsKept DEF AcknowledgedIsStored, TransactionInv
<1>2. CASE a \notin answers
    <2>1. ASSUME NEW c \in Callers, NEW result \in Results \ {"ok"},
                 Abort(c, result)
          PROVE  FALSE
        BY <1>2, <2>1 DEF Abort, Return
    <2>2. PICK c \in Callers : Commit(c)
        BY <1>2, <2>1, StepKinds DEF RefuseWrite
    <2>3. a.write = write[c] /\ a.uuid = req[c].uuid
          /\ a.generation = req[c].generation
        BY <1>2, <2>2 DEF Commit, Return
    <2>4. /\ req[c] \in Requests /\ write[c] \in Writes
          /\ generations' = [generations EXCEPT ![GenerationKey(req[c])] =
                [kindversion |-> req[c].kindversion, spec |-> write[c]]]
          /\ generations' \in [UUIDs \X Generations -> GenerationRows \union {None}]
        BY <2>2, CommitEffect
    <2>5. <<a.uuid, a.generation + 1>> = GenerationKey(req[c])
          /\ GenerationKey(req[c]) \in UUIDs \X Generations
        BY <2>3, <2>4, RequestType
    <2>6. generations'[GenerationKey(req[c])] =
                [kindversion |-> req[c].kindversion, spec |-> write[c]]
        BY <2>4, <2>5 DEF TransactionInv, TypeOK
    <2>7. [kindversion |-> req[c].kindversion, spec |-> write[c]] \in GenerationRows
        BY <2>4, RequestType DEF GenerationRows
    <2>8. QED
        BY <2>3, <2>5, <2>6, <2>7, NoneAssumption
<1>3. QED
    BY <1>1, <1>2

\* A write reported as successful is stored under the generation it was told, for good.
THEOREM AcknowledgedWritesAreStored == Spec => []AcknowledgedIsStored
<1>1. Init => AcknowledgedIsStored
    BY DEF Init, AcknowledgedIsStored
<1>2. TransactionInv /\ AcknowledgedIsStored /\ [Next]_vars => AcknowledgedIsStored'
    BY NextAcknowledged
<1>3. QED
    BY <1>1, <1>2, TransactionsAreIsolated, PTL DEF Spec

\* No two writers that expect one generation are both told that they have written it.
THEOREM UpdatesAreNotLost == Spec => []OneWriterWins
<1>1. AcknowledgedIsStored => OneWriterWins
    BY DEF AcknowledgedIsStored, OneWriterWins
<1>2. QED
    BY <1>1, AcknowledgedWritesAreStored, PTL

\* A write refused with a definite error left no row behind, and never will.
THEOREM RefusedWritesLeaveNoTrace == Spec => []RefusedLeavesNoTrace
<1>1. Init => RefusedLeavesNoTrace
    BY DEF Init, RefusedLeavesNoTrace
<1>2. TransactionInv /\ RefusedLeavesNoTrace /\ [Next]_vars => RefusedLeavesNoTrace'
    <2> SUFFICES ASSUME TransactionInv, RefusedLeavesNoTrace, [Next]_vars,
                        NEW a \in answers', a.result \notin {"ok", "Internal"},
                        NEW key \in UUIDs \X Generations, generations'[key] # None
                 PROVE  generations'[key].spec # a.write
        BY DEF RefusedLeavesNoTrace
    <2>1. ASSUME NEW c \in Callers, Commit(c)
          PROVE  generations'[key].spec # a.write
        <3>1. a \in answers /\ pc[c] = "commit"
            BY <2>1 DEF Commit, Return
        <3>2. a.write # write[c]
            BY <3>1 DEF TransactionInv, WritesAreFresh
        <3>3. generations' = [generations EXCEPT ![GenerationKey(req[c])] =
                    [kindversion |-> req[c].kindversion, spec |-> write[c]]]
            BY <2>1, CommitEffect
        <3>4. CASE key = GenerationKey(req[c])
            BY <3>2, <3>3, <3>4 DEF TransactionInv, TypeOK
        <3>5. CASE key # GenerationKey(req[c])
            BY <3>1, <3>3, <3>5 DEF RefusedLeavesNoTrace, TransactionInv, TypeOK
        <3>6. QED
            BY <3>4, <3>5
    <2>2. ASSUME NEW c \in Callers, NEW result \in Results,
                 pc[c] # "idle", Abort(c, result)
          PROVE  generations'[key].spec # a.write
        <3>1. generations' = generations /\ (a \in answers \/ a.write = write[c])
            BY <2>2 DEF Abort, Return, tables
        <3>2. QED
            BY <2>2, <3>1 DEF RefusedLeavesNoTrace, TransactionInv, WritesAreFresh
    <2>3. ASSUME NEW c \in Callers, RefuseWrite(c)
          PROVE  generations'[key].spec # a.write
        <3>1. generations' = generations /\ (a \in answers \/ a.write = issued + 1)
            BY <2>3 DEF RefuseWrite, tables
        <3>2. generations[key].spec \in Nat /\ generations[key].spec <= issued
            BY <3>1 DEF TransactionInv, TypeOK, WritesAreFresh, GenerationRows, Writes
        <3>3. issued \in Nat
            BY DEF TransactionInv, TypeOK
        <3>4. QED
            BY <3>1, <3>2, <3>3 DEF RefusedLeavesNoTrace
    <2>4. CASE UNCHANGED <<tables, answers>>
        BY <2>4 DEF RefusedLeavesNoTrace, tables
    <2>5. QED
        BY <2>1, <2>2, <2>3, <2>4, StepKinds
<1>3. QED
    BY <1>1, <1>2, TransactionsAreIsolated, PTL DEF Spec

-----------------------------------------------------------------------------
(* What a step may never do. *)

\* No step renames an object, rewrites a stored generation, takes one back or skips one.
THEOREM HistoryNeverChanges == Spec => HistoryIsImmutable
<1> DEFINE Kept ==
        /\ \A u \in UUIDs :
            /\ names[u] # None => names'[u] = names[u]
            /\ Latest(u)' \in {Latest(u), Latest(u) + 1}
        /\ \A key \in UUIDs \X Generations :
            generations[key] # None => generations'[key] = generations[key]
<1>1. TransactionInv /\ [Next]_vars => [Kept]_vars
    <2> SUFFICES ASSUME TransactionInv, [Next]_vars PROVE Kept
        OBVIOUS
    <2>1. \A key \in UUIDs \X Generations :
            generations[key] # None => generations'[key] = generations[key]
        BY StoredIsKept
    <2>2. ASSUME NEW c \in Callers, Commit(c), NEW u \in UUIDs
          PROVE  /\ names[u] # None => names'[u] = names[u]
                 /\ Latest(u)' \in {Latest(u), Latest(u) + 1}
        <3>1. CASE u = req[c].uuid
            <4>1. /\ objects'[u] # None
                  /\ objects'[u].generation = req[c].generation + 1
                  /\ Latest(u) = req[c].generation
                BY <2>2, <3>1, CommitEffect
            <4>2. names[u] # None => names'[u] = names[u]
                <5>1. names' = names \/ objects[u] = None
                    BY <2>2, <3>1, CommitEffect
                <5>2. QED
                    BY <5>1 DEF TransactionInv, NamesIdentifyObjects
            <4>3. QED
                BY <4>1, <4>2 DEF Latest
        <3>2. CASE u # req[c].uuid
            <4>1. objects'[u] = objects[u] /\ names'[u] = names[u]
                BY <2>2, <3>2, CommitEffect
            <4>2. QED
                BY <4>1 DEF Latest
        <3>3. QED
            BY <3>1, <3>2
    <2>3. ASSUME UNCHANGED tables, NEW u \in UUIDs
          PROVE  /\ names[u] # None => names'[u] = names[u]
                 /\ Latest(u)' \in {Latest(u), Latest(u) + 1}
        BY <2>3 DEF tables, Latest
    <2>4. QED
        BY <2>1, <2>2, <2>3, StepKinds DEF RefuseWrite, Abort
<1>2. QED
    BY <1>1, TransactionsAreIsolated, PTL DEF Spec, HistoryIsImmutable

\* A call that is answered ErrConflict did lose a race: its object was not at the
\* generation it expected.
THEOREM ConflictsAreReal == Spec => ConflictIsReal
<1> DEFINE Real ==
        \A c \in Callers :
            /\ req[c] # None
            /\ \E a \in answers' \ answers : a.write = write[c] /\ a.result = "Conflict"
            => \/ Latest(req[c].uuid) # req[c].generation
               \/ seen[c] # None /\ seen[c].generation # req[c].generation
<1>1. TransactionInv /\ [Next]_vars => [Real]_vars
    <2> SUFFICES ASSUME TransactionInv, [Next]_vars,
                        NEW c \in Callers, req[c] # None,
                        NEW a \in answers' \ answers,
                        a.write = write[c], a.result = "Conflict"
                 PROVE  \/ Latest(req[c].uuid) # req[c].generation
                        \/ seen[c] # None /\ seen[c].generation # req[c].generation
        OBVIOUS
    <2> USE DEF TransactionInv
    <2>1. pc[c] # "idle"
        BY DEF TypeOK
    <2>2. ASSUME NEW d \in Callers, pc[d] # "idle", NEW result \in Results,
                 Return(d, result)
          PROVE  d = c /\ result = "Conflict"
        BY <2>1, <2>2 DEF Return, WritesAreFresh
    <2>3. InsertGeneration(c) \/ Rollback(c)
        <3>1. ASSUME NEW d \in Callers, Write(d) \/ RefuseWrite(d) PROVE FALSE
            BY <3>1 DEF Write, RefuseWrite
        <3>2. ASSUME NEW d \in Callers,
                     InsertObject(d) \/ InsertName(d) \/ SelectObject(d)
              PROVE  FALSE
            BY <3>2, <2>2 DEF InsertObject, InsertName, SelectObject, Wrote, Abort, Results
        <3>3. ASSUME NEW d \in Callers, UpdateObject(d) \/ Fail(d) PROVE FALSE
            BY <3>3, <2>2 DEF UpdateObject, Fail, FailureResult, Wrote, Abort, Results
        <3>4. ASSUME NEW d \in Callers, Commit(d) PROVE FALSE
            BY <3>4, <2>2 DEF Commit, Results
        <3>5. ASSUME NEW d \in Callers, InsertGeneration(d) \/ Rollback(d) PROVE d = c
            BY <3>5, <2>2 DEF InsertGeneration, Rollback, Wrote, Abort, Results
        <3>6. CASE UNCHANGED vars
            BY <3>6 DEF vars
        <3>7. QED
            BY <3>1, <3>2, <3>3, <3>4, <3>5, <3>6 DEF Next, Step
    <2>4. CASE Rollback(c)
        BY <2>4 DEF Rollback, PendingFollowsStatement
    <2>5. CASE InsertGeneration(c)
        <3>1. generations[GenerationKey(req[c])] # None
            BY <2>5 DEF InsertGeneration, Wrote, GenerationTaken
        <3>2. /\ req[c].uuid \in UUIDs /\ req[c].generation \in Nat
              /\ req[c].generation + 1 \in Generations
              /\ GenerationKey(req[c]) = <<req[c].uuid, req[c].generation + 1>>
            BY <2>1, ActiveType, RequestType
        <3>3. req[c].generation + 1 <= Latest(req[c].uuid)
            BY <3>1, <3>2 DEF GenerationsContiguous
        <3>4. Latest(req[c].uuid) \in Nat
            BY <3>2 DEF Latest, TypeOK, ObjectRows, Generations
        <3>5. QED
            BY <3>2, <3>3, <3>4
    <2>6. QED
        BY <2>3, <2>4, <2>5
<1>2. QED
    BY <1>1, TransactionsAreIsolated, PTL DEF Spec, ConflictIsReal

-----------------------------------------------------------------------------
(* Refinement. *)

LEMMA CreateIsNext ==
    ASSUME NEW u \in UUIDs, NEW n \in QualifiedNames, NEW v \in KindVersions,
           NEW w \in Writes, Promise!Create(u, n, v, w)
    PROVE  Promise!Next
BY DEF Promise!Next

LEMMA ReplaceIsNext ==
    ASSUME NEW u \in UUIDs, NEW expected \in Generations, NEW v \in KindVersions,
           NEW w \in Writes, Promise!Replace(u, expected, v, w)
    PROVE  Promise!Next
BY DEF Promise!Next

\* COMMIT is the one step that the abstract specification sees.
LEMMA CommitIsAtomic ==
    ASSUME TransactionInv, NEW c \in Callers, Commit(c)
    PROVE  Promise!Next
<1> PICK r \in Requests, w \in Writes : r = req[c] /\ w = write[c]
    BY CommitEffect
<1> DEFINE u == r.uuid
           acked == {a.write : a \in {b \in answers : b.result = "ok"}}
<1>1. /\ Latest(u) = r.generation
      /\ generations' = [generations EXCEPT ![GenerationKey(r)] =
            [kindversion |-> r.kindversion, spec |-> w]]
      /\ objects'[u] # None /\ objects'[u].generation = r.generation + 1
      /\ \A v \in UUIDs \ {u} : objects'[v] = objects[v]
    BY CommitEffect
<1>2. \/ /\ r.generation = 0
         /\ ~ NameTaken(QualifiedName(r))
         /\ names' = [names EXCEPT ![u] = QualifiedName(r)]
      \/ r.generation # 0 /\ names' = names
    BY CommitEffect
<1>3. /\ u \in UUIDs /\ r.kindversion \in KindVersions
      /\ r.generation \in Nat /\ r.generation + 1 \in Generations
      /\ GenerationKey(r) = <<u, r.generation + 1>>
      /\ QualifiedName(r) \in QualifiedNames
    BY <1>1, RequestType
<1>4. [v \in UUIDs |-> Latest(v)]' =
            [[v \in UUIDs |-> Latest(v)] EXCEPT ![u] = @ + 1]
    BY <1>1, <1>3 DEF Latest
<1>5. acked' \in {acked, acked \union {w}}
    <2>1. PICK result \in {"ok", "Internal"} : answers' = answers \union
             {[write |-> w, uuid |-> u,
               generation |-> r.generation, result |-> result]}
        BY DEF Commit, Return
    <2>2. CASE result = "ok"
        BY <2>1, <2>2
    <2>3. CASE result = "Internal"
        BY <2>1, <2>3
    <2>4. QED
        BY <2>2, <2>3
<1>6. Promise!Store(u, r.kindversion, w)
    BY <1>1, <1>3, <1>4, <1>5 DEF Promise!Store
<1>7. CASE r.generation = 0 /\ ~ NameTaken(QualifiedName(r))
           /\ names' = [names EXCEPT ![u] = QualifiedName(r)]
    <2>1. Promise!Create(u, QualifiedName(r), r.kindversion, w)
        BY <1>1, <1>3, <1>6, <1>7 DEF Promise!Create, NameTaken
    <2>2. QED
        BY <2>1, <1>1, <1>3, CreateIsNext
<1>8. CASE r.generation # 0 /\ names' = names
    <2>1. r.generation \in Generations
        BY <1>1, <1>8, RequestType, BoundsAssumption DEF Generations
    <2>2. Promise!Replace(u, r.generation, r.kindversion, w)
        BY <1>1, <1>3, <1>6, <1>8 DEF Promise!Replace
    <2>3. QED
        BY <2>1, <2>2, <1>1, <1>3, ReplaceIsNext
<1>9. QED
    BY <1>2, <1>7, <1>8

\* dbInsertFirst and dbInsertGeneration, run concurrently, look to every caller like
\* the single compare-and-set steps of VersionedObjects.
THEOREM StoreImplementsVersionedObjects == Spec => ImplementsVersionedObjects
<1>1. Init => Promise!Init
    BY DEF Init, Promise!Init, Latest
<1>2. TransactionInv /\ [Next]_vars => [Promise!Next]_Promise!absVars
    <2> SUFFICES ASSUME TransactionInv, [Next]_vars
                 PROVE  Promise!Next \/ UNCHANGED Promise!absVars
        OBVIOUS
    <2>1. ASSUME NEW c \in Callers, Commit(c) PROVE Promise!Next
        BY <2>1, CommitIsAtomic
    <2>2. ASSUME UNCHANGED tables,
                 {a.write : a \in {b \in answers : b.result = "ok"}}' =
                    {a.write : a \in {b \in answers : b.result = "ok"}}
          PROVE  UNCHANGED Promise!absVars
        BY <2>2 DEF Promise!absVars, tables, Latest
    <2>3. ASSUME NEW c \in Callers, NEW result \in Results \ {"ok"}, Abort(c, result)
          PROVE  UNCHANGED Promise!absVars
        <3>1. {b \in answers : b.result = "ok"}' = {b \in answers : b.result = "ok"}
            BY <2>3 DEF Abort, Return
        <3>2. QED
            BY <2>2, <2>3, <3>1 DEF Abort
    <2>4. ASSUME NEW c \in Callers, RefuseWrite(c) PROVE UNCHANGED Promise!absVars
        <3>1. {b \in answers : b.result = "ok"}' = {b \in answers : b.result = "ok"}
            BY <2>4 DEF RefuseWrite
        <3>2. QED
            BY <2>2, <2>4, <3>1 DEF RefuseWrite
    <2>5. CASE UNCHANGED <<tables, answers>>
        BY <2>2, <2>5
    <2>6. QED
        BY <2>1, <2>3, <2>4, <2>5, StepKinds
<1>3. QED
    BY <1>1, <1>2, TransactionsAreIsolated, PTL
       DEF Spec, ImplementsVersionedObjects, Promise!Spec

=============================================================================
