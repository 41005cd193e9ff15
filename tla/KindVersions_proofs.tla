------------------------ MODULE KindVersions_proofs ------------------------
(***************************************************************************)
(* Proofs about KindVersions, for every set of callers, kinds and versions, *)
(* every pool and every choice of caches.                                  *)
(***************************************************************************)
EXTENDS KindVersions, TLAPS

(* Data. *)

LEMMA NoneIsNothing ==
    /\ None \notin Schemas
    /\ None \notin UUIDs
    /\ None \notin Connections
    /\ None \notin Requests
BY NoneAssumption

LEMMA RequestKinds ==
    ASSUME NEW r \in Requests
    PROVE  /\ \/ r \in KindWrites \/ r \in KindReads
              \/ r \in VersionWrites \/ r \in VersionReads
           /\ r \in KindWrites => /\ r.op = "write_kind" /\ r.kind \in Kinds
                                  /\ r.uuid \in UUIDs
           /\ r \in KindReads => r.op = "read_kind" /\ r.kind \in Kinds
           /\ r \in VersionWrites => /\ r.op = "write_version" /\ r.kind \in Kinds
                                     /\ r.version \in Versions /\ r.schema \in Schemas
           /\ r \in VersionReads => /\ r.op = "read_version" /\ r.kind \in Kinds
                                    /\ r.version \in Versions
BY RequestsAssumption DEF KindWrites, KindReads, VersionWrites, VersionReads

LEMMA InitVersionInv == Init => VersionInv
<1> SUFFICES ASSUME Init PROVE VersionInv
    OBVIOUS
<1> USE DEF Init
<1>1. VersionTypeOK
    BY CallsAssumption DEF VersionTypeOK, Steps
<1>2. ConnectionsServeOne
    BY NoneIsNothing DEF ConnectionsServeOne, InOuter
<1>3. \A k \in Kinds : PublishedOf(k) = {}
    BY DEF PublishedOf
<1>4. StepsFollow /\ CommitsExclude
    BY DEF StepsFollow, CommitsExclude, OfVersionWrite, OfVersionRead
<1>5. /\ CachesTellRows /\ SeriesStartsInitially /\ UUIDsIdentifyKinds
      /\ VersionsHaveKinds /\ AnswersAreTrue
    BY <1>3 DEF CachesTellRows, SeriesStartsInitially, UUIDsIdentifyKinds,
                VersionsHaveKinds, AnswersAreTrue
<1>6. QED
    BY <1>1, <1>2, <1>4, <1>5 DEF VersionInv

-----------------------------------------------------------------------------
(* What every step does to the tables, and what follows for a caller that  *)
(* does not take it.                                                       *)

\* The tables only grow: rows are never removed or changed.
TablesGrow ==
    /\ \A k \in Kinds : kinds[k] # None => kinds'[k] = kinds[k]
    /\ \A k \in Kinds, v \in Versions : kindversions[k][v] # None =>
            kindversions'[k][v] = kindversions[k][v]

\* The caller that takes a step, and nobody else.
OnlyMoves(c) == \A d \in Callers \ {c} :
    /\ pc'[d] = pc[d] /\ req'[d] = req[d] /\ reply'[d] = reply[d]
    /\ outer'[d] = outer[d] /\ nested'[d] = nested[d] /\ seen'[d] = seen[d]

LEMMA MovesAlone ==
    ASSUME VersionTypeOK, NEW c \in Callers, NEW step, NEW r, NEW error, NEW found,
           \/ Return(c, error, found)
           \/ EndExec(c, step)
           \/ Call(c, r, step)
           \/ Goto(c, step) /\ UNCHANGED <<req, reply, outer, nested, seen>>
    PROVE  OnlyMoves(c)
BY DEF VersionTypeOK, Return, EndExec, Call, Goto, OnlyMoves

Called(c) == KindWrite(c) \/ KindRead(c) \/ KindVersionWrite(c) \/ KindVersionRead(c)

\* A caller's own part of the invariant, which other callers' steps preserve.
OwnSteps(c) == StepsFollow!(c)
OwnAnswer(c) == AnswersAreTrue!(c)

LEMMA OthersKeepTheirs ==
    ASSUME VersionInv, VersionTypeOK', TablesGrow, NEW c \in Callers, OnlyMoves(c),
           \A d \in Callers \ {c} : pc[d] = "commit" => ~ Published(req[d])',
           \A d \in Callers \ {c} : pc[d] = "commit_kind" => ~ KindTaken(req[d])',
           OwnSteps(c)', OwnAnswer(c)'
    PROVE  StepsFollow' /\ AnswersAreTrue'
<1> USE DEF VersionInv
<1>1. ASSUME NEW d \in Callers \ {c}
      PROVE  OwnSteps(d)'
    <2>1. pc'[d] = pc[d] /\ req'[d] = req[d] /\ reply'[d] = reply[d] /\ seen'[d] = seen[d]
        BY DEF OnlyMoves
    <2>2. StepsFollow!(d)
        BY DEF StepsFollow
    <2>3. pc[d] \in {"insert", "commit"} => seen[d] \subseteq PublishedOf(req[d].kind)'
        <3> HAVE pc[d] \in {"insert", "commit"}
        <3>1. req[d].kind \in Kinds
            BY <2>2, RequestKinds DEF OfVersionWrite
        <3>2. QED
            BY <2>1, <2>2, <3>1 DEF TablesGrow, PublishedOf
    <2>4. FirstExpected(d)' <=> FirstExpected(d)
        BY <2>1 DEF FirstExpected
    <2>5. pc[d] \in OfVersionWrite \union OfVersionRead => kinds'[req[d].kind] # None
        <3> HAVE pc[d] \in OfVersionWrite \union OfVersionRead
        <3>1. req[d].kind \in Kinds /\ kinds[req[d].kind] # None
            BY <2>2, RequestKinds DEF OfVersionWrite, OfVersionRead
        <3>2. QED
            BY <3>1 DEF TablesGrow
    <2>6. QED
        BY <2>1, <2>2, <2>3, <2>4, <2>5 DEF OwnSteps
<1>2. ASSUME NEW d \in Callers \ {c}
      PROVE  OwnAnswer(d)'
    <2>1. pc'[d] = pc[d] /\ req'[d] = req[d] /\ reply'[d] = reply[d]
        BY DEF OnlyMoves
    <2> SUFFICES ASSUME pc[d] = "idle", reply[d] # None
                 PROVE  OwnAnswer(d)'
        BY <2>1 DEF OwnAnswer
    <2>2. req[d] \in Requests
        BY DEF StepsFollow
    <2>3. /\ req[d].kind \in Kinds
          /\ req[d].op \in {"write_version", "read_version"} => req[d].version \in Versions
          /\ req[d].op = "write_version" => req[d].schema # None
        BY <2>2, RequestKinds, NoneIsNothing
    <2>4. AnswersAreTrue!(d)!2!1
        BY DEF AnswersAreTrue
    <2>5. reply[d].error = "exists" => Published(req[d])'
        BY <2>1, <2>3, <2>4 DEF TablesGrow, Published, PublishedOf, KindTaken
    <2>6. reply[d].error = "duplicate" => KindTaken(req[d])'
        <3>1. \A k \in Kinds : kinds[k] = req[d].uuid /\ req[d].uuid # None =>
                kinds'[k] = req[d].uuid
            BY DEF TablesGrow
        <3>2. reply[d].error = "duplicate" => req[d].uuid # None
            BY <2>2, <2>4, RequestKinds, NoneIsNothing
        <3>3. QED
            BY <2>1, <2>3, <2>4, <3>1, <3>2 DEF TablesGrow, KindTaken
    <2>7. reply[d].error = "nil" /\ req[d].op \in {"write_kind", "read_kind"} =>
            kinds'[req[d].kind] = kinds[req[d].kind]
        <3>1. req[d].op = "write_kind" => req[d].uuid # None
            BY <2>2, RequestKinds, NoneIsNothing
        <3>2. QED
            BY <2>3, <2>4, <3>1 DEF TablesGrow
    <2>8. QED
        BY <2>1, <2>3, <2>4, <2>5, <2>6, <2>7 DEF OwnAnswer, TablesGrow
<1>3. QED
    BY <1>1, <1>2 DEF StepsFollow, AnswersAreTrue, OwnSteps, OwnAnswer

\* A caller takes or returns connections of its own.
LEMMA ConnectionsStayApart ==
    ASSUME VersionInv, VersionTypeOK', NEW c \in Callers, OnlyMoves(c),
           {outer'[c], nested'[c]} \subseteq {outer[c], nested[c], None} \union Free,
           outer'[c] # None <=> pc'[c] \in InOuter,
           nested'[c] # None <=> pc'[c] = "select_versions",
           outer'[c] # None => outer'[c] # nested'[c]
    PROVE  ConnectionsServeOne'
<1> USE DEF VersionInv
<1> SUFFICES ASSUME NEW d \in Callers
             PROVE  ConnectionsServeOne!(d)'
    BY DEF ConnectionsServeOne
<1>1. \A e \in Callers \ {c} : \A conn \in Connections :
        ~ (conn \in {outer'[c], nested'[c]} /\ conn \in {outer'[e], nested'[e]})
    BY NoneIsNothing DEF ConnectionsServeOne, Free, OnlyMoves
<1>2. CASE d = c
    BY <1>1, <1>2
<1>3. CASE d # c
    <2>1. ASSUME NEW e \in Callers \ {d}, NEW conn \in Connections
          PROVE  ~ (conn \in {outer'[d], nested'[d]} /\ conn \in {outer'[e], nested'[e]})
        BY <1>1, <1>3, <2>1 DEF ConnectionsServeOne, OnlyMoves
    <2>2. QED
        BY <1>3, <2>1 DEF ConnectionsServeOne, OnlyMoves
<1>4. QED
    BY <1>2, <1>3

\* A step that leaves the tables and the caches alone.
LEMMA QuietStep ==
    ASSUME VersionInv, UNCHANGED <<tables, caches>>, VersionTypeOK',
           NEW c \in Callers, OnlyMoves(c), ConnectionsServeOne',
           pc'[c] = "commit" => \A d \in Callers \ {c} : ~ HoldsVersion(d, req'[c]),
           pc'[c] = "commit_kind" => \A d \in Callers \ {c} : ~ HoldsKind(d, req'[c]),
           OwnSteps(c)', OwnAnswer(c)'
    PROVE  VersionInv'
<1> USE DEF VersionInv, tables, caches
<1>1. CachesTellRows' /\ SeriesStartsInitially' /\ UUIDsIdentifyKinds' /\ VersionsHaveKinds'
    BY DEF CachesTellRows, SeriesStartsInitially, UUIDsIdentifyKinds,
                VersionsHaveKinds, PublishedOf
<1>2. CommitsExclude'
    BY DEF CommitsExclude, HoldsVersion, HoldsKind, OnlyMoves
<1>3. TablesGrow
    BY DEF TablesGrow
<1>4. /\ \A d \in Callers \ {c} : pc[d] = "commit" => ~ Published(req[d])'
      /\ \A d \in Callers \ {c} : pc[d] = "commit_kind" => ~ KindTaken(req[d])'
    BY DEF StepsFollow, OnlyMoves, Published, PublishedOf, KindTaken
<1>5. QED
    BY <1>1, <1>2, <1>3, <1>4, OthersKeepTheirs

LEMMA ReturnInv ==
    ASSUME VersionInv, UNCHANGED <<tables, caches>>, NEW c \in Callers, pc[c] # "idle",
           NEW error \in Errors, NEW found \in Schemas \union UUIDs \union {None},
           Return(c, error, found),
           error = "nil" =>
                /\ found # None
                /\ \/ /\ req[c] \in VersionReads
                      /\ kindversions[req[c].kind][req[c].version] = found
                   \/ req[c] \in KindReads /\ kinds[req[c].kind] = found,
           error = "exists" => Published(req[c]),
           error = "duplicate" => req[c] \in KindWrites /\ KindTaken(req[c]),
           error = "first_expected" => req[c].version \notin InitialVersions
    PROVE  VersionInv'
<1> USE DEF VersionInv, tables, caches
<1>1. OnlyMoves(c)
    BY MovesAlone
<1>2. VersionTypeOK'
    BY DEF VersionTypeOK, Return, Goto, Steps, Replies
<1>3. /\ pc'[c] = "idle" /\ req'[c] = req[c] /\ outer'[c] = None /\ nested'[c] = None
      /\ seen'[c] = {} /\ reply'[c] = [error |-> error, found |-> found]
    BY DEF Return, Goto, VersionTypeOK
<1>4. ConnectionsServeOne'
    BY <1>1, <1>2, <1>3, ConnectionsStayApart DEF InOuter
<1>5. OwnSteps(c)'
    BY <1>3 DEF OwnSteps, StepsFollow, OfVersionWrite, OfVersionRead
<1>6. OwnAnswer(c)'
    <2>1. req[c] \in Requests
        BY DEF StepsFollow
    <2>2. /\ req[c] \in VersionReads => req[c].op = "read_version"
          /\ req[c] \in KindReads => req[c].op = "read_kind"
          /\ req[c] \in KindWrites => req[c].op = "write_kind"
        BY <2>1, RequestKinds
    <2>3. /\ Published(req[c])' <=> Published(req[c])
          /\ KindTaken(req[c])' <=> KindTaken(req[c])
        BY <1>3 DEF Published, PublishedOf, KindTaken
    <2>4. QED
        BY <1>3, <2>2, <2>3 DEF OwnAnswer
<1>7. QED
    BY <1>1, <1>2, <1>3, <1>4, <1>5, <1>6, QuietStep

-----------------------------------------------------------------------------
(* The steps. *)

LEMMA CallInv ==
    ASSUME VersionInv, NEW c \in Callers,
           Called(c)
    PROVE  VersionInv'
<1> USE DEF VersionInv
<1>1. PICK r \in Requests, step \in {"acquire_write_kind", "lookup_kind"} :
        /\ Call(c, r, step)
        /\ step = "acquire_write_kind" => r \in KindWrites
        /\ step = "lookup_kind" => r \in KindReads \union VersionWrites \union VersionReads
    <2>1. CASE KindWrite(c)
        BY <2>1 DEF KindWrite
    <2>2. CASE KindVersionWrite(c)
        BY <2>2 DEF KindVersionWrite
    <2>3. CASE KindVersionRead(c)
        BY <2>3 DEF KindVersionRead
    <2>4. CASE KindRead(c)
        BY <2>4 DEF KindRead
    <2>5. QED
        BY <2>1, <2>2, <2>3, <2>4 DEF Called
<1>2. /\ pc[c] = "idle" /\ calls < MaxCalls /\ calls' = calls + 1
      /\ req' = [req EXCEPT ![c] = r] /\ reply' = [reply EXCEPT ![c] = None]
      /\ pc' = [pc EXCEPT ![c] = step]
      /\ UNCHANGED <<kinds, kindversions, kindCache, versionCache, outer, nested, seen>>
    BY <1>1 DEF Call, Goto
<1>3. OnlyMoves(c)
    BY <1>1, MovesAlone
<1>4. VersionTypeOK'
    BY <1>2, CallsAssumption DEF VersionTypeOK, Steps, Waiting
<1>5. ConnectionsServeOne'
    BY <1>2, <1>3, <1>4, ConnectionsStayApart DEF ConnectionsServeOne, InOuter, VersionTypeOK
<1>6. OwnSteps(c)'
    BY <1>1, <1>2 DEF OwnSteps, StepsFollow, OfVersionWrite, OfVersionRead, VersionTypeOK
<1>7. OwnAnswer(c)'
    BY <1>2 DEF OwnAnswer, VersionTypeOK
<1>8. QED
    BY <1>2, <1>3, <1>4, <1>5, <1>6, <1>7, QuietStep DEF VersionTypeOK, tables, caches

LEMMA FailInv ==
    ASSUME VersionInv, NEW c \in Callers, Fail(c) \/ AcquireTimeout(c)
    PROVE  VersionInv'
<1>1. pc[c] # "idle" /\ Return(c, "internal", None) /\ UNCHANGED <<tables, caches>>
    BY DEF Fail, AcquireTimeout, Waiting
<1>2. QED
    BY <1>1, ReturnInv DEF Errors

LEMMA AcquireInv ==
    ASSUME VersionInv, NEW c \in Callers, AcquireOuter(c) \/ AcquireNested(c)
    PROVE  VersionInv'
<1> USE DEF VersionInv
<1>1. PICK conn \in Free, step \in Steps :
        /\ pc[c] \in Waiting
        /\ pc' = [pc EXCEPT ![c] = step]
        /\ UNCHANGED <<tables, caches, req, reply, seen, calls>>
        /\ \/ /\ pc[c] = "acquire_kind" /\ step = "select_kind"
           \/ /\ pc[c] = "acquire_write_kind" /\ step = "insert_kind"
           \/ /\ pc[c] = "acquire_write" /\ step = "acquire_nested"
           \/ /\ pc[c] = "acquire_version" /\ step = "select_version"
           \/ /\ pc[c] = "acquire_nested" /\ step = "select_versions"
        /\ \/ /\ pc[c] # "acquire_nested"
              /\ outer' = [outer EXCEPT ![c] = conn] /\ nested' = nested
           \/ /\ pc[c] = "acquire_nested"
              /\ nested' = [nested EXCEPT ![c] = conn] /\ outer' = outer
    <2>1. CASE AcquireOuter(c)
        <3>1. /\ AfterAcquire["acquire_kind"] = "select_kind"
              /\ AfterAcquire["acquire_write_kind"] = "insert_kind"
              /\ AfterAcquire["acquire_write"] = "acquire_nested"
              /\ AfterAcquire["acquire_version"] = "select_version"
            BY DEF AfterAcquire
        <3>2. PICK conn \in Free : outer' = [outer EXCEPT ![c] = conn]
            BY <2>1 DEF AcquireOuter
        <3> DEFINE step == AfterAcquire[pc[c]]
        <3>3. /\ pc[c] \in Waiting /\ pc[c] # "acquire_nested"
              /\ pc' = [pc EXCEPT ![c] = step]
              /\ UNCHANGED <<tables, caches, req, reply, nested, seen, calls>>
            BY <2>1 DEF AcquireOuter, Goto
        <3>4. /\ step \in Steps
              /\ \/ /\ pc[c] = "acquire_kind" /\ step = "select_kind"
                 \/ /\ pc[c] = "acquire_write_kind" /\ step = "insert_kind"
                 \/ /\ pc[c] = "acquire_write" /\ step = "acquire_nested"
                 \/ /\ pc[c] = "acquire_version" /\ step = "select_version"
            BY <3>1, <3>3 DEF Waiting, Working, Steps
        <3> HIDE DEF step
        <3>5. QED
            BY <3>2, <3>3, <3>4
    <2>2. CASE AcquireNested(c)
        BY <2>2 DEF AcquireNested, Goto, Waiting, Working, Steps
    <2>3. QED
        BY <2>1, <2>2
<1>2. conn \in Connections /\ conn # None /\ conn # outer[c]
    BY NoneIsNothing DEF Free
<1>3. OnlyMoves(c)
    BY <1>1 DEF OnlyMoves, VersionTypeOK
<1>4. VersionTypeOK'
    BY <1>1, <1>2 DEF VersionTypeOK, tables, caches
<1>5. ConnectionsServeOne'
    <2>1. {outer'[c], nested'[c]} \subseteq {outer[c], nested[c], None} \union Free
        BY <1>1 DEF VersionTypeOK
    <2>2. /\ outer'[c] # None <=> pc'[c] \in InOuter
          /\ nested'[c] # None <=> pc'[c] = "select_versions"
          /\ outer'[c] # None => outer'[c] # nested'[c]
        BY <1>1, <1>2 DEF VersionTypeOK, ConnectionsServeOne, InOuter
    <2>3. QED
        BY <1>3, <1>4, <2>1, <2>2, ConnectionsStayApart
<1>6. OwnSteps(c)'
    BY <1>1 DEF OwnSteps, StepsFollow, OfVersionWrite, OfVersionRead, VersionTypeOK,
                tables, caches
<1>7. OwnAnswer(c)'
    BY <1>1 DEF OwnAnswer, VersionTypeOK, Steps
<1>8. QED
    BY <1>1, <1>3, <1>4, <1>5, <1>6, <1>7, QuietStep DEF VersionTypeOK

\* A step that moves the caller on, with the connections it has.
LEMMA GotoInv ==
    ASSUME VersionInv, NEW c \in Callers, pc[c] # "idle", NEW step \in Steps \ {"idle"},
           Goto(c, step), UNCHANGED <<tables, caches, req, reply, outer, nested, seen, calls>>,
           pc[c] \in InOuter <=> step \in InOuter,
           pc[c] # "select_versions", step # "select_versions",
           step = "commit" => \A d \in Callers \ {c} : ~ HoldsVersion(d, req[c]),
           step = "commit_kind" => \A d \in Callers \ {c} : ~ HoldsKind(d, req[c]),
           OwnSteps(c)'
    PROVE  VersionInv'
<1> USE DEF VersionInv
<1>1. OnlyMoves(c) /\ pc'[c] = step
    BY DEF OnlyMoves, Goto, VersionTypeOK
<1>2. VersionTypeOK'
    BY DEF VersionTypeOK, Goto, tables, caches
<1>3. ConnectionsServeOne'
    BY <1>1, <1>2, ConnectionsStayApart DEF ConnectionsServeOne
<1>4. OwnAnswer(c)'
    BY <1>1 DEF OwnAnswer
<1>5. QED
    BY <1>1, <1>2, <1>3, <1>4, QuietStep

LEMMA InsertKindInv ==
    ASSUME VersionInv, NEW c \in Callers, InsertKind(c)
    PROVE  VersionInv'
<1> USE DEF VersionInv
<1>1. pc[c] = "insert_kind" /\ UNCHANGED <<tables, caches>>
      /\ \A d \in Callers \ {c} : ~ HoldsKind(d, req[c])
    BY DEF InsertKind
<1>2. CASE KindTaken(req[c]) /\ Return(c, "duplicate", None)
    BY <1>1, <1>2, ReturnInv DEF Errors, StepsFollow
<1>3. CASE /\ ~ KindTaken(req[c])
           /\ Goto(c, "commit_kind")
           /\ UNCHANGED <<req, reply, outer, nested, seen, calls>>
    <2>1. OwnSteps(c)'
        BY <1>1, <1>3 DEF OwnSteps, StepsFollow, Goto, VersionTypeOK, OfVersionWrite,
                          OfVersionRead, tables, caches, KindTaken
    <2>2. QED
        BY <1>1, <1>3, <2>1, GotoInv DEF Steps, Working, InOuter
<1>4. QED
    BY <1>2, <1>3 DEF InsertKind

LEMMA LookupKindInv ==
    ASSUME VersionInv, NEW c \in Callers, LookupKind(c)
    PROVE  VersionInv'
<1> USE DEF VersionInv
<1> DEFINE cached == kindCache[req[c].kind]
<1>1. /\ pc[c] = "lookup_kind" /\ UNCHANGED <<tables, caches>> /\ req[c] \in Requests
      /\ req[c] \in KindReads \union VersionWrites \union VersionReads
      /\ req[c].kind \in Kinds
    BY RequestKinds DEF LookupKind, StepsFollow
<1>2. CASE cached # None /\ req[c].op = "read_kind" /\ Return(c, "nil", cached)
    <2>1. cached \in UUIDs /\ kinds[req[c].kind] = cached /\ req[c] \in KindReads
        BY <1>1, <1>2, RequestKinds DEF CachesTellRows, VersionTypeOK
    <2>2. QED
        BY <1>1, <1>2, <2>1, ReturnInv DEF Errors
<1>3. ASSUME NEW step \in {"acquire_kind", "acquire_write", "lookup_version"}, Goto(c, step),
             UNCHANGED <<req, reply, outer, nested, seen, calls>>,
             step # "acquire_kind" =>
                cached # None /\ req[c].op # "read_kind" /\ step = AfterKind(c)
      PROVE  VersionInv'
    <2>1. step # "acquire_kind" =>
            /\ kinds[req[c].kind] # None
            /\ step = "acquire_write" => req[c] \in VersionWrites
            /\ step = "lookup_version" => req[c] \in VersionReads
        BY <1>1, <1>3, RequestKinds DEF CachesTellRows, AfterKind
    <2>2. OwnSteps(c)'
        BY <1>1, <1>3, <2>1 DEF OwnSteps, StepsFollow, Goto, VersionTypeOK, OfVersionWrite,
                                OfVersionRead, tables, caches
    <2>3. QED
        BY <1>1, <1>3, <2>2, GotoInv DEF Steps, Waiting, InOuter
<1>4. CASE cached # None /\ req[c].op # "read_kind" /\ EndExec(c, AfterKind(c))
    <2>1. outer[c] = None
        BY <1>1 DEF ConnectionsServeOne, InOuter
    <2>2. outer' = outer
        BY <1>4, <2>1 DEF EndExec, VersionTypeOK
    <2>3. QED
        BY <1>3, <1>4, <2>2 DEF EndExec, AfterKind
<1>5. CASE Goto(c, "acquire_kind") /\ UNCHANGED <<req, reply, outer, nested, seen, calls>>
    BY <1>3, <1>5
<1>6. QED
    BY <1>2, <1>4, <1>5 DEF LookupKind, KindFound

LEMMA LookupVersionInv ==
    ASSUME VersionInv, NEW c \in Callers, LookupVersion(c)
    PROVE  VersionInv'
<1> USE DEF VersionInv
<1> DEFINE cached == versionCache[req[c].kind][req[c].version]
<1>1. pc[c] = "lookup_version" /\ UNCHANGED <<tables, caches>> /\ req[c] \in Requests
      /\ req[c] \in VersionReads /\ req[c].kind \in Kinds /\ req[c].version \in Versions
    BY RequestKinds DEF LookupVersion, StepsFollow, OfVersionRead
<1>2. CASE cached # None /\ Return(c, "nil", cached)
    <2>1. cached \in Schemas /\ kindversions[req[c].kind][req[c].version] = cached
        BY <1>1, <1>2 DEF CachesTellRows, VersionTypeOK
    <2>2. QED
        BY <1>1, <1>2, <2>1, ReturnInv DEF Errors
<1>3. CASE /\ Goto(c, "acquire_version")
           /\ UNCHANGED <<req, reply, outer, nested, seen, calls>>
    <2>1. OwnSteps(c)'
        BY <1>1, <1>3 DEF OwnSteps, StepsFollow, Goto, VersionTypeOK, OfVersionWrite,
                          OfVersionRead, tables, caches
    <2>2. QED
        BY <1>1, <1>3, <2>1, GotoInv DEF Steps, Waiting, InOuter
<1>4. QED
    BY <1>2, <1>3 DEF LookupVersion

LEMMA InsertInv ==
    ASSUME VersionInv, NEW c \in Callers, Insert(c)
    PROVE  VersionInv'
<1> USE DEF VersionInv
<1>1. /\ pc[c] = "insert" /\ UNCHANGED <<tables, caches>> /\ req[c] \in VersionWrites
      /\ req[c] \in Requests /\ kinds[req[c].kind] # None
      /\ seen[c] \subseteq PublishedOf(req[c].kind)
    BY DEF Insert, StepsFollow, OfVersionWrite
<1>2. CASE FirstExpected(c) /\ Return(c, "first_expected", None)
    BY <1>1, <1>2, ReturnInv DEF Errors, FirstExpected
<1>3. CASE (req[c].version \in seen[c] \/ Published(req[c])) /\ Return(c, "exists", None)
    BY <1>1, <1>3, ReturnInv DEF Errors, Published
<1>4. CASE /\ ~ FirstExpected(c) /\ ~ Published(req[c])
           /\ \A d \in Callers \ {c} : ~ HoldsVersion(d, req[c])
           /\ Goto(c, "commit") /\ UNCHANGED <<req, reply, outer, nested, seen, calls>>
    <2>1. OwnSteps(c)'
        BY <1>1, <1>4 DEF OwnSteps, StepsFollow, Goto, VersionTypeOK, OfVersionWrite,
                OfVersionRead, tables, caches, FirstExpected, Published, PublishedOf, KindTaken
    <2>2. QED
        BY <1>1, <1>4, <2>1, GotoInv DEF Steps, Working, InOuter
<1>5. QED
    BY <1>2, <1>3, <1>4 DEF Insert

LEMMA SelectVersionsInv ==
    ASSUME VersionInv, NEW c \in Callers, SelectVersions(c)
    PROVE  VersionInv'
<1> USE DEF VersionInv
<1>1. /\ pc[c] = "select_versions"
      /\ seen' = [seen EXCEPT ![c] = PublishedOf(req[c].kind)]
      /\ nested' = [nested EXCEPT ![c] = None]
      /\ pc' = [pc EXCEPT ![c] = "insert"]
      /\ UNCHANGED <<tables, caches, req, reply, outer, calls>>
    BY DEF SelectVersions, Goto
<1>2. OnlyMoves(c)
    BY <1>1 DEF OnlyMoves, VersionTypeOK
<1>3. VersionTypeOK'
    BY <1>1 DEF VersionTypeOK, tables, caches, Steps, Working, PublishedOf
<1>4. ConnectionsServeOne'
    BY <1>1, <1>2, <1>3, ConnectionsStayApart DEF ConnectionsServeOne, InOuter, VersionTypeOK
<1>5. OwnSteps(c)'
    BY <1>1 DEF OwnSteps, StepsFollow, VersionTypeOK, OfVersionWrite, OfVersionRead,
                tables, caches, PublishedOf
<1>6. OwnAnswer(c)'
    BY <1>1 DEF OwnAnswer, VersionTypeOK
<1>7. QED
    BY <1>1, <1>2, <1>3, <1>4, <1>5, <1>6, QuietStep DEF VersionTypeOK

\* A call returns, having changed the tables or the caches.
LEMMA ReturnGrows ==
    ASSUME VersionInv, NEW c \in Callers, pc[c] # "idle",
           NEW error, NEW found, Return(c, error, found),
           VersionTypeOK', TablesGrow, CachesTellRows', SeriesStartsInitially',
           UUIDsIdentifyKinds', VersionsHaveKinds', OwnAnswer(c)',
           \A d \in Callers \ {c} : pc[d] = "commit" => ~ Published(req[d])',
           \A d \in Callers \ {c} : pc[d] = "commit_kind" => ~ KindTaken(req[d])'
    PROVE  VersionInv'
<1> USE DEF VersionInv
<1>1. OnlyMoves(c)
    BY MovesAlone
<1>2. /\ pc'[c] = "idle" /\ req'[c] = req[c] /\ outer'[c] = None /\ nested'[c] = None
      /\ seen'[c] = {}
    BY DEF Return, Goto, VersionTypeOK
<1>3. ConnectionsServeOne'
    BY <1>1, <1>2, ConnectionsStayApart DEF InOuter
<1>4. OwnSteps(c)'
    BY <1>2 DEF OwnSteps, StepsFollow, OfVersionWrite, OfVersionRead
<1>5. CommitsExclude'
    BY <1>1, <1>2 DEF CommitsExclude, HoldsVersion, HoldsKind, OnlyMoves
<1>6. QED
    BY <1>1, <1>3, <1>4, <1>5, OthersKeepTheirs

LEMMA CommitKindInv ==
    ASSUME VersionInv, NEW c \in Callers, CommitKind(c)
    PROVE  VersionInv'
<1> USE DEF VersionInv
<1>1. PICK error \in {"nil", "internal"} : Return(c, error, None)
    BY DEF CommitKind
<1>2. /\ pc[c] = "commit_kind" /\ req[c] \in Requests /\ req[c] \in KindWrites
      /\ req[c].kind \in Kinds /\ req[c].uuid \in UUIDs /\ req[c].uuid # None
      /\ ~ KindTaken(req[c])
      /\ kinds' = [kinds EXCEPT ![req[c].kind] = req[c].uuid]
      /\ UNCHANGED <<kindversions, caches>>
    BY RequestKinds, NoneIsNothing DEF CommitKind, StepsFollow
<1>3. VersionTypeOK'
    BY <1>1, <1>2 DEF VersionTypeOK, Return, Goto, Steps, Replies, Errors, caches
<1>4. /\ TablesGrow /\ CachesTellRows' /\ SeriesStartsInitially'
      /\ UUIDsIdentifyKinds' /\ VersionsHaveKinds'
    <2>1. /\ kinds'[req[c].kind] = req[c].uuid /\ kinds[req[c].kind] = None
          /\ \A k \in Kinds \ {req[c].kind} : kinds'[k] = kinds[k]
          /\ \A k \in Kinds : kinds[k] # req[c].uuid
        BY <1>2 DEF VersionTypeOK, KindTaken
    <2>2. TablesGrow /\ CachesTellRows'
        BY <1>2, <2>1 DEF TablesGrow, CachesTellRows, caches
    <2>3. SeriesStartsInitially' /\ VersionsHaveKinds'
        BY <1>2, <2>1 DEF SeriesStartsInitially, VersionsHaveKinds, PublishedOf
    <2>4. UUIDsIdentifyKinds'
        BY <1>2, <2>1 DEF UUIDsIdentifyKinds
    <2>5. QED
        BY <2>2, <2>3, <2>4
<1>5. OwnAnswer(c)'
    <2>1. /\ reply'[c] = [error |-> error, found |-> None] /\ req'[c] = req[c]
        BY <1>1 DEF Return, VersionTypeOK
    <2>2. req[c].op = "write_kind"
        BY <1>2, RequestKinds
    <2>3. QED
        BY <1>2, <2>1, <2>2 DEF OwnAnswer, VersionTypeOK
<1>6. ASSUME NEW d \in Callers \ {c}
      PROVE  /\ pc[d] = "commit" => ~ Published(req[d])'
             /\ pc[d] = "commit_kind" => ~ KindTaken(req[d])'
    <2>1. req'[d] = req[d]
        BY <1>1 DEF Return
    <2>2. pc[d] = "commit" => ~ Published(req[d])'
        BY <1>2, <2>1 DEF StepsFollow, Published, PublishedOf, KindTaken
    <2>3. pc[d] = "commit_kind" => ~ KindTaken(req[d])'
        <3> HAVE pc[d] = "commit_kind"
        <3>1. /\ ~ KindTaken(req[d]) /\ req[d] \in Requests /\ req[d] \in KindWrites
              /\ req[d].kind # req[c].kind /\ req[d].uuid # req[c].uuid
            BY <1>2 DEF StepsFollow, CommitsExclude, HoldsKind
        <3>2. req[d].kind \in Kinds
            BY <3>1, RequestKinds
        <3>3. QED
            BY <1>2, <2>1, <3>1, <3>2 DEF KindTaken, VersionTypeOK
    <2>4. QED
        BY <2>2, <2>3
<1>7. QED
    BY <1>1, <1>2, <1>3, <1>4, <1>5, <1>6, ReturnGrows

LEMMA CommitInv ==
    ASSUME VersionInv, NEW c \in Callers, Commit(c)
    PROVE  VersionInv'
<1> USE DEF VersionInv
<1> PICK k, v : k = req[c].kind /\ v = req[c].version
    OBVIOUS
<1>1. PICK error \in {"nil", "internal"} : Return(c, error, None)
    BY DEF Commit
<1>2. /\ pc[c] = "commit" /\ req[c] \in Requests /\ req[c] \in VersionWrites
      /\ k \in Kinds /\ kinds[k] # None /\ v \in Versions
      /\ req[c].schema \in Schemas /\ req[c].schema # None
      /\ ~ FirstExpected(c) /\ v \notin PublishedOf(k) /\ seen[c] \subseteq PublishedOf(k)
      /\ kindversions' = [kindversions EXCEPT ![k][v] = req[c].schema]
      /\ UNCHANGED <<kinds, caches>>
    BY RequestKinds, NoneIsNothing DEF Commit, StepsFollow, OfVersionWrite, Published
<1>3. VersionTypeOK'
    BY <1>1, <1>2 DEF VersionTypeOK, Return, Goto, Steps, Replies, Errors, caches
<1>4. /\ kindversions'[k][v] = req[c].schema
      /\ \A x \in Kinds, y \in Versions : x # k \/ y # v =>
            kindversions'[x][y] = kindversions[x][y]
      /\ kindversions[k][v] = None
    BY <1>2 DEF VersionTypeOK, PublishedOf
<1>5. PublishedOf(k)' = PublishedOf(k) \union {v}
      /\ \A x \in Kinds \ {k} : PublishedOf(x)' = PublishedOf(x)
    BY <1>2, <1>4 DEF PublishedOf
<1>6. TablesGrow /\ CachesTellRows'
    BY <1>2, <1>4 DEF TablesGrow, CachesTellRows, caches
<1>7. SeriesStartsInitially'
    <2>1. seen[c] = {} => v \in InitialVersions
        BY <1>2 DEF FirstExpected
    <2>2. PublishedOf(k) # {} => PublishedOf(k) \intersect InitialVersions # {}
        BY <1>2 DEF SeriesStartsInitially
    <2>3. PublishedOf(k)' \intersect InitialVersions # {}
        BY <1>2, <1>5, <2>1, <2>2
    <2>4. QED
        BY <1>5, <2>3 DEF SeriesStartsInitially
<1>8. VersionsHaveKinds'
    BY <1>2, <1>5 DEF VersionsHaveKinds
<1>12. UUIDsIdentifyKinds'
    BY <1>2 DEF UUIDsIdentifyKinds
<1>9. OwnAnswer(c)'
    <2>1. /\ reply'[c] = [error |-> error, found |-> None] /\ req'[c] = req[c]
        BY <1>1 DEF Return, VersionTypeOK
    <2>2. req[c].op = "write_version"
        BY <1>2, RequestKinds
    <2>3. QED
        BY <1>4, <2>1, <2>2 DEF OwnAnswer
<1>10. ASSUME NEW d \in Callers \ {c}
       PROVE  /\ pc[d] = "commit" => ~ Published(req[d])'
              /\ pc[d] = "commit_kind" => ~ KindTaken(req[d])'
    <2>1. req'[d] = req[d]
        BY <1>1 DEF Return
    <2>2. pc[d] = "commit" => ~ Published(req[d])'
        <3> HAVE pc[d] = "commit"
        <3>1. ~ Published(req[d]) /\ ~ HoldsVersion(d, req[c])
              /\ req[d] \in Requests /\ req[d] \in VersionWrites
            BY <1>2 DEF StepsFollow, CommitsExclude, OfVersionWrite
        <3>2. req[d].kind \in Kinds /\ (req[d].kind # k \/ req[d].version # v)
            BY <3>1, RequestKinds DEF HoldsVersion
        <3>3. req[d].version \notin PublishedOf(req[d].kind)
            BY <3>1 DEF Published
        <3>4. PICK x : x = req[d].kind
            OBVIOUS
        <3>5. req[d].version \notin PublishedOf(x)'
            BY <1>5, <3>2, <3>3, <3>4
        <3>6. QED
            BY <2>1, <3>4, <3>5 DEF Published, PublishedOf, KindTaken
    <2>3. pc[d] = "commit_kind" => ~ KindTaken(req[d])'
        BY <1>2, <2>1 DEF StepsFollow, KindTaken
    <2>4. QED
        BY <2>2, <2>3
<1>11. QED
    BY <1>1, <1>2, <1>3, <1>6, <1>7, <1>8, <1>9, <1>10, <1>12, ReturnGrows

LEMMA SelectVersionInv ==
    ASSUME VersionInv, NEW c \in Callers, SelectVersion(c)
    PROVE  VersionInv'
<1> USE DEF VersionInv
<1> PICK k, v, row :
        k = req[c].kind /\ v = req[c].version /\ row = kindversions[k][v]
    OBVIOUS
<1>1. /\ pc[c] = "select_version" /\ req[c] \in Requests /\ req[c] \in VersionReads
      /\ k \in Kinds /\ v \in Versions /\ req[c].op = "read_version"
      /\ UNCHANGED <<tables, kindCache>>
    BY RequestKinds DEF SelectVersion, StepsFollow, OfVersionRead
<1>2. CASE row = None /\ Return(c, "not_found", None) /\ versionCache' = versionCache
    BY <1>1, <1>2, ReturnInv DEF Errors, caches
<1>3. CASE row # None /\ Return(c, "nil", row)
    <2>1. row \in Schemas
        BY <1>1, <1>3 DEF VersionTypeOK
    <2>2. versionCache' = versionCache \/ versionCache' = [versionCache EXCEPT ![k][v] = row]
        BY <1>3 DEF SelectVersion
    <2>0. /\ versionCache' \in [Kinds -> [Versions -> Schemas \union {None}]]
          /\ \A x \in Kinds, y \in Versions :
                versionCache'[x][y] = versionCache[x][y]
                \/ (versionCache'[x][y] = row /\ x = k /\ y = v)
        <3>1. CASE versionCache' = versionCache
            BY <3>1 DEF VersionTypeOK
        <3>2. CASE versionCache' = [versionCache EXCEPT ![k][v] = row]
            <4>1. versionCache \in [Kinds -> [Versions -> Schemas \union {None}]]
                BY DEF VersionTypeOK
            <4>2. versionCache' \in [Kinds -> [Versions -> Schemas \union {None}]]
                BY <1>1, <2>1, <3>2, <4>1
            <4>3. QED
                BY <1>1, <3>2, <4>1, <4>2
        <3>3. QED
            BY <2>2, <3>1, <3>2
    <2>3. VersionTypeOK'
        BY <1>1, <1>3, <2>0, <2>1
           DEF VersionTypeOK, Return, Goto, Steps, Replies, Errors, tables
    <2>4. /\ TablesGrow /\ SeriesStartsInitially' /\ UUIDsIdentifyKinds' /\ VersionsHaveKinds'
        BY <1>1 DEF TablesGrow, SeriesStartsInitially, UUIDsIdentifyKinds,
                VersionsHaveKinds, PublishedOf, tables
    <2>5. CachesTellRows'
        BY <1>1, <2>0 DEF CachesTellRows, tables
    <2>6. OwnAnswer(c)'
        <3>1. reply'[c] = [error |-> "nil", found |-> row] /\ req'[c] = req[c]
            BY <1>3 DEF Return, VersionTypeOK
        <3>2. QED
            BY <1>1, <1>3, <3>1 DEF OwnAnswer, tables
    <2>7. /\ \A d \in Callers \ {c} : pc[d] = "commit" => ~ Published(req[d])'
          /\ \A d \in Callers \ {c} : pc[d] = "commit_kind" => ~ KindTaken(req[d])'
        BY <1>1, <1>3 DEF StepsFollow, Return, Published, PublishedOf, KindTaken, tables
    <2>8. QED
        BY <1>1, <1>3, <2>3, <2>4, <2>5, <2>6, <2>7, ReturnGrows
<1>4. QED
    BY <1>2, <1>3 DEF SelectVersion

LEMMA SelectKindInv ==
    ASSUME VersionInv, NEW c \in Callers, SelectKind(c)
    PROVE  VersionInv'
<1> USE DEF VersionInv
<1> PICK k, row : k = req[c].kind /\ row = kinds[k]
    OBVIOUS
<1>1. /\ pc[c] = "select_kind" /\ UNCHANGED <<tables, versionCache>> /\ req[c] \in Requests
      /\ req[c] \in KindReads \union VersionWrites \union VersionReads /\ k \in Kinds
    BY RequestKinds DEF SelectKind, StepsFollow
<1>2. CASE /\ Return(c, IF req[c].op = "read_kind" THEN "not_found" ELSE "kind_unknown", None)
           /\ kindCache' = kindCache
    BY <1>1, <1>2, ReturnInv DEF Errors, caches
<1>3. ASSUME row # None, SelectKind(c)
      PROVE  /\ TablesGrow /\ CachesTellRows' /\ SeriesStartsInitially'
             /\ UUIDsIdentifyKinds' /\ VersionsHaveKinds'
             /\ row \in UUIDs
             /\ kindCache' \in [Kinds -> UUIDs \union {None}]
             /\ \A d \in Callers \ {c} : req'[d] = req[d] =>
                  /\ pc[d] = "commit" => ~ Published(req[d])'
                  /\ pc[d] = "commit_kind" => ~ KindTaken(req[d])'
    <2>1. row \in UUIDs
        BY <1>1, <1>3 DEF VersionTypeOK
    <2>2. kindCache' = kindCache \/ kindCache' = [kindCache EXCEPT ![k] = row]
        BY <1>3 DEF SelectKind
    <2>3. kindCache' \in [Kinds -> UUIDs \union {None}]
        BY <1>1, <2>1, <2>2 DEF VersionTypeOK
    <2>4. TablesGrow /\ SeriesStartsInitially' /\ UUIDsIdentifyKinds' /\ VersionsHaveKinds'
        BY <1>1 DEF TablesGrow, SeriesStartsInitially, UUIDsIdentifyKinds,
                VersionsHaveKinds,
                    PublishedOf, tables
    <2>5. CachesTellRows'
        BY <1>1, <2>2 DEF CachesTellRows, VersionTypeOK, tables
    <2>6. \A d \in Callers \ {c} : req'[d] = req[d] =>
             /\ pc[d] = "commit" => ~ Published(req[d])'
             /\ pc[d] = "commit_kind" => ~ KindTaken(req[d])'
        BY <1>1 DEF StepsFollow, Published, PublishedOf, KindTaken, tables
    <2>7. QED
        BY <2>1, <2>3, <2>4, <2>5, <2>6
<1>4. CASE row # None /\ SelectKind(c) /\ req[c].op = "read_kind" /\ Return(c, "nil", row)
    <2>1. VersionTypeOK'
        BY <1>1, <1>3, <1>4
           DEF VersionTypeOK, Return, Goto, Steps, Replies, Errors, tables
    <2>2. OwnAnswer(c)'
        <3>1. reply'[c] = [error |-> "nil", found |-> row] /\ req'[c] = req[c]
            BY <1>4 DEF Return, VersionTypeOK
        <3>2. QED
            BY <1>1, <1>4, <3>1 DEF OwnAnswer, tables
    <2>3. req' = req
        BY <1>4 DEF Return
    <2>4. QED
        BY <1>1, <1>3, <1>4, <2>1, <2>2, <2>3, ReturnGrows
<1>5. CASE row # None /\ SelectKind(c) /\ req[c].op # "read_kind" /\ EndExec(c, AfterKind(c))
    <2>1. /\ outer' = [outer EXCEPT ![c] = None]
          /\ pc' = [pc EXCEPT ![c] = AfterKind(c)]
          /\ UNCHANGED <<req, reply, nested, seen, calls>>
        BY <1>5 DEF EndExec, Goto
    <2>2. OnlyMoves(c)
        BY <2>1 DEF OnlyMoves, VersionTypeOK
    <2>3. /\ AfterKind(c) \in {"acquire_write", "lookup_version"}
          /\ AfterKind(c) = "acquire_write" => req[c] \in VersionWrites
          /\ AfterKind(c) = "lookup_version" => req[c] \in VersionReads
        BY <1>1, <1>5, RequestKinds DEF AfterKind
    <2>4. VersionTypeOK'
        BY <1>1, <1>3, <1>5, <2>1, <2>3 DEF VersionTypeOK, tables, Steps, Waiting
    <2>5. ConnectionsServeOne'
        BY <1>1, <2>1, <2>2, <2>3, <2>4, ConnectionsStayApart
           DEF ConnectionsServeOne, InOuter, VersionTypeOK
    <2>6. OwnSteps(c)'
        BY <1>1, <1>5, <2>1, <2>3 DEF OwnSteps, StepsFollow, VersionTypeOK, OfVersionWrite,
                                      OfVersionRead, tables
    <2>7. OwnAnswer(c)'
        BY <2>1, <2>3 DEF OwnAnswer, VersionTypeOK
    <2>9. CommitsExclude'
        BY <2>1, <2>2, <2>3 DEF CommitsExclude, HoldsVersion, HoldsKind, OnlyMoves,
                                VersionTypeOK
    <2>10. QED
        BY <1>3, <1>5, <2>1, <2>2, <2>4, <2>5, <2>6, <2>7, <2>9, OthersKeepTheirs
<1>6. QED
    BY <1>2, <1>4, <1>5 DEF SelectKind, KindFound

LEMMA StutterInv == VersionInv /\ UNCHANGED vars => VersionInv'
<1> SUFFICES ASSUME VersionInv, UNCHANGED vars PROVE VersionInv'
    OBVIOUS
<1> USE DEF VersionInv, vars
<1>1. VersionTypeOK' /\ ConnectionsServeOne'
    BY DEF VersionTypeOK, ConnectionsServeOne
<1>2. StepsFollow' /\ CommitsExclude'
    BY DEF StepsFollow, CommitsExclude, HoldsVersion, HoldsKind, FirstExpected, Published,
           PublishedOf, KindTaken
<1>3. /\ CachesTellRows' /\ SeriesStartsInitially' /\ UUIDsIdentifyKinds'
      /\ VersionsHaveKinds' /\ AnswersAreTrue'
    BY DEF CachesTellRows, SeriesStartsInitially, UUIDsIdentifyKinds,
                VersionsHaveKinds, AnswersAreTrue,
           Published, PublishedOf, KindTaken
<1>4. QED
    BY <1>1, <1>2, <1>3

LEMMA NextVersionInv == VersionInv /\ [Next]_vars => VersionInv'
<1> SUFFICES ASSUME VersionInv, [Next]_vars PROVE VersionInv'
    OBVIOUS
<1>1. ASSUME NEW c \in Callers, Called(c)
      PROVE  VersionInv'
    BY <1>1, CallInv
<1>2. ASSUME NEW c \in Callers, Step(c) \/ Fail(c) PROVE VersionInv'
    BY <1>2, FailInv, AcquireInv, InsertKindInv, CommitKindInv, LookupKindInv, SelectKindInv,
       SelectVersionsInv, InsertInv, CommitInv, LookupVersionInv, SelectVersionInv DEF Step
<1>3. QED
    BY <1>1, <1>2, StutterInv DEF Next, Called

-----------------------------------------------------------------------------
(* The theorems. *)

\* Every state satisfies the inductive invariant: a connection of the pool serves one
\* transaction at a time and none of a call that has returned.
THEOREM ConnectionsAreReturned == Spec => []VersionInv
BY InitVersionInv, NextVersionInv, PTL DEF Spec

\* Every series of versions has an initial version, although dbInsert counts the versions
\* in another transaction than the one it inserts in.
THEOREM SeriesHaveInitialVersions == Spec => []SeriesStartsInitially
<1>1. VersionInv => SeriesStartsInitially
    BY DEF VersionInv
<1>2. QED
    BY <1>1, ConnectionsAreReturned, PTL

\* What KindWrite, KindVersionWrite and KindVersionRead have answered is true and stays so.
THEOREM AnswersStayTrue == Spec => []AnswersAreTrue
<1>1. VersionInv => AnswersAreTrue
    BY DEF VersionInv
<1>2. QED
    BY <1>1, ConnectionsAreReturned, PTL

\* The tables change at a COMMIT and nowhere else.
LEMMA OnlyCommitsWrite ==
    ASSUME [Next]_vars, ~ \E c \in Callers : CommitKind(c) \/ Commit(c)
    PROVE  UNCHANGED tables
<1> USE DEF tables
<1>1. ASSUME NEW c \in Callers, Called(c)
      PROVE  UNCHANGED tables
    BY <1>1 DEF Called, KindWrite, KindRead, KindVersionWrite, KindVersionRead, Call
<1>2. ASSUME NEW c \in Callers, Step(c)
      PROVE  UNCHANGED tables
    BY <1>2 DEF Step, AcquireOuter, AcquireNested, AcquireTimeout, InsertKind, LookupKind,
                SelectKind, SelectVersions, Insert, LookupVersion, SelectVersion
<1>3. QED
    BY <1>1, <1>2 DEF Next, Called, Fail, vars

\* The stores implement the abstract series: a COMMIT publishes, every other step
\* leaves the series alone.
THEOREM StoresImplementSeries == Spec => ImplementsVersionSeries
<1>1. Init => Series!Init
    BY DEF Init, Series!Init
<1>2. ASSUME VersionInv, [Next]_vars
      PROVE  [Series!Next]_<<kinds, kindversions>>
    <2>1. ASSUME NEW c \in Callers, CommitKind(c)
          PROVE  /\ Series!WriteKind(req[c].kind, req[c].uuid)
                 /\ req[c].kind \in Kinds /\ req[c].uuid \in UUIDs
        BY <1>2, <2>1, RequestKinds
           DEF VersionInv, StepsFollow, CommitKind, KindTaken, Series!WriteKind
    <2>2. ASSUME NEW c \in Callers, Commit(c)
          PROVE  /\ Series!Publish(req[c].kind, req[c].version, req[c].schema)
                 /\ req[c].kind \in Kinds /\ req[c].version \in Versions
                 /\ req[c].schema \in Schemas
        <3>1. /\ req[c] \in Requests /\ req[c] \in VersionWrites /\ kinds[req[c].kind] # None
              /\ ~ FirstExpected(c) /\ ~ Published(req[c])
              /\ seen[c] \subseteq PublishedOf(req[c].kind)
            BY <1>2, <2>2 DEF VersionInv, StepsFollow, OfVersionWrite, Commit
        <3>2. Series!PublishedOf(req[c].kind) = PublishedOf(req[c].kind)
            BY DEF Series!PublishedOf, PublishedOf
        <3>3. /\ req[c].version \notin PublishedOf(req[c].kind)
              /\ PublishedOf(req[c].kind) = {} => req[c].version \in InitialVersions
            BY <3>1 DEF FirstExpected, Published
        <3>4. /\ kindversions' = [kindversions EXCEPT ![req[c].kind][req[c].version] =
                                        req[c].schema]
              /\ kinds' = kinds
            BY <2>2 DEF Commit
        <3>5. QED
            BY <3>1, <3>2, <3>3, <3>4, RequestKinds DEF Series!Publish
    <2>3. QED
        BY <1>2, <2>1, <2>2, OnlyCommitsWrite DEF Series!Next, tables
<1>3. QED
    BY <1>1, <1>2, ConnectionsAreReturned, PTL DEF Spec, ImplementsVersionSeries, Series!Spec

\* No step changes or removes a row of kinds or kindversions, also not a COMMIT that was
\* prepared on what another transaction saw: the caches, which nothing invalidates and which
\* Exec fills after its transaction is over, rest on it.
THEOREM RowsAreForEver == Spec => [][TablesGrow]_vars
<1>1. ASSUME VersionInv, [Next]_vars
      PROVE  [TablesGrow]_vars
    <2>1. ASSUME NEW c \in Callers, CommitKind(c)
          PROVE  TablesGrow
        <3>1. kinds[req[c].kind] = None
            BY <1>1, <2>1 DEF VersionInv, StepsFollow, CommitKind, KindTaken
        <3>2. QED
            BY <1>1, <2>1, <3>1 DEF VersionInv, VersionTypeOK, CommitKind, TablesGrow
    <2>2. ASSUME NEW c \in Callers, Commit(c)
          PROVE  TablesGrow
        <3>1. req[c] \in Requests /\ req[c] \in VersionWrites /\ ~ Published(req[c])
            BY <1>1, <2>2 DEF VersionInv, StepsFollow, OfVersionWrite, Commit
        <3>2. kindversions[req[c].kind][req[c].version] = None
            BY <3>1, RequestKinds DEF Published, PublishedOf
        <3>3. QED
            BY <1>1, <2>2, <3>2 DEF VersionInv, VersionTypeOK, Commit, TablesGrow
    <2>3. QED
        BY <1>1, <2>1, <2>2, OnlyCommitsWrite DEF TablesGrow, tables
<1>2. QED
    BY <1>1, ConnectionsAreReturned, PTL DEF Spec

=============================================================================
