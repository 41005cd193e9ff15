------------------------- MODULE DomainCache_proofs -------------------------
(***************************************************************************)
(* Proofs about DomainCache, for every set of callers, systems, domains    *)
(* and requests, every pool and every behaviour of the caches.             *)
(***************************************************************************)
EXTENDS DomainCache, FiniteSetTheorems, TLAPS

(* Requests and keys. *)

LEMMA KeyType ==
    ASSUME NEW k \in Keys
    PROVE  /\ k # None
           /\ k.by \in {"uuid", "rowid", "name"}
           /\ k.by = "name" => k.of \in Names
           /\ k.by # "name" => k.of \in Domains
BY NoneAssumption DEF Keys

LEMMA RequestType ==
    ASSUME NEW r \in Requests
    PROVE  /\ r # None
           /\ r.system \in Systems
           /\ r.op \in {"read", "write"}
           /\ r.op = "read" => Wanted(r) = r.key /\ Wanted(r) \in Keys
           /\ r.op = "write" => /\ Wanted(r) = r.parent
                                /\ Wanted(r) \in Keys \union {None}
                                /\ r.uuid \in Domains
                                /\ r.name \in Names
<1>1. r \in ReadRequests \/ r \in WriteRequests
    BY RequestsAssumption
<1>2. r # None
    BY <1>1, NoneAssumption
<1>3. QED
    BY <1>1, <1>2 DEF ReadRequests, WriteRequests, Wanted

LEMMA FrameType ==
    ASSUME NEW k \in Keys
    PROVE  /\ Frame(k) \in Frames
           /\ Frame(k).key = k /\ Frame(k).domain = None /\ Frame(k).todo = {}
BY DEF Frame, Frames

-----------------------------------------------------------------------------
(* Stacks. *)

LEMMA TopOfSeq ==
    ASSUME NEW S, NEW s \in Seq(S), s # <<>>
    PROVE  /\ Len(s) \in Nat /\ Len(s) >= 1
           /\ Head(s) = s[1]
           /\ \A i \in 1..Len(s) : s[i] \in S
OBVIOUS

LEMMA SingletonSeq ==
    ASSUME NEW S, NEW f \in S
    PROVE  <<f>> \in Seq(S) /\ Len(<<f>>) = 1 /\ <<f>>[1] = f /\ <<f>> # <<>>
OBVIOUS

LEMMA OneOrMore == \A n \in Nat : n >= 1 => 1 \in 1..n /\ (n # 1 => 1 < n)
OBVIOUS

LEMMA BelowTheTop == \A n \in Nat :
    /\ n >= 1 => n = 1 \/ (n + 1 \in 3..(n + 1) /\ (n + 1) - 1 = n)
    /\ \A i \in 1..(n + 1) : i # 1 =>
        \/ i = 2 /\ 1 \in 1..n /\ (i < n + 1 => 1 < n)
        \/ i \in 3..(n + 1) /\ i - 1 \in 1..n /\ (i < n + 1 => i - 1 < n)
OBVIOUS

LEMMA MoreThanOne == \A n \in Nat : n > 1 => n # 1 /\ n - 1 # 0
OBVIOUS

LEMMA PopSeq ==
    ASSUME NEW S, NEW s \in Seq(S), s # <<>>
    PROVE  /\ Tail(s) \in Seq(S)
           /\ Len(Tail(s)) = Len(s) - 1
           /\ \A i \in 1..(Len(s) - 1) : Tail(s)[i] = s[i + 1]
           /\ Len(s) > 1 => Tail(s) # <<>>
<1>1. Tail(s) \in Seq(S) /\ Len(Tail(s)) = Len(s) - 1 /\ Len(s) \in Nat
      /\ \A i \in 1..(Len(s) - 1) : Tail(s)[i] = s[i + 1]
    OBVIOUS
<1>2. Len(<<>>) = 0
    OBVIOUS
<1>3. Len(s) > 1 => Len(Tail(s)) # 0
    BY <1>1, MoreThanOne
<1>4. QED
    BY <1>1, <1>2, <1>3

\* The top is replaced.
LEMMA ReplaceTop ==
    ASSUME NEW S, NEW s \in Seq(S), s # <<>>, NEW f \in S
    PROVE  LET t == <<f>> \o Tail(s) IN
           /\ t \in Seq(S)
           /\ t # <<>>
           /\ Len(t) = Len(s)
           /\ t[1] = f
           /\ \A i \in 1..Len(s) : i # 1 => t[i] = s[i]
<1>1. Tail(s) \in Seq(S) /\ Len(Tail(s)) = Len(s) - 1 /\ Len(s) \in Nat
      /\ \A i \in 1..(Len(s) - 1) : Tail(s)[i] = s[i + 1]
    BY PopSeq
<1>2. <<f>> \in Seq(S) /\ Len(<<f>>) = 1 /\ <<f>>[1] = f
    OBVIOUS
<1>3. <<f>> \o Tail(s) \in Seq(S) /\ Len(<<f>> \o Tail(s)) = 1 + (Len(s) - 1)
    BY <1>1, <1>2
<1>4. \A i \in 1..Len(s) : (<<f>> \o Tail(s))[i] = IF i = 1 THEN f ELSE Tail(s)[i - 1]
    BY <1>1, <1>2
<1>5. QED
    BY <1>1, <1>3, <1>4

\* The top is replaced and another element put on it.
LEMMA PushSeq ==
    ASSUME NEW S, NEW s \in Seq(S), s # <<>>, NEW f \in S, NEW g \in S
    PROVE  LET t == <<f, g>> \o Tail(s) IN
           /\ t \in Seq(S)
           /\ t # <<>>
           /\ Len(t) = Len(s) + 1
           /\ t[1] = f
           /\ t[2] = g
           /\ \A i \in 3..(Len(s) + 1) : t[i] = s[i - 1]
<1>1. Tail(s) \in Seq(S) /\ Len(Tail(s)) = Len(s) - 1 /\ Len(s) \in Nat
      /\ \A i \in 1..(Len(s) - 1) : Tail(s)[i] = s[i + 1]
    BY PopSeq
<1>2. <<f, g>> \in Seq(S) /\ Len(<<f, g>>) = 2 /\ <<f, g>>[1] = f /\ <<f, g>>[2] = g
    OBVIOUS
<1>3. <<f, g>> \o Tail(s) \in Seq(S) /\ Len(<<f, g>> \o Tail(s)) = 2 + (Len(s) - 1)
    BY <1>1, <1>2
<1>4. \A i \in 1..(Len(s) + 1) : (<<f, g>> \o Tail(s))[i] =
            IF i = 1 THEN f ELSE IF i = 2 THEN g ELSE Tail(s)[i - 2]
    BY <1>1, <1>2
<1>5. QED
    BY <1>1, <1>3, <1>4

-----------------------------------------------------------------------------
(* What a step of one call means to the others. *)

\* Rows are only added.
RowsKept ==
    /\ rows' \in [Domains -> Rows \union {None}]
    /\ \A d \in Stored : rows'[d] = rows[d]

OthersSame(c) == \A d \in Callers \ {c} :
    /\ pc'[d] = pc[d] /\ req'[d] = req[d] /\ stack'[d] = stack[d]
    /\ parent'[d] = parent[d] /\ began'[d] = began[d] /\ held'[d] = held[d]

LEMMA StoredType ==
    ASSUME CacheTypeOK, NEW d \in Stored
    PROVE  d \in Domains /\ rows[d] \in Rows /\ rows[d] # None
BY DEF CacheTypeOK, Stored

LEMMA StoredKept ==
    ASSUME CacheTypeOK, RowsKept, NEW d \in Stored
    PROVE  /\ d \in Stored'
           /\ Relatives(d)' = Relatives(d)
           /\ \A s, key : d \in Matching(s, key) => d \in Matching(s, key)'
<1>1. rows'[d] = rows[d] /\ rows[d] # None /\ d \in Domains
    BY StoredType DEF RowsKept
<1>2. QED
    BY <1>1 DEF Stored, Relatives, Matching

\* Nested reads that rest on stored rows rest on them for good.
LEMMA ReadsNestKept ==
    ASSUME CacheTypeOK, RowsKept, NEW d \in Callers, ReadsNest(d),
           pc'[d] = pc[d], req'[d] = req[d], stack'[d] = stack[d]
    PROVE  ReadsNest(d)'
<1> DEFINE reads == stack[d]
<1>1. ASSUME NEW i \in 1..Len(reads), i < Len(reads)
      PROVE  reads[i].key.by = "rowid" /\ reads[i].key.of \in Stored'
    BY <1>1, StoredKept DEF ReadsNest
<1>2. ASSUME NEW i \in 1..Len(reads), reads[i].domain # None
      PROVE  /\ reads[i].domain \in Matching(req[d].system, reads[i].key)'
             /\ reads[i].todo \subseteq Relatives(reads[i].domain)'
    <2> DEFINE e == reads[i].domain
               s == req[d].system
               key == reads[i].key
    <2>1. e \in Matching(s, key) /\ reads[i].todo \subseteq Relatives(e)
        BY <1>2 DEF ReadsNest
    <2>2. e \in Stored
        BY <2>1 DEF Matching
    <2>3. rows'[e] = rows[e] /\ e \in Stored'
        BY <2>2, StoredKept DEF RowsKept
    <2>4. QED
        BY <2>1, <2>3 DEF Matching, Relatives
<1>3. /\ reads # <<>> <=> pc[d] \in ReadSteps
      /\ reads # <<>> => reads[Len(reads)].key = Wanted(req[d])
      /\ \A i \in 1..Len(reads) :
            reads[i].domain = None <=> i = 1 /\ pc[d] \in {"lookup", "acquire_read", "select"}
    BY DEF ReadsNest
<1>4. QED
    BY <1>1, <1>2, <1>3 DEF ReadsNest, Matching, Relatives, Wanted

\* The reads of a call that writes no row nest if they rest on what is stored.
LEMMA ReadsNestNext ==
    ASSUME CacheTypeOK, rows' = rows, NEW c \in Callers, req'[c] = req[c],
           NEW t \in Seq(Frames), stack'[c] = t, t # <<>>, pc'[c] \in ReadSteps,
           t[Len(t)].key = Wanted(req[c]),
           \A i \in 1..Len(t) :
                /\ i < Len(t) => t[i].key.by = "rowid" /\ t[i].key.of \in Stored
                /\ t[i].domain = None
                        <=> i = 1 /\ pc'[c] \in {"lookup", "acquire_read", "select"}
                /\ t[i].domain # None =>
                        /\ t[i].domain \in Matching(req[c].system, t[i].key)
                        /\ t[i].todo \subseteq Relatives(t[i].domain)
    PROVE  ReadsNest(c)'
<1>1. Stored' = Stored
    BY DEF Stored
<1>2. /\ \A s, key : Matching(s, key)' = Matching(s, key)
      /\ \A d : Relatives(d)' = Relatives(d)
    BY <1>1 DEF Matching, Relatives
<1>3. ASSUME NEW i \in 1..Len(t), t[i].domain # None
      PROVE  /\ t[i].domain \in {d \in Stored' :
                    IF t[i].key.by = "name"
                    THEN rows'[d].system = req'[c].system /\ rows'[d].name = t[i].key.of
                    ELSE d = t[i].key.of}
             /\ t[i].todo \subseteq {r \in {"parent", "root"} :
                    IF r = "parent" THEN rows'[t[i].domain].parent # None
                                    ELSE rows'[t[i].domain].root # t[i].domain}
    BY <1>1, <1>3 DEF Matching, Relatives
<1>4. QED
    BY <1>1, <1>3 DEF ReadsNest, Wanted, Matching, Relatives

\* Once ids have been asked for under a wrong system, they have been.
LEMMA ProperlyBefore ==
    ASSUME CacheTypeOK, RowsKept, asked \subseteq asked', AskedProperly'
    PROVE  AskedProperly
<1> SUFFICES ASSUME NEW p \in asked, rows[p[2]] # None PROVE rows[p[2]].system = p[1]
    BY DEF AskedProperly
<1>1. p[2] \in Stored
    BY DEF CacheTypeOK, Stored
<1>2. rows'[p[2]] = rows[p[2]] /\ p \in asked'
    BY <1>1 DEF RowsKept
<1>3. QED
    BY <1>2 DEF AskedProperly

\* What a call has found, and what its reads have found.
LEMMA FoundIsStored ==
    ASSUME CacheInv, NEW d \in Callers
    PROVE  /\ parent[d] # None => parent[d] \in Stored
           /\ \A i \in 1..Len(stack[d]) :
                /\ i < Len(stack[d]) => stack[d][i].key.of \in Stored
                /\ stack[d][i].domain # None => stack[d][i].domain \in Stored
BY DEF CacheInv, RecordsAreStored, ReadsNest, Matching

LEMMA ApartKept ==
    ASSUME CacheInv, RowsKept, NEW d \in Callers, CallStaysApart(d),
           parent'[d] = parent[d], req'[d] = req[d], stack'[d] = stack[d]
    PROVE  CallStaysApart(d)'
<1>1. /\ parent[d] # None => rows'[parent[d]] = rows[parent[d]]
      /\ \A i \in 1..Len(stack[d]) :
            /\ i < Len(stack[d]) => rows'[stack[d][i].key.of] = rows[stack[d][i].key.of]
            /\ stack[d][i].domain # None =>
                    rows'[stack[d][i].domain] = rows[stack[d][i].domain]
    BY FoundIsStored DEF RowsKept
<1>2. QED
    BY <1>1 DEF CallStaysApart

LEMMA WriteKept ==
    ASSUME CacheInv, RowsKept, NEW d \in Callers,
           pc'[d] = pc[d], req'[d] = req[d], parent'[d] = parent[d],
           KeysAreNew(d)'
    PROVE  WriteIsCommitted(d)'
<1>1. WriteIsCommitted(d)
    BY DEF CacheInv
<1>2. ASSUME pc[d] \in {"evict_lock"} \union EvictSteps
      PROVE  rows'[req[d].uuid] = rows[req[d].uuid]
    <2>1. pc[d] \in WriteSteps /\ req[d] # None /\ rows[req[d].uuid] # None
        BY <1>1, <1>2 DEF WriteIsCommitted, WriteSteps, EvictSteps, CacheInv, CacheTypeOK
    <2>2. req[d].uuid \in Domains
        BY <1>1, <2>1, RequestType DEF WriteIsCommitted, CacheInv, CacheTypeOK
    <2>3. QED
        BY <2>1, <2>2 DEF RowsKept, Stored
<1>3. QED
    BY <1>1, <1>2 DEF WriteIsCommitted

-----------------------------------------------------------------------------
(* The shape of every step: the tables keep what they have, and one call moves. *)

TablesKept ==
    /\ RowsKept
    /\ \A d \in Stored' :
        rows'[d].root \in Stored' /\ rows'[d].parent \in Stored' \union {None}
    /\ byUUID' \in [Domains -> Systems \union {None}]
    /\ \A d \in Domains : byUUID'[d] # None => d \in Stored'
    /\ byName' \in [Systems \X Names -> Domains \union {None}]
    /\ byRowID' \subseteq Domains
    /\ asked \subseteq asked'
    /\ asked' \subseteq Systems \X Domains
    /\ AskedProperly' => TreesStayApart' /\ CachesStayApart'

\* What the other open insertions have entered stays new.
CommitsKept(c) == \A d \in Callers \ {c} : KeysAreNew(d)'

\* What open transactions hold is exclusive after a step of c if what c then holds was held
\* by nobody else before.
LEMMA HoldsNext ==
    ASSUME CacheInv, RowsKept, NEW c \in Callers, OthersSame(c),
           pc'[c] \in {"insert_name", "commit"} =>
               \A d \in Callers \ {c} : ~ HoldsUUID(d, req'[c]),
           pc'[c] = "commit" => \A d \in Callers \ {c} : ~ HoldsName(d, req'[c]),
           pc'[c] \in {"insert", "insert_name", "commit"} /\ parent'[c] # None =>
               /\ parent'[c] \in Stored
               /\ \A d \in Callers \ {c} : ~ HoldsTree(d, rows[parent'[c]].root)
    PROVE  HoldsAreExclusive'
<1>1. ASSUME NEW d \in Callers \ {c}
      PROVE  /\ pc'[d] = pc[d] /\ req'[d] = req[d] /\ parent'[d] = parent[d]
             /\ parent[d] # None => rows'[parent[d]] = rows[parent[d]]
    BY DEF OthersSame, CacheInv, RecordsAreStored, RowsKept
<1>2. parent'[c] \in Stored => rows'[parent'[c]] = rows[parent'[c]]
    BY DEF RowsKept
<1>3. ASSUME NEW d \in Callers \ {c}, NEW e \in Callers \ {c}, d # e
      PROVE  /\ pc'[d] \in {"insert_name", "commit"} => ~ HoldsUUID(e, req[d])'
             /\ pc'[d] = "commit" => ~ HoldsName(e, req[d])'
             /\ pc'[d] \in {"insert", "insert_name", "commit"} /\ parent'[d] # None =>
                    ~ HoldsTree(e, rows[parent[d]].root)'
    BY <1>1, <1>3 DEF CacheInv, HoldsAreExclusive, HoldsUUID, HoldsName, HoldsTree
<1>4. ASSUME NEW d \in Callers \ {c}
      PROVE  /\ pc'[c] \in {"insert_name", "commit"} =>
                    ~ HoldsUUID(d, req[c])' /\ (pc'[d] \in {"insert_name", "commit"} => ~ HoldsUUID(c, req[d])')
             /\ pc'[c] = "commit" =>
                    ~ HoldsName(d, req[c])' /\ (pc'[d] = "commit" => ~ HoldsName(c, req[d])')
             /\ pc'[c] \in {"insert", "insert_name", "commit"} /\ parent'[c] # None =>
                    /\ ~ HoldsTree(d, rows[parent[c]].root)'
                    /\ pc'[d] \in {"insert", "insert_name", "commit"} /\ parent'[d] # None =>
                            ~ HoldsTree(c, rows[parent[d]].root)'
    BY <1>1, <1>2 DEF HoldsUUID, HoldsName, HoldsTree
<1>5. QED
    BY <1>3, <1>4 DEF HoldsAreExclusive, HoldsUUID, HoldsName, HoldsTree

LEMMA StepInv ==
    ASSUME CacheInv, NEW c \in Callers, TablesKept, OthersSame(c), CommitsKept(c),
           CacheTypeOK', LockIsHeldToEvict', ConnectionsAreExclusive',
           parent'[c] \in Stored' \union {None}, began'[c] \subseteq Stored',
           ReadsNest(c)', WriteIsCommitted(c)', IsRecorded(c)', HoldsAreExclusive',
           AskedProperly' => CallStaysApart(c)'
    PROVE  CacheInv'
<1>1. RowsKept /\ CacheTypeOK
    BY DEF TablesKept, CacheInv
<1>2. RecordsAreStored'
    <2>1. ASSUME NEW d \in Callers \ {c}
          PROVE  parent'[d] \in Stored' \union {None} /\ began'[d] \subseteq Stored'
        BY <1>1, <2>1, StoredKept DEF OthersSame, CacheInv, RecordsAreStored
    <2>2. QED
        BY <2>1 DEF RecordsAreStored, TablesKept
<1>3. ASSUME NEW d \in Callers \ {c}
      PROVE  ReadsNest(d)' /\ WriteIsCommitted(d)' /\ IsRecorded(d)'
    <2>1. ReadsNest(d)'
        BY <1>1, ReadsNestKept DEF OthersSame, CacheInv
    <2>2. WriteIsCommitted(d)'
        BY <1>1, WriteKept DEF OthersSame, CommitsKept
    <2>3. IsRecorded(d)'
        BY DEF OthersSame, CacheInv, IsRecorded, TablesKept, Wanted
    <2>4. QED
        BY <2>1, <2>2, <2>3
<1>4. ASSUME AskedProperly'
      PROVE  TreesStayApart' /\ CachesStayApart' /\ \A d \in Callers : CallStaysApart(d)'
    <2>1. AskedProperly
        BY <1>1, <1>4, ProperlyBefore DEF TablesKept
    <2>2. ASSUME NEW d \in Callers \ {c} PROVE CallStaysApart(d)'
        BY <1>1, <2>1, ApartKept DEF OthersSame, CacheInv
    <2>3. QED
        BY <1>4, <2>2 DEF TablesKept
<1>5. QED
    BY <1>2, <1>3, <1>4 DEF CacheInv

\* Most steps write no row.
LEMMA SameRows ==
    ASSUME CacheInv, rows' = rows, asked \subseteq asked'
    PROVE  /\ RowsKept
           /\ Stored' = Stored
           /\ \A d \in Stored' :
                rows'[d].root \in Stored' /\ rows'[d].parent \in Stored' \union {None}
           /\ AskedProperly' => TreesStayApart'
<1>1. RowsKept /\ Stored' = Stored
    BY DEF CacheInv, CacheTypeOK, RowsKept, Stored
<1>2. AskedProperly' => TreesStayApart'
    BY <1>1, ProperlyBefore DEF CacheInv, TreesStayApart
<1>3. QED
    BY <1>1, <1>2 DEF CacheInv, RecordsAreStored

LEMMA SameRowsCommits ==
    ASSUME CacheInv, rows' = rows, NEW c \in Callers, OthersSame(c)
    PROVE  CommitsKept(c)
BY DEF CacheInv, WriteIsCommitted, KeysAreNew, CommitsKept, OthersSame, UUIDTaken, NameTaken, Stored

\* No row and no entry changes.
LEMMA SameTables ==
    ASSUME CacheInv, rows' = rows, UNCHANGED caches, asked \subseteq asked',
           asked' \subseteq Systems \X Domains
    PROVE  TablesKept
<1>1. /\ RowsKept
      /\ Stored' = Stored
      /\ \A d \in Stored' :
            rows'[d].root \in Stored' /\ rows'[d].parent \in Stored' \union {None}
      /\ AskedProperly' => TreesStayApart'
    BY SameRows
<1>2. AskedProperly' => CachesStayApart'
    BY <1>1, ProperlyBefore DEF CachesStayApart, CacheInv, caches
<1>3. QED
    BY <1>1, <1>2 DEF TablesKept, caches, CacheInv, CacheTypeOK, RecordsAreStored

\* A call that returns gives back all it holds.
LEMMA ReturnInv ==
    ASSUME CacheInv, NEW c \in Callers, pc[c] # "idle", NEW outcome, Return(c, outcome),
           TablesKept, CommitsKept(c)
    PROVE  CacheInv'
<1> USE DEF CacheInv
<1>1. /\ pc' = [pc EXCEPT ![c] = "idle"]
      /\ held' = [held EXCEPT ![c] = {}]
      /\ holder' = IF holder = c THEN None ELSE holder
      /\ req' = [req EXCEPT ![c] = None]
      /\ stack' = [stack EXCEPT ![c] = <<>>]
      /\ parent' = [parent EXCEPT ![c] = None]
      /\ began' = [began EXCEPT ![c] = {}]
      /\ calls' = calls
    BY DEF Return
<1>2. OthersSame(c)
    BY <1>1 DEF OthersSame, CacheTypeOK
<1>3. /\ pc'[c] = "idle" /\ stack'[c] = <<>> /\ parent'[c] = None /\ began'[c] = {}
      /\ req'[c] = None
    BY <1>1 DEF CacheTypeOK
<1>4. CacheTypeOK'
    BY <1>1 DEF CacheTypeOK, Steps, TablesKept, RowsKept
<1>5. LockIsHeldToEvict'
    BY <1>1, NoneAssumption DEF LockIsHeldToEvict, CacheTypeOK, EvictSteps
<1>6. ConnectionsAreExclusive'
    BY <1>1 DEF ConnectionsAreExclusive, CacheTypeOK
<1>7. ReadsNest(c)' /\ IsRecorded(c)'
    BY <1>3 DEF ReadsNest, IsRecorded, ReadSteps
<1>8. WriteIsCommitted(c)' /\ CallStaysApart(c)'
    BY <1>3 DEF WriteIsCommitted, KeysAreNew, CallStaysApart, WriteSteps, EvictSteps
<1>9. HoldsAreExclusive'
    BY <1>2, <1>3, HoldsNext DEF TablesKept
<1>10. QED
    BY <1>2, <1>3, <1>4, <1>5, <1>6, <1>7, <1>8, <1>9, StepInv

\* It may return at any time without having written.
LEMMA ReturnUnchangedInv ==
    ASSUME CacheInv, NEW c \in Callers, pc[c] # "idle", NEW outcome, Return(c, outcome),
           UNCHANGED <<rows, caches>>
    PROVE  CacheInv'
<1>1. OthersSame(c) /\ asked' = asked
    BY DEF Return, OthersSame, CacheInv, CacheTypeOK
<1>2. TablesKept
    BY <1>1, SameTables DEF CacheInv, CacheTypeOK
<1>3. CommitsKept(c)
    BY <1>1, SameRowsCommits
<1>4. QED
    BY <1>2, <1>3, ReturnInv

-----------------------------------------------------------------------------
(* The invariant, action by action. *)

\* A caller in a call has a request; one that reads has a stack.
LEMMA ActiveType ==
    ASSUME CacheInv, NEW c \in Callers, pc[c] # "idle"
    PROVE  req[c] \in Requests /\ req[c] # None
BY DEF CacheInv, CacheTypeOK

LEMMA ReadingType ==
    ASSUME CacheInv, NEW c \in Callers, pc[c] \in ReadSteps
    PROVE  /\ stack[c] \in Seq(Frames) /\ stack[c] # <<>>
           /\ Len(stack[c]) \in Nat /\ Len(stack[c]) >= 1
           /\ Top(c) = stack[c][1] /\ Top(c) \in Frames
           /\ Top(c).key \in Keys
           /\ \A i \in 1..Len(stack[c]) : stack[c][i] \in Frames
           /\ pc[c] # "idle" /\ req[c] \in Requests
           /\ Wanted(req[c]) \in Keys
           /\ holder # c
<1>1. stack[c] \in Seq(Frames) /\ stack[c] # <<>>
    BY DEF CacheInv, CacheTypeOK, ReadsNest
<1>2. /\ Len(stack[c]) \in Nat /\ Len(stack[c]) >= 1
      /\ Top(c) = stack[c][1]
      /\ \A i \in 1..Len(stack[c]) : stack[c][i] \in Frames
    BY <1>1, TopOfSeq DEF Top
<1>3. Top(c) \in Frames /\ Top(c).key \in Keys
    BY <1>2 DEF Frames
<1>4. stack[c][Len(stack[c])].key = Wanted(req[c])
    BY <1>1 DEF CacheInv, ReadsNest
<1>5. Wanted(req[c]) \in Keys
    BY <1>2, <1>4 DEF Frames
<1>6. pc[c] # "idle" /\ holder # c
    BY DEF ReadSteps, EvictSteps, CacheInv, LockIsHeldToEvict
<1>7. QED
    BY <1>1, <1>2, <1>3, <1>5, <1>6, ActiveType

LEMMA DomainCallInv ==
    ASSUME CacheInv, NEW c \in Callers, DomainCall(c)
    PROVE  CacheInv'
<1> USE DEF CacheInv
<1>1. PICK r \in Requests :
        /\ pc[c] = "idle" /\ calls < MaxCalls /\ calls' = calls + 1
        /\ req' = [req EXCEPT ![c] = r]
        /\ began' = [began EXCEPT ![c] = Stored]
        /\ UNCHANGED <<rows, caches, holder, held, parent>>
        /\ \/ /\ Wanted(r) = None
              /\ pc' = [pc EXCEPT ![c] = "acquire_write"]
              /\ UNCHANGED <<stack, asked>>
           \/ /\ Wanted(r) # None
              /\ pc' = [pc EXCEPT ![c] = "lookup"]
              /\ stack' = [stack EXCEPT ![c] = <<Frame(Wanted(r))>>]
              /\ asked' = IF Wanted(r).by = "name" THEN asked
                          ELSE asked \union {<<r.system, Wanted(r).of>>}
    BY DEF DomainCall, Goto
<1>2. stack[c] = <<>> /\ req[c] = None /\ holder # c
    BY <1>1 DEF ReadsNest, ReadSteps, CacheTypeOK, LockIsHeldToEvict, EvictSteps
<1>3. Wanted(r) # None => Wanted(r) \in Keys
    BY RequestType
<1>4. asked \subseteq asked' /\ asked' \subseteq Systems \X Domains
    <2>1. \/ asked' = asked
          \/ /\ Wanted(r) # None /\ Wanted(r).by # "name"
             /\ asked' = asked \union {<<r.system, Wanted(r).of>>}
        BY <1>1
    <2>2. Wanted(r) # None /\ Wanted(r).by # "name" =>
            <<r.system, Wanted(r).of>> \in Systems \X Domains
        BY <1>3, RequestType, KeyType
    <2>3. QED
        BY <2>1, <2>2 DEF CacheTypeOK
<1>5. OthersSame(c)
    BY <1>1 DEF OthersSame, CacheTypeOK
<1>6. TablesKept /\ CommitsKept(c)
    BY <1>1, <1>4, <1>5, SameTables, SameRowsCommits
<1>7. CacheTypeOK'
    <2>1. Wanted(r) # None => <<Frame(Wanted(r))>> \in Seq(Frames)
        BY <1>3, FrameType, SingletonSeq
    <2>2. calls' \in 0..MaxCalls
        BY <1>1, CallsAssumption DEF CacheTypeOK
    <2>3. began' \in [Callers -> SUBSET Domains]
        BY <1>1 DEF CacheTypeOK, Stored
    <2>4. r # None
        BY RequestType
    <2>5. stack' \in [Callers -> Seq(Frames)]
        BY <1>1, <2>1 DEF CacheTypeOK
    <2>6. /\ pc' \in [Callers -> Steps]
          /\ req' \in [Callers -> Requests \union {None}]
          /\ \A d \in Callers : pc'[d] = "idle" <=> req'[d] = None
        BY <1>1, <2>4 DEF CacheTypeOK, Steps, ReadSteps, WriteSteps
    <2>7. QED
        BY <1>1, <1>4, <2>2, <2>3, <2>5, <2>6 DEF CacheTypeOK, caches
<1>8. LockIsHeldToEvict' /\ ConnectionsAreExclusive'
    BY <1>1 DEF LockIsHeldToEvict, ConnectionsAreExclusive, EvictSteps, CacheTypeOK
<1>9. parent'[c] \in Stored' \union {None} /\ began'[c] \subseteq Stored'
    BY <1>1 DEF RecordsAreStored, CacheTypeOK, Stored
<1>10. HoldsAreExclusive'
    BY <1>1, <1>5, <1>6, HoldsNext DEF TablesKept, CacheTypeOK
<1>11. parent'[c] = None /\ req'[c] = r
    BY <1>1 DEF WriteIsCommitted, CacheTypeOK, WriteSteps, EvictSteps
<1>12. CASE Wanted(r) = None
    <2>1. pc'[c] = "acquire_write" /\ stack'[c] = <<>> /\ asked' = asked
        BY <1>1, <1>2, <1>12 DEF CacheTypeOK
    <2>2. r.op = "write" /\ r.parent = None
        BY <1>12, RequestType, KeyType
    <2>3. ReadsNest(c)' /\ IsRecorded(c)' /\ CallStaysApart(c)'
        BY <2>1, <1>11 DEF ReadsNest, IsRecorded, CallStaysApart, ReadSteps
    <2>4. WriteIsCommitted(c)'
        BY <2>1, <2>2, <1>11 DEF WriteIsCommitted, KeysAreNew, WriteSteps, EvictSteps
    <2>5. QED
        BY <1>5, <1>6, <1>7, <1>8, <1>9, <1>10, <2>3, <2>4, StepInv
<1>13. CASE Wanted(r) # None
    <2> DEFINE f == Frame(Wanted(r))
    <2>1. pc'[c] = "lookup" /\ stack'[c] = <<f>>
        BY <1>1, <1>13 DEF CacheTypeOK
    <2>2. /\ <<f>> # <<>> /\ Len(<<f>>) = 1 /\ <<f>>[1] = f
          /\ f.key = Wanted(r) /\ f.domain = None
        BY <1>3, <1>13, FrameType, SingletonSeq
    <2>3. ReadsNest(c)'
        BY <2>1, <2>2, <1>11 DEF ReadsNest, ReadSteps, Wanted
    <2>4. CallStaysApart(c)'
        BY <2>1, <2>2, <1>11 DEF CallStaysApart
    <2>5. IsRecorded(c)'
        BY <1>1, <1>11, <1>13 DEF IsRecorded, Wanted
    <2>6. WriteIsCommitted(c)'
        BY <2>1, <1>11 DEF WriteIsCommitted, KeysAreNew, WriteSteps, EvictSteps
    <2>7. QED
        BY <1>5, <1>6, <1>7, <1>8, <1>9, <1>10, <2>3, <2>4, <2>5, <2>6, StepInv
<1>14. QED
    BY <1>12, <1>13

\* A step inside a call that touches no table and finds no parent.
LEMMA MoveInv ==
    ASSUME CacheInv, NEW c \in Callers, pc[c] # "idle",
           UNCHANGED <<rows, caches, req, parent, calls, began, asked>>,
           NEW next \in Steps \ {"idle"}, pc' = [pc EXCEPT ![c] = next],
           stack' \in [Callers -> Seq(Frames)], held' \in [Callers -> SUBSET Connections],
           holder' \in Callers \union {None},
           \A d \in Callers \ {c} : stack'[d] = stack[d] /\ held'[d] = held[d],
           stack'[c] # <<>> => stack[c] # <<>>,
           LockIsHeldToEvict', ConnectionsAreExclusive',
           ReadsNest(c)', WriteIsCommitted(c)',
           next \in {"insert", "insert_name", "commit"} => HoldsAreExclusive',
           AskedProperly => CallStaysApart(c)'
    PROVE  CacheInv'
<1> USE DEF CacheInv
<1>1. OthersSame(c)
    BY DEF OthersSame, CacheTypeOK
<1>2. TablesKept /\ CommitsKept(c)
    BY <1>1, SameTables, SameRowsCommits DEF CacheTypeOK
<1>3. CacheTypeOK'
    BY DEF CacheTypeOK, caches
<1>4. parent'[c] \in Stored' \union {None} /\ began'[c] \subseteq Stored'
    BY DEF RecordsAreStored, Stored
<1>5. IsRecorded(c)'
    BY DEF IsRecorded, Wanted
<1>6. HoldsAreExclusive'
    BY <1>1, <1>2, HoldsNext DEF CacheTypeOK, TablesKept
<1>7. AskedProperly' => AskedProperly
    BY DEF AskedProperly
<1>8. QED
    BY <1>1, <1>2, <1>3, <1>4, <1>5, <1>6, <1>7, StepInv

\* A step between two places where a call holds no lock and keeps its connections.
LEMMA QuietMove ==
    ASSUME CacheInv, NEW c \in Callers, pc[c] \notin EvictSteps, pc[c] # "idle",
           NEW next \in Steps \ ({"idle"} \union EvictSteps),
           pc' = [pc EXCEPT ![c] = next], UNCHANGED <<holder, held>>
    PROVE  LockIsHeldToEvict' /\ ConnectionsAreExclusive'
BY DEF CacheInv, CacheTypeOK, LockIsHeldToEvict, ConnectionsAreExclusive

LEMMA AcquireInv ==
    ASSUME CacheInv, NEW c \in Callers, Acquire(c)
    PROVE  CacheInv'
<1> USE DEF CacheInv
<1> DEFINE next == AfterAcquire(c)
<1>1. PICK x \in Free :
        /\ pc[c] \in AcquireSteps
        /\ held' = [held EXCEPT ![c] = @ \union {x}]
        /\ pc' = [pc EXCEPT ![c] = next]
        /\ UNCHANGED <<rows, caches, holder, local>>
    BY DEF Acquire, Goto
<1>2. /\ pc[c] # "idle"
      /\ pc[c] = "acquire_read" => next = "select"
      /\ pc[c] = "acquire_write" => next = IF parent[c] = None THEN "insert" ELSE "update"
      /\ pc[c] = "acquire_evict" => next = "evict_select"
      /\ pc[c] \in {"acquire_read", "acquire_write", "acquire_evict"}
    BY <1>1 DEF AcquireSteps, AfterAcquire
<1>3. next \in Steps \ {"idle"} /\ pc'[c] = next /\ next # "commit"
    BY <1>1, <1>2 DEF Steps, ReadSteps, WriteSteps, EvictSteps, CacheTypeOK
<1> HIDE DEF next
<1>4. /\ UNCHANGED <<rows, caches, req, parent, calls, began, asked>>
      /\ holder' = holder /\ stack' = stack
    BY <1>1 DEF local
<1>5. x \in Connections /\ \A d \in Callers : x \notin held[d]
    BY DEF Free
<1>6. held' \in [Callers -> SUBSET Connections] /\ ConnectionsAreExclusive'
    BY <1>1, <1>2, <1>3, <1>5 DEF ConnectionsAreExclusive, CacheTypeOK
<1>7. LockIsHeldToEvict'
    BY <1>1, <1>2, <1>3 DEF LockIsHeldToEvict, EvictSteps, CacheTypeOK
<1>8. ReadsNest(c)'
    BY <1>2, <1>3, <1>4 DEF ReadsNest, ReadSteps, Matching, Relatives, Stored, Wanted
<1>9. WriteIsCommitted(c)'
    BY <1>2, <1>3, <1>4 DEF WriteIsCommitted, KeysAreNew, WriteSteps, EvictSteps
<1>10. AskedProperly => CallStaysApart(c)'
    BY <1>4 DEF CallStaysApart
<1>11. \A d \in Callers \ {c} : stack'[d] = stack[d] /\ held'[d] = held[d]
    BY <1>1, <1>4 DEF CacheTypeOK
<1>12. next \in {"insert", "insert_name", "commit"} => HoldsAreExclusive'
    <2>1. next \in {"insert", "insert_name", "commit"} => next = "insert" /\ parent'[c] = None
        BY <1>2, <1>4
    <2>2. OthersSame(c) /\ RowsKept
        BY <1>1, <1>4, SameRows DEF OthersSame, CacheTypeOK
    <2>3. QED
        BY <1>3, <2>1, <2>2, HoldsNext
<1>13. QED
    BY <1>1, <1>2, <1>3, <1>4, <1>6, <1>7, <1>8, <1>9, <1>10, <1>11, <1>12, MoveInv
       DEF CacheTypeOK

LEMMA FailInv ==
    ASSUME CacheInv, NEW c \in Callers, AcquireTimeout(c) \/ Fail(c)
    PROVE  CacheInv'
<1>1. pc[c] # "idle"
    BY DEF AcquireTimeout, Fail, AcquireSteps, DatabaseSteps, TransactionSteps
<1>2. QED
    BY <1>1, ReturnUnchangedInv DEF AcquireTimeout, Fail

\* A read that has found a stored domain hands it to the read around it, to the caller
\* or to the insertion.
LEMMA DeliverInv ==
    ASSUME CacheInv, NEW c \in Callers, pc[c] \in {"lookup", "cache_write"},
           NEW d \in Stored, NEW system, Deliver(c, d, system),
           rows' = rows, TablesKept,
           AskedProperly => rows[d].system = req[c].system
    PROVE  CacheInv'
<1> USE DEF CacheInv
<1> DEFINE s == stack[c]
<1>1. /\ s \in Seq(Frames) /\ s # <<>> /\ Len(s) \in Nat /\ Len(s) >= 1
      /\ pc[c] # "idle" /\ holder # c
    BY ReadingType DEF ReadSteps
<1>2. CASE Len(s) > 1
    <2>1. /\ stack' = [stack EXCEPT ![c] = Tail(s)]
          /\ pc' = [pc EXCEPT ![c] = "nested"]
          /\ UNCHANGED <<holder, held, req, parent, calls, began, asked>>
        <3>1. ~ Len(s) = 1
            BY <1>1, <1>2, MoreThanOne
        <3>2. QED
            BY <3>1 DEF Deliver, Goto
    <2>2. /\ Tail(s) \in Seq(Frames) /\ Len(Tail(s)) = Len(s) - 1
          /\ \A i \in 1..(Len(s) - 1) : Tail(s)[i] = s[i + 1]
        BY <1>1, PopSeq
    <2>3. Tail(s) # <<>>
        BY <1>1, <1>2, PopSeq
    <2>4. pc'[c] = "nested" /\ stack'[c] = Tail(s)
        BY <2>1 DEF CacheTypeOK
    <2>5. OthersSame(c)
        BY <2>1 DEF OthersSame, CacheTypeOK
    <2>6. CommitsKept(c)
        BY <2>5, SameRowsCommits
    <2>7. stack' \in [Callers -> Seq(Frames)]
        BY <2>1, <2>2 DEF CacheTypeOK
    <2>8. CacheTypeOK'
        BY <1>1, <2>1, <2>7 DEF CacheTypeOK, TablesKept, Steps, ReadSteps
    <2>9. LockIsHeldToEvict' /\ ConnectionsAreExclusive'
        BY <1>1, <2>1 DEF LockIsHeldToEvict, ConnectionsAreExclusive, EvictSteps, CacheTypeOK
    <2>10. ReadsNest(c)'
        <3> DEFINE reads == Tail(s)
        <3>1. ASSUME NEW i \in 1..Len(reads)
              PROVE  /\ i + 1 \in 1..Len(s) /\ i + 1 # 1 /\ reads[i] = s[i + 1]
                     /\ i < Len(reads) <=> i + 1 < Len(s)
            BY <1>1, <2>2
        <3>2. reads[Len(reads)] = s[Len(s)]
            BY <1>1, <1>2, <2>2
        <3>3. reads[Len(reads)].key = Wanted(req[c])
            BY <1>1, <3>2 DEF ReadsNest
        <3>4. \A i \in 1..Len(reads) :
                /\ i < Len(reads) => reads[i].key.by = "rowid" /\ reads[i].key.of \in Stored
                /\ reads[i].domain # None
                /\ reads[i].domain \in Matching(req[c].system, reads[i].key)
                /\ reads[i].todo \subseteq Relatives(reads[i].domain)
            BY <3>1 DEF ReadsNest
        <3>5. pc'[c] \in ReadSteps /\ req'[c] = req[c]
            BY <2>1, <2>4 DEF ReadSteps
        <3>6. QED
            BY <2>2, <2>3, <2>4, <3>3, <3>4, <3>5, ReadsNestNext
    <2>11. AskedProperly' => CallStaysApart(c)'
        <3>1. AskedProperly' => AskedProperly
            BY <2>1 DEF AskedProperly
        <3>2. \A i \in 1..Len(Tail(s)) :
                i + 1 \in 1..Len(s) /\ Tail(s)[i] = s[i + 1]
                /\ (i < Len(Tail(s)) <=> i + 1 < Len(s))
            BY <1>1, <2>2
        <3>3. QED
            BY <2>1, <2>4, <3>1, <3>2 DEF CallStaysApart
    <2>12. WriteIsCommitted(c)' /\ HoldsAreExclusive' /\ IsRecorded(c)'
        <3>1. WriteIsCommitted(c)'
            BY <2>1, <2>4 DEF WriteIsCommitted, KeysAreNew, WriteSteps, EvictSteps
        <3>2. HoldsAreExclusive'
            <4>1. OthersSame(c)
                BY <2>1 DEF OthersSame, CacheTypeOK
            <4>2. QED
                BY <1>1, <2>4, <4>1, HoldsNext DEF TablesKept
        <3>3. IsRecorded(c)'
            BY <1>1, <2>1 DEF IsRecorded, Wanted
        <3>4. QED
            BY <3>1, <3>2, <3>3
    <2>13. parent'[c] \in Stored' \union {None} /\ began'[c] \subseteq Stored'
        BY <2>1 DEF RecordsAreStored, Stored
    <2>14. QED
        BY <2>5, <2>6, <2>8, <2>9, <2>10, <2>11, <2>12, <2>13, StepInv
<1>3. CASE Len(s) = 1 /\ req[c].op = "read"
    <2>1. Return(c, Answer(d, system))
        BY <1>3 DEF Deliver
    <2>2. OthersSame(c)
        BY <2>1 DEF Return, OthersSame, CacheTypeOK
    <2>3. QED
        BY <1>1, <2>1, <2>2, SameRowsCommits, ReturnInv
<1>4. CASE Len(s) = 1 /\ req[c].op = "write"
    <2>1. /\ stack' = [stack EXCEPT ![c] = <<>>]
          /\ parent' = [parent EXCEPT ![c] = d]
          /\ pc' = [pc EXCEPT ![c] = "acquire_write"]
          /\ UNCHANGED <<holder, held, req, calls, began, asked>>
        BY <1>4 DEF Deliver, Goto
    <2>2. d \in Domains /\ d # None
        BY StoredType, NoneAssumption
    <2>3. /\ pc'[c] = "acquire_write" /\ stack'[c] = <<>> /\ parent'[c] = d
          /\ req'[c] = req[c]
        BY <2>1 DEF CacheTypeOK
    <2>4. req[c].parent # None
        BY <1>4, ReadingType, RequestType, KeyType DEF ReadSteps
    <2>5. OthersSame(c)
        BY <2>1 DEF OthersSame, CacheTypeOK
    <2>6. CommitsKept(c)
        BY <2>5, SameRowsCommits
    <2>7. CacheTypeOK'
        BY <1>1, <2>1, <2>2 DEF CacheTypeOK, TablesKept, Steps, WriteSteps
    <2>8. LockIsHeldToEvict' /\ ConnectionsAreExclusive'
        BY <1>1, <2>1 DEF LockIsHeldToEvict, ConnectionsAreExclusive, EvictSteps, CacheTypeOK
    <2>9. ReadsNest(c)' /\ IsRecorded(c)'
        BY <2>3 DEF ReadsNest, IsRecorded, ReadSteps
    <2>10. WriteIsCommitted(c)' /\ HoldsAreExclusive'
        <3>1. WriteIsCommitted(c)'
            BY <1>4, <2>2, <2>3, <2>4
               DEF WriteIsCommitted, KeysAreNew, WriteSteps, EvictSteps
        <3>2. HoldsAreExclusive'
            BY <1>1, <2>3, <2>5, HoldsNext DEF TablesKept
        <3>3. QED
            BY <3>1, <3>2
    <2>11. AskedProperly' => CallStaysApart(c)'
        <3>1. AskedProperly' => AskedProperly
            BY <2>1 DEF AskedProperly
        <3>2. QED
            BY <2>3, <3>1 DEF CallStaysApart
    <2>12. parent'[c] \in Stored' \union {None} /\ began'[c] \subseteq Stored'
        BY <2>1, <2>3 DEF RecordsAreStored, Stored
    <2>13. QED
        BY <2>5, <2>6, <2>7, <2>8, <2>9, <2>10, <2>11, <2>12, StepInv
<1>5. QED
    BY <1>2, <1>3, <1>4 DEF Deliver

\* A domain that a read has matched is of the system asked about.
LEMMA FoundIsApart ==
    ASSUME CacheInv, NEW c \in Callers, pc[c] \in ReadSteps, AskedProperly,
           NEW d \in Stored,
           IF Top(c).key.by = "name" THEN rows[d].system = req[c].system
                                     ELSE d = Top(c).key.of
    PROVE  rows[d].system = req[c].system
<1>1. /\ Len(stack[c]) \in Nat /\ Len(stack[c]) >= 1 /\ stack[c] # <<>>
      /\ Top(c) = stack[c][1]
    BY ReadingType
<1>2. rows[d] # None
    BY StoredType DEF CacheInv
<1>3. CASE Top(c).key.by = "name"
    BY <1>3
<1>4. CASE Top(c).key.by # "name" /\ Len(stack[c]) = 1
    <2>1. Top(c).key = Wanted(req[c])
        BY <1>1, <1>4 DEF CacheInv, ReadsNest
    <2>2. <<req[c].system, d>> \in asked
        BY <1>1, <1>4, <2>1 DEF CacheInv, IsRecorded
    <2>3. QED
        BY <1>2, <2>2 DEF AskedProperly
<1>5. CASE Top(c).key.by # "name" /\ Len(stack[c]) # 1
    <2>1. 1 \in 1..Len(stack[c]) /\ 1 < Len(stack[c])
        BY <1>1, <1>5, OneOrMore
    <2>2. QED
        BY <1>1, <1>5, <2>1 DEF CacheInv, CallStaysApart
<1>6. QED
    BY <1>3, <1>4, <1>5

LEMMA LookupInv ==
    ASSUME CacheInv, NEW c \in Callers, Lookup(c)
    PROVE  CacheInv'
<1>1. pc[c] = "lookup" /\ rows' = rows /\ UNCHANGED caches /\ pc[c] \in ReadSteps
    BY DEF Lookup, ReadSteps
<1>2. ASSUME NEW d \in CachedDomains(req[c].system, Top(c).key), Deliver(c, d, byUUID[d])
      PROVE  CacheInv'
    <2>1. d \in Domains /\ byUUID[d] # None
        BY DEF CachedDomains
    <2>2. d \in Stored
        BY <2>1 DEF CacheInv, RecordsAreStored
    <2>3. asked' = asked
        BY <1>2 DEF Deliver, Return
    <2>4. TablesKept
        BY <1>1, <2>3, SameTables DEF CacheInv, CacheTypeOK
    <2>5. req[c].system \in Systems /\ Top(c).key \in Keys
        BY <1>1, ReadingType, RequestType
    <2>6. AskedProperly /\ Top(c).key.by = "name" => rows[d].system = req[c].system
        <3>1. Top(c).key.by = "name" =>
                /\ d = byName[<<req[c].system, Top(c).key.of>>]
                /\ Top(c).key.of \in Names
            BY <2>5, KeyType DEF CachedDomains
        <3>2. d # None
            BY <2>1, NoneAssumption
        <3>3. QED
            BY <2>5, <3>1, <3>2 DEF CacheInv, CachesStayApart
    <2>7. Top(c).key.by # "name" => d = Top(c).key.of
        BY <2>5, KeyType DEF CachedDomains
    <2>8. AskedProperly => rows[d].system = req[c].system
        BY <1>1, <2>2, <2>6, <2>7, FoundIsApart
    <2>9. QED
        BY <1>1, <1>2, <2>2, <2>4, <2>8, DeliverInv
<1>3. ASSUME pc' = [pc EXCEPT ![c] = "acquire_read"], UNCHANGED <<holder, held, local>>
      PROVE  CacheInv'
    <2>1. UNCHANGED <<req, parent, calls, began, asked>> /\ stack' = stack
          /\ holder' = holder /\ held' = held /\ pc'[c] = "acquire_read"
        BY <1>3 DEF local, CacheInv, CacheTypeOK
    <2>2. LockIsHeldToEvict' /\ ConnectionsAreExclusive'
        BY <1>1, <1>3, <2>1, QuietMove DEF Steps, ReadSteps, EvictSteps
    <2>3. ReadsNest(c)'
        BY <1>1, <2>1
           DEF CacheInv, ReadsNest, ReadSteps, Matching, Relatives, Stored, Wanted
    <2>4. WriteIsCommitted(c)'
        BY <1>1, <2>1 DEF CacheInv, WriteIsCommitted, KeysAreNew, WriteSteps, EvictSteps, ReadSteps
    <2>5. AskedProperly => CallStaysApart(c)'
        BY <1>1, <2>1 DEF CacheInv, CallStaysApart
    <2>6. QED
        BY <1>1, <1>3, <2>1, <2>2, <2>3, <2>4, <2>5, MoveInv
           DEF CacheInv, CacheTypeOK, Steps, ReadSteps
<1>4. QED
    BY <1>1, <1>2, <1>3 DEF Lookup, Goto

LEMMA SelectInv ==
    ASSUME CacheInv, NEW c \in Callers, Select(c)
    PROVE  CacheInv'
<1> DEFINE s == stack[c]
<1>1. /\ pc[c] = "select" /\ UNCHANGED <<rows, caches>>
      /\ pc[c] \in ReadSteps /\ pc[c] # "idle"
    BY DEF Select, ReadSteps
<1>2. CASE Return(c, Result("NotFound"))
    BY <1>1, <1>2, ReturnUnchangedInv
<1>3. ASSUME NEW d \in Matching(req[c].system, Top(c).key),
             stack' = [stack EXCEPT ![c] =
                <<[key |-> Top(c).key, domain |-> d, todo |-> Relatives(d)]>> \o Tail(s)],
             Goto(c, "nested"),
             UNCHANGED <<holder, held, req, parent, calls, began, asked>>
      PROVE  CacheInv'
    <2> DEFINE f == [key |-> Top(c).key, domain |-> d, todo |-> Relatives(d)]
               t == <<f>> \o Tail(s)
    <2>1. /\ s \in Seq(Frames) /\ s # <<>> /\ Len(s) \in Nat /\ Len(s) >= 1
          /\ Top(c) = s[1] /\ Top(c).key \in Keys
        BY <1>1, ReadingType
    <2>2. d \in Stored /\ d \in Domains /\ d # None
        BY NoneAssumption DEF Matching, Stored
    <2>3. f \in Frames /\ f.key = s[1].key /\ f.domain = d /\ f.todo = Relatives(d)
        BY <2>1, <2>2 DEF Frames, Relatives
    <2>4. /\ t \in Seq(Frames) /\ t # <<>> /\ Len(t) = Len(s) /\ t[1] = f
          /\ \A i \in 1..Len(s) : i # 1 => t[i] = s[i]
        BY <2>1, <2>3, ReplaceTop
    <2>5. pc' = [pc EXCEPT ![c] = "nested"] /\ pc'[c] = "nested" /\ stack'[c] = t
        BY <1>3 DEF Goto, CacheInv, CacheTypeOK
    <2>6. \A i \in 1..Len(t) : t[i].key = s[i].key /\ (i # 1 => t[i] = s[i])
        BY <2>1, <2>3, <2>4
    <2>7. \A i \in 1..Len(s) :
            /\ i < Len(s) => s[i].key.by = "rowid" /\ s[i].key.of \in Stored
            /\ i # 1 => s[i].domain # None
            /\ s[i].domain # None =>
                    /\ s[i].domain \in Matching(req[c].system, s[i].key)
                    /\ s[i].todo \subseteq Relatives(s[i].domain)
        BY <1>1 DEF CacheInv, ReadsNest
    <2>8. t[Len(t)].key = Wanted(req[c])
        BY <2>1, <2>4, <2>6 DEF CacheInv, ReadsNest
    <2>9. \A i \in 1..Len(t) :
            /\ i < Len(t) => t[i].key.by = "rowid" /\ t[i].key.of \in Stored
            /\ t[i].domain # None
            /\ t[i].domain \in Matching(req[c].system, t[i].key)
            /\ t[i].todo \subseteq Relatives(t[i].domain)
        BY <1>3, <2>1, <2>2, <2>3, <2>4, <2>6, <2>7
    <2>10. ReadsNest(c)'
        BY <1>1, <1>3, <2>4, <2>5, <2>8, <2>9, ReadsNestNext DEF CacheInv, ReadSteps
    <2>11. AskedProperly => CallStaysApart(c)'
        <3>1. IF Top(c).key.by = "name" THEN rows[d].system = req[c].system
                                        ELSE d = Top(c).key.of
            BY DEF Matching
        <3>2. AskedProperly => rows[d].system = req[c].system
            BY <1>1, <2>2, <3>1, FoundIsApart
        <3>3. QED
            BY <1>1, <1>3, <2>3, <2>4, <2>5, <2>6, <3>2 DEF CacheInv, CallStaysApart
    <2>12. LockIsHeldToEvict' /\ ConnectionsAreExclusive'
        BY <1>1, <1>3, <2>5, QuietMove DEF Steps, ReadSteps, EvictSteps
    <2>13. WriteIsCommitted(c)'
        BY <1>1, <1>3, <2>5 DEF CacheInv, WriteIsCommitted, KeysAreNew, WriteSteps, EvictSteps
    <2>14. stack' \in [Callers -> Seq(Frames)]
        BY <1>3, <2>4 DEF CacheInv, CacheTypeOK
    <2>15. QED
        BY <1>1, <1>3, <2>1, <2>5, <2>10, <2>11, <2>12, <2>13, <2>14, MoveInv
           DEF CacheInv, CacheTypeOK, Steps, ReadSteps
<1>4. QED
    BY <1>1, <1>2, <1>3 DEF Select

LEMMA ReadRelativeInv ==
    ASSUME CacheInv, NEW c \in Callers, ReadRelative(c)
    PROVE  CacheInv'
<1> DEFINE s == stack[c]
           r == IF "parent" \in Top(c).todo THEN "parent" ELSE "root"
           e == Relative(Top(c).domain, r)
           key == [by |-> "rowid", of |-> e]
           f == Frame(key)
           g == [Top(c) EXCEPT !.todo = @ \ {r}]
           t == <<f, g>> \o Tail(s)
<1>1. /\ pc[c] = "nested" /\ Top(c).todo # {}
      /\ stack' = [stack EXCEPT ![c] = t]
      /\ pc' = [pc EXCEPT ![c] = "lookup"]
      /\ UNCHANGED <<rows, caches, holder, held, req, parent, calls, began, asked>>
    BY DEF ReadRelative, Goto
<1>2. /\ s \in Seq(Frames) /\ s # <<>> /\ Len(s) \in Nat /\ Len(s) >= 1
      /\ Top(c) = s[1] /\ Top(c) \in Frames /\ pc[c] \in ReadSteps
    BY <1>1, ReadingType DEF ReadSteps
<1>3. 1 \in 1..Len(s)
    BY <1>2, OneOrMore
<1>4. /\ Top(c).domain # None
      /\ Top(c).domain \in Stored
      /\ Top(c).todo \subseteq Relatives(Top(c).domain)
    BY <1>1, <1>2, <1>3 DEF CacheInv, ReadsNest, Matching
<1>5. Top(c).todo \subseteq {"parent", "root"}
    BY <1>2 DEF Frames
<1>6. r \in Top(c).todo
    BY <1>1, <1>5
<1>7. e \in Stored /\ e \in {rows[Top(c).domain].parent, rows[Top(c).domain].root} \ {None}
    <2>1. r \in Relatives(Top(c).domain)
        BY <1>4, <1>6
    <2>2. \A d \in Stored : d # None
        BY StoredType, NoneAssumption DEF CacheInv
    <2>3. CASE r = "parent"
        BY <1>4, <2>1, <2>2, <2>3 DEF Relatives, Relative, CacheInv, RecordsAreStored
    <2>4. CASE r # "parent"
        BY <1>4, <2>1, <2>2, <2>4 DEF Relatives, Relative, CacheInv, RecordsAreStored
    <2>5. QED
        BY <2>3, <2>4
<1>8. key \in Keys /\ key.by = "rowid" /\ key.of = e
    BY <1>7 DEF Keys, Stored
<1>9. f \in Frames /\ f.key = key /\ f.domain = None /\ f.todo = {}
    BY <1>8, FrameType
<1>10. g \in Frames /\ g.key = s[1].key /\ g.domain = s[1].domain /\ g.todo \subseteq s[1].todo
    BY <1>2 DEF Frames
<1>11. /\ t \in Seq(Frames) /\ t # <<>> /\ Len(t) = Len(s) + 1 /\ t[1] = f /\ t[2] = g
       /\ \A i \in 3..(Len(s) + 1) : t[i] = s[i - 1]
    BY <1>2, <1>9, <1>10, PushSeq
<1> HIDE DEF r, e, key, f, g, t
<1>12. \A i \in 1..Len(t) : i # 1 =>
            \E j \in 1..Len(s) :
                /\ i < Len(t) => j < Len(s)
                /\ t[i].key = s[j].key /\ t[i].domain = s[j].domain
                /\ t[i].todo \subseteq s[j].todo
    <2>1. ASSUME NEW i \in 1..Len(t), i # 1
          PROVE  \E j \in 1..Len(s) :
                /\ i < Len(t) => j < Len(s)
                /\ t[i].key = s[j].key /\ t[i].domain = s[j].domain
                /\ t[i].todo \subseteq s[j].todo
        <3>1. \/ i = 2 /\ 1 \in 1..Len(s) /\ (i < Len(t) => 1 < Len(s))
              \/ i \in 3..(Len(s) + 1) /\ i - 1 \in 1..Len(s) /\ (i < Len(t) => i - 1 < Len(s))
            BY <1>2, <1>11, <2>1, BelowTheTop
        <3>2. QED
            BY <1>10, <1>11, <3>1
    <2>2. QED
        BY <2>1
<1>13. t[Len(t)].key = Wanted(req[c])
    <2>1. s[Len(s)].key = Wanted(req[c])
        BY <1>2 DEF CacheInv, ReadsNest
    <2>2. \/ Len(s) = 1
          \/ Len(s) + 1 \in 3..(Len(s) + 1) /\ (Len(s) + 1) - 1 = Len(s)
        BY <1>2, BelowTheTop
    <2>3. CASE Len(s) = 1
        <3>1. Len(t) = 2
            BY <1>11, <2>3
        <3>2. QED
            BY <1>10, <1>11, <2>1, <2>3, <3>1
    <2>4. CASE Len(s) + 1 \in 3..(Len(s) + 1) /\ (Len(s) + 1) - 1 = Len(s)
        <3>1. t[Len(s) + 1] = s[Len(s)]
            BY <1>11, <2>4
        <3>2. QED
            BY <1>11, <2>1, <3>1
    <2>5. QED
        BY <2>2, <2>3, <2>4
<1>14. pc'[c] = "lookup" /\ stack'[c] = t
    BY <1>1 DEF CacheInv, CacheTypeOK
<1>15. \A i \in 1..Len(t) :
        /\ i < Len(t) => t[i].key.by = "rowid" /\ t[i].key.of \in Stored
        /\ t[i].domain = None <=> i = 1
        /\ t[i].domain # None =>
                /\ t[i].domain \in Matching(req[c].system, t[i].key)
                /\ t[i].todo \subseteq Relatives(t[i].domain)
    <2>1. \A j \in 1..Len(s) :
            /\ j < Len(s) => s[j].key.by = "rowid" /\ s[j].key.of \in Stored
            /\ s[j].domain # None
            /\ s[j].domain \in Matching(req[c].system, s[j].key)
            /\ s[j].todo \subseteq Relatives(s[j].domain)
        BY <1>1 DEF CacheInv, ReadsNest
    <2>2. ASSUME NEW i \in 1..Len(t), i # 1
          PROVE  /\ i < Len(t) => t[i].key.by = "rowid" /\ t[i].key.of \in Stored
                 /\ t[i].domain # None
                 /\ t[i].domain \in Matching(req[c].system, t[i].key)
                 /\ t[i].todo \subseteq Relatives(t[i].domain)
        BY <1>12, <2>1, <2>2
    <2>3. QED
        BY <1>7, <1>8, <1>9, <1>11, <2>2
<1>16. ReadsNest(c)'
    BY <1>1, <1>11, <1>13, <1>14, <1>15, ReadsNestNext DEF CacheInv, ReadSteps
<1>17. AskedProperly => CallStaysApart(c)'
    <2> SUFFICES ASSUME AskedProperly PROVE CallStaysApart(c)'
        OBVIOUS
    <2>1. /\ TreesStayApart
          /\ parent[c] # None => rows[parent[c]].system = req[c].system
          /\ \A j \in 1..Len(s) :
                /\ j < Len(s) => rows[s[j].key.of].system = req[c].system
                /\ s[j].domain # None => rows[s[j].domain].system = req[c].system
        BY DEF CacheInv, CallStaysApart
    <2>2. rows[Top(c).domain].system = req[c].system
        BY <1>2, <1>3, <1>4, <2>1
    <2>3. rows[e].system = req[c].system
        BY <1>4, <1>7, <2>1, <2>2 DEF TreesStayApart
    <2>4. \A i \in 1..Len(t) :
            /\ i < Len(t) => rows[t[i].key.of].system = req[c].system
            /\ t[i].domain # None => rows[t[i].domain].system = req[c].system
        <3>1. ASSUME NEW i \in 1..Len(t), i # 1
              PROVE  /\ i < Len(t) => rows[t[i].key.of].system = req[c].system
                     /\ t[i].domain # None => rows[t[i].domain].system = req[c].system
            BY <1>12, <2>1, <3>1
        <3>2. QED
            BY <1>8, <1>9, <1>11, <2>3, <3>1
    <2>5. QED
        BY <1>1, <1>14, <2>1, <2>4 DEF CallStaysApart
<1>18. LockIsHeldToEvict' /\ ConnectionsAreExclusive'
    BY <1>1, QuietMove DEF Steps, ReadSteps, EvictSteps
<1>19. WriteIsCommitted(c)'
    BY <1>1, <1>14 DEF CacheInv, WriteIsCommitted, KeysAreNew, WriteSteps, EvictSteps
<1>20. stack' \in [Callers -> Seq(Frames)]
    BY <1>1, <1>11 DEF CacheInv, CacheTypeOK
<1>21. \A d \in Callers \ {c} : stack'[d] = stack[d] /\ held'[d] = held[d]
    BY <1>1 DEF CacheInv, CacheTypeOK
<1>22. "lookup" \in Steps \ {"idle"} /\ pc[c] # "idle"
    BY <1>1 DEF Steps, ReadSteps
<1>23. held' \in [Callers -> SUBSET Connections] /\ holder' \in Callers \union {None}
    BY <1>1 DEF CacheInv, CacheTypeOK
<1>24. QED
    BY <1>1, <1>2, <1>16, <1>17, <1>18, <1>19, <1>20, <1>21, <1>22, <1>23, MoveInv

LEMMA EndReadInv ==
    ASSUME CacheInv, NEW c \in Callers, EndRead(c)
    PROVE  CacheInv'
<1>1. PICK x :
        /\ pc[c] = "nested"
        /\ held' = [held EXCEPT ![c] = @ \ {x}]
        /\ pc' = [pc EXCEPT ![c] = "cache_write"]
        /\ UNCHANGED <<rows, caches, holder, local>>
    BY DEF EndRead, Goto
<1>2. /\ UNCHANGED <<req, parent, calls, began, asked>> /\ stack' = stack
      /\ pc'[c] = "cache_write"
    BY <1>1 DEF local, CacheInv, CacheTypeOK
<1>3. LockIsHeldToEvict'
    BY <1>1 DEF CacheInv, CacheTypeOK, LockIsHeldToEvict, EvictSteps
<1>4. held' \in [Callers -> SUBSET Connections] /\ ConnectionsAreExclusive'
    BY <1>1 DEF CacheInv, CacheTypeOK, ConnectionsAreExclusive
<1>5. ReadsNest(c)'
    BY <1>1, <1>2 DEF CacheInv, ReadsNest, ReadSteps, Matching, Relatives, Stored, Wanted
<1>6. WriteIsCommitted(c)'
    BY <1>1, <1>2 DEF CacheInv, WriteIsCommitted, KeysAreNew, WriteSteps, EvictSteps
<1>7. AskedProperly => CallStaysApart(c)'
    BY <1>1, <1>2 DEF CacheInv, CallStaysApart
<1>8. \A d \in Callers \ {c} : stack'[d] = stack[d] /\ held'[d] = held[d]
    BY <1>1, <1>2 DEF CacheInv, CacheTypeOK
<1>9. QED
    BY <1>1, <1>2, <1>3, <1>4, <1>5, <1>6, <1>7, <1>8, MoveInv
       DEF CacheInv, CacheTypeOK, Steps, ReadSteps

LEMMA CacheWriteInv ==
    ASSUME CacheInv, NEW c \in Callers, CacheWrite(c)
    PROVE  CacheInv'
<1> DEFINE d == Top(c).domain
           s == req[c].system
<1>1. PICK set \in 0..3 :
        /\ pc[c] = "cache_write" /\ rows' = rows
        /\ byUUID' = IF set < 1 THEN byUUID ELSE [byUUID EXCEPT ![d] = s]
        /\ byName' = IF set < 2 THEN byName ELSE [byName EXCEPT ![<<s, rows[d].name>>] = d]
        /\ byRowID' = IF set < 3 THEN byRowID ELSE byRowID \union {d}
        /\ IF set < 3 THEN Return(c, Result("Internal")) ELSE Deliver(c, d, s)
    BY DEF CacheWrite
<1>2. /\ stack[c] # <<>> /\ Len(stack[c]) \in Nat /\ Len(stack[c]) >= 1
      /\ Top(c) = stack[c][1] /\ pc[c] # "idle" /\ s \in Systems
    BY <1>1, ReadingType, RequestType DEF ReadSteps
<1>3. 1 \in 1..Len(stack[c])
    BY <1>2, OneOrMore
<1>4. d # None /\ d \in Stored
    BY <1>1, <1>2, <1>3 DEF CacheInv, ReadsNest, Matching
<1>5. d \in Domains /\ rows[d] \in Rows /\ rows[d] # None /\ rows[d].name \in Names
    BY <1>4, StoredType DEF CacheInv, Rows
<1>6. AskedProperly => rows[d].system = s
    BY <1>2, <1>3, <1>4 DEF CacheInv, CallStaysApart
<1>7. asked' = asked
    BY <1>1 DEF Deliver, Return
<1>8. TablesKept
    <2>1. /\ RowsKept /\ Stored' = Stored
          /\ \A x \in Stored' :
                rows'[x].root \in Stored' /\ rows'[x].parent \in Stored' \union {None}
          /\ AskedProperly' => TreesStayApart'
        BY <1>1, <1>7, SameRows
    <2>2. /\ byUUID' \in [Domains -> Systems \union {None}]
          /\ byName' \in [Systems \X Names -> Domains \union {None}]
          /\ byRowID' \subseteq Domains
        BY <1>1, <1>2, <1>5 DEF CacheInv, CacheTypeOK
    <2>3. \A x \in Domains : byUUID'[x] # None => x \in Stored'
        BY <1>1, <1>4, <1>5, <2>1 DEF CacheInv, CacheTypeOK, RecordsAreStored
    <2>4. AskedProperly' => AskedProperly
        BY <1>1, <1>7 DEF AskedProperly
    <2>5. ASSUME AskedProperly PROVE CachesStayApart'
        <3>1. CachesStayApart /\ rows[d].system = s
            BY <1>6, <2>5 DEF CacheInv
        <3>2. \A x \in Domains :
                byUUID'[x] # None => rows[x] # None /\ byUUID'[x] = rows[x].system
            BY <1>1, <1>5, <3>1 DEF CachesStayApart, CacheInv, CacheTypeOK
        <3>3. \A y \in Systems, n \in Names :
                byName'[<<y, n>>] # None =>
                    /\ rows[byName'[<<y, n>>]] # None
                    /\ rows[byName'[<<y, n>>]].system = y
                    /\ rows[byName'[<<y, n>>]].name = n
            BY <1>1, <1>2, <1>5, <3>1 DEF CachesStayApart, CacheInv, CacheTypeOK
        <3>4. QED
            BY <1>1, <3>2, <3>3 DEF CachesStayApart
    <2>6. asked' \subseteq Systems \X Domains
        BY <1>7 DEF CacheInv, CacheTypeOK
    <2>7. QED
        BY <1>7, <2>1, <2>2, <2>3, <2>4, <2>5, <2>6 DEF TablesKept
<1>9. CASE Return(c, Result("Internal"))
    <2>1. OthersSame(c)
        BY <1>9 DEF Return, OthersSame, CacheInv, CacheTypeOK
    <2>2. QED
        BY <1>1, <1>2, <1>8, <1>9, <2>1, SameRowsCommits, ReturnInv
<1>10. CASE Deliver(c, d, s)
    BY <1>1, <1>4, <1>6, <1>8, <1>10, DeliverInv
<1>11. QED
    BY <1>1, <1>9, <1>10

\* A caller that writes has a write request.
LEMMA WritingType ==
    ASSUME CacheInv, NEW c \in Callers, pc[c] \in WriteSteps
    PROVE  /\ pc[c] # "idle" /\ req[c] \in Requests /\ req[c].op = "write"
           /\ req[c].system \in Systems /\ req[c].uuid \in Domains /\ req[c].name \in Names
           /\ Wanted(req[c]) = req[c].parent
           /\ stack[c] = <<>>
           /\ req[c].parent = None <=> parent[c] = None
           /\ parent[c] \in Domains \union {None} /\ parent[c] \in Stored \union {None}
<1>1. pc[c] # "idle" /\ stack[c] = <<>>
    BY DEF CacheInv, ReadsNest, ReadSteps, WriteSteps, EvictSteps
<1>2. req[c] \in Requests /\ req[c].op = "write" /\ (req[c].parent = None <=> parent[c] = None)
    BY <1>1, ActiveType DEF CacheInv, WriteIsCommitted
<1>3. parent[c] \in Domains \union {None} /\ parent[c] \in Stored \union {None}
    BY DEF CacheInv, CacheTypeOK, RecordsAreStored
<1>4. QED
    BY <1>1, <1>2, <1>3, RequestType

\* A statement of an insertion that is done.
LEMMA InsertionMoveInv ==
    ASSUME CacheInv, NEW c \in Callers, pc[c] \in {"update", "insert", "insert_name"},
           NEW next \in {"insert", "insert_name", "commit"}, Goto(c, next),
           UNCHANGED <<rows, caches, holder, held, local>>,
           KeysAreNew(c)', HoldsAreExclusive'
    PROVE  CacheInv'
<1>1. /\ UNCHANGED <<req, parent, calls, began, asked>>
      /\ pc' = [pc EXCEPT ![c] = next] /\ stack' = stack /\ pc'[c] = next
      /\ pc[c] \in WriteSteps /\ pc[c] # "idle"
    BY DEF Goto, local, CacheInv, CacheTypeOK, WriteSteps
<1>2. LockIsHeldToEvict' /\ ConnectionsAreExclusive'
    BY <1>1, QuietMove DEF Steps, WriteSteps, EvictSteps
<1>3. ReadsNest(c)'
    BY <1>1, WritingType DEF ReadsNest, ReadSteps
<1>4. WriteIsCommitted(c)'
    BY <1>1, WritingType DEF WriteIsCommitted, WriteSteps, EvictSteps
<1>5. AskedProperly => CallStaysApart(c)'
    BY <1>1 DEF CacheInv, CallStaysApart
<1>6. QED
    BY <1>1, <1>2, <1>3, <1>4, <1>5, MoveInv DEF CacheInv, CacheTypeOK, Steps, WriteSteps

\* What such a statement leaves as it was.
LEMMA InsertionFrame ==
    ASSUME CacheInv, NEW c \in Callers, NEW next, Goto(c, next),
           UNCHANGED <<rows, caches, holder, held, local>>
    PROVE  /\ RowsKept /\ OthersSame(c) /\ pc'[c] = next
           /\ rows' = rows /\ req' = req /\ parent' = parent
BY SameRows DEF Goto, local, OthersSame, CacheInv, CacheTypeOK

LEMMA UpdateInv ==
    ASSUME CacheInv, NEW c \in Callers, Update(c)
    PROVE  CacheInv'
<1>1. /\ pc[c] = "update" /\ pc[c] \in WriteSteps
      /\ \A d \in Callers \ {c} : ~ HoldsTree(d, rows[parent[c]].root)
      /\ Goto(c, "insert") /\ UNCHANGED <<rows, caches, holder, held, local>>
    BY DEF Update, WriteSteps
<1>2. RowsKept /\ OthersSame(c) /\ pc'[c] = "insert" /\ parent' = parent
    BY <1>1, InsertionFrame
<1>3. parent[c] \in Stored \union {None}
    BY <1>1, WritingType
<1>4. HoldsAreExclusive'
    BY <1>1, <1>2, <1>3, HoldsNext
<1>5. KeysAreNew(c)'
    BY <1>2 DEF KeysAreNew
<1>6. QED
    BY <1>1, <1>4, <1>5, InsertionMoveInv

LEMMA InsertInv ==
    ASSUME CacheInv, NEW c \in Callers, Insert(c)
    PROVE  CacheInv'
<1>1. /\ pc[c] = "insert" /\ pc[c] \in WriteSteps /\ pc[c] # "idle"
      /\ UNCHANGED <<rows, caches>>
      /\ \A d \in Callers \ {c} : ~ HoldsUUID(d, req[c])
    BY DEF Insert, WriteSteps
<1>2. CASE Return(c, Result("Internal"))
    BY <1>1, <1>2, ReturnUnchangedInv
<1>3. CASE ~ UUIDTaken(req[c]) /\ Goto(c, "insert_name") /\ UNCHANGED <<holder, held, local>>
    <2>1. /\ RowsKept /\ OthersSame(c) /\ pc'[c] = "insert_name"
          /\ rows' = rows /\ req' = req /\ parent' = parent
        BY <1>1, <1>3, InsertionFrame
    <2>2. parent[c] # None => /\ parent[c] \in Stored
                             /\ \A d \in Callers \ {c} : ~ HoldsTree(d, rows[parent[c]].root)
        BY <1>1, WritingType DEF CacheInv, HoldsAreExclusive
    <2>3. HoldsAreExclusive'
        BY <1>1, <2>1, <2>2, HoldsNext
    <2>4. KeysAreNew(c)'
        BY <1>3, <2>1 DEF KeysAreNew, UUIDTaken
    <2>5. QED
        BY <1>1, <1>3, <2>3, <2>4, InsertionMoveInv
<1>4. QED
    BY <1>2, <1>3 DEF Insert

LEMMA InsertNameInv ==
    ASSUME CacheInv, NEW c \in Callers, InsertName(c)
    PROVE  CacheInv'
<1>1. /\ pc[c] = "insert_name" /\ pc[c] \in WriteSteps /\ pc[c] # "idle"
      /\ UNCHANGED <<rows, caches>>
      /\ \A d \in Callers \ {c} : ~ HoldsName(d, req[c])
    BY DEF InsertName, WriteSteps
<1>2. CASE Return(c, Result("Internal"))
    BY <1>1, <1>2, ReturnUnchangedInv
<1>3. CASE ~ NameTaken(req[c]) /\ Goto(c, "commit") /\ UNCHANGED <<holder, held, local>>
    <2>1. /\ RowsKept /\ OthersSame(c) /\ pc'[c] = "commit"
          /\ rows' = rows /\ req' = req /\ parent' = parent
        BY <1>1, <1>3, InsertionFrame
    <2>2. /\ parent[c] # None =>
                /\ parent[c] \in Stored
                /\ \A d \in Callers \ {c} : ~ HoldsTree(d, rows[parent[c]].root)
          /\ \A d \in Callers \ {c} : ~ HoldsUUID(d, req[c])
          /\ ~ UUIDTaken(req[c])
        BY <1>1, WritingType DEF CacheInv, HoldsAreExclusive, WriteIsCommitted, KeysAreNew
    <2>3. HoldsAreExclusive'
        BY <1>1, <2>1, <2>2, HoldsNext
    <2>4. KeysAreNew(c)'
        BY <1>3, <2>1, <2>2 DEF KeysAreNew, UUIDTaken, NameTaken, Stored
    <2>5. QED
        BY <1>1, <1>3, <2>3, <2>4, InsertionMoveInv
<1>4. QED
    BY <1>2, <1>3 DEF InsertName

LEMMA CommitInv ==
    ASSUME CacheInv, NEW c \in Callers, Commit(c)
    PROVE  CacheInv'
<1> DEFINE u == req[c].uuid
           row == NewRow(c)
<1>1. /\ pc[c] = "commit" /\ UNCHANGED caches /\ pc[c] \in WriteSteps
      /\ rows' = [rows EXCEPT ![u] = row]
    BY DEF Commit, WriteSteps
<1>2. /\ pc[c] # "idle" /\ req[c] \in Requests /\ req[c].op = "write"
      /\ req[c].system \in Systems /\ u \in Domains /\ req[c].name \in Names
      /\ parent[c] \in Domains \union {None} /\ parent[c] \in Stored \union {None}
      /\ stack[c] = <<>>
      /\ req[c].parent = None <=> parent[c] = None
    BY <1>1, WritingType
<1>3. ~ UUIDTaken(req[c])
    BY <1>1 DEF CacheInv, WriteIsCommitted, KeysAreNew
<1>4. u \notin Stored
    BY <1>3 DEF UUIDTaken, Stored
<1>5. /\ row.system = req[c].system /\ row.name = req[c].name /\ row.parent = parent[c]
      /\ parent[c] = None => row.root = u
      /\ parent[c] # None => row.root = rows[parent[c]].root
    BY DEF NewRow
<1>6. parent[c] # None => /\ parent[c] \in Stored /\ rows[parent[c]].root \in Stored
    BY <1>2 DEF CacheInv, RecordsAreStored
<1>7. row \in Rows /\ row # None
    <2>1. row.root \in Domains
        BY <1>2, <1>5, <1>6 DEF Stored
    <2>2. row \in Rows
        BY <1>2, <1>5, <2>1 DEF Rows, NewRow
    <2>3. QED
        BY <2>2, NoneAssumption
<1> HIDE DEF row
<1>8. rows'[u] = row /\ \A d \in Domains : d # u => rows'[d] = rows[d]
    BY <1>1, <1>2 DEF CacheInv, CacheTypeOK
<1>9. RowsKept /\ Stored' = Stored \union {u}
    <2>1. rows' \in [Domains -> Rows \union {None}]
        BY <1>1, <1>7 DEF CacheInv, CacheTypeOK
    <2>2. QED
        BY <1>2, <1>4, <1>7, <1>8, <2>1 DEF RowsKept, Stored
<1>10. asked' = asked
    BY DEF Commit, Return, local
<1>11. AskedProperly' => AskedProperly
    BY <1>9, <1>10, ProperlyBefore DEF CacheInv
<1>12. TablesKept
    <2>1. \A d \in Stored' :
            rows'[d].root \in Stored' /\ rows'[d].parent \in Stored' \union {None}
        <3>1. ASSUME NEW d \in Stored
              PROVE  rows'[d].root \in Stored' /\ rows'[d].parent \in Stored' \union {None}
            BY <1>9 DEF RowsKept, CacheInv, RecordsAreStored
        <3>2. row.root \in Stored' /\ row.parent \in Stored' \union {None}
            BY <1>2, <1>5, <1>6, <1>9
        <3>3. QED
            BY <1>8, <1>9, <3>1, <3>2
    <2>2. /\ byUUID' \in [Domains -> Systems \union {None}]
          /\ byName' \in [Systems \X Names -> Domains \union {None}]
          /\ byRowID' \subseteq Domains
          /\ asked' \subseteq Systems \X Domains
        BY <1>1, <1>10 DEF caches, CacheInv, CacheTypeOK
    <2>3. \A d \in Domains : byUUID'[d] # None => d \in Stored'
        BY <1>1, <1>9 DEF caches, CacheInv, RecordsAreStored
    <2>4. ASSUME AskedProperly PROVE TreesStayApart'
        <3>1. TreesStayApart /\ (parent[c] # None => rows[parent[c]].system = req[c].system)
            BY <2>4 DEF CacheInv, CallStaysApart
        <3>2. ASSUME NEW d \in Stored, NEW e \in {rows[d].parent, rows[d].root} \ {None}
              PROVE  rows'[e].system = rows'[d].system /\ rows'[d] = rows[d]
            <4>1. e \in Stored
                BY DEF CacheInv, RecordsAreStored
            <4>2. QED
                BY <1>9, <3>1, <4>1 DEF RowsKept, TreesStayApart
        <3>3. ASSUME NEW e \in {row.parent, row.root} \ {None}
              PROVE  rows'[e].system = row.system
            <4>1. CASE parent[c] = None
                BY <1>5, <1>8, <4>1
            <4>2. CASE parent[c] # None
                <5>1. e \in Stored /\ (e = parent[c] \/ e = rows[parent[c]].root)
                    BY <1>5, <1>6, <4>2
                <5>2. rows[e].system = req[c].system
                    <6>1. CASE e = parent[c]
                        BY <3>1, <4>2, <6>1
                    <6>2. CASE e = rows[parent[c]].root
                        <7>1. e # None
                            OBVIOUS
                        <7>2. QED
                            BY <1>6, <3>1, <4>2, <6>2, <7>1 DEF TreesStayApart
                    <6>3. QED
                        BY <5>1, <6>1, <6>2
                <5>3. QED
                    BY <1>5, <1>9, <5>1, <5>2 DEF RowsKept
            <4>3. QED
                BY <4>1, <4>2
        <3>4. ASSUME NEW d \in Stored', NEW e \in {rows'[d].parent, rows'[d].root} \ {None}
              PROVE  rows'[e].system = rows'[d].system
            <4>1. CASE d \in Stored
                BY <1>9, <3>2, <4>1 DEF RowsKept
            <4>2. CASE d = u
                BY <1>8, <3>3, <4>2
            <4>3. QED
                BY <1>9, <4>1, <4>2
        <3>5. QED
            BY <3>4 DEF TreesStayApart
    <2>5. ASSUME AskedProperly PROVE CachesStayApart'
        <3>1. CachesStayApart
            BY <2>5 DEF CacheInv
        <3>2. ASSUME NEW d \in Domains, rows[d] # None PROVE rows'[d] = rows[d]
            BY <1>9, <3>2 DEF RowsKept, Stored
        <3>3. ASSUME NEW s \in Systems, NEW n \in Names, byName[<<s, n>>] # None
              PROVE  byName[<<s, n>>] \in Domains
            BY <3>3 DEF CacheInv, CacheTypeOK
        <3>4. QED
            BY <1>1, <3>1, <3>2, <3>3 DEF CachesStayApart, caches
    <2>6. QED
        BY <1>9, <1>10, <1>11, <2>1, <2>2, <2>3, <2>4, <2>5 DEF TablesKept
<1>13. ASSUME NEW d \in Callers \ {c}, pc'[d] = pc[d], req'[d] = req[d]
       PROVE  KeysAreNew(d)'
    <2>1. KeysAreNew(d)
        BY DEF CacheInv, WriteIsCommitted
    <2>2. ASSUME pc[d] \in {"insert_name", "commit"} PROVE rows'[req[d].uuid] = None
        <3>1. u # req[d].uuid
            BY <1>1, <2>2 DEF CacheInv, HoldsAreExclusive, HoldsUUID
        <3>2. req[d].uuid \in Domains
            BY <2>2, WritingType DEF WriteSteps
        <3>3. QED
            BY <1>8, <2>1, <2>2, <3>1, <3>2 DEF KeysAreNew, UUIDTaken
    <2>3. ASSUME pc[d] = "commit", NEW e \in Stored'
          PROVE  rows'[e].system # req[d].system \/ rows'[e].name # req[d].name
        <3>1. req[c].system # req[d].system \/ req[c].name # req[d].name
            BY <1>1, <2>3 DEF CacheInv, HoldsAreExclusive, HoldsName
        <3>2. CASE e = u
            BY <1>5, <1>8, <3>1, <3>2
        <3>3. CASE e \in Stored
            BY <1>9, <2>1, <2>3, <3>3 DEF KeysAreNew, NameTaken, RowsKept
        <3>4. QED
            BY <1>9, <3>2, <3>3
    <2>4. QED
        BY <1>13, <2>2, <2>3 DEF KeysAreNew, UUIDTaken, NameTaken
<1>14. ASSUME NEW outcome, Return(c, outcome)
       PROVE  CacheInv'
    <2>1. OthersSame(c)
        BY <1>14 DEF Return, OthersSame, CacheInv, CacheTypeOK
    <2>2. CommitsKept(c)
        BY <1>13, <2>1 DEF CommitsKept, OthersSame
    <2>3. QED
        BY <1>2, <1>12, <1>14, <2>2, ReturnInv
<1>15. ASSUME parent[c] # None, pc' = [pc EXCEPT ![c] = "evict_lock"],
              held' = [held EXCEPT ![c] = {}], UNCHANGED <<holder, local>>
       PROVE  CacheInv'
    <2>1. /\ UNCHANGED <<req, parent, calls, began, asked, stack, holder>>
          /\ pc'[c] = "evict_lock"
        BY <1>15 DEF local, CacheInv, CacheTypeOK
    <2>2. OthersSame(c)
        BY <1>15, <2>1 DEF OthersSame, CacheInv, CacheTypeOK
    <2>3. CommitsKept(c)
        BY <1>13, <2>2 DEF CommitsKept, OthersSame
    <2>4. CacheTypeOK'
        <3>1. /\ pc' \in [Callers -> Steps]
              /\ \A d \in Callers : pc'[d] = "idle" <=> req'[d] = None
            BY <1>2, <1>15, <2>1 DEF CacheInv, CacheTypeOK, Steps, WriteSteps
        <3>2. held' \in [Callers -> SUBSET Connections]
            BY <1>15 DEF CacheInv, CacheTypeOK
        <3>3. QED
            BY <1>12, <2>1, <3>1, <3>2 DEF CacheInv, CacheTypeOK, TablesKept, RowsKept
    <2>5. LockIsHeldToEvict'
        BY <1>1, <1>15, <2>1 DEF CacheInv, CacheTypeOK, LockIsHeldToEvict, EvictSteps
    <2>6. ConnectionsAreExclusive'
        BY <1>15, <2>1 DEF CacheInv, CacheTypeOK, ConnectionsAreExclusive
    <2>7. parent'[c] \in Stored' \union {None} /\ began'[c] \subseteq Stored'
        BY <1>2, <1>9, <2>1 DEF CacheInv, RecordsAreStored
    <2>8. ReadsNest(c)' /\ IsRecorded(c)'
        BY <1>2, <2>1 DEF ReadsNest, IsRecorded, ReadSteps
    <2>9. WriteIsCommitted(c)'
        BY <1>2, <1>5, <1>7, <1>8, <1>15, <2>1 DEF WriteIsCommitted, KeysAreNew, WriteSteps, EvictSteps
    <2>10. HoldsAreExclusive'
        BY <1>12, <2>1, <2>2, HoldsNext DEF TablesKept
    <2>11. AskedProperly' => CallStaysApart(c)'
        <3> SUFFICES ASSUME AskedProperly PROVE CallStaysApart(c)'
            BY <1>11
        <3>1. rows'[parent[c]] = rows[parent[c]]
            BY <1>6, <1>9, <1>15 DEF RowsKept
        <3>2. rows[parent[c]].system = req[c].system
            BY <1>15 DEF CacheInv, CallStaysApart
        <3>3. QED
            BY <1>2, <2>1, <3>1, <3>2 DEF CallStaysApart
    <2>12. QED
        BY <1>12, <2>2, <2>3, <2>4, <2>5, <2>6, <2>7, <2>8, <2>9, <2>10, <2>11, StepInv
<1>16. QED
    BY <1>14, <1>15 DEF Commit, Goto

LEMMA EvictLockInv ==
    ASSUME CacheInv, NEW c \in Callers, EvictLock(c)
    PROVE  CacheInv'
<1>1. /\ pc[c] = "evict_lock" /\ holder = None /\ UNCHANGED <<rows, caches>>
      /\ pc[c] # "idle" /\ pc[c] \in WriteSteps
    BY DEF EvictLock, WriteSteps
<1>2. CASE Return(c, Result("ok"))
    BY <1>1, <1>2, ReturnUnchangedInv
<1>3. ASSUME holder' = c, pc' = [pc EXCEPT ![c] = "acquire_evict"],
             UNCHANGED <<held, local>>
      PROVE  CacheInv'
    <2>1. /\ UNCHANGED <<req, parent, calls, began, asked>>
          /\ stack' = stack /\ held' = held /\ pc'[c] = "acquire_evict"
        BY <1>3 DEF local, CacheInv, CacheTypeOK
    <2>2. LockIsHeldToEvict'
        BY <1>1, <1>3, NoneAssumption DEF CacheInv, CacheTypeOK, LockIsHeldToEvict, EvictSteps
    <2>3. ConnectionsAreExclusive'
        BY <1>1, <1>3 DEF CacheInv, CacheTypeOK, ConnectionsAreExclusive
    <2>4. ReadsNest(c)'
        BY <1>1, <2>1, WritingType DEF ReadsNest, ReadSteps
    <2>5. WriteIsCommitted(c)'
        BY <1>1, <2>1 DEF CacheInv, WriteIsCommitted, KeysAreNew, WriteSteps, EvictSteps
    <2>6. AskedProperly => CallStaysApart(c)'
        BY <1>1, <2>1 DEF CacheInv, CallStaysApart
    <2>7. QED
        BY <1>1, <1>3, <2>1, <2>2, <2>3, <2>4, <2>5, <2>6, MoveInv
           DEF CacheInv, CacheTypeOK, Steps, WriteSteps, EvictSteps
<1>4. QED
    BY <1>1, <1>2, <1>3 DEF EvictLock, Goto

LEMMA EvictSelectInv ==
    ASSUME CacheInv, NEW c \in Callers, EvictSelect(c)
    PROVE  CacheInv'
<1>1. /\ pc[c] = "evict_select" /\ rows' = rows
      /\ pc[c] # "idle" /\ pc[c] \in WriteSteps
    BY DEF EvictSelect, WriteSteps, EvictSteps
<1>2. ASSUME pc' = [pc EXCEPT ![c] = "evict_parent"], held' = [held EXCEPT ![c] = {}],
             UNCHANGED <<caches, holder, local>>
      PROVE  CacheInv'
    <2>1. /\ UNCHANGED <<req, parent, calls, began, asked>>
          /\ stack' = stack /\ holder' = holder /\ pc'[c] = "evict_parent"
        BY <1>2 DEF local, CacheInv, CacheTypeOK
    <2>2. LockIsHeldToEvict'
        BY <1>1, <1>2 DEF CacheInv, CacheTypeOK, LockIsHeldToEvict, EvictSteps
    <2>3. ConnectionsAreExclusive'
        BY <1>1, <1>2 DEF CacheInv, CacheTypeOK, ConnectionsAreExclusive
    <2>4. ReadsNest(c)'
        BY <1>1, <2>1, WritingType DEF ReadsNest, ReadSteps
    <2>5. WriteIsCommitted(c)'
        BY <1>1, <2>1 DEF CacheInv, WriteIsCommitted, KeysAreNew, WriteSteps, EvictSteps
    <2>6. AskedProperly => CallStaysApart(c)'
        BY <1>1, <2>1 DEF CacheInv, CallStaysApart
    <2>7. /\ held' \in [Callers -> SUBSET Connections]
          /\ \A d \in Callers \ {c} : stack'[d] = stack[d] /\ held'[d] = held[d]
        BY <1>2, <2>1 DEF CacheInv, CacheTypeOK
    <2>8. QED
        BY <1>1, <1>2, <2>1, <2>2, <2>3, <2>4, <2>5, <2>6, <2>7, MoveInv
           DEF CacheInv, CacheTypeOK, Steps, WriteSteps, EvictSteps
<1>3. ASSUME byUUID' = [d \in Domains |-> IF d \in TreeToEvict(c) THEN None ELSE byUUID[d]],
             byName' = [k \in Systems \X Names |->
                IF \E d \in TreeToEvict(c) : k = <<rows[d].system, rows[d].name>>
                THEN None ELSE byName[k]],
             byRowID' = byRowID \ TreeToEvict(c),
             Return(c, Result("ok"))
      PROVE  CacheInv'
    <2>1. asked' = asked /\ OthersSame(c)
        BY <1>3 DEF Return, OthersSame, CacheInv, CacheTypeOK
    <2>2. /\ RowsKept /\ Stored' = Stored
          /\ \A d \in Stored' :
                rows'[d].root \in Stored' /\ rows'[d].parent \in Stored' \union {None}
          /\ AskedProperly' => TreesStayApart'
        BY <1>1, <2>1, SameRows
    <2>3. /\ byUUID' \in [Domains -> Systems \union {None}]
          /\ \A d \in Domains : byUUID'[d] \in {byUUID[d], None}
        BY <1>3 DEF CacheInv, CacheTypeOK
    <2>4. /\ byName' \in [Systems \X Names -> Domains \union {None}]
          /\ \A s \in Systems, n \in Names : byName'[<<s, n>>] \in {byName[<<s, n>>], None}
        BY <1>3 DEF CacheInv, CacheTypeOK
    <2>5. byRowID' \subseteq Domains /\ asked' \subseteq Systems \X Domains
        BY <1>3, <2>1 DEF CacheInv, CacheTypeOK
    <2>6. \A d \in Domains : byUUID'[d] # None => d \in Stored'
        BY <2>2, <2>3 DEF CacheInv, RecordsAreStored
    <2>7. AskedProperly' => CachesStayApart'
        <3>1. AskedProperly' => CachesStayApart
            BY <1>1, <2>1 DEF AskedProperly, CacheInv
        <3>2. QED
            BY <1>1, <2>3, <2>4, <3>1 DEF CachesStayApart
    <2>8. TablesKept
        BY <2>1, <2>2, <2>3, <2>4, <2>5, <2>6, <2>7 DEF TablesKept
    <2>9. QED
        BY <1>1, <1>3, <2>1, <2>8, SameRowsCommits, ReturnInv
<1>4. QED
    BY <1>1, <1>2, <1>3 DEF EvictSelect, Goto

LEMMA InitInv ==
    ASSUME Init
    PROVE  CacheInv
<1>1. CacheTypeOK
    <2>1. <<>> \in Seq(Frames)
        OBVIOUS
    <2>2. QED
        BY <2>1, InitialRowsAssumption, CallsAssumption, NoneAssumption
           DEF Init, CacheTypeOK, Steps
<1>2. LockIsHeldToEvict /\ ConnectionsAreExclusive /\ HoldsAreExclusive
    BY NoneAssumption DEF Init, LockIsHeldToEvict, ConnectionsAreExclusive,
                          HoldsAreExclusive, HoldsUUID, HoldsName, HoldsTree, EvictSteps
<1>3. ASSUME NEW d \in Stored
      PROVE  /\ rows[d].root \in Stored /\ rows[d].parent \in Stored \union {None}
             /\ \A e \in {rows[d].parent, rows[d].root} \ {None} : rows[e].system = rows[d].system
    <2>1. d \in Domains /\ rows = InitialRows /\ rows[d] \in Rows /\ rows[d] # None
        BY <1>1, StoredType DEF Init
    <2>2. rows[d].root \in Domains /\ rows[d].parent \in Domains \union {None}
          /\ rows[d].root # None
        BY <2>1, NoneAssumption DEF Rows
    <2>3. QED
        BY <2>1, <2>2, InitialRowsAssumption DEF Stored
<1>4. RecordsAreStored
    BY <1>3 DEF Init, RecordsAreStored
<1>5. TreesStayApart
    BY <1>3 DEF TreesStayApart
<1>6. CachesStayApart
    BY DEF Init, CachesStayApart
<1>7. ASSUME NEW c \in Callers
      PROVE  ReadsNest(c) /\ WriteIsCommitted(c) /\ IsRecorded(c) /\ CallStaysApart(c)
    BY DEF Init, ReadsNest, WriteIsCommitted, KeysAreNew, IsRecorded, CallStaysApart, ReadSteps,
           WriteSteps, EvictSteps
<1>8. QED
    BY <1>1, <1>2, <1>4, <1>5, <1>6, <1>7 DEF CacheInv

LEMMA StutterInv ==
    ASSUME CacheInv, UNCHANGED vars
    PROVE  CacheInv'
<1> USE DEF vars, caches, local
<1>1. CacheTypeOK' /\ LockIsHeldToEvict' /\ ConnectionsAreExclusive'
    BY DEF CacheInv, CacheTypeOK, LockIsHeldToEvict, ConnectionsAreExclusive
<1>2. RecordsAreStored'
    BY DEF CacheInv, RecordsAreStored, Stored
<1>3. ASSUME NEW c \in Callers
      PROVE  ReadsNest(c)' /\ WriteIsCommitted(c)' /\ IsRecorded(c)'
    <2>1. ReadsNest(c)'
        BY DEF CacheInv, ReadsNest, Stored, Matching, Relatives
    <2>2. WriteIsCommitted(c)'
        BY DEF CacheInv, WriteIsCommitted, KeysAreNew, UUIDTaken, NameTaken, Stored
    <2>3. QED
        BY <2>1, <2>2 DEF CacheInv, IsRecorded
<1>4. HoldsAreExclusive'
    BY DEF CacheInv, HoldsAreExclusive, HoldsUUID, HoldsName, HoldsTree
<1>5. AskedProperly' =>
        TreesStayApart' /\ CachesStayApart' /\ \A c \in Callers : CallStaysApart(c)'
    BY DEF CacheInv, AskedProperly, TreesStayApart, CachesStayApart, CallStaysApart, Stored
<1>6. QED
    BY <1>1, <1>2, <1>3, <1>4, <1>5 DEF CacheInv

\* The lock is held exactly by the call that evicts, no connection serves two calls,
\* records and cache entries refer to stored domains, nested reads rest on stored rows,
\* and what is asked about one system stays in it: whatever the pool, the requests and
\* the entries that the caches drop.
THEOREM CachesAreSound == Spec => []CacheInv
<1>1. Init => CacheInv
    BY InitInv
<1>2. CacheInv /\ [Next]_vars => CacheInv'
    <2> SUFFICES ASSUME CacheInv, [Next]_vars PROVE CacheInv'
        OBVIOUS
    <2>1. CASE UNCHANGED vars
        BY <2>1, StutterInv
    <2>2. ASSUME NEW c \in Callers, DomainCall(c) \/ Step(c) \/ Fail(c) PROVE CacheInv'
        BY <2>2, DomainCallInv, AcquireInv, FailInv, LookupInv, SelectInv, ReadRelativeInv,
           EndReadInv, CacheWriteInv, UpdateInv, InsertInv, InsertNameInv, CommitInv,
           EvictLockInv, EvictSelectInv
           DEF Step
    <2>3. QED
        BY <2>1, <2>2 DEF Next
<1>3. QED
    BY <1>1, <1>2, PTL DEF Spec

-----------------------------------------------------------------------------
(* What calls answer. *)

\* Answers are of the moment: no step but the last one of a call leaves a reply.
LEMMA NoReply ==
    ASSUME reply' = None
    PROVE  /\ RepliesAreTrue'
           /\ CacheInv' => SystemsAreKeptApart'
BY DEF RepliesAreTrue, SystemsAreKeptApart, CacheInv

\* An error says nothing that could be untrue.
LEMMA ErrorReply ==
    ASSUME NEW c \in Callers, Return(c, Result("Internal"))
    PROVE  /\ RepliesAreTrue'
           /\ CacheInv' => SystemsAreKeptApart'
<1>1. reply' = [outcome |-> [result |-> "Internal"], req |-> req[c], began |-> began[c]]
    BY DEF Return, Result
<1>2. reply'.outcome.result = "Internal"
    BY <1>1
<1>3. QED
    BY <1>2 DEF RepliesAreTrue, SystemsAreKeptApart, CacheInv

\* An acknowledgement is true of a row that has been committed.
LEMMA WriteReply ==
    ASSUME CacheInv, NEW c \in Callers, pc[c] \in WriteSteps, Return(c, Result("ok")),
           LET row == rows'[req[c].uuid] IN
               /\ row # None /\ row.system = req[c].system /\ row.name = req[c].name
               /\ row.parent = None <=> req[c].parent = None
    PROVE  /\ RepliesAreTrue'
           /\ CacheInv' => SystemsAreKeptApart'
<1>1. reply' = [outcome |-> [result |-> "ok"], req |-> req[c], began |-> began[c]]
    BY DEF Return, Result
<1>2. reply'.outcome.result = "ok" /\ reply'.req = req[c]
    BY <1>1
<1>3. req[c].op = "write"
    BY WritingType
<1>4. QED
    BY <1>2, <1>3 DEF RepliesAreTrue, SystemsAreKeptApart, CacheInv

\* A read answers with a domain that matches its key, under the domain's own system.
LEMMA DeliverReply ==
    ASSUME CacheInv, NEW c \in Callers, pc[c] \in ReadSteps,
           NEW d \in Stored, NEW system, Deliver(c, d, system), rows' = rows,
           AskedProperly =>
               d \in Matching(req[c].system, Top(c).key) /\ system = rows[d].system
    PROVE  /\ RepliesAreTrue'
           /\ CacheInv' => SystemsAreKeptApart'
<1>1. CASE reply' = None
    BY <1>1, NoReply
<1>2. CASE Len(stack[c]) = 1 /\ req[c].op = "read" /\ Return(c, Answer(d, system))
    <2>1. /\ reply' = [outcome |-> [result |-> "ok", domain |-> d, system |-> system],
                       req |-> req[c], began |-> began[c]]
          /\ asked' = asked
        BY <1>2 DEF Return, Answer
    <2>2. /\ reply'.outcome.result = "ok" /\ reply'.outcome.domain = d
          /\ reply'.outcome.system = system /\ reply'.req = req[c]
        BY <2>1
    <2>3. RepliesAreTrue'
        BY <1>2, <2>2 DEF RepliesAreTrue
    <2>4. Top(c).key = req[c].key
        <3>1. Top(c).key = Wanted(req[c])
            BY <1>2, ReadingType DEF CacheInv, ReadsNest
        <3>2. QED
            BY <1>2, <3>1 DEF Wanted
    <2>5. AskedProperly' => AskedProperly
        BY <2>1 DEF AskedProperly
    <2>6. AskedProperly =>
            /\ d \in {e \in Stored' :
                    IF req[c].key.by = "name"
                    THEN rows'[e].system = req[c].system /\ rows'[e].name = req[c].key.of
                    ELSE e = req[c].key.of}
            /\ system = rows'[d].system
        BY <2>4 DEF Matching, Stored
    <2>7. CacheInv' => SystemsAreKeptApart'
        BY <2>2, <2>5, <2>6 DEF SystemsAreKeptApart, CacheInv, Matching
    <2>8. QED
        BY <2>3, <2>7
<1>3. QED
    BY <1>1, <1>2 DEF Deliver, Goto

LEMMA RepliesNext ==
    ASSUME CacheInv, NEW c \in Callers, DomainCall(c) \/ Step(c) \/ Fail(c)
    PROVE  /\ RepliesAreTrue'
           /\ CacheInv' => SystemsAreKeptApart'
<1>1. CASE DomainCall(c) \/ Acquire(c) \/ ReadRelative(c) \/ EndRead(c)
    BY <1>1, NoReply DEF DomainCall, Acquire, ReadRelative, EndRead, Goto
<1>2. CASE AcquireTimeout(c) \/ Fail(c)
    BY <1>2, ErrorReply DEF AcquireTimeout, Fail
<1>3. CASE Update(c) \/ Insert(c) \/ InsertName(c)
    BY <1>3, ErrorReply, NoReply DEF Update, Insert, InsertName, Goto
<1>4. CASE Lookup(c)
    <2>1. pc[c] = "lookup" /\ pc[c] \in ReadSteps /\ rows' = rows
        BY <1>4 DEF Lookup, ReadSteps
    <2>2. CASE reply' = None
        BY <2>2, NoReply
    <2>3. ASSUME NEW d \in CachedDomains(req[c].system, Top(c).key), Deliver(c, d, byUUID[d])
          PROVE  RepliesAreTrue' /\ (CacheInv' => SystemsAreKeptApart')
        <3>1. d \in Domains /\ byUUID[d] # None /\ d # None
            BY NoneAssumption DEF CachedDomains
        <3>2. d \in Stored
            BY <3>1 DEF CacheInv, RecordsAreStored
        <3>3. req[c].system \in Systems /\ Top(c).key \in Keys
            BY <2>1, ReadingType, RequestType
        <3>4. ASSUME AskedProperly
              PROVE  d \in Matching(req[c].system, Top(c).key) /\ byUUID[d] = rows[d].system
            <4>1. CachesStayApart
                BY <3>4 DEF CacheInv
            <4>2. byUUID[d] = rows[d].system
                BY <3>1, <4>1 DEF CachesStayApart
            <4>3. CASE Top(c).key.by = "name"
                <5>1. d = byName[<<req[c].system, Top(c).key.of>>] /\ Top(c).key.of \in Names
                    BY <3>3, <4>3, KeyType DEF CachedDomains
                <5>2. rows[d].system = req[c].system /\ rows[d].name = Top(c).key.of
                    BY <3>1, <3>3, <4>1, <5>1 DEF CachesStayApart
                <5>3. d \in Matching(req[c].system, Top(c).key)
                    BY <3>2, <4>3, <5>2 DEF Matching
                <5>4. QED
                    BY <4>2, <5>3
            <4>4. CASE Top(c).key.by # "name"
                <5>1. d = Top(c).key.of
                    BY <3>3, <4>4, KeyType DEF CachedDomains
                <5>2. d \in Matching(req[c].system, Top(c).key)
                    BY <3>2, <4>4, <5>1 DEF Matching
                <5>3. QED
                    BY <4>2, <5>2
            <4>5. QED
                BY <4>3, <4>4
        <3>5. QED
            BY <2>1, <2>3, <3>2, <3>4, DeliverReply
    <2>4. QED
        BY <1>4, <2>2, <2>3 DEF Lookup, Goto
<1>5. CASE Select(c)
    <2>1. pc[c] = "select" /\ pc[c] \in ReadSteps /\ rows' = rows
        BY <1>5 DEF Select, ReadSteps
    <2>2. CASE reply' = None
        BY <2>2, NoReply
    <2>3. ASSUME Matching(req[c].system, Top(c).key) = {}, Return(c, Result("NotFound"))
          PROVE  RepliesAreTrue' /\ (CacheInv' => SystemsAreKeptApart')
        <3>1. reply' = [outcome |-> [result |-> "NotFound"], req |-> req[c],
                        began |-> began[c]]
            BY <2>3 DEF Return, Result
        <3>2. reply'.outcome.result = "NotFound" /\ reply'.req = req[c]
            BY <3>1
        <3>3. /\ Len(stack[c]) \in Nat /\ Len(stack[c]) >= 1 /\ stack[c] # <<>>
              /\ Top(c) = stack[c][1]
            BY <2>1, ReadingType
        <3>4. Len(stack[c]) = 1
            <4> SUFFICES ASSUME Len(stack[c]) # 1 PROVE FALSE
                OBVIOUS
            <4>1. 1 \in 1..Len(stack[c]) /\ 1 < Len(stack[c])
                BY <3>3, OneOrMore
            <4>2. Top(c).key.by = "rowid" /\ Top(c).key.of \in Stored
                BY <3>3, <4>1 DEF CacheInv, ReadsNest
            <4>3. Top(c).key.of \in Matching(req[c].system, Top(c).key)
                BY <4>2 DEF Matching
            <4>4. QED
                BY <2>3, <4>3
        <3>5. Top(c).key = Wanted(req[c])
            BY <3>3, <3>4 DEF CacheInv, ReadsNest
        <3>6. {e \in Stored' :
                    IF Wanted(req[c]).by = "name"
                    THEN rows'[e].system = req[c].system /\ rows'[e].name = Wanted(req[c]).of
                    ELSE e = Wanted(req[c]).of} = {}
            BY <2>1, <2>3, <3>5 DEF Matching, Stored
        <3>7. QED
            BY <3>2, <3>6 DEF RepliesAreTrue, SystemsAreKeptApart, CacheInv, Matching, Wanted
    <2>4. QED
        BY <1>5, <2>2, <2>3 DEF Select, Goto
<1>6. CASE CacheWrite(c)
    <2>1. /\ pc[c] = "cache_write" /\ pc[c] \in ReadSteps /\ rows' = rows
          /\ Return(c, Result("Internal")) \/ Deliver(c, Top(c).domain, req[c].system)
        BY <1>6 DEF CacheWrite, ReadSteps
    <2>2. CASE Return(c, Result("Internal"))
        BY <2>2, ErrorReply
    <2>3. CASE Deliver(c, Top(c).domain, req[c].system)
        <3>1. /\ stack[c] # <<>> /\ 1 \in 1..Len(stack[c]) /\ Top(c) = stack[c][1]
            BY <2>1, ReadingType, OneOrMore
        <3>2. Top(c).domain # None /\ Top(c).domain \in Matching(req[c].system, Top(c).key)
            BY <2>1, <3>1 DEF CacheInv, ReadsNest
        <3>3. Top(c).domain \in Stored
            BY <3>2 DEF Matching
        <3>4. AskedProperly => req[c].system = rows[Top(c).domain].system
            BY <3>1, <3>2 DEF CacheInv, CallStaysApart
        <3>5. QED
            BY <2>1, <2>3, <3>2, <3>3, <3>4, DeliverReply
    <2>4. QED
        BY <2>1, <2>2, <2>3
<1>7. CASE Commit(c)
    <2>1. /\ pc[c] = "commit" /\ pc[c] \in WriteSteps
          /\ rows' = [rows EXCEPT ![req[c].uuid] = NewRow(c)]
        BY <1>7 DEF Commit, WriteSteps
    <2>2. CASE reply' = None
        BY <2>2, NoReply
    <2>3. CASE Return(c, Result("Internal"))
        BY <2>3, ErrorReply
    <2>4. CASE Return(c, Result("ok"))
        <3>1. rows'[req[c].uuid] = NewRow(c)
            BY <2>1, WritingType DEF CacheInv, CacheTypeOK
        <3>2. /\ NewRow(c).system = req[c].system /\ NewRow(c).name = req[c].name
              /\ NewRow(c).parent = parent[c]
            BY DEF NewRow
        <3>3. NewRow(c) # None
            <4>1. NewRow(c) \in Rows
                <5>1. NewRow(c).root \in Domains
                    BY <2>1, WritingType DEF NewRow, CacheInv, RecordsAreStored, Stored
                <5>2. QED
                    BY <2>1, <5>1, WritingType DEF NewRow, Rows
            <4>2. QED
                BY <4>1, NoneAssumption
        <3>4. QED
            BY <2>1, <2>4, <3>1, <3>2, <3>3, WritingType, WriteReply
    <2>5. QED
        BY <1>7, <2>2, <2>3, <2>4 DEF Commit, Goto
<1>8. CASE EvictLock(c) \/ EvictSelect(c)
    <2>1. /\ pc[c] \in {"evict_lock"} \union EvictSteps /\ pc[c] \in WriteSteps /\ rows' = rows
          /\ reply' = None \/ Return(c, Result("ok"))
        BY <1>8 DEF EvictLock, EvictSelect, EvictSteps, WriteSteps, Goto
    <2>2. CASE reply' = None
        BY <2>2, NoReply
    <2>3. CASE Return(c, Result("ok"))
        BY <2>1, <2>3, WriteReply DEF CacheInv, WriteIsCommitted
    <2>4. QED
        BY <2>1, <2>2, <2>3
<1>9. QED
    BY <1>1, <1>2, <1>3, <1>4, <1>5, <1>6, <1>7, <1>8 DEF Step

LEMMA RepliesInit ==
    ASSUME Init
    PROVE  RepliesAreTrue /\ SystemsAreKeptApart
BY DEF Init, RepliesAreTrue, SystemsAreKeptApart, CachesStayApart

\* An acknowledged write is stored as it was asked for, and nothing that was stored when
\* a call began is answered NotFound, in whatever state the caches are.
THEOREM RepliesStayTrue == Spec => []RepliesAreTrue
<1>1. Init => RepliesAreTrue
    BY RepliesInit
<1>2. CacheInv /\ RepliesAreTrue /\ [Next]_vars => RepliesAreTrue'
    <2>1. ASSUME RepliesAreTrue, UNCHANGED vars PROVE RepliesAreTrue'
        BY <2>1 DEF vars, RepliesAreTrue, Matching, Stored, Wanted
    <2>2. QED
        BY <2>1, RepliesNext DEF Next
<1>3. QED
    BY <1>1, <1>2, CachesAreSound, PTL DEF Spec

\* As long as ids are asked for under their own systems, no cache and no answer mixes
\* two systems up.
THEOREM NoSystemSeesAnother == Spec => []SystemsAreKeptApart
<1>1. Init => SystemsAreKeptApart
    BY RepliesInit
<1>2. CacheInv /\ CacheInv' /\ SystemsAreKeptApart /\ [Next]_vars => SystemsAreKeptApart'
    <2>1. ASSUME SystemsAreKeptApart, UNCHANGED vars PROVE SystemsAreKeptApart'
        BY <2>1 DEF vars, SystemsAreKeptApart, CachesStayApart, AskedProperly, Matching, Stored
    <2>2. QED
        BY <2>1, RepliesNext DEF Next
<1>3. QED
    BY <1>1, <1>2, CachesAreSound, PTL DEF Spec

-----------------------------------------------------------------------------
(* Reads climb. *)

\* What is inductive of it: rows are grounded, a nested read follows a reference, and
\* connections are counted.

Climbing ==
    /\ IsGrounded(rows)
    /\ \A c \in Callers : ReadsFollow(c) /\ ConnectionsAreCounted(c)

\* Two reads of one domain in a stack would make a circle: every domain between them has
\* a relative there.
LEMMA StacksAreDistinct ==
    ASSUME CacheInv, IsGrounded(rows), NEW c \in Callers, ReadsFollow(c),
           NEW i \in 1..Len(stack[c]), NEW j \in 1..Len(stack[c]), i < j,
           stack[c][i].domain # None
    PROVE  stack[c][i].domain # stack[c][j].domain
<1> SUFFICES ASSUME stack[c][i].domain = stack[c][j].domain PROVE FALSE
    OBVIOUS
<1> DEFINE s == stack[c]
           S == {s[k].domain : k \in (i + 1)..j}
<1>1. s \in Seq(Frames) /\ Len(s) \in Nat
    BY DEF CacheInv, CacheTypeOK
<1>2. i \in Nat /\ j \in Nat /\ i >= 1 /\ j <= Len(s)
    BY <1>1
<1>3. ASSUME NEW k \in (i + 1)..j
      PROVE  /\ k \in 1..Len(s) /\ k # 1
             /\ k - 1 \in 1..Len(s) /\ k - 1 < Len(s) /\ (k - 1) + 1 = k
             /\ k - 1 = i \/ k - 1 \in (i + 1)..j
    BY <1>2
<1>4. \A k \in (i + 1)..j : s[k].domain # None /\ s[k].domain \in Stored
    BY <1>3 DEF CacheInv, ReadsNest, Matching
<1>5. ASSUME NEW k \in (i + 1)..j
      PROVE  /\ s[k - 1].domain \in S
             /\ s[k - 1].domain \in {rows[s[k].domain].parent, rows[s[k].domain].root}
             /\ s[k - 1].domain # s[k].domain
    <2>1. s[k - 1].domain # None
        BY <1>3, <1>4
    <2>2. s[k - 1].key.by = "rowid"
        BY <1>3 DEF CacheInv, ReadsNest
    <2>3. s[k - 1].domain \in Matching(req[c].system, s[k - 1].key)
        BY <1>3, <2>1 DEF CacheInv, ReadsNest
    <2>4. s[k - 1].domain = s[k - 1].key.of
        BY <2>2, <2>3 DEF Matching
    <2>5. s[k - 1].key.of \in {rows[s[k].domain].parent, rows[s[k].domain].root} \ {s[k].domain}
        BY <1>3 DEF ReadsFollow
    <2>6. s[k - 1].domain \in S
        <3>1. CASE k - 1 = i
            <4>1. j \in (i + 1)..j
                BY <1>2
            <4>2. QED
                BY <3>1, <4>1
        <3>2. CASE k - 1 \in (i + 1)..j
            BY <3>2
        <3>3. QED
            BY <1>3, <3>1, <3>2
    <2>7. QED
        BY <2>4, <2>5, <2>6
<1>6. S \subseteq Stored /\ S # {}
    <2>1. j \in (i + 1)..j
        BY <1>2
    <2>2. QED
        BY <1>4, <2>1
<1>7. PICK d \in S : rows[d].parent \notin S /\ rows[d].root \notin S \ {d}
    BY <1>6 DEF IsGrounded, Stored
<1>8. PICK k \in (i + 1)..j : d = s[k].domain
    OBVIOUS
<1>9. QED
    BY <1>5, <1>7, <1>8

\* Calls that do not move keep what they have.
LEMMA ClimbingNext ==
    ASSUME CacheInv, Climbing, NEW c \in Callers, OthersSame(c), RowsKept,
           IsGrounded(rows)', ReadsFollow(c)', ConnectionsAreCounted(c)'
    PROVE  Climbing'
<1>1. ASSUME NEW d \in Callers \ {c}
      PROVE  ReadsFollow(d)' /\ ConnectionsAreCounted(d)'
    <2>1. pc'[d] = pc[d] /\ stack'[d] = stack[d] /\ held'[d] = held[d]
        BY DEF OthersSame
    <2>2. ConnectionsAreCounted(d)'
        BY <2>1 DEF Climbing, ConnectionsAreCounted, OpenReads
    <2>3. ASSUME NEW i \in 1..Len(stack[d]), i < Len(stack[d])
          PROVE  rows'[stack[d][i + 1].domain] = rows[stack[d][i + 1].domain]
        <3>1. i + 1 \in 1..Len(stack[d]) /\ i + 1 # 1
            BY <2>3 DEF CacheInv, CacheTypeOK
        <3>2. stack[d][i + 1].domain # None
            BY <3>1 DEF CacheInv, ReadsNest
        <3>3. QED
            BY <3>1, <3>2, FoundIsStored DEF RowsKept
    <2>4. ReadsFollow(d)
        BY DEF Climbing
    <2>5. ReadsFollow(d)'
        BY <2>1, <2>3, <2>4 DEF ReadsFollow
    <2>6. QED
        BY <2>2, <2>5
<1>2. QED
    BY <1>1 DEF Climbing

\* A call that returns has nothing open.
LEMMA ClimbingReturn ==
    ASSUME CacheInv, Climbing, NEW c \in Callers, NEW outcome, Return(c, outcome),
           RowsKept, IsGrounded(rows)'
    PROVE  Climbing'
<1>1. /\ pc' = [pc EXCEPT ![c] = "idle"] /\ held' = [held EXCEPT ![c] = {}]
      /\ stack' = [stack EXCEPT ![c] = <<>>] /\ req' = [req EXCEPT ![c] = None]
      /\ parent' = [parent EXCEPT ![c] = None] /\ began' = [began EXCEPT ![c] = {}]
    BY DEF Return
<1>2. OthersSame(c) /\ pc'[c] = "idle" /\ held'[c] = {} /\ stack'[c] = <<>>
    BY <1>1 DEF OthersSame, CacheInv, CacheTypeOK
<1>3. ReadsFollow(c)'
    BY <1>2 DEF ReadsFollow
<1>4. ConnectionsAreCounted(c)'
    BY <1>2, FS_EmptySet DEF ConnectionsAreCounted, TransactionSteps, OpenReads
<1>5. QED
    BY <1>2, <1>3, <1>4, ClimbingNext

LEMMA SameRowsGrounded ==
    ASSUME CacheInv, Climbing, rows' = rows
    PROVE  RowsKept /\ IsGrounded(rows)'
BY DEF RowsKept, CacheInv, CacheTypeOK, Climbing, IsGrounded

\* A step of a call that writes no row.
LEMMA ClimbingMove ==
    ASSUME CacheInv, Climbing, NEW c \in Callers, rows' = rows,
           UNCHANGED <<req, parent, began>>,
           \A d \in Callers \ {c} :
                pc'[d] = pc[d] /\ stack'[d] = stack[d] /\ held'[d] = held[d],
           ReadsFollow(c)', ConnectionsAreCounted(c)'
    PROVE  Climbing'
<1>1. OthersSame(c)
    BY DEF OthersSame
<1>2. RowsKept /\ IsGrounded(rows)'
    BY DEF RowsKept, CacheInv, CacheTypeOK, Climbing, IsGrounded
<1>3. QED
    BY <1>1, <1>2, ClimbingNext

\* Reads follow references if each is next to what it was next to.
LEMMA FollowShifted ==
    ASSUME NEW c \in Callers, rows' = rows, ReadsFollow(c), NEW t, stack'[c] = t,
           \A i \in 1..Len(t) : i < Len(t) =>
                \/ t[i].key.of \in {rows[t[i + 1].domain].parent, rows[t[i + 1].domain].root}
                        \ {t[i + 1].domain}
                \/ \E j \in 1..Len(stack[c]) :
                    /\ j < Len(stack[c])
                    /\ t[i].key = stack[c][j].key
                    /\ t[i + 1].domain = stack[c][j + 1].domain
    PROVE  ReadsFollow(c)'
<1> SUFFICES ASSUME NEW i \in 1..Len(t), i < Len(t)
             PROVE  t[i].key.of \in {rows[t[i + 1].domain].parent, rows[t[i + 1].domain].root}
                        \ {t[i + 1].domain}
    BY DEF ReadsFollow
<1>1. QED
    BY DEF ReadsFollow

\* No read: no nested read.
LEMMA NoReadsFollow ==
    ASSUME NEW c \in Callers, stack'[c] = <<>> \/ Len(stack'[c]) = 1
    PROVE  ReadsFollow(c)'
BY DEF ReadsFollow

LEMMA DomainCallClimbs ==
    ASSUME CacheInv, Climbing, NEW c \in Callers, DomainCall(c)
    PROVE  Climbing'
<1>1. PICK r \in Requests :
        /\ pc[c] = "idle"
        /\ req' = [req EXCEPT ![c] = r]
        /\ began' = [began EXCEPT ![c] = Stored]
        /\ UNCHANGED <<rows, held, parent>>
        /\ \/ /\ pc' = [pc EXCEPT ![c] = "acquire_write"]
              /\ UNCHANGED stack
           \/ /\ Wanted(r) # None
              /\ pc' = [pc EXCEPT ![c] = "lookup"]
              /\ stack' = [stack EXCEPT ![c] = <<Frame(Wanted(r))>>]
    BY DEF DomainCall, Goto
<1>2. stack[c] = <<>> /\ held[c] = {} /\ held' = held
    BY <1>1 DEF CacheInv, ReadsNest, ReadSteps, ConnectionsAreExclusive
<1>3. OthersSame(c)
    BY <1>1 DEF OthersSame, CacheInv, CacheTypeOK
<1>4. RowsKept /\ IsGrounded(rows)'
    BY <1>1, SameRowsGrounded
<1>5. \/ pc'[c] = "acquire_write" /\ stack'[c] = <<>>
      \/ pc'[c] = "lookup" /\ stack'[c] = <<Frame(Wanted(r))>>
    BY <1>1, <1>2 DEF CacheInv, CacheTypeOK
<1>6. Wanted(r) # None => /\ Len(<<Frame(Wanted(r))>>) = 1
                          /\ <<Frame(Wanted(r))>> # <<>>
    OBVIOUS
<1>7. ReadsFollow(c)'
    BY <1>1, <1>5, <1>6, NoReadsFollow
<1>8. ConnectionsAreCounted(c)'
    <2>1. OpenReads(c)' = 0 /\ pc'[c] \in {"acquire_write", "lookup"}
        <3>1. CASE pc'[c] = "acquire_write" /\ stack'[c] = <<>>
            BY <3>1 DEF OpenReads
        <3>2. CASE pc'[c] = "lookup" /\ stack'[c] = <<Frame(Wanted(r))>>
            <4> DEFINE t == stack'[c]
            <4>1. t # <<>> /\ Len(t) = 1
                BY <3>2
            <4> HIDE DEF t
            <4>2. OpenReads(c)' = IF t = <<>> THEN 0 ELSE Len(t) - 1
                BY <3>2 DEF OpenReads, t
            <4>3. QED
                BY <3>2, <4>1, <4>2
        <3>3. QED
            BY <1>5, <3>1, <3>2
    <2>2. IsFiniteSet(held'[c]) /\ Cardinality(held'[c]) = 0
        BY <1>2, FS_EmptySet
    <2>3. QED
        BY <2>1, <2>2 DEF ConnectionsAreCounted, TransactionSteps
<1>9. QED
    BY <1>3, <1>4, <1>7, <1>8, ClimbingNext

LEMMA AcquireClimbs ==
    ASSUME CacheInv, Climbing, NEW c \in Callers, Acquire(c)
    PROVE  Climbing'
<1> DEFINE x == CHOOSE y \in Free : TRUE
<1>1. /\ pc[c] \in AcquireSteps
      /\ held' = [held EXCEPT ![c] = @ \union {x}]
      /\ pc' = [pc EXCEPT ![c] = AfterAcquire(c)]
      /\ rows' = rows /\ stack' = stack
      /\ UNCHANGED <<req, parent, began>>
    BY DEF Acquire, Goto, local
<1>2. x \in Free /\ x \notin held[c]
    <2>1. x \in Free
        BY DEF Acquire
    <2>2. QED
        BY <2>1 DEF Free
<1> HIDE DEF x
<1>3. held'[c] = held[c] \union {x} /\ stack'[c] = stack[c]
    BY <1>1 DEF CacheInv, CacheTypeOK
<1>4. ConnectionsAreCounted(c) /\ ReadsFollow(c)
    BY DEF Climbing
<1>5. /\ IsFiniteSet(held'[c])
      /\ Cardinality(held'[c]) = Cardinality(held[c]) + 1
    BY <1>2, <1>3, <1>4, FS_AddElement DEF ConnectionsAreCounted
<1>6. ConnectionsAreCounted(c)'
    <2>1. CASE pc[c] = "acquire_read"
        <3>1. pc'[c] = "select"
            BY <1>1, <2>1 DEF AfterAcquire, CacheInv, CacheTypeOK
        <3>2. stack[c] # <<>> /\ Len(stack[c]) \in Nat
            BY <2>1, ReadingType DEF ReadSteps
        <3>3. Cardinality(held[c]) = Len(stack[c]) - 1
            BY <1>4, <2>1, <3>2 DEF ConnectionsAreCounted, TransactionSteps, OpenReads
        <3>4. OpenReads(c)' = Len(stack[c])
            BY <1>3, <3>1, <3>2 DEF OpenReads
        <3>5. QED
            BY <1>5, <3>1, <3>2, <3>3, <3>4 DEF ConnectionsAreCounted, TransactionSteps
    <2>2. CASE pc[c] \in {"acquire_write", "acquire_evict"}
        <3>1. pc'[c] \in TransactionSteps
            BY <1>1, <2>2 DEF AfterAcquire, TransactionSteps, CacheInv, CacheTypeOK
        <3>2. stack[c] = <<>>
            BY <2>2, WritingType DEF WriteSteps, EvictSteps
        <3>3. Cardinality(held[c]) = 0
            BY <1>4, <2>2, <3>2 DEF ConnectionsAreCounted, TransactionSteps, OpenReads
        <3>4. OpenReads(c)' = 0
            BY <1>3, <3>2 DEF OpenReads
        <3>5. QED
            BY <1>5, <3>1, <3>3, <3>4 DEF ConnectionsAreCounted
    <2>3. QED
        BY <1>1, <2>1, <2>2 DEF AcquireSteps
<1>7. ReadsFollow(c)'
    BY <1>1, <1>3, <1>4 DEF ReadsFollow
<1>8. QED
    BY <1>1, <1>6, <1>7, ClimbingMove DEF CacheInv, CacheTypeOK

LEMMA DeliverClimbs ==
    ASSUME CacheInv, Climbing, NEW c \in Callers, pc[c] \in {"lookup", "cache_write"},
           NEW d, NEW system, Deliver(c, d, system), rows' = rows
    PROVE  Climbing'
<1> DEFINE s == stack[c]
<1>1. s \in Seq(Frames) /\ s # <<>> /\ Len(s) \in Nat /\ Len(s) >= 1
    BY ReadingType DEF ReadSteps
<1>2. IsFiniteSet(held[c]) /\ Cardinality(held[c]) = Len(s) - 1
    <2>1. ConnectionsAreCounted(c)
        BY DEF Climbing
    <2>2. OpenReads(c) = Len(s) - 1
        BY <1>1 DEF OpenReads
    <2>3. pc[c] \notin TransactionSteps
        BY DEF TransactionSteps
    <2>4. IsFiniteSet(held[c]) /\ Cardinality(held[c]) = OpenReads(c) + 0
        BY <2>1, <2>3 DEF ConnectionsAreCounted
    <2>5. (Len(s) - 1) + 0 = Len(s) - 1
        BY <1>1
    <2>6. QED
        BY <2>2, <2>4, <2>5
<1>3. RowsKept /\ IsGrounded(rows)'
    BY SameRowsGrounded
<1>4. CASE Len(s) > 1 /\ stack' = [stack EXCEPT ![c] = Tail(@)] /\ Goto(c, "nested")
           /\ UNCHANGED <<holder, held, req, parent, calls, began, asked>>
    <2>1. pc'[c] = "nested" /\ stack'[c] = Tail(s) /\ held'[c] = held[c]
        BY <1>4 DEF Goto, CacheInv, CacheTypeOK
    <2>2. /\ Len(Tail(s)) = Len(s) - 1 /\ Tail(s) # <<>>
          /\ \A i \in 1..(Len(s) - 1) : Tail(s)[i] = s[i + 1]
        BY <1>1, <1>4, PopSeq
    <2>3. OpenReads(c)' = Len(s) - 1
        BY <1>1, <2>1, <2>2 DEF OpenReads
    <2>4. ConnectionsAreCounted(c)'
        BY <1>1, <1>2, <2>1, <2>3 DEF ConnectionsAreCounted, TransactionSteps
    <2>5. ReadsFollow(c)'
        <3>1. ReadsFollow(c)
            BY DEF Climbing
        <3>2. ASSUME NEW i \in 1..Len(Tail(s)), i < Len(Tail(s))
              PROVE  /\ i + 1 \in 1..Len(s) /\ i + 1 < Len(s)
                     /\ Tail(s)[i] = s[i + 1] /\ Tail(s)[i + 1] = s[(i + 1) + 1]
            BY <1>1, <2>2, <3>2
        <3> DEFINE t == Tail(s)
        <3>3. \A i \in 1..Len(t) : i < Len(t) =>
                \E j \in 1..Len(s) :
                    j < Len(s) /\ t[i].key = s[j].key /\ t[i + 1].domain = s[j + 1].domain
            BY <3>2
        <3> HIDE DEF t
        <3>4. stack'[c] = t
            BY <2>1 DEF t
        <3>5. QED
            BY <3>1, <3>3, <3>4, FollowShifted
    <2>6. OthersSame(c)
        BY <1>4 DEF Goto, OthersSame, CacheInv, CacheTypeOK
    <2>7. QED
        BY <1>3, <2>4, <2>5, <2>6, ClimbingNext
<1>5. CASE Return(c, Answer(d, system))
    BY <1>3, <1>5, ClimbingReturn
<1>6. CASE Len(s) = 1 /\ stack' = [stack EXCEPT ![c] = <<>>]
           /\ parent' = [parent EXCEPT ![c] = d] /\ Goto(c, "acquire_write")
           /\ UNCHANGED <<holder, held, req, calls, began, asked>>
    <2>1. pc'[c] = "acquire_write" /\ stack'[c] = <<>> /\ held'[c] = held[c]
        BY <1>6 DEF Goto, CacheInv, CacheTypeOK
    <2>2. OpenReads(c)' = 0
        BY <2>1 DEF OpenReads
    <2>3. ConnectionsAreCounted(c)'
        BY <1>2, <1>6, <2>1, <2>2 DEF ConnectionsAreCounted, TransactionSteps
    <2>4. OthersSame(c)
        BY <1>6 DEF Goto, OthersSame, CacheInv, CacheTypeOK
    <2>5. QED
        BY <1>3, <2>1, <2>3, <2>4, NoReadsFollow, ClimbingNext
<1>7. QED
    BY <1>4, <1>5, <1>6 DEF Deliver

LEMMA LookupClimbs ==
    ASSUME CacheInv, Climbing, NEW c \in Callers, Lookup(c)
    PROVE  Climbing'
<1>1. pc[c] = "lookup" /\ rows' = rows
    BY DEF Lookup
<1>2. CASE \E d \in CachedDomains(req[c].system, Top(c).key) : Deliver(c, d, byUUID[d])
    BY <1>1, <1>2, DeliverClimbs
<1>3. CASE Goto(c, "acquire_read") /\ UNCHANGED <<holder, held, local>>
    <2>1. pc'[c] = "acquire_read" /\ stack'[c] = stack[c] /\ held'[c] = held[c]
        BY <1>3 DEF Goto, local, CacheInv, CacheTypeOK
    <2>2. ConnectionsAreCounted(c) /\ ReadsFollow(c)
        BY DEF Climbing
    <2>3. ConnectionsAreCounted(c)'
        BY <1>1, <2>1, <2>2 DEF ConnectionsAreCounted, TransactionSteps, OpenReads
    <2>4. ReadsFollow(c)'
        BY <1>1, <2>1, <2>2 DEF ReadsFollow
    <2>5. QED
        BY <1>1, <1>3, <2>3, <2>4, ClimbingMove DEF Goto, local, CacheInv, CacheTypeOK
<1>4. QED
    BY <1>2, <1>3 DEF Lookup

LEMMA SelectClimbs ==
    ASSUME CacheInv, Climbing, NEW c \in Callers, Select(c)
    PROVE  Climbing'
<1> DEFINE s == stack[c]
<1>1. pc[c] = "select" /\ pc[c] \in ReadSteps /\ rows' = rows
    BY DEF Select, ReadSteps
<1>2. CASE Return(c, Result("NotFound"))
    <2>1. RowsKept /\ IsGrounded(rows)'
        BY <1>1, SameRowsGrounded
    <2>2. QED
        BY <1>2, <2>1, ClimbingReturn
<1>3. ASSUME NEW d \in Matching(req[c].system, Top(c).key),
             stack' = [stack EXCEPT ![c] =
                <<[key |-> Top(c).key, domain |-> d, todo |-> Relatives(d)]>> \o Tail(s)],
             Goto(c, "nested"),
             UNCHANGED <<holder, held, req, parent, calls, began, asked>>
      PROVE  Climbing'
    <2> DEFINE f == [key |-> Top(c).key, domain |-> d, todo |-> Relatives(d)]
               t == <<f>> \o Tail(s)
    <2>1. /\ s \in Seq(Frames) /\ s # <<>> /\ Len(s) \in Nat /\ Len(s) >= 1
          /\ Top(c) = s[1] /\ Top(c).key \in Keys
        BY <1>1, ReadingType
    <2>2. f \in Frames /\ f.key = s[1].key
        BY <2>1 DEF Frames, Relatives, Matching, Stored
    <2>3. /\ t # <<>> /\ Len(t) = Len(s) /\ t[1] = f
          /\ \A i \in 1..Len(s) : i # 1 => t[i] = s[i]
        BY <2>1, <2>2, ReplaceTop
    <2>4. pc'[c] = "nested" /\ stack'[c] = t /\ held'[c] = held[c]
        BY <1>3 DEF Goto, CacheInv, CacheTypeOK
    <2> HIDE DEF f, t
    <2>5. ASSUME NEW i \in 1..Len(t), i < Len(t)
          PROVE  /\ i \in 1..Len(s) /\ i < Len(s)
                 /\ t[i].key = s[i].key /\ t[i + 1].domain = s[i + 1].domain
        <3>1. i + 1 \in 1..Len(s) /\ i + 1 # 1 /\ i \in 1..Len(s) /\ i < Len(s)
            BY <2>1, <2>3, <2>5
        <3>2. QED
            BY <2>2, <2>3, <3>1
    <2>6. ReadsFollow(c)'
        <3>1. ReadsFollow(c)
            BY DEF Climbing
        <3>2. QED
            BY <1>1, <2>4, <2>5, <3>1, FollowShifted
    <2>7. ConnectionsAreCounted(c)'
        <3>1. IsFiniteSet(held[c]) /\ Cardinality(held[c]) = Len(s)
            <4>1. ConnectionsAreCounted(c)
                BY DEF Climbing
            <4>2. OpenReads(c) = Len(s)
                BY <1>1, <2>1 DEF OpenReads
            <4>3. QED
                BY <1>1, <2>1, <4>1, <4>2 DEF ConnectionsAreCounted, TransactionSteps
        <3>2. OpenReads(c)' = Len(s)
            BY <2>1, <2>3, <2>4 DEF OpenReads
        <3>3. QED
            BY <2>1, <2>4, <3>1, <3>2 DEF ConnectionsAreCounted, TransactionSteps
    <2>8. QED
        BY <1>1, <1>3, <2>6, <2>7, ClimbingMove DEF Goto, CacheInv, CacheTypeOK
<1>4. QED
    BY <1>2, <1>3 DEF Select

LEMMA ReadRelativeClimbs ==
    ASSUME CacheInv, Climbing, NEW c \in Callers, ReadRelative(c)
    PROVE  Climbing'
<1> DEFINE s == stack[c]
           r == IF "parent" \in Top(c).todo THEN "parent" ELSE "root"
           e == Relative(Top(c).domain, r)
           key == [by |-> "rowid", of |-> e]
           f == Frame(key)
           g == [Top(c) EXCEPT !.todo = @ \ {r}]
           t == <<f, g>> \o Tail(s)
<1>1. /\ pc[c] = "nested" /\ Top(c).todo # {}
      /\ stack' = [stack EXCEPT ![c] = t]
      /\ pc' = [pc EXCEPT ![c] = "lookup"]
      /\ rows' = rows /\ UNCHANGED <<held, req, parent, began>>
    BY DEF ReadRelative, Goto
<1>2. /\ s \in Seq(Frames) /\ s # <<>> /\ Len(s) \in Nat /\ Len(s) >= 1
      /\ Top(c) = s[1] /\ Top(c) \in Frames /\ 1 \in 1..Len(s)
    BY <1>1, ReadingType, OneOrMore DEF ReadSteps
<1>3. /\ Top(c).domain \in Stored
      /\ Top(c).todo \subseteq Relatives(Top(c).domain)
    BY <1>1, <1>2 DEF CacheInv, ReadsNest, Matching
<1>4. r \in Relatives(Top(c).domain)
    <2>1. Top(c).todo \subseteq {"parent", "root"}
        BY <1>2 DEF Frames
    <2>2. r \in Top(c).todo
        BY <1>1, <2>1
    <2>3. QED
        BY <1>3, <2>2
<1>5. /\ e \in Domains
      /\ e \in {rows[Top(c).domain].parent, rows[Top(c).domain].root} \ {Top(c).domain}
    <2> DEFINE d == Top(c).domain
    <2>1. PICK b \in {d} : rows[b].parent \notin {d}
        <3>1. {d} \in SUBSET {x \in Domains : rows[x] # None}
            BY <1>3 DEF Stored
        <3>2. QED
            BY <3>1 DEF Climbing, IsGrounded
    <2>2. /\ \A x \in Stored : x \in Domains /\ x # None
          /\ rows[d].root \in Stored /\ rows[d].parent \in Stored \union {None}
        BY <1>3, StoredType, NoneAssumption DEF CacheInv, RecordsAreStored
    <2>3. CASE r = "parent"
        BY <1>4, <2>1, <2>2, <2>3 DEF Relatives, Relative
    <2>4. CASE r # "parent"
        BY <1>4, <2>2, <2>4 DEF Relatives, Relative
    <2>5. QED
        BY <2>3, <2>4
<1>6. f \in Frames /\ f.key.of = e
    <2>1. key \in Keys /\ key.of = e
        BY <1>5 DEF Keys
    <2>2. QED
        BY <2>1, FrameType
<1>7. g \in Frames /\ g.key = s[1].key /\ g.domain = s[1].domain
    BY <1>2 DEF Frames
<1>8. /\ t # <<>> /\ Len(t) = Len(s) + 1 /\ t[1] = f /\ t[2] = g
      /\ \A i \in 3..(Len(s) + 1) : t[i] = s[i - 1]
    BY <1>2, <1>6, <1>7, PushSeq
<1> HIDE DEF e, f, g, t
<1>9. pc'[c] = "lookup" /\ stack'[c] = t /\ held'[c] = held[c]
    BY <1>1 DEF CacheInv, CacheTypeOK
<1>10. ReadsFollow(c)'
    <2>1. ReadsFollow(c)
        BY DEF Climbing
    <2>2. ASSUME NEW i \in 1..Len(t), i < Len(t), i # 1
          PROVE  /\ i - 1 \in 1..Len(s) /\ i - 1 < Len(s)
                 /\ t[i].key = s[i - 1].key /\ t[i + 1].domain = s[(i - 1) + 1].domain
        <3>1. /\ i - 1 \in 1..Len(s) /\ i - 1 < Len(s) /\ (i - 1) + 1 = i
              /\ i + 1 \in 3..(Len(s) + 1) /\ (i + 1) - 1 = i
              /\ i = 2 \/ i \in 3..(Len(s) + 1)
            BY <1>2, <1>8, <2>2
        <3>2. t[i + 1] = s[i]
            BY <1>8, <3>1
        <3>3. t[i].key = s[i - 1].key
            <4>1. CASE i = 2
                BY <1>7, <1>8, <4>1
            <4>2. CASE i \in 3..(Len(s) + 1)
                BY <1>8, <4>2
            <4>3. QED
                BY <3>1, <4>1, <4>2
        <3>4. QED
            BY <3>1, <3>2, <3>3
    <2>3. t[1].key.of \in {rows[t[1 + 1].domain].parent, rows[t[1 + 1].domain].root}
                                \ {t[1 + 1].domain}
        BY <1>2, <1>5, <1>6, <1>7, <1>8
    <2>4. ASSUME NEW i \in 1..Len(t), i < Len(t)
          PROVE  \/ t[i].key.of \in {rows[t[i + 1].domain].parent, rows[t[i + 1].domain].root}
                            \ {t[i + 1].domain}
                 \/ \E j \in 1..Len(s) :
                      j < Len(s) /\ t[i].key = s[j].key /\ t[i + 1].domain = s[j + 1].domain
        <3>1. CASE i = 1
            BY <2>3, <3>1
        <3>2. CASE i # 1
            BY <2>2, <2>4, <3>2
        <3>3. QED
            BY <3>1, <3>2
    <2>5. QED
        BY <1>1, <1>9, <2>1, <2>4, FollowShifted
<1>11. ConnectionsAreCounted(c)'
    <2>1. ConnectionsAreCounted(c)
        BY DEF Climbing
    <2>2. OpenReads(c) = Len(s)
        BY <1>1, <1>2 DEF OpenReads
    <2>3. OpenReads(c)' = Len(s)
        <3>1. OpenReads(c)' = (Len(s) + 1) - 1
            BY <1>8, <1>9 DEF OpenReads
        <3>2. QED
            BY <1>2, <3>1
    <2>4. QED
        BY <1>1, <1>9, <2>1, <2>2, <2>3 DEF ConnectionsAreCounted, TransactionSteps
<1>12. \A d \in Callers \ {c} :
            pc'[d] = pc[d] /\ stack'[d] = stack[d] /\ held'[d] = held[d]
    BY <1>1 DEF CacheInv, CacheTypeOK
<1>13. QED
    BY <1>1, <1>10, <1>11, <1>12, ClimbingMove

LEMMA EndReadClimbs ==
    ASSUME CacheInv, Climbing, NEW c \in Callers, EndRead(c)
    PROVE  Climbing'
<1> DEFINE s == stack[c]
           x == CHOOSE y \in held[c] : TRUE
<1>1. /\ pc[c] = "nested" /\ pc[c] \in ReadSteps
      /\ held' = [held EXCEPT ![c] = @ \ {x}]
      /\ pc' = [pc EXCEPT ![c] = "cache_write"]
      /\ rows' = rows /\ stack' = stack /\ UNCHANGED <<req, parent, began>>
    BY DEF EndRead, Goto, local, ReadSteps
<1>2. s # <<>> /\ Len(s) \in Nat /\ Len(s) >= 1
    BY <1>1, ReadingType
<1>3. /\ pc'[c] = "cache_write" /\ stack'[c] = s /\ held'[c] = held[c] \ {x}
    BY <1>1 DEF CacheInv, CacheTypeOK
<1>4. ConnectionsAreCounted(c) /\ ReadsFollow(c)
    BY DEF Climbing
<1>5. IsFiniteSet(held[c]) /\ Cardinality(held[c]) = Len(s)
    <2>1. OpenReads(c) = Len(s)
        BY <1>1, <1>2 DEF OpenReads
    <2>2. QED
        BY <1>1, <1>2, <1>4, <2>1 DEF ConnectionsAreCounted, TransactionSteps
<1>6. x \in held[c]
    <2>1. held[c] # {}
        BY <1>2, <1>5, FS_EmptySet
    <2>2. QED
        BY <2>1
<1> HIDE DEF x
<1>7. IsFiniteSet(held'[c]) /\ Cardinality(held'[c]) = Len(s) - 1
    BY <1>3, <1>5, <1>6, FS_RemoveElement
<1>8. ConnectionsAreCounted(c)'
    <2>1. OpenReads(c)' = Len(s) - 1
        BY <1>2, <1>3 DEF OpenReads
    <2>2. pc'[c] \notin TransactionSteps /\ (Len(s) - 1) + 0 = Len(s) - 1
        BY <1>2, <1>3 DEF TransactionSteps
    <2>3. QED
        BY <1>7, <2>1, <2>2 DEF ConnectionsAreCounted
<1>9. ReadsFollow(c)'
    BY <1>1, <1>3, <1>4 DEF ReadsFollow
<1>10. \A d \in Callers \ {c} :
            pc'[d] = pc[d] /\ stack'[d] = stack[d] /\ held'[d] = held[d]
    BY <1>1 DEF CacheInv, CacheTypeOK
<1>11. QED
    BY <1>1, <1>8, <1>9, <1>10, ClimbingMove

LEMMA CacheWriteClimbs ==
    ASSUME CacheInv, Climbing, NEW c \in Callers, CacheWrite(c)
    PROVE  Climbing'
<1>1. /\ pc[c] = "cache_write" /\ rows' = rows
      /\ Return(c, Result("Internal")) \/ Deliver(c, Top(c).domain, req[c].system)
    BY DEF CacheWrite
<1>2. QED
    BY <1>1, SameRowsGrounded, ClimbingReturn, DeliverClimbs

LEMMA FailClimbs ==
    ASSUME CacheInv, Climbing, NEW c \in Callers, Fail(c) \/ AcquireTimeout(c)
    PROVE  Climbing'
<1>1. rows' = rows /\ Return(c, Result("Internal"))
    BY DEF Fail, AcquireTimeout
<1>2. QED
    BY <1>1, SameRowsGrounded, ClimbingReturn

\* A step of a write keeps its stack empty.
LEMMA WriteMoves ==
    ASSUME CacheInv, Climbing, NEW c \in Callers, pc[c] \in WriteSteps,
           NEW step, pc' = [pc EXCEPT ![c] = step], stack' = stack,
           NEW h, held' = [held EXCEPT ![c] = h],
           UNCHANGED <<req, parent, began>>,
           IsFiniteSet(h),
           Cardinality(h) = IF step \in TransactionSteps THEN 1 ELSE 0,
           RowsKept, IsGrounded(rows)'
    PROVE  Climbing'
<1>1. stack'[c] = <<>> /\ pc'[c] = step /\ held'[c] = h
    BY WritingType DEF CacheInv, CacheTypeOK
<1>2. OthersSame(c)
    BY DEF OthersSame, CacheInv, CacheTypeOK
<1>3. ConnectionsAreCounted(c)'
    <2>1. OpenReads(c)' = 0
        BY <1>1 DEF OpenReads
    <2>2. QED
        BY <1>1, <2>1 DEF ConnectionsAreCounted
<1>4. QED
    BY <1>1, <1>2, <1>3, NoReadsFollow, ClimbingNext

LEMMA InsertionClimbs ==
    ASSUME CacheInv, Climbing, NEW c \in Callers, Update(c) \/ Insert(c) \/ InsertName(c)
    PROVE  Climbing'
<1>1. /\ pc[c] \in {"update", "insert", "insert_name"}
      /\ pc[c] \in WriteSteps /\ pc[c] \in TransactionSteps /\ rows' = rows
    BY DEF Update, Insert, InsertName, WriteSteps, TransactionSteps
<1>2. CASE Return(c, Result("Internal"))
    BY <1>1, <1>2, SameRowsGrounded, ClimbingReturn
<1>3. ASSUME NEW next \in {"insert", "insert_name", "commit"}, Goto(c, next),
             UNCHANGED <<holder, held, local>>
      PROVE  Climbing'
    <2>1. /\ pc' = [pc EXCEPT ![c] = next] /\ stack' = stack
          /\ UNCHANGED <<req, parent, began>>
          /\ held' = [held EXCEPT ![c] = held[c]]
        BY <1>3 DEF Goto, local, CacheInv, CacheTypeOK
    <2>2. IsFiniteSet(held[c]) /\ Cardinality(held[c]) = 1
        <3>1. OpenReads(c) = 0
            BY <1>1, WritingType DEF OpenReads
        <3>2. ConnectionsAreCounted(c)
            BY DEF Climbing
        <3>3. QED
            BY <1>1, <3>1, <3>2 DEF ConnectionsAreCounted
    <2>3. next \in TransactionSteps
        BY DEF TransactionSteps
    <2>4. QED
        BY <1>1, <2>1, <2>2, <2>3, SameRowsGrounded, WriteMoves
<1>4. QED
    BY <1>2, <1>3 DEF Update, Insert, InsertName

\* A new row refers only to rows that are stored and to itself.
LEMMA CommitKeepsGround ==
    ASSUME CacheInv, IsGrounded(rows), NEW c \in Callers, Commit(c)
    PROVE  RowsKept /\ IsGrounded(rows)'
<1> DEFINE u == req[c].uuid
           row == NewRow(c)
<1>1. /\ pc[c] = "commit" /\ pc[c] \in WriteSteps
      /\ rows' = [rows EXCEPT ![u] = row]
    BY DEF Commit, WriteSteps
<1>2. /\ req[c].system \in Systems /\ u \in Domains /\ req[c].name \in Names
      /\ parent[c] \in Domains \union {None} /\ parent[c] \in Stored \union {None}
    BY <1>1, WritingType
<1>3. u \notin Stored
    BY <1>1 DEF CacheInv, WriteIsCommitted, KeysAreNew, UUIDTaken, Stored
<1>4. /\ row.parent = parent[c]
      /\ parent[c] = None => row.root = u
      /\ parent[c] # None => row.root = rows[parent[c]].root /\ row.root \in Stored
    BY <1>2 DEF NewRow, CacheInv, RecordsAreStored
<1>5. row \in Rows
    <2>1. row.root \in Domains
        BY <1>2, <1>4 DEF Stored
    <2>2. QED
        BY <1>2, <2>1 DEF Rows, NewRow
<1> HIDE DEF row
<1>6. rows'[u] = row /\ \A d \in Domains : d # u => rows'[d] = rows[d]
    BY <1>1, <1>2 DEF CacheInv, CacheTypeOK
<1>7. RowsKept
    <2>1. rows' \in [Domains -> Rows \union {None}]
        BY <1>1, <1>5 DEF CacheInv, CacheTypeOK
    <2>2. QED
        BY <1>3, <1>6, <2>1 DEF RowsKept, Stored
<1>8. ASSUME NEW S \in SUBSET {d \in Domains : rows'[d] # None}, S # {}
      PROVE  \E d \in S : rows'[d].parent \notin S /\ rows'[d].root \notin S \ {d}
    <2>1. CASE S = {u}
        <3>1. parent[c] # u
            BY <1>2, <1>3, NoneAssumption
        <3>2. QED
            BY <1>4, <1>6, <2>1, <3>1
    <2>2. CASE S # {u}
        <3> DEFINE R == S \ {u}
        <3>1. R # {} /\ R \in SUBSET {d \in Domains : rows[d] # None}
            BY <1>6, <1>8, <2>2
        <3>2. PICK d \in R : rows[d].parent \notin R /\ rows[d].root \notin R \ {d}
            BY <3>1 DEF IsGrounded
        <3>3. d \in Stored /\ rows'[d] = rows[d]
            BY <1>6, <3>1 DEF Stored
        <3>4. rows[d].parent # u /\ rows[d].root # u
            <4>1. rows[d].root \in Stored /\ rows[d].parent \in Stored \union {None}
                BY <3>3 DEF CacheInv, RecordsAreStored
            <4>2. QED
                BY <1>2, <1>3, <4>1, NoneAssumption
        <3>5. QED
            BY <3>2, <3>3, <3>4
    <2>3. QED
        BY <2>1, <2>2
<1>9. QED
    BY <1>7, <1>8 DEF IsGrounded

LEMMA CommitClimbs ==
    ASSUME CacheInv, Climbing, NEW c \in Callers, Commit(c)
    PROVE  Climbing'
<1>1. RowsKept /\ IsGrounded(rows)'
    BY CommitKeepsGround DEF Climbing
<1>2. ASSUME NEW outcome, Return(c, outcome) PROVE Climbing'
    BY <1>1, <1>2, ClimbingReturn
<1>3. CASE Goto(c, "evict_lock") /\ held' = [held EXCEPT ![c] = {}] /\ UNCHANGED <<holder, local>>
    <2>1. /\ pc' = [pc EXCEPT ![c] = "evict_lock"] /\ stack' = stack
          /\ UNCHANGED <<req, parent, began>> /\ pc[c] \in WriteSteps
        BY <1>3 DEF Goto, local, Commit, WriteSteps
    <2>2. IsFiniteSet({}) /\ Cardinality({}) =
            IF "evict_lock" \in TransactionSteps THEN 1 ELSE 0
        BY FS_EmptySet DEF TransactionSteps
    <2>3. QED
        BY <1>1, <1>3, <2>1, <2>2, WriteMoves
<1>4. QED
    BY <1>2, <1>3 DEF Commit

LEMMA EvictLockClimbs ==
    ASSUME CacheInv, Climbing, NEW c \in Callers, EvictLock(c)
    PROVE  Climbing'
<1>1. pc[c] = "evict_lock" /\ pc[c] \in WriteSteps /\ rows' = rows
    BY DEF EvictLock, WriteSteps
<1>2. CASE Return(c, Result("ok"))
    BY <1>1, <1>2, SameRowsGrounded, ClimbingReturn
<1>3. CASE ~ Return(c, Result("ok"))
    <2>1. /\ pc' = [pc EXCEPT ![c] = "acquire_evict"] /\ stack' = stack
          /\ UNCHANGED <<req, parent, began>>
          /\ held' = [held EXCEPT ![c] = held[c]]
        BY <1>3 DEF EvictLock, Goto, local, CacheInv, CacheTypeOK
    <2>2. IsFiniteSet(held[c]) /\ Cardinality(held[c]) =
            IF "acquire_evict" \in TransactionSteps THEN 1 ELSE 0
        <3>1. OpenReads(c) = 0
            BY <1>1, WritingType DEF OpenReads
        <3>2. ConnectionsAreCounted(c)
            BY DEF Climbing
        <3>3. QED
            BY <1>1, <3>1, <3>2 DEF ConnectionsAreCounted, TransactionSteps
    <2>3. QED
        BY <1>1, <2>1, <2>2, SameRowsGrounded, WriteMoves
<1>4. QED
    BY <1>2, <1>3

LEMMA EvictSelectClimbs ==
    ASSUME CacheInv, Climbing, NEW c \in Callers, EvictSelect(c)
    PROVE  Climbing'
<1>1. pc[c] = "evict_select" /\ pc[c] \in WriteSteps /\ rows' = rows
    BY DEF EvictSelect, WriteSteps, EvictSteps
<1>2. CASE Return(c, Result("ok"))
    BY <1>1, <1>2, SameRowsGrounded, ClimbingReturn
<1>3. CASE ~ Return(c, Result("ok"))
    <2>1. /\ pc' = [pc EXCEPT ![c] = "evict_parent"] /\ stack' = stack
          /\ UNCHANGED <<req, parent, began>>
          /\ held' = [held EXCEPT ![c] = {}]
        BY <1>3 DEF EvictSelect, Goto, local
    <2>2. IsFiniteSet({}) /\ Cardinality({}) =
            IF "evict_parent" \in TransactionSteps THEN 1 ELSE 0
        BY FS_EmptySet DEF TransactionSteps
    <2>3. QED
        BY <1>1, <2>1, <2>2, SameRowsGrounded, WriteMoves
<1>4. QED
    BY <1>2, <1>3

LEMMA InitClimbs ==
    ASSUME Init
    PROVE  Climbing
<1>1. IsGrounded(rows)
    BY InitialRowsAssumption DEF Init
<1>2. ASSUME NEW c \in Callers
      PROVE  ReadsFollow(c) /\ ConnectionsAreCounted(c)
    <2>1. stack[c] = <<>> /\ held[c] = {} /\ pc[c] = "idle"
        BY DEF Init
    <2>2. QED
        BY <2>1, FS_EmptySet DEF ReadsFollow, ConnectionsAreCounted, TransactionSteps, OpenReads
<1>3. QED
    BY <1>1, <1>2 DEF Climbing

LEMMA StutterClimbs ==
    ASSUME Climbing, UNCHANGED vars
    PROVE  Climbing'
BY DEF vars, Climbing, IsGrounded, ReadsFollow, ConnectionsAreCounted, OpenReads

LEMMA ClimbingIsClimbInv ==
    ASSUME CacheInv, Climbing
    PROVE  ClimbInv
<1>1. ASSUME NEW c \in Callers, NEW i \in 1..Len(stack[c]), NEW j \in 1..Len(stack[c]), i < j
      PROVE  stack[c][i].domain = None \/ stack[c][i].domain # stack[c][j].domain
    BY <1>1, StacksAreDistinct DEF Climbing
<1>2. QED
    BY <1>1 DEF Climbing, ClimbInv, ReadsClimb

\* No read ever selects a domain that it is already reading, whatever the forest, and a
\* call holds exactly one connection for each transaction that it has open: so the nested
\* reads of the domain store end, and what they take is given back.
THEOREM ReadsAlwaysClimb == Spec => []ClimbInv
<1>1. Init => Climbing
    BY InitClimbs
<1>2. CacheInv /\ Climbing /\ [Next]_vars => Climbing'
    <2> SUFFICES ASSUME CacheInv, Climbing, [Next]_vars PROVE Climbing'
        OBVIOUS
    <2>1. CASE UNCHANGED vars
        BY <2>1, StutterClimbs
    <2>2. ASSUME NEW c \in Callers, DomainCall(c) \/ Step(c) \/ Fail(c) PROVE Climbing'
        BY <2>2, DomainCallClimbs, AcquireClimbs, FailClimbs, LookupClimbs, SelectClimbs,
           ReadRelativeClimbs, EndReadClimbs, CacheWriteClimbs, InsertionClimbs, CommitClimbs,
           EvictLockClimbs, EvictSelectClimbs DEF Step
    <2>3. QED
        BY <2>1, <2>2 DEF Next
<1>3. CacheInv /\ Climbing => ClimbInv
    BY ClimbingIsClimbInv
<1>4. QED
    BY <1>1, <1>2, <1>3, CachesAreSound, PTL DEF Spec

\* The order of the places where a call waits and where it is waited for.
Position(step) ==
    CASE step = "update" -> 1
      [] step = "insert" -> 2
      [] step = "insert_name" -> 3
      [] step \in {"commit"} \union EvictSteps -> 4
      [] OTHER -> 0

\* Whoever is waited for has got further than who waits, and has not returned.
LEMMA WaitsGoUp ==
    ASSUME CacheInv, NEW c \in Callers, NEW d \in Callers, WaitsFor(c, d)
    PROVE  Position(pc[c]) < Position(pc[d]) /\ pc[d] # "idle"
<1>1. CASE pc[c] \in {"lookup", "cache_write", "evict_lock"} /\ holder = d
    <2>1. pc[d] \in EvictSteps
        BY <1>1 DEF CacheInv, LockIsHeldToEvict
    <2>2. QED
        BY <1>1, <2>1 DEF Position, EvictSteps
<1>2. CASE pc[c] = "update" /\ pc[d] \in {"insert", "insert_name", "commit"}
    BY <1>2 DEF Position, EvictSteps
<1>3. CASE pc[c] = "insert" /\ pc[d] \in {"insert_name", "commit"}
    BY <1>3 DEF Position, EvictSteps
<1>4. CASE pc[c] = "insert_name" /\ pc[d] = "commit"
    BY <1>4 DEF Position, EvictSteps
<1>5. QED
    BY <1>1, <1>2, <1>3, <1>4 DEF WaitsFor, HoldsTree, HoldsUUID, HoldsName

\* Calls on domains never wait for each other in a circle, neither for the cache lock nor
\* for the rows and keys of uncommitted insertions, although a call that waits may hold
\* rows and keys itself.
THEOREM DomainCallsNeverDeadlock == Spec => []NobodyWaitsInACircle
<1>1. CacheInv => NobodyWaitsInACircle
    <2> SUFFICES ASSUME CacheInv, NEW S \in SUBSET Callers, S # {},
                        \A c \in S : \E d \in S : WaitsFor(c, d)
                 PROVE  FALSE
        BY DEF NobodyWaitsInACircle
    <2> DEFINE At(n) == \E c \in S : Position(pc[c]) = n
    <2>1. \A c \in S : Position(pc[c]) \in 0..4
        BY DEF Position
    <2>2. \A n \in 0..4 : At(n) => \E m \in 0..4 : n < m /\ At(m)
        <3> SUFFICES ASSUME NEW n \in 0..4, NEW c \in S, Position(pc[c]) = n
                     PROVE  \E m \in 0..4 : n < m /\ At(m)
            OBVIOUS
        <3>1. PICK d \in S : WaitsFor(c, d)
            OBVIOUS
        <3>2. n < Position(pc[d])
            BY <3>1, WaitsGoUp
        <3>3. QED
            BY <2>1, <3>2
    <2> HIDE DEF At
    <2>3. ~ At(4) /\ ~ At(3) /\ ~ At(2) /\ ~ At(1) /\ ~ At(0)
        BY <2>2
    <2>4. QED
        BY <2>1, <2>3 DEF At
<1>2. QED
    BY <1>1, CachesAreSound, PTL

-----------------------------------------------------------------------------
(* The forest that the table holds. *)

\* COMMIT creates one domain, as a root or under the parent that was found.
LEMMA CommitGrowsForest ==
    ASSUME CacheInv, NEW c \in Callers, Commit(c)
    PROVE  Forest!Next
<1> DEFINE u == req[c].uuid
           s == req[c].system
           n == req[c].name
<1>1. /\ pc[c] = "commit" /\ pc[c] \in WriteSteps
      /\ ~ UUIDTaken(req[c]) /\ ~ NameTaken(req[c])
      /\ rows' = [rows EXCEPT ![u] = NewRow(c)]
    BY DEF Commit, WriteSteps, CacheInv, WriteIsCommitted, KeysAreNew
<1>2. /\ s \in Systems /\ u \in Domains /\ n \in Names
      /\ parent[c] \in Domains \union {None} /\ parent[c] \in Stored \union {None}
    BY <1>1, WritingType
<1>3. Forest!CanCreate(u, s, n)
    BY <1>1, <1>2 DEF UUIDTaken, NameTaken, Stored, Forest!CanCreate, Forest!In
<1>4. CASE parent[c] = None
    <2>1. Forest!CreateRoot(u, s, n)
        BY <1>1, <1>3, <1>4 DEF NewRow, Forest!CreateRoot
    <2>2. QED
        BY <1>2, <2>1 DEF Forest!Next
<1>5. CASE parent[c] # None
    <2>1. Forest!CreateChild(u, s, n, parent[c])
        BY <1>1, <1>2, <1>3, <1>5 DEF NewRow, Forest!CreateChild, Forest!In, Stored
    <2>2. QED
        BY <1>2, <1>5, <2>1 DEF Forest!Next
<1>6. QED
    BY <1>4, <1>5

\* A step that is no COMMIT leaves the domains table alone.
LEMMA OnlyCommitWrites ==
    ASSUME [Next]_vars, ~ \E c \in Callers : Commit(c)
    PROVE  UNCHANGED rows
<1>1. ASSUME NEW c \in Callers, Step(c) PROVE UNCHANGED rows
    BY <1>1 DEF Step, Acquire, AcquireTimeout, Lookup, Select, ReadRelative, EndRead,
                CacheWrite, Update, Insert, InsertName, EvictLock, EvictSelect
<1>2. QED
    BY <1>1 DEF Next, DomainCall, Fail, vars

\* Whatever the caches hold, drop or refuse, a process that finds a forest in the table keeps
\* one: the parent that a write took from a cache is a stored domain, and the new row has its
\* root.
THEOREM CachedWritesKeepForest ==
    ASSUME Forest!IsForest(InitialRows)
    PROVE  Spec => ImplementsDomainForest
<1>1. Init => Forest!Init
    BY DEF Init, Forest!Init
<1>2. CacheInv /\ [Next]_vars => [Forest!Next]_rows
    BY CommitGrowsForest, OnlyCommitWrites
<1>3. QED
    BY <1>1, <1>2, CachesAreSound, PTL DEF Spec, ImplementsDomainForest, Forest!Spec

\* What every forest has.
Trees == INSTANCE DomainForest_proofs WITH forest <- rows

\* In a process that finds a forest in the table, the root that a stored domain names is
\* stored, without a parent and its own root, whatever the caches say: the read of the root
\* that dbReadByRowID makes for every domain below one finds it, and goes no further.
THEOREM RootsAlwaysStand ==
    ASSUME Forest!IsForest(InitialRows)
    PROVE  Spec => []\A d \in Stored : Trees!RootStands(rows, d)
<1>1. Trees!NoneIsNothing
    BY NoneAssumption DEF Trees!NoneIsNothing, Trees!Nodes, Rows
<1>2. Forest!Spec => Trees!Spec
    BY DEF Forest!Spec, Trees!Spec, Forest!Init, Trees!Init, Forest!Next, Trees!Next,
           Forest!IsForest, Trees!IsForest, Forest!In, Trees!In, Forest!Nodes, Trees!Nodes,
           Forest!CreateRoot, Trees!CreateRoot, Forest!CreateChild, Trees!CreateChild,
           Forest!CanCreate, Trees!CanCreate
<1>3. Trees!Spec => [](Trees!IsForest(rows) /\ \A d \in Trees!In(rows) : Trees!RootStands(rows, d))
    BY <1>1, Trees!ForestsStay
<1>4. (Trees!IsForest(rows) /\ \A d \in Trees!In(rows) : Trees!RootStands(rows, d))
      => \A d \in Stored : Trees!RootStands(rows, d)
    BY DEF Stored, Trees!In
<1>5. QED
    BY <1>2, <1>3, <1>4, CachedWritesKeepForest, PTL DEF ImplementsDomainForest

=============================================================================
