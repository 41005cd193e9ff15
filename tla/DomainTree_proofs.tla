------------------------- MODULE DomainTree_proofs -------------------------
(***************************************************************************)
(* Proofs about DomainTree, for every set of callers, domains and calls,    *)
(* with the cache or without it.                                           *)
(***************************************************************************)
EXTENDS DomainTree, SequenceTheorems, TLAPS

(* Data. *)

\* Domains and requests are not None.
LEMMA NoneIsNothing ==
    /\ None \notin Rows
    /\ None \notin Domains
    /\ \A r \in Requests : r # None
BY NoneAssumption, RequestsAssumption

\* A request of DomainWrite is a record with a parent field, and so not one of DomainRead.
LEMMA RequestKinds ==
    ASSUME NEW r \in Requests
    PROVE  /\ r \in WriteRequests \/ r \in ReadRequests
           /\ r \in WriteRequests => /\ r.op = "write" /\ r.uuid \in Domains
                                     /\ r.name \in Names
                                     /\ r.parent \in Domains \union {None}
           /\ r \in ReadRequests => r.op = "read" /\ r.uuid \in Domains
BY RequestsAssumption DEF WriteRequests, ReadRequests

\* Making room moves sides up, in order, and leaves two free numbers.
LEMMA ShiftOrder ==
    ASSUME NEW x \in Nat, NEW y \in Nat, NEW from \in Nat
    PROVE  /\ Shift(x, from) \in Nat
           /\ x <= Shift(x, from)
           /\ x < y <=> Shift(x, from) < Shift(y, from)
           /\ x < from <=> Shift(x, from) < from
           /\ x >= from <=> Shift(x, from) > from + 1
           /\ x <= y => Shift(y, from) - Shift(x, from) >= y - x
BY DEF Shift

LEMMA ShiftedRow ==
    ASSUME NEW row \in Rows, NEW from \in Nat
    PROVE  /\ Shifted(row, from) \in Rows
           /\ Shifted(row, from).name = row.name
           /\ Shifted(row, from).root = row.root
           /\ Shifted(row, from).parent = row.parent
           /\ Shifted(row, from).left = Shift(row.left, from)
           /\ Shifted(row, from).right = Shift(row.right, from)
<1>1. Shift(row.left, from) \in Nat /\ Shift(row.right, from) \in Nat
    BY DEF Rows, Shift
<1>2. QED
    BY <1>1 DEF Rows, Shifted

LEMMA StoredRow ==
    ASSUME TreeTypeOK, NEW d \in Stored
    PROVE  /\ d \in Domains /\ domains[d] \in Rows /\ domains[d] # None
           /\ domains[d].root \in Domains /\ domains[d].name \in Names
           /\ domains[d].parent \in Domains \union {None}
           /\ domains[d].left \in Nat /\ domains[d].right \in Nat
BY NoneIsNothing DEF TreeTypeOK, Stored, Rows

\* Dropping the first of several frames keeps the others.
LEMMA TailKeepsRest ==
    ASSUME NEW S, NEW s \in Seq(S), Len(s) > 1
    PROVE  /\ Tail(s) # <<>>
           /\ Tail(s)[Len(Tail(s))] = s[Len(s)]
           /\ \A i \in 1..Len(Tail(s)) : i + 1 \in 1..Len(s) /\ Tail(s)[i] = s[i + 1]
<1>1. Len(s) \in Nat /\ s # <<>>
    BY EmptySeq, LenProperties
<1>2. /\ Len(Tail(s)) = Len(s) - 1
      /\ \A i \in 1..Len(Tail(s)) : Tail(s)[i] = s[i + 1]
    BY <1>1, HeadTailProperties
<1>3. Len(Tail(s)) \in 1..Len(Tail(s)) /\ Len(Tail(s)) + 1 = Len(s)
    BY <1>1, <1>2
<1>4. Tail(s) # <<>>
    <2>1. ASSUME NEW t, t = <<>> PROVE Len(t) = 0
        BY <2>1
    <2>2. Len(Tail(s)) # 0
        BY <1>1, <1>2
    <2>3. QED
        BY ONLY <2>1, <2>2, Zenon
<1>5. Tail(s)[Len(Tail(s))] = s[Len(Tail(s)) + 1]
    BY <1>2, <1>3
<1>6. QED
    BY <1>1, <1>2, <1>3, <1>4, <1>5

-----------------------------------------------------------------------------
(* Steps that leave the tables alone. *)

\* Records stay past states of their rows when no row changes: only what c and the
\* cache hold anew has to be looked at.
LEMMA RecordsStay ==
    ASSUME RecordsArePast, NEW c \in Callers, UNCHANGED domains,
           \A d \in Domains : cache'[d] # None => Outdates(d, cache'[d]),
           \A d \in Callers \ {c} :
             fetched'[d] = fetched[d] /\ parent'[d] = parent[d] /\ req'[d] = req[d],
           \A i \in 1..Len(fetched'[c]) :
             Outdates(fetched'[c][i].domain, fetched'[c][i].row),
           parent'[c] # None => /\ req'[c] \in WriteRequests
                                /\ req'[c].parent # None
                                /\ Outdates(req'[c].parent, parent'[c])
    PROVE  RecordsArePast'
<1>1. ASSUME NEW d, NEW row, Outdates(d, row)
      PROVE  Outdates(d, row)'
    BY <1>1 DEF Outdates, Stored
<1>2. \A d \in Domains : cache'[d] # None => Outdates(d, cache[d])'
    BY <1>1
<1>3. ASSUME NEW d \in Callers, NEW i \in 1..Len(fetched'[d])
      PROVE  Outdates(fetched[d][i].domain, fetched[d][i].row)'
    <2>1. Outdates(fetched'[d][i].domain, fetched'[d][i].row)
        BY DEF RecordsArePast
    <2>2. QED
        BY <1>1, <2>1
<1>4. ASSUME NEW d \in Callers, parent'[d] # None
      PROVE  /\ req'[d] \in WriteRequests
             /\ req'[d].parent # None
             /\ Outdates(req[d].parent, parent[d])'
    <2>1. /\ req'[d] \in WriteRequests
          /\ req'[d].parent # None
          /\ Outdates(req'[d].parent, parent'[d])
        BY <1>4 DEF RecordsArePast
    <2>2. QED
        BY <1>1, <2>1
<1>5. QED
    BY <1>2, <1>3, <1>4 DEF RecordsArePast

LEMMA InitTreeInv == Init => TreeInv
<1> SUFFICES ASSUME Init PROVE TreeInv
    OBVIOUS
<1> USE DEF Init
<1>1. Stored = {}
    BY DEF Stored
<1>2. TreeTypeOK
    BY CallsAssumption, EmptySeq DEF TreeTypeOK, Steps
<1>3. StepsFollow /\ CommitsExclude /\ SnapshotsArePast
    BY DEF StepsFollow, CommitsExclude, SnapshotsArePast, InTree, HoldsTree
<1>4. RecordsArePast
    BY EmptySeq DEF RecordsArePast
<1>5. RootsAreRoots /\ ParentIsStored /\ IntervalsNest
    BY <1>1 DEF RootsAreRoots, ParentIsStored, IntervalsNest
<1>6. QED
    BY <1>2, <1>3, <1>4, <1>5 DEF TreeInv

LEMMA SameTables ==
    ASSUME RootsAreRoots, ParentIsStored, IntervalsNest, UNCHANGED domains
    PROVE  RootsAreRoots' /\ ParentIsStored' /\ IntervalsNest'
BY DEF RootsAreRoots, ParentIsStored, IntervalsNest, Stored, SameTree

\* A call returns; the cache may have changed, the tables have not.
LEMMA ReturnInv ==
    ASSUME TreeInv, NEW c \in Callers, pc[c] # "idle", Return(c), UNCHANGED domains,
           cache' \in [Domains -> Rows \union {None}],
           \A d \in Domains : cache'[d] # None => Outdates(d, cache'[d])
    PROVE  TreeInv'
<1> USE DEF TreeInv, Return
<1>1. TreeTypeOK'
    BY EmptySeq DEF TreeTypeOK, Steps
<1>2. StepsFollow'
    BY DEF StepsFollow, TreeTypeOK, Target, Taken
<1>3. RecordsArePast'
    BY EmptySeq DEF RecordsArePast, TreeTypeOK, Outdates, Stored
<1>4. CommitsExclude'
    BY DEF CommitsExclude, HoldsTree, TreeTypeOK
<1>5. SnapshotsArePast'
    BY DEF SnapshotsArePast, InTree, HoldsTree, RowsToShift, SeesTree, TreeOf, Stored,
           TreeTypeOK
<1>6. QED
    BY <1>1, <1>2, <1>3, <1>4, <1>5, SameTables

\* The read is over.
LEMMA DeliverInv ==
    ASSUME TreeInv, NEW c \in Callers, pc[c] \in {"lookup", "cache_write"},
           NEW row \in Rows, Outdates(Wanted(req[c]), row), Deliver(c, row),
           UNCHANGED domains,
           cache' \in [Domains -> Rows \union {None}],
           \A d \in Domains : cache'[d] # None => Outdates(d, cache'[d])
    PROVE  TreeInv'
<1> USE DEF TreeInv
<1>1. CASE req[c].op = "read"
    BY <1>1, ReturnInv DEF Deliver
<1>2. CASE req[c].op # "read"
    <2>1. /\ parent' = [parent EXCEPT ![c] = row]
          /\ fetched' = [fetched EXCEPT ![c] = <<>>]
          /\ pc' = [pc EXCEPT ![c] = "begin"]
          /\ UNCHANGED <<req, snapshot, calls, domains>>
        BY <1>2 DEF Deliver, Goto
    <2>2. req[c] \in WriteRequests /\ Wanted(req[c]) = req[c].parent
          /\ req[c].parent \in Domains /\ req[c].parent # None /\ row # None
        BY <1>2, RequestKinds, NoneIsNothing DEF TreeTypeOK, StepsFollow, Wanted
    <2>3. TreeTypeOK'
        BY <2>1, EmptySeq DEF TreeTypeOK, Steps
    <2>4. StepsFollow'
        BY <2>1, <2>2 DEF StepsFollow, TreeTypeOK, Target, Taken
    <2>5. RecordsArePast'
        <3>1. /\ parent'[c] = row /\ req' = req
              /\ \A d \in Callers \ {c} : fetched'[d] = fetched[d] /\ parent'[d] = parent[d]
            BY <2>1 DEF TreeTypeOK
        <3>2. fetched'[c] = <<>> /\ Len(fetched'[c]) = 0
            BY <2>1, EmptySeq DEF TreeTypeOK
        <3>3. \A i \in 1..Len(fetched'[c]) :
                Outdates(fetched'[c][i].domain, fetched'[c][i].row)
            BY <3>2
        <3>4. Outdates(req'[c].parent, parent'[c])
            BY <2>2, <3>1
        <3>5. QED
            BY <2>1, <2>2, <3>1, <3>3, <3>4, RecordsStay
    <2>6. CommitsExclude'
        BY <2>1 DEF CommitsExclude, HoldsTree, TreeTypeOK
    <2>7. SnapshotsArePast'
        BY <2>1 DEF SnapshotsArePast, InTree, HoldsTree, RowsToShift, SeesTree, TreeOf,
                    Stored, TreeTypeOK
    <2>8. QED
        BY <2>1, <2>3, <2>4, <2>5, <2>6, <2>7, SameTables
<1>3. QED
    BY <1>1, <1>2

LEMMA CallInv ==
    ASSUME TreeInv, NEW c \in Callers, DomainRead(c) \/ DomainWrite(c)
    PROVE  TreeInv'
<1> USE DEF TreeInv
<1>1. PICK r \in Requests, step \in {"lookup", "insert"} :
        /\ Call(c, r, step)
        /\ r \in ReadRequests \union WriteRequests
        /\ step = "insert" <=> r \in WriteRequests /\ r.parent = None
    <2>1. CASE DomainRead(c)
        BY <2>1, RequestKinds DEF DomainRead
    <2>2. CASE DomainWrite(c)
        BY <2>2 DEF DomainWrite
    <2>3. QED
        BY <2>1, <2>2
<1>2. /\ pc[c] = "idle" /\ calls < MaxCalls /\ calls' = calls + 1
      /\ req' = [req EXCEPT ![c] = r]
      /\ pc' = [pc EXCEPT ![c] = step]
      /\ UNCHANGED <<domains, cache, fetched, parent, snapshot>>
    BY <1>1 DEF Call, Goto
<1>3. fetched[c] = <<>> /\ parent[c] = None
    BY <1>2 DEF StepsFollow
<1>4. step = "lookup" => Wanted(r) \in Domains
    BY <1>1, RequestKinds DEF Wanted
<1>5. TreeTypeOK'
    BY <1>2, CallsAssumption, NoneIsNothing DEF TreeTypeOK, Steps
<1>6. StepsFollow'
    BY <1>1, <1>2, <1>3, <1>4 DEF StepsFollow, TreeTypeOK, Target, Taken
<1>7. RecordsArePast'
    BY <1>2, <1>3 DEF RecordsArePast, TreeTypeOK, Outdates, Stored
<1>8. CommitsExclude'
    BY <1>2, <1>3 DEF CommitsExclude, HoldsTree, TreeTypeOK
<1>9. SnapshotsArePast'
    BY <1>2, <1>3 DEF SnapshotsArePast, InTree, HoldsTree, RowsToShift, SeesTree, TreeOf,
                      Stored, TreeTypeOK
<1>10. QED
    BY <1>2, <1>5, <1>6, <1>7, <1>8, <1>9, SameTables

LEMMA FailInv ==
    ASSUME TreeInv, NEW c \in Callers, Fail(c)
    PROVE  TreeInv'
BY ReturnInv DEF Fail, TreeInv, TreeTypeOK, RecordsArePast

\* What a step to another place keeps when it touches nothing else than pc.
LEMMA GotoInv ==
    ASSUME TreeInv, NEW c \in Callers, pc[c] # "idle", NEW step \in Steps \ {"idle"},
           Goto(c, step), UNCHANGED <<domains, cache, req, fetched, parent, snapshot, calls>>
    PROVE  TreeTypeOK' /\ RecordsArePast' /\ RootsAreRoots' /\ ParentIsStored' /\ IntervalsNest'
<1> USE DEF TreeInv, Goto
<1>1. TreeTypeOK'
    BY DEF TreeTypeOK
<1>2. RecordsArePast'
    BY DEF RecordsArePast, Outdates, Stored
<1>3. QED
    BY <1>1, <1>2, SameTables

LEMMA LookupInv ==
    ASSUME TreeInv, NEW c \in Callers, Lookup(c)
    PROVE  TreeInv'
<1> USE DEF TreeInv
<1>1. pc[c] = "lookup" /\ UNCHANGED <<domains, cache>> /\ Target(c) \in Domains
      /\ parent[c] = None /\ Wanted(req[c]) \in Domains
    BY DEF Lookup, StepsFollow
<1>2. ASSUME NEW step \in {"fetch", "cache_write"}, Goto(c, step),
             step = "cache_write" => fetched[c] # <<>>,
             UNCHANGED <<req, fetched, parent, snapshot, calls>>
      PROVE  TreeInv'
    <2>1. TreeTypeOK' /\ RecordsArePast' /\ RootsAreRoots' /\ ParentIsStored' /\ IntervalsNest'
        BY <1>1, <1>2, GotoInv DEF Steps
    <2>2. StepsFollow'
        BY <1>1, <1>2 DEF StepsFollow, Goto, TreeTypeOK, Target, Taken
    <2>3. CommitsExclude' /\ SnapshotsArePast'
        BY <1>1, <1>2 DEF CommitsExclude, SnapshotsArePast, InTree, HoldsTree, RowsToShift,
                          SeesTree, TreeOf, Stored, Goto, TreeTypeOK
    <2>4. QED
        BY <2>1, <2>2, <2>3
<1>3. CASE cache[Target(c)] # None /\ fetched[c] = <<>> /\ Deliver(c, cache[Target(c)])
    <2>1. Target(c) = Wanted(req[c])
        BY <1>3 DEF Target
    <2>2. cache[Target(c)] \in Rows /\ Outdates(Wanted(req[c]), cache[Target(c)])
        BY <1>1, <1>3, <2>1 DEF TreeTypeOK, RecordsArePast
    <2>3. QED
        BY <1>1, <1>3, <2>2, DeliverInv DEF TreeTypeOK, RecordsArePast
<1>4. QED
    BY <1>2, <1>3 DEF Lookup

LEMMA FetchInv ==
    ASSUME TreeInv, NEW c \in Callers, Fetch(c)
    PROVE  TreeInv'
<1> USE DEF TreeInv
<1> DEFINE frame == [domain |-> Target(c), row |-> domains[Target(c)]]
           step == IF domains[Target(c)].parent = None THEN "cache_write" ELSE "lookup"
<1>1. pc[c] = "fetch" /\ UNCHANGED <<domains, cache>> /\ Target(c) \in Domains
      /\ parent[c] = None /\ Wanted(req[c]) \in Domains
    BY DEF Fetch, StepsFollow
<1>2. CASE Return(c)
    BY <1>1, <1>2, ReturnInv DEF TreeTypeOK, RecordsArePast
<1>3. CASE /\ domains[Target(c)] # None
           /\ fetched' = [fetched EXCEPT ![c] = <<frame>> \o fetched[c]]
           /\ Goto(c, step)
           /\ UNCHANGED <<req, parent, snapshot, calls>>
    <2> USE DEF Goto
    <2>1. Target(c) \in Stored /\ domains[Target(c)] \in Rows /\ frame \in Frames
        BY <1>1, <1>3, StoredRow DEF Stored, Frames
    <2>2. fetched[c] \in Seq(Frames) /\ <<frame>> \in Seq(Frames)
        BY <2>1 DEF TreeTypeOK
    <2>3. /\ fetched'[c] \in Seq(Frames)
          /\ Len(fetched'[c]) = Len(fetched[c]) + 1
          /\ Len(fetched[c]) \in Nat
          /\ fetched'[c][1] = frame
          /\ \A i \in 2..Len(fetched'[c]) : fetched'[c][i] = fetched[c][i - 1]
        <3>1. fetched'[c] = <<frame>> \o fetched[c]
            BY <1>3 DEF TreeTypeOK
        <3>2. Len(<<frame>>) = 1 /\ <<frame>>[1] = frame
            OBVIOUS
        <3>3. Len(fetched[c]) \in Nat
            BY <2>2, LenProperties
        <3>4. QED
            BY <2>2, <3>1, <3>2, <3>3, ConcatProperties
    <2>4. fetched'[c] # <<>> /\ Head(fetched'[c]) = frame
        BY <2>3
    <2>5. \A d \in Callers \ {c} : fetched'[d] = fetched[d] /\ pc'[d] = pc[d]
        BY <1>3 DEF TreeTypeOK
    <2>6. pc'[c] = step /\ step \in {"cache_write", "lookup"}
        BY <1>3 DEF TreeTypeOK
    <2>7. TreeTypeOK'
        BY <1>1, <1>3, <2>1, <2>2, ConcatProperties DEF TreeTypeOK, Steps
    <2>8. fetched'[c][Len(fetched'[c])].domain = Wanted(req[c])
        <3>1. CASE fetched[c] = <<>>
            <4>1. Len(fetched'[c]) = 1 /\ Target(c) = Wanted(req[c])
                BY <2>3, <3>1, EmptySeq DEF Target
            <4>2. QED
                BY <4>1, <2>3
        <3>2. CASE fetched[c] # <<>>
            <4>1. Len(fetched[c]) \in Nat \ {0}
                BY <2>2, <3>2, EmptySeq
            <4>2. fetched'[c][Len(fetched'[c])] = fetched[c][Len(fetched[c])]
                BY <2>3, <4>1
            <4>3. QED
                BY <1>1, <3>2, <4>2 DEF StepsFollow
        <3>3. QED
            BY <3>1, <3>2
    <2>9. step = "lookup" => Target(c)' \in Domains
        <3>1. Target(c)' = domains[Target(c)].parent
            BY <2>4 DEF Target
        <3>2. QED
            BY <2>1, <3>1, StoredRow
    <2>10. StepsFollow'
        <3> SUFFICES ASSUME NEW d \in Callers
                     PROVE  StepsFollow!(d)'
            BY DEF StepsFollow
        <3>1. CASE d = c
            BY <1>1, <1>3, <2>4, <2>6, <2>8, <2>9, <3>1
        <3>2. CASE d # c
            BY <1>1, <1>3, <2>5, <3>2 DEF StepsFollow, Target, Taken
        <3>3. QED
            BY <3>1, <3>2
    <2>11. RecordsArePast'
        <3>1. Outdates(Target(c), domains[Target(c)])
            <4>1. domains[Target(c)].right > 1
                BY <2>1, StoredRow DEF IntervalsNest, RootsAreRoots
            <4>2. QED
                BY <2>1, <4>1, StoredRow DEF Outdates
        <3>2. \A i \in 1..Len(fetched'[c]) :
                Outdates(fetched'[c][i].domain, fetched'[c][i].row)
            <4> TAKE i \in 1..Len(fetched'[c])
            <4>1. CASE i = 1
                BY <2>3, <3>1, <4>1
            <4>2. CASE i # 1
                <5>1. \A j \in 1..Len(fetched[c]) :
                        Outdates(fetched[c][j].domain, fetched[c][j].row)
                    BY DEF RecordsArePast
                <5> HIDE DEF TreeInv, frame, step, Goto
                <5>2. i \in 2..Len(fetched'[c]) /\ i - 1 \in 1..Len(fetched[c])
                    BY <2>3, <4>2
                <5>3. fetched'[c][i] = fetched[c][i - 1]
                    BY <2>3, <5>2
                <5>4. QED
                    BY <5>1, <5>2, <5>3
            <4>3. QED
                BY <4>1, <4>2
        <3>3. UNCHANGED <<domains, req, parent>>
              /\ \A d \in Domains : cache'[d] # None => Outdates(d, cache'[d])
            BY <1>1, <1>3 DEF RecordsArePast
        <3>4. QED
            BY <1>1, <2>5, <3>2, <3>3, RecordsStay
    <2>12. CommitsExclude'
        BY <1>1, <1>3, <2>5, <2>6 DEF CommitsExclude, HoldsTree
    <2>13. SnapshotsArePast'
        BY <1>1, <1>3, <2>5, <2>6 DEF SnapshotsArePast, InTree, HoldsTree, RowsToShift,
                                      SeesTree, TreeOf, Stored
    <2>14. QED
        BY <1>1, <2>7, <2>10, <2>11, <2>12, <2>13, SameTables
<1>4. QED
    BY <1>2, <1>3 DEF Fetch

LEMMA CacheWriteInv ==
    ASSUME TreeInv, NEW c \in Callers, CacheWrite(c)
    PROVE  TreeInv'
<1> USE DEF TreeInv
<1> DEFINE top == Head(fetched[c])
<1>1. /\ pc[c] = "cache_write" /\ UNCHANGED domains /\ fetched[c] # <<>>
      /\ parent[c] = None /\ Wanted(req[c]) \in Domains
      /\ fetched[c] \in Seq(Frames)
      /\ fetched[c][Len(fetched[c])].domain = Wanted(req[c])
    BY DEF CacheWrite, StepsFollow, TreeTypeOK
<1>2. /\ Len(fetched[c]) \in Nat \ {0} /\ top = fetched[c][1] /\ top \in Frames
      /\ Tail(fetched[c]) \in Seq(Frames)
      /\ Len(Tail(fetched[c])) = Len(fetched[c]) - 1
      /\ \A i \in 1..Len(Tail(fetched[c])) : Tail(fetched[c])[i] = fetched[c][i + 1]
    BY <1>1, EmptySeq, HeadTailProperties
<1>3. top.domain \in Domains /\ top.row \in Rows /\ Outdates(top.domain, top.row)
    BY <1>2 DEF Frames, RecordsArePast
<1>4. cache' \in [Domains -> Rows \union {None}]
      /\ \A d \in Domains : cache'[d] # None => Outdates(d, cache'[d])
    <2>1. cache' = cache \/ cache' = [cache EXCEPT ![top.domain] = top.row]
        BY DEF CacheWrite
    <2>2. QED
        BY <1>3, <2>1 DEF TreeTypeOK, RecordsArePast
<1>5. CASE Len(fetched[c]) = 1 /\ Deliver(c, top.row)
    <2>1. top.domain = Wanted(req[c])
        BY <1>1, <1>2, <1>5
    <2>2. QED
        BY <1>1, <1>3, <1>4, <1>5, <2>1, DeliverInv
<1>6. CASE /\ Len(fetched[c]) > 1
           /\ fetched' = [fetched EXCEPT ![c] = Tail(fetched[c])]
           /\ UNCHANGED <<pc, req, parent, snapshot, calls>>
    <2>1. fetched'[c] = Tail(fetched[c]) /\ \A d \in Callers \ {c} : fetched'[d] = fetched[d]
        BY <1>6 DEF TreeTypeOK
    <2>2. TreeTypeOK'
        BY <1>1, <1>2, <1>4, <1>6 DEF TreeTypeOK
    <2>3. /\ fetched'[c] # <<>>
          /\ fetched'[c][Len(fetched'[c])] = fetched[c][Len(fetched[c])]
        BY <1>1, <1>6, <2>1, TailKeepsRest
    <2>4. StepsFollow'
        <3> SUFFICES ASSUME NEW d \in Callers
                     PROVE  StepsFollow!(d)'
            BY DEF StepsFollow
        <3>1. CASE d = c
            BY <1>1, <1>6, <2>3, <3>1
        <3>2. CASE d # c
            BY <1>1, <1>6, <2>1, <3>2 DEF StepsFollow, Target, Taken
        <3>3. QED
            BY <3>1, <3>2
    <2>5. RecordsArePast'
        <3>1. \A i \in 1..Len(fetched'[c]) :
                Outdates(fetched'[c][i].domain, fetched'[c][i].row)
            <4> TAKE i \in 1..Len(fetched'[c])
            <4>1. \A j \in 1..Len(fetched[c]) :
                    Outdates(fetched[c][j].domain, fetched[c][j].row)
                BY DEF RecordsArePast
            <4> HIDE DEF TreeInv, top
            <4>2. i \in 1..Len(Tail(fetched[c])) /\ fetched'[c][i] = Tail(fetched[c])[i]
                BY <2>1
            <4>3. fetched'[c][i] = fetched[c][i + 1] /\ i + 1 \in 1..Len(fetched[c])
                BY <1>2, <4>2
            <4>4. QED
                BY <4>1, <4>3
        <3>2. QED
            BY <1>1, <1>4, <1>6, <2>1, <3>1, RecordsStay
    <2>6. CommitsExclude' /\ SnapshotsArePast'
        BY <1>1, <1>6 DEF CommitsExclude, SnapshotsArePast, InTree, HoldsTree, RowsToShift,
                          SeesTree, TreeOf, Stored
    <2>7. QED
        BY <1>1, <2>2, <2>4, <2>5, <2>6, SameTables
<1>7. QED
    BY <1>5, <1>6 DEF CacheWrite

LEMMA BeginInv ==
    ASSUME TreeInv, NEW c \in Callers, Begin(c)
    PROVE  TreeInv'
<1> USE DEF TreeInv
<1> DEFINE root == parent[c].root
<1>1. /\ pc[c] = "begin"
      /\ snapshot' = [snapshot EXCEPT ![c] = domains]
      /\ pc' = [pc EXCEPT ![c] = "update_rights"]
      /\ UNCHANGED <<domains, cache, req, fetched, parent, calls>>
    BY DEF Begin, Goto
<1>2. /\ parent[c] # None /\ parent[c] \in Rows /\ req[c].parent \in Stored
      /\ parent[c].root = domains[req[c].parent].root
      /\ parent[c].right <= domains[req[c].parent].right
    BY <1>1 DEF StepsFollow, RecordsArePast, Outdates, TreeTypeOK
<1>3. /\ root \in Stored /\ domains[root].root = root
      /\ domains[root].right >= parent[c].right
    <2>1. domains[req[c].parent].right <= domains[root].right /\ root \in Stored
        BY <1>2 DEF IntervalsNest
    <2>2. parent[c].right \in Nat
        BY <1>2 DEF Rows
    <2>3. QED
        BY <1>2, <2>1, <2>2, StoredRow DEF RootsAreRoots
<1>4. TreeTypeOK'
    BY <1>1 DEF TreeTypeOK, Steps
<1>5. StepsFollow'
    BY <1>1 DEF StepsFollow, TreeTypeOK, Target, Taken
<1>6. RecordsArePast'
    BY <1>1 DEF RecordsArePast, Outdates, Stored
<1>7. CommitsExclude'
    BY <1>1 DEF CommitsExclude, HoldsTree, TreeTypeOK
<1>8. SnapshotsArePast'
    <2> SUFFICES ASSUME NEW d \in Callers, InTree(d)'
                 PROVE  SnapshotsArePast!(d)!2'
        BY DEF SnapshotsArePast
    <2>1. CASE d = c
        <3>1. snapshot'[c] = domains /\ parent'[c] = parent[c] /\ pc'[c] = "update_rights"
            BY <1>1 DEF TreeTypeOK
        <3>2. root \in RowsToShift(c)'
            BY <1>1, <1>2, <1>3, <3>1, StoredRow DEF RowsToShift, Stored
        <3>3. SeesTree(c, root)'
            BY <1>1, <3>1 DEF SeesTree
        <3>4. QED
            BY <1>1, <2>1, <3>1, <3>2, <3>3 DEF TreeTypeOK, Stored
    <2>2. CASE d # c
        <3>1. snapshot'[d] = snapshot[d] /\ parent'[d] = parent[d] /\ pc'[d] = pc[d]
            BY <1>1, <2>2 DEF TreeTypeOK
        <3>2. QED
            BY <1>1, <3>1 DEF SnapshotsArePast, InTree, HoldsTree, RowsToShift, SeesTree,
                              TreeOf, Stored
    <2>3. QED
        BY <2>1, <2>2
<1>9. QED
    BY <1>1, <1>4, <1>5, <1>6, <1>7, <1>8, SameTables

LEMMA UpdateRightsInv ==
    ASSUME TreeInv, NEW c \in Callers, UpdateRights(c)
    PROVE  TreeInv'
<1> USE DEF TreeInv
<1> DEFINE root == parent[c].root
<1>1. /\ pc[c] = "update_rights" /\ UNCHANGED <<domains, cache>> /\ parent[c] # None
      /\ \A d \in Callers \ {c} : ~ HoldsTree(d, root)
    BY DEF UpdateRights, StepsFollow
<1>2. CASE Replaced(c) /\ Return(c)
    BY <1>1, <1>2, ReturnInv DEF TreeTypeOK, RecordsArePast
<1>3. CASE /\ ~ Replaced(c)
           /\ Goto(c, "update_lefts")
           /\ UNCHANGED <<req, fetched, parent, snapshot, calls>>
    <2>1. pc'[c] = "update_lefts" /\ \A d \in Callers \ {c} : pc'[d] = pc[d]
        BY <1>3 DEF Goto, TreeTypeOK
    <2>2. TreeTypeOK' /\ RecordsArePast' /\ RootsAreRoots' /\ ParentIsStored' /\ IntervalsNest'
        BY <1>1, <1>3, GotoInv DEF Steps
    <2>3. StepsFollow'
        BY <1>1, <1>3, <2>1 DEF StepsFollow, Target, Taken
    <2>4. CommitsExclude'
        BY <1>1, <1>3, <2>1 DEF CommitsExclude, HoldsTree
    <2>5. InTree(c)
        BY <1>1 DEF InTree
    <2>6. SeesTree(c, root)
        <3>1. root \in RowsToShift(c) /\ root \in Stored
            BY <1>1, <2>5 DEF SnapshotsArePast, RowsToShift
        <3>2. snapshot[c][root] = domains[root]
            BY <1>3, <3>1 DEF Replaced
        <3>3. ~ (snapshot[c][root].right < domains[root].right)
            BY <3>1, <3>2, StoredRow
        <3>4. QED
            BY <2>5, <3>3 DEF SnapshotsArePast
    <2>7. SnapshotsArePast'
        <3> SUFFICES ASSUME NEW d \in Callers, InTree(d)'
                     PROVE  SnapshotsArePast!(d)!2'
            BY DEF SnapshotsArePast
        <3>1. CASE d = c
            BY <1>1, <1>3, <2>5, <2>6, <3>1
               DEF SnapshotsArePast, RowsToShift, SeesTree, TreeOf, Stored
        <3>2. CASE d # c
            BY <1>1, <1>3, <2>1, <3>2
               DEF SnapshotsArePast, InTree, HoldsTree, RowsToShift, SeesTree, TreeOf, Stored
        <3>3. QED
            BY <3>1, <3>2
    <2>8. QED
        BY <2>2, <2>3, <2>4, <2>7
<1>4. QED
    BY <1>2, <1>3 DEF UpdateRights

LEMMA UpdateLeftsInv ==
    ASSUME TreeInv, NEW c \in Callers, UpdateLefts(c)
    PROVE  TreeInv'
<1> USE DEF TreeInv
<1>1. /\ pc[c] = "update_lefts"
      /\ pc' = [pc EXCEPT ![c] = "insert"]
      /\ UNCHANGED <<domains, cache, req, fetched, parent, snapshot, calls>>
    BY DEF UpdateLefts, Goto
<1>2. TreeTypeOK' /\ RecordsArePast' /\ RootsAreRoots' /\ ParentIsStored' /\ IntervalsNest'
    BY <1>1, GotoInv DEF Steps, Goto
<1>3. StepsFollow'
    BY <1>1 DEF StepsFollow, Target, Taken, TreeTypeOK
<1>4. CommitsExclude' /\ SnapshotsArePast'
    BY <1>1 DEF CommitsExclude, SnapshotsArePast, InTree, HoldsTree, RowsToShift, SeesTree,
                TreeOf, Stored, TreeTypeOK
<1>5. QED
    BY <1>2, <1>3, <1>4

LEMMA InsertInv ==
    ASSUME TreeInv, NEW c \in Callers, Insert(c)
    PROVE  TreeInv'
<1> USE DEF TreeInv
<1>1. /\ pc[c] = "insert" /\ UNCHANGED <<domains, cache>>
      /\ \A d \in Callers \ {c} : ~ HoldsKey(d, req[c])
    BY DEF Insert
<1>2. CASE Return(c)
    BY <1>1, <1>2, ReturnInv DEF TreeTypeOK, RecordsArePast
<1>3. CASE /\ ~ Taken(req[c])
           /\ Goto(c, "commit")
           /\ UNCHANGED <<req, fetched, parent, snapshot, calls>>
    <2>1. pc'[c] = "commit" /\ \A d \in Callers \ {c} : pc'[d] = pc[d]
        BY <1>3 DEF Goto, TreeTypeOK
    <2>2. TreeTypeOK' /\ RecordsArePast' /\ RootsAreRoots' /\ ParentIsStored' /\ IntervalsNest'
        BY <1>1, <1>3, GotoInv DEF Steps
    <2>3. StepsFollow'
        BY <1>1, <1>3, <2>1 DEF StepsFollow, Target, Taken
    <2>4. CommitsExclude'
        BY <1>1, <1>3, <2>1 DEF CommitsExclude, HoldsTree, HoldsKey
    <2>5. SnapshotsArePast'
        BY <1>1, <1>3, <2>1 DEF SnapshotsArePast, InTree, HoldsTree, RowsToShift, SeesTree,
                                TreeOf, Stored
    <2>6. QED
        BY <2>2, <2>3, <2>4, <2>5
<1>4. QED
    BY <1>2, <1>3 DEF Insert

LEMMA EvictInv ==
    ASSUME TreeInv, NEW c \in Callers, Evict(c)
    PROVE  TreeInv'
<1>1. pc[c] = "evict" /\ Return(c) /\ UNCHANGED domains
    BY DEF Evict
<1>2. cache' \in [Domains -> Rows \union {None}]
    BY DEF Evict, TreeInv, TreeTypeOK
<1>3. \A d \in Domains : cache'[d] # None => Outdates(d, cache'[d])
    BY DEF Evict, TreeInv, RecordsArePast
<1>4. QED
    BY <1>1, <1>2, <1>3, ReturnInv

-----------------------------------------------------------------------------
(* COMMIT. *)

\* What COMMIT does to the table: a new row, and room for it in its parent's tree.
LEMMA CommitEffect ==
    ASSUME TreeInv, NEW c \in Callers, Commit(c)
    PROVE  LET u == req[c].uuid
               room(d) == parent[c] # None /\ domains[d].root = parent[c].root
               from == parent[c].right IN
           /\ pc[c] = "commit" /\ req[c] \in WriteRequests
           /\ u \in Domains /\ u \notin Stored
           /\ domains' \in [Domains -> Rows \union {None}]
           /\ Stored' = Stored \union {u}
           /\ NewRow(c) \in Rows /\ domains'[u] = NewRow(c)
           /\ \A d \in Stored :
                /\ ~ room(d) => domains'[d] = domains[d]
                /\ room(d) => /\ domains'[d] = Shifted(domains[d], from)
                              /\ domains'[d].left = Shift(domains[d].left, from)
                              /\ domains'[d].right = Shift(domains[d].right, from)
                /\ domains'[d].name = domains[d].name
                /\ domains'[d].root = domains[d].root
                /\ domains'[d].parent = domains[d].parent
<1> USE DEF TreeInv
<1> DEFINE u == req[c].uuid
           room(d) == parent[c] # None /\ domains[d].root = parent[c].root
           from == parent[c].right
<1>1. /\ pc[c] = "commit" /\ req[c] \in WriteRequests /\ ~ Taken(req[c])
      /\ parent[c] = None <=> req[c].parent = None
      /\ domains' = [RowsAfter(c) EXCEPT ![u] = NewRow(c)]
    BY DEF Commit, StepsFollow
<1>2. u \in Domains /\ u \notin Stored /\ domains[u] = None
    BY <1>1 DEF WriteRequests, Taken, Stored
<1>3. parent[c] # None => /\ parent[c] \in Rows /\ parent[c].root \in Domains
                          /\ InTree(c) /\ HoldsTree(c, parent[c].root) /\ from \in Nat
    BY <1>1 DEF TreeTypeOK, Rows, InTree, HoldsTree
<1>4. NewRow(c) \in Rows
    BY <1>1, <1>3 DEF NewRow, Rows, WriteRequests
<1>5. domains'[u] = NewRow(c) /\ \A d \in Domains \ {u} : domains'[d] = RowsAfter(c)[d]
    BY <1>1, <1>2 DEF RowsAfter
<1>6. \A d \in Stored : ~ room(d) => domains'[d] = domains[d]
    <2> TAKE d \in Stored
    <2> HAVE ~ room(d)
    <2>1. d \in Domains /\ d # u /\ domains[d] # None
        BY <1>2 DEF Stored
    <2>2. CASE parent[c] = None
        BY <1>5, <2>1, <2>2 DEF RowsAfter, RowsToShift
    <2>3. CASE parent[c] # None
        <3>1. snapshot[c][d] # None /\ snapshot[c][d].root = parent[c].root
              => room(d)
            BY <1>3, <2>1, <2>3 DEF SnapshotsArePast
        <3>2. d \notin RowsToShift(c)
            BY <2>3, <3>1 DEF RowsToShift
        <3>3. QED
            BY <1>5, <2>1, <3>2 DEF RowsAfter
    <2>4. QED
        BY <2>2, <2>3
<1>7. \A d \in Stored : room(d) => domains'[d] = Shifted(domains[d], from)
    <2> TAKE d \in Stored
    <2> HAVE room(d)
    <2>1. snapshot[c][d] = domains[d] /\ d \in Domains /\ d # u
        BY <1>2, <1>3 DEF SnapshotsArePast, SeesTree, TreeOf, Stored
    <2>2. CASE domains[d].right >= from
        BY <1>5, <2>1, <2>2 DEF RowsAfter, RowsToShift, Stored
    <2>3. CASE domains[d].right < from
        <3>1. domains'[d] = domains[d]
            BY <1>3, <1>5, <2>1, <2>3, StoredRow DEF RowsAfter, RowsToShift
        <3>2. /\ Shift(domains[d].right, from) = domains[d].right
              /\ Shift(domains[d].left, from) = domains[d].left
            BY <1>3, <2>3, StoredRow DEF Shift, IntervalsNest
        <3>3. Shifted(domains[d], from) = domains[d]
            BY <3>2, StoredRow DEF Shifted, Rows
        <3>4. QED
            BY <3>1, <3>3
    <2>4. QED
        BY <1>3, <2>2, <2>3, StoredRow
<1>8. \A d \in Stored : domains'[d] \in Rows
    BY <1>3, <1>6, <1>7, StoredRow, ShiftedRow
<1>9. \A d \in Domains \ (Stored \union {u}) : domains'[d] = None
    BY <1>3, <1>5 DEF RowsAfter, RowsToShift, SnapshotsArePast, Stored
<1>10. domains' \in [Domains -> Rows \union {None}]
    <2>1. \A d \in Domains : domains'[d] \in Rows \union {None}
        BY <1>4, <1>5, <1>8, <1>9
    <2>2. DOMAIN domains' = Domains
        BY <1>1 DEF RowsAfter
    <2>3. QED
        BY <1>1, <2>1, <2>2 DEF RowsAfter
<1>11. Stored' = Stored \union {u}
    BY <1>2, <1>4, <1>5, <1>8, <1>9, NoneIsNothing DEF Stored
<1>12. \A d \in Stored : room(d) =>
        /\ domains'[d].left = Shift(domains[d].left, from)
        /\ domains'[d].right = Shift(domains[d].right, from)
    <2> TAKE d \in Stored
    <2> HAVE room(d)
    <2>1. domains'[d] = Shifted(domains[d], from) /\ from \in Nat /\ domains[d] \in Rows
        BY <1>3, <1>7, StoredRow
    <2>2. QED
        BY <2>1, ShiftedRow
<1>13. \A d \in Stored : /\ domains'[d].name = domains[d].name
                         /\ domains'[d].root = domains[d].root
                         /\ domains'[d].parent = domains[d].parent
    BY <1>3, <1>6, <1>7, StoredRow, ShiftedRow
<1>14. QED
    BY <1>1, <1>2, <1>4, <1>5, <1>6, <1>7, <1>10, <1>11, <1>12, <1>13

\* A child's parent record and its tree, when COMMIT comes.
LEMMA CommitPlace ==
    ASSUME TreeInv, NEW c \in Callers, Commit(c), parent[c] # None
    PROVE  LET root == parent[c].root
               from == parent[c].right IN
           /\ req[c].parent \in Stored /\ domains[req[c].parent].root = root
           /\ from \in Nat /\ 1 < from /\ from <= domains[req[c].parent].right
           /\ root \in Stored /\ domains[root].root = root
           /\ domains[root].left = 1 /\ from <= domains[root].right
           /\ NewRow(c).root = root /\ NewRow(c).parent = req[c].parent
           /\ NewRow(c).left = from /\ NewRow(c).right = from + 1
<1> USE DEF TreeInv
<1> DEFINE root == parent[c].root
           from == parent[c].right
           p == req[c].parent
<1>1. p \in Stored /\ domains[p].root = root /\ 1 < from /\ from <= domains[p].right
    BY DEF RecordsArePast, Outdates
<1>2. from \in Nat /\ p # None
    BY DEF TreeTypeOK, Rows, RecordsArePast
<1>3. root \in Stored /\ domains[p].right <= domains[root].right
    BY <1>1 DEF IntervalsNest
<1>4. domains[root].root = root
    BY <1>1 DEF RootsAreRoots
<1>5. domains[root].left = 1
    BY <1>3, <1>4 DEF RootsAreRoots
<1>6. from <= domains[root].right
    BY <1>1, <1>2, <1>3, StoredRow
<1>7. QED
    BY <1>1, <1>2, <1>3, <1>4, <1>5, <1>6 DEF NewRow

\* Sides in order move up in order, around the two numbers of the new row.
LEMMA CommitSides ==
    ASSUME TreeInv, NEW c \in Callers, Commit(c), NEW d \in Stored
    PROVE  /\ domains'[d].left \in Nat /\ domains'[d].right \in Nat
           /\ domains[d].left <= domains'[d].left
           /\ domains[d].right <= domains'[d].right
           /\ domains'[d].left < domains'[d].right
           /\ domains'[d].right - domains'[d].left >= domains[d].right - domains[d].left
<1> USE DEF TreeInv
<1>1. /\ domains[d].left \in Nat /\ domains[d].right \in Nat
      /\ domains[d].left < domains[d].right
    BY StoredRow DEF IntervalsNest
<1>2. CASE parent[c] # None /\ domains[d].root = parent[c].root
    <2>1. parent[c].right \in Nat
        BY <1>2, CommitPlace
    <2>2. /\ domains'[d].left = Shift(domains[d].left, parent[c].right)
          /\ domains'[d].right = Shift(domains[d].right, parent[c].right)
        BY <1>2, CommitEffect
    <2> DEFINE l == domains[d].left
               r == domains[d].right
               from == parent[c].right
    <2>3. /\ Shift(l, from) \in Nat /\ Shift(r, from) \in Nat
          /\ l <= Shift(l, from) /\ r <= Shift(r, from)
        BY <1>1, <2>1, ShiftOrder
    <2>4. /\ l < r <=> Shift(l, from) < Shift(r, from)
          /\ l <= r => Shift(r, from) - Shift(l, from) >= r - l
        BY <1>1, <2>1 DEF Shift
    <2>5. QED
        BY <1>1, <2>2, <2>3, <2>4
<1>3. CASE ~ (parent[c] # None /\ domains[d].root = parent[c].root)
    <2>1. domains'[d] = domains[d]
        BY <1>3, CommitEffect
    <2>2. QED
        BY <1>1, <2>1
<1>4. QED
    BY <1>2, <1>3

\* What the others rely on.
LEMMA CommitKeepsOthers ==
    ASSUME TreeInv, NEW c \in Callers, Commit(c)
    PROVE  /\ pc'[c] \in {"idle", "evict"}
           /\ \A d \in Callers \ {c} : /\ pc'[d] = pc[d] /\ req'[d] = req[d]
                                       /\ fetched'[d] = fetched[d]
                                       /\ parent'[d] = parent[d]
                                       /\ snapshot'[d] = snapshot[d]
           /\ TreeTypeOK' /\ StepsFollow' /\ RecordsArePast' /\ CommitsExclude'
<1> USE DEF TreeInv
<1>1. pc[c] = "commit" /\ cache' = cache /\ calls' = calls
    BY DEF Commit, Return
<1>2. \/ Return(c)
      \/ /\ parent[c] # None
         /\ pc' = [pc EXCEPT ![c] = "evict"]
         /\ snapshot' = [snapshot EXCEPT ![c] = None]
         /\ UNCHANGED <<req, fetched, parent>>
    BY DEF Commit, Goto
<1>3. /\ pc'[c] \in {"idle", "evict"}
      /\ pc'[c] = "idle" <=> req'[c] = None
      /\ pc'[c] = "idle" => parent'[c] = None /\ fetched'[c] = <<>>
      /\ pc'[c] = "evict" => parent'[c] # None
      /\ parent'[c] # None => parent'[c] = parent[c] /\ req'[c] = req[c]
      /\ fetched'[c] = <<>> \/ fetched'[c] = fetched[c]
    BY <1>1, <1>2 DEF Return, TreeTypeOK
<1>4. \A d \in Callers \ {c} : /\ pc'[d] = pc[d] /\ req'[d] = req[d]
                               /\ fetched'[d] = fetched[d]
                               /\ parent'[d] = parent[d]
                               /\ snapshot'[d] = snapshot[d]
    BY <1>2 DEF Return, TreeTypeOK
<1>5. TreeTypeOK'
    <2>1. domains' \in [Domains -> Rows \union {None}]
        BY CommitEffect
    <2>2. /\ pc' \in [Callers -> Steps]
          /\ req' \in [Callers -> Requests \union {None}]
          /\ fetched' \in [Callers -> Seq(Frames)]
          /\ parent' \in [Callers -> Rows \union {None}]
          /\ snapshot' \in [Callers -> [Domains -> Rows \union {None}] \union {None}]
        <3>1. CASE Return(c)
            BY <3>1, EmptySeq DEF TreeTypeOK, Steps, Return
        <3>2. CASE ~ Return(c)
            BY <1>2, <3>2 DEF TreeTypeOK, Steps
        <3>3. QED
            BY <3>1, <3>2
    <2>3. \A d \in Callers : pc'[d] = "idle" <=> req'[d] = None
        BY <1>3, <1>4 DEF TreeTypeOK
    <2>4. QED
        BY <1>1, <2>1, <2>2, <2>3 DEF TreeTypeOK
<1>6. ASSUME NEW d, NEW row, Outdates(d, row), row.right \in Nat
      PROVE  /\ d \in Stored' /\ row.root = domains'[d].root
             /\ row.parent = domains'[d].parent
             /\ 1 < row.right /\ row.right <= domains'[d].right
    <2>1. d \in Stored /\ d \in Stored'
        BY <1>6, CommitEffect DEF Outdates
    <2>2. domains'[d].root = domains[d].root /\ domains'[d].parent = domains[d].parent
        BY <2>1, CommitEffect
    <2>3. domains[d].right <= domains'[d].right /\ domains[d].right \in Nat
          /\ domains'[d].right \in Nat
        BY <2>1, CommitSides, StoredRow
    <2>4. QED
        BY <1>6, <2>1, <2>2, <2>3 DEF Outdates
<1>7. RecordsArePast'
    <2>1. ASSUME NEW d \in Domains, cache'[d] # None
          PROVE  Outdates(d, cache[d])'
        <3>1. cache'[d] = cache[d] /\ Outdates(d, cache[d]) /\ cache[d].right \in Nat
            BY <1>1, <2>1 DEF RecordsArePast, TreeTypeOK, Rows
        <3>2. QED
            BY <1>6, <3>1 DEF Outdates
    <2>2. ASSUME NEW d \in Callers, NEW i \in 1..Len(fetched'[d])
          PROVE  Outdates(fetched[d][i].domain, fetched[d][i].row)'
        <3>1. fetched'[d] = fetched[d] /\ fetched[d] \in Seq(Frames)
            BY <1>3, <1>4, <2>2, EmptySeq DEF TreeTypeOK
        <3>2. fetched[d][i] \in Frames
            BY <2>2, <3>1
        <3>3. fetched[d][i].row.right \in Nat
            BY <3>2 DEF Frames, Rows
        <3>4. Outdates(fetched[d][i].domain, fetched[d][i].row)
            BY <2>2, <3>1 DEF RecordsArePast
        <3>5. QED
            BY <1>6, <3>1, <3>3, <3>4 DEF Outdates
    <2>3. ASSUME NEW d \in Callers, parent'[d] # None
          PROVE  /\ req'[d] \in WriteRequests /\ req'[d].parent # None
                 /\ Outdates(req[d].parent, parent[d])'
        <3>1. parent'[d] = parent[d] /\ req'[d] = req[d] /\ parent[d].right \in Nat
            BY <1>3, <1>4, <2>3 DEF TreeTypeOK, Rows
        <3>2. /\ req[d] \in WriteRequests /\ req[d].parent # None
              /\ Outdates(req[d].parent, parent[d])
            BY <2>3, <3>1 DEF RecordsArePast
        <3>3. QED
            BY <1>6, <3>1, <3>2 DEF Outdates
    <2>4. QED
        BY <2>1, <2>2, <2>3 DEF RecordsArePast
<1>8. CommitsExclude'
    BY <1>3, <1>4 DEF CommitsExclude, HoldsTree
<1>9. StepsFollow'
    <2> SUFFICES ASSUME NEW d \in Callers
                 PROVE  StepsFollow!(d)'
        BY DEF StepsFollow
    <2>1. CASE d = c
        BY <1>3, <2>1
    <2>2. CASE d # c
        <3>1. pc[d] = "commit" => ~ Taken(req[d])'
            <4> HAVE pc[d] = "commit"
            <4>1. ~ Taken(req[d]) /\ req[d] \in WriteRequests
                  /\ req[c].uuid # req[d].uuid /\ req[c].name # req[d].name
                BY <1>1, <2>2 DEF StepsFollow, CommitsExclude
            <4>2. req[d].uuid \notin Stored' /\ req[d].uuid \in Domains
                BY <4>1, CommitEffect DEF Taken, Stored, WriteRequests
            <4>3. domains'[req[c].uuid].name = req[c].name
                <5>1. domains'[req[c].uuid] = NewRow(c)
                    BY CommitEffect
                <5>2. NewRow(c).name = req[c].name
                    BY DEF NewRow
                <5>3. QED
                    BY <5>1, <5>2
            <4>4. \A e \in Stored' : domains'[e].name # req[d].name
                BY <4>1, <4>3, CommitEffect DEF Taken, Stored
            <4>5. req'[d] = req[d]
                BY <1>4, <2>2
            <4>6. QED
                BY <4>2, <4>4, <4>5 DEF Taken, Stored
        <3>2. QED
            BY <1>4, <2>2, <3>1 DEF StepsFollow, Target
    <2>3. QED
        BY <2>1, <2>2
<1>10. QED
    BY <1>3, <1>4, <1>5, <1>7, <1>8, <1>9

LEMMA CommitKeepsSnapshots ==
    ASSUME TreeInv, NEW c \in Callers, Commit(c)
    PROVE  SnapshotsArePast'
<1> USE DEF TreeInv
<1> SUFFICES ASSUME NEW d \in Callers, InTree(d)'
             PROVE  SnapshotsArePast!(d)!2'
    BY DEF SnapshotsArePast
<1>1. d # c /\ InTree(d) /\ pc[c] = "commit"
      /\ parent'[d] = parent[d] /\ snapshot'[d] = snapshot[d] /\ pc'[d] = pc[d]
    BY CommitKeepsOthers, CommitEffect DEF InTree
<1> DEFINE root == parent[d].root
<1>2. /\ snapshot[d] \in [Domains -> Rows \union {None}]
      /\ \A e \in Domains : snapshot[d][e] # None =>
            e \in Stored /\ domains[e].root = snapshot[d][e].root
      /\ root \in RowsToShift(d)
      /\ SeesTree(d, root) \/ snapshot[d][root].right < domains[root].right
      /\ HoldsTree(d, root) => SeesTree(d, root)
    BY <1>1 DEF SnapshotsArePast
<1>3. root \in RowsToShift(d)'
    BY <1>1, <1>2 DEF RowsToShift
<1>4. /\ root \in Domains /\ root \in Stored /\ domains[root].root = root
      /\ snapshot[d][root].right \in Nat
    BY <1>2 DEF RowsToShift, Rows
<1>5. \A e \in Domains : snapshot[d][e] # None =>
            e \in Stored' /\ domains'[e].root = snapshot[d][e].root
    BY <1>2, CommitEffect
<1>6. CASE parent[c] # None /\ parent[c].root = root
    <2>1. ~ HoldsTree(d, root)
        BY <1>1, <1>4, <1>6 DEF CommitsExclude, HoldsTree
    <2>2. snapshot[d][root].right <= domains[root].right
        BY <1>2, <1>4, StoredRow DEF SeesTree, TreeOf, Stored
    <2>3. /\ domains'[root].right = Shift(domains[root].right, parent[c].right)
          /\ parent[c].right <= domains[root].right
        BY <1>4, <1>6, CommitEffect, CommitPlace
    <2>4. domains'[root].right = domains[root].right + 2
        BY <2>3 DEF Shift
    <2>5. snapshot[d][root].right < domains'[root].right
        BY <1>4, <2>2, <2>4, StoredRow
    <2>6. QED
        BY <1>1, <1>2, <1>3, <1>5, <2>1, <2>5 DEF HoldsTree
<1>7. CASE ~ (parent[c] # None /\ parent[c].root = root)
    <2>1. NewRow(c).root # root
        BY <1>4, <1>7, CommitEffect, CommitPlace DEF NewRow
    <2>2. \A e \in Stored : domains[e].root = root => domains'[e] = domains[e]
        BY <1>7, CommitEffect
    <2>3. TreeOf(root)' = TreeOf(root)
        <3>1. /\ Stored' = Stored \union {req[c].uuid}
              /\ domains'[req[c].uuid].root # root
              /\ \A e \in Stored : domains'[e].root = domains[e].root
            BY <2>1, CommitEffect
        <3>2. TreeOf(root) = {e \in Stored : domains[e].root = root}
              /\ TreeOf(root)' = {e \in Stored' : domains'[e].root = root}
            BY <1>1 DEF TreeOf, Stored
        <3>3. QED
            BY <3>1, <3>2
    <2>4. SeesTree(d, root) => SeesTree(d, root)'
        BY <1>1, <2>2, <2>3 DEF SeesTree, TreeOf, Stored
    <2>5. domains'[root] = domains[root]
        BY <1>4, <2>2
    <2>6. QED
        BY <1>1, <1>2, <1>3, <1>5, <2>4, <2>5 DEF HoldsTree
<1>8. QED
    BY <1>6, <1>7

LEMMA CommitKeepsTrees ==
    ASSUME TreeInv, NEW c \in Callers, Commit(c)
    PROVE  RootsAreRoots' /\ ParentIsStored'
<1> USE DEF TreeInv
<1> DEFINE u == req[c].uuid
<1>1. /\ Stored' = Stored \union {u} /\ u \notin Stored /\ domains'[u] = NewRow(c)
      /\ \A d \in Stored : /\ domains'[d].root = domains[d].root
                           /\ domains'[d].parent = domains[d].parent
    BY CommitEffect
<1>2. parent[c] = None => /\ NewRow(c).root = u /\ NewRow(c).parent = None
                          /\ NewRow(c).left = 1
    BY DEF NewRow
<1>3. parent[c] # None => /\ NewRow(c).root \in Stored /\ NewRow(c).parent \in Stored
                          /\ NewRow(c).parent # None
                          /\ domains[NewRow(c).root].root = NewRow(c).root
                          /\ domains[NewRow(c).parent].root = NewRow(c).root
    BY CommitPlace, NoneIsNothing DEF Stored
<1>4. \A d \in Stored : domains[d].root \in Stored
    BY DEF IntervalsNest
<1>5. ASSUME NEW d \in Stored, domains[d].parent = None
      PROVE  domains'[d].left = 1
    <2>1. domains[d].left = 1 /\ domains[d].root = d
        BY <1>5 DEF RootsAreRoots
    <2>2. CASE parent[c] # None /\ domains[d].root = parent[c].root
        <3>1. domains'[d].left = Shift(domains[d].left, parent[c].right)
              /\ 1 < parent[c].right /\ parent[c].right \in Nat
            BY <2>2, CommitEffect, CommitPlace
        <3>2. QED
            BY <2>1, <3>1 DEF Shift
    <2>3. CASE ~ (parent[c] # None /\ domains[d].root = parent[c].root)
        BY <2>1, <2>3, CommitEffect
    <2>4. QED
        BY <2>2, <2>3
<1>6. RootsAreRoots'
    <2> SUFFICES ASSUME NEW d \in Stored'
                 PROVE  RootsAreRoots!(d)'
        BY DEF RootsAreRoots
    <2>1. CASE d = u
        BY <1>1, <1>2, <1>3, <2>1
    <2>2. CASE d \in Stored
        BY <1>1, <1>4, <1>5, <2>2 DEF RootsAreRoots
    <2>3. QED
        BY <1>1, <2>1, <2>2
<1>7. ParentIsStored'
    <2> SUFFICES ASSUME NEW d \in Stored', domains'[d].parent # None
                 PROVE  domains'[d].parent \in Stored'
                        /\ domains'[d].root = domains'[domains'[d].parent].root
        BY DEF ParentIsStored, SameTree
    <2>1. CASE d = u
        BY <1>1, <1>2, <1>3, <2>1
    <2>2. CASE d \in Stored
        BY <1>1, <2>2 DEF ParentIsStored, SameTree
    <2>3. QED
        BY <1>1, <2>1, <2>2
<1>8. QED
    BY <1>6, <1>7

LEMMA CommitKeepsIntervals ==
    ASSUME TreeInv, NEW c \in Callers, Commit(c)
    PROVE  IntervalsNest'
<1> USE DEF TreeInv
<1> DEFINE u == req[c].uuid
           from == parent[c].right
           apart(a, b, x, y) == \/ b < x \/ y < a
                                \/ x < a /\ b < y
                                \/ a < x /\ y < b
<1>1. /\ Stored' = Stored \union {u} /\ u \notin Stored /\ domains'[u] = NewRow(c)
      /\ \A d \in Stored : domains'[d].root = domains[d].root
    BY CommitEffect
<1>2. \A d \in Stored : /\ domains[d].left \in Nat /\ domains[d].right \in Nat
                        /\ domains[d].left < domains[d].right
                        /\ domains[d].root \in Stored
    BY StoredRow DEF IntervalsNest
<1>3. ASSUME NEW d \in Stored, NEW e \in Stored, SameTree(d, e)
      PROVE  \/ /\ domains'[d] = domains[d] /\ domains'[e] = domains[e]
             \/ /\ from \in Nat
                /\ domains'[d].left = Shift(domains[d].left, from)
                /\ domains'[d].right = Shift(domains[d].right, from)
                /\ domains'[e].left = Shift(domains[e].left, from)
                /\ domains'[e].right = Shift(domains[e].right, from)
    <2>1. CASE parent[c] # None /\ domains[d].root = parent[c].root
        <3>1. domains[e].root = parent[c].root /\ from \in Nat
            BY <1>3, <2>1, CommitPlace DEF SameTree
        <3>2. QED
            BY <2>1, <3>1, CommitEffect
    <2>2. CASE ~ (parent[c] # None /\ domains[d].root = parent[c].root)
        BY <1>3, <2>2, CommitEffect DEF SameTree
    <2>3. QED
        BY <2>1, <2>2
<1>4. ASSUME NEW d \in Stored
      PROVE  /\ domains'[d].left < domains'[d].right
             /\ domains'[d].root \in Stored'
             /\ domains'[domains'[d].root].left <= domains'[d].left
             /\ domains'[d].right <= domains'[domains'[d].root].right
    <2> DEFINE r == domains[d].root
    <2>1. /\ r \in Stored /\ SameTree(d, r)
          /\ domains[r].left <= domains[d].left /\ domains[d].right <= domains[r].right
        BY <1>2 DEF IntervalsNest, RootsAreRoots, SameTree
    <2>2. /\ domains'[r].left <= domains'[d].left
          /\ domains'[d].right <= domains'[r].right
        BY <1>2, <1>3, <2>1 DEF Shift
    <2>3. domains'[d].left < domains'[d].right
        BY CommitSides
    <2>4. QED
        BY <1>1, <2>1, <2>2, <2>3
<1>5. ASSUME NEW d \in Stored, NEW e \in Stored \ {d}, SameTree(d, e)
      PROVE  apart(domains'[d].left, domains'[d].right, domains'[e].left, domains'[e].right)
    <2>1. apart(domains[d].left, domains[d].right, domains[e].left, domains[e].right)
        BY <1>5 DEF IntervalsNest
    <2>2. QED
        BY <1>2, <1>3, <1>5, <2>1 DEF Shift
<1>6. /\ domains'[u].left \in Nat /\ domains'[u].right \in Nat
      /\ domains'[u].left < domains'[u].right
      /\ domains'[u].root \in Stored'
      /\ domains'[domains'[u].root].left <= domains'[u].left
      /\ domains'[u].right <= domains'[domains'[u].root].right
    <2>1. CASE parent[c] = None
        <3>1. NewRow(c).root = u /\ NewRow(c).left = 1 /\ NewRow(c).right = 2
            BY <2>1 DEF NewRow
        <3>2. QED
            BY <1>1, <3>1
    <2>2. CASE parent[c] # None
        <3> DEFINE r == parent[c].root
        <3>1. /\ NewRow(c).root = r /\ NewRow(c).left = from /\ NewRow(c).right = from + 1
              /\ r \in Stored /\ domains[r].root = r /\ domains[r].left = 1
              /\ from <= domains[r].right /\ from \in Nat /\ 1 < from
            BY <2>2, CommitPlace
        <3>2. /\ domains'[r].left = Shift(1, from)
              /\ domains'[r].right = Shift(domains[r].right, from)
            BY <2>2, <3>1, CommitEffect
        <3>3. QED
            BY <1>1, <1>2, <3>1, <3>2 DEF Shift
    <2>3. QED
        BY <2>1, <2>2
<1>7. ASSUME NEW d \in Stored, domains'[d].root = domains'[u].root
      PROVE  /\ apart(domains'[d].left, domains'[d].right,
                      domains'[u].left, domains'[u].right)
             /\ apart(domains'[u].left, domains'[u].right,
                      domains'[d].left, domains'[d].right)
    <2>1. parent[c] # None
        <3>1. domains'[d].root # u
            BY <1>1, <1>2
        <3>2. QED
            BY <1>1, <1>7, <3>1 DEF NewRow
    <2>2. /\ NewRow(c).root = parent[c].root /\ from \in Nat
          /\ NewRow(c).left = from /\ NewRow(c).right = from + 1
        BY <2>1, CommitPlace
    <2>3. domains[d].root = parent[c].root
        BY <1>1, <1>7, <2>2
    <2>4. /\ domains'[d].left = Shift(domains[d].left, from)
          /\ domains'[d].right = Shift(domains[d].right, from)
        BY <2>1, <2>3, CommitEffect
    <2>5. QED
        BY <1>1, <1>2, <2>2, <2>4 DEF Shift
<1>8. QED
    <2> SUFFICES ASSUME NEW d \in Stored'
                 PROVE  /\ domains'[d].left < domains'[d].right
                        /\ domains'[d].root \in Stored'
                        /\ domains'[domains'[d].root].left <= domains'[d].left
                        /\ domains'[d].right <= domains'[domains'[d].root].right
                        /\ \A e \in Stored' \ {d} :
                            domains'[d].root = domains'[e].root =>
                                apart(domains'[d].left, domains'[d].right,
                                      domains'[e].left, domains'[e].right)
        BY DEF IntervalsNest, SameTree
    <2>1. CASE d = u
        BY <1>1, <1>6, <1>7, <2>1
    <2>2. CASE d \in Stored
        BY <1>1, <1>4, <1>5, <1>7, <2>2 DEF SameTree
    <2>3. QED
        BY <1>1, <2>1, <2>2

LEMMA CommitInv ==
    ASSUME TreeInv, NEW c \in Callers, Commit(c)
    PROVE  TreeInv'
BY CommitKeepsOthers, CommitKeepsSnapshots, CommitKeepsTrees, CommitKeepsIntervals
   DEF TreeInv

-----------------------------------------------------------------------------
(* The theorems. *)

LEMMA StutterInv == TreeInv /\ UNCHANGED vars => TreeInv'
<1> SUFFICES ASSUME TreeInv, UNCHANGED vars PROVE TreeInv'
    OBVIOUS
<1> USE DEF TreeInv, vars
<1>1. TreeTypeOK'
    BY DEF TreeTypeOK
<1>2. StepsFollow'
    BY DEF StepsFollow, Target, Taken
<1>3. RecordsArePast'
    BY DEF RecordsArePast, Outdates, Stored
<1>4. CommitsExclude' /\ SnapshotsArePast'
    BY DEF CommitsExclude, SnapshotsArePast, InTree, HoldsTree, RowsToShift, SeesTree,
           TreeOf, Stored
<1>5. QED
    BY <1>1, <1>2, <1>3, <1>4, SameTables

LEMMA NextTreeInv == TreeInv /\ [Next]_vars => TreeInv'
<1> SUFFICES ASSUME TreeInv, [Next]_vars PROVE TreeInv'
    OBVIOUS
<1>1. ASSUME NEW c \in Callers, DomainRead(c) \/ DomainWrite(c) PROVE TreeInv'
    BY <1>1, CallInv
<1>2. ASSUME NEW c \in Callers, Fail(c) PROVE TreeInv'
    BY <1>2, FailInv
<1>3. ASSUME NEW c \in Callers, Step(c) PROVE TreeInv'
    BY <1>3, LookupInv, FetchInv, CacheWriteInv, BeginInv, UpdateRightsInv, UpdateLeftsInv,
       InsertInv, CommitInv, EvictInv DEF Step
<1>4. CASE UNCHANGED vars
    BY <1>4, StutterInv
<1>5. QED
    BY <1>1, <1>2, <1>3, <1>4 DEF Next

\* Every state of the system satisfies the inductive invariant: what a read has fetched,
\* what the cache holds and what a snapshot shows are past states of the tables.
THEOREM RecordsLagBehind == Spec => []TreeInv
BY InitTreeInv, NextTreeInv, PTL DEF Spec

\* However outdated the parent records are that dbInsertNonRoot works with, the trees of
\* domains stay nested sets: UNIQUE (root_domain_id, left_side, right_side) never refuses
\* a row, and a root's interval encloses its tree.
THEOREM IntervalsAlwaysNest == Spec => []IntervalsNest
<1>1. TreeInv => IntervalsNest
    BY DEF TreeInv
<1>2. QED
    BY <1>1, RecordsLagBehind, PTL

\* A step that is no COMMIT leaves the domains table alone.
LEMMA OnlyCommitWrites ==
    ASSUME [Next]_vars, ~ \E c \in Callers : Commit(c)
    PROVE  UNCHANGED domains
<1>1. ASSUME NEW c \in Callers, DomainRead(c) \/ DomainWrite(c) PROVE UNCHANGED domains
    BY <1>1 DEF DomainRead, DomainWrite, Call
<1>2. ASSUME NEW c \in Callers, Step(c) PROVE UNCHANGED domains
    BY <1>2 DEF Step, Lookup, Fetch, CacheWrite, Begin, UpdateRights, UpdateLefts, Insert,
                Evict
<1>3. QED
    BY <1>1, <1>2 DEF Next, Fail, vars

\* No insertion loses a domain, moves it to another tree or parent, or shrinks its
\* interval, whichever rows the two UPDATEs of dbInsertNonRoot rewrite.
THEOREM RowsNeverShrink == Spec => RowsOnlyGrow
<1> DEFINE grows == \A d \in Stored :
        LET row == domains[d]
            new == domains'[d] IN
        /\ new # None
        /\ new.name = row.name /\ new.parent = row.parent /\ new.root = row.root
        /\ new.right - new.left >= row.right - row.left
<1>1. ASSUME TreeInv, [Next]_vars PROVE [grows]_vars
    <2>1. CASE \E c \in Callers : Commit(c)
        <3> PICK c \in Callers : Commit(c)
            BY <2>1
        <3> SUFFICES ASSUME NEW d \in Stored
                     PROVE  /\ domains'[d] # None
                            /\ domains'[d].name = domains[d].name
                            /\ domains'[d].parent = domains[d].parent
                            /\ domains'[d].root = domains[d].root
                            /\ domains'[d].right - domains'[d].left
                                >= domains[d].right - domains[d].left
            OBVIOUS
        <3>1. d \in Stored'
            BY <1>1, CommitEffect
        <3>2. domains'[d] # None
            BY <3>1 DEF Stored
        <3>3. QED
            BY <1>1, <3>2, CommitEffect, CommitSides
    <2>2. CASE UNCHANGED domains
        <3> SUFFICES ASSUME NEW d \in Stored
                     PROVE  domains[d] # None /\ domains[d].left \in Nat
                            /\ domains[d].right \in Nat
            BY <2>2
        <3>1. QED
            BY <1>1, StoredRow DEF TreeInv
    <2>3. QED
        BY <1>1, <2>1, <2>2, OnlyCommitWrites
<1>2. QED
    BY <1>1, RecordsLagBehind, PTL DEF Spec, RowsOnlyGrow

\* What DomainQuery finds under a domain is a matter of its interval.
LEMMA InDomain ==
    ASSUME TreeTypeOK, NEW p \in Stored, NEW d
    PROVE  d \in DomainsIn(p) <=>
              /\ d \in Stored
              /\ domains[d].root = domains[p].root
              /\ domains[p].left <= domains[d].left
              /\ domains[d].left <= domains[p].right
BY StoredRow DEF DomainsIn, SameTree

LEMMA InDomainAfter ==
    ASSUME TreeInv, NEW c \in Callers, Commit(c), NEW p \in Stored', NEW d
    PROVE  d \in DomainsIn(p)' <=>
              /\ d \in Stored'
              /\ domains'[d].root = domains'[p].root
              /\ domains'[p].left <= domains'[d].left
              /\ domains'[d].left <= domains'[p].right
<1>1. \A e \in Stored' : domains'[e].left \in Nat /\ domains'[e].right \in Nat
    BY CommitKeepsOthers DEF TreeTypeOK, Stored, Rows
<1>2. QED
    BY <1>1 DEF DomainsIn, SameTree

\* An insertion changes nothing among the domains that were there.
LEMMA CommitKeepsSubtrees ==
    ASSUME TreeInv, NEW c \in Callers, Commit(c), NEW p \in Stored, NEW d \in Stored
    PROVE  d \in DomainsIn(p)' <=> d \in DomainsIn(p)
<1> USE DEF TreeInv
<1>1. /\ p \in Stored' /\ d \in Stored'
      /\ domains'[d].root = domains[d].root /\ domains'[p].root = domains[p].root
    BY CommitEffect
<1>2. CASE domains[d].root # domains[p].root
    BY <1>1, <1>2, InDomain, InDomainAfter
<1>3. CASE domains[d].root = domains[p].root
    <2>1. CASE parent[c] # None /\ domains[p].root = parent[c].root
        <3> DEFINE from == parent[c].right
        <3>1. /\ domains'[d].left = Shift(domains[d].left, from)
              /\ domains'[p].left = Shift(domains[p].left, from)
              /\ domains'[p].right = Shift(domains[p].right, from)
            BY <1>3, <2>1, CommitEffect
        <3>2. /\ from \in Nat /\ domains[d].left \in Nat
              /\ domains[p].left \in Nat /\ domains[p].right \in Nat
            BY <2>1, CommitPlace, StoredRow
        <3>3. /\ domains[p].left <= domains[d].left <=>
                    domains'[p].left <= domains'[d].left
              /\ domains[d].left <= domains[p].right <=>
                    domains'[d].left <= domains'[p].right
            BY <3>1, <3>2 DEF Shift
        <3>4. QED
            BY <1>1, <3>3, InDomain, InDomainAfter
    <2>2. CASE ~ (parent[c] # None /\ domains[p].root = parent[c].root)
        <3>1. domains'[d] = domains[d] /\ domains'[p] = domains[p]
            BY <1>3, <2>2, CommitEffect
        <3>2. QED
            BY <1>1, <3>1, InDomain, InDomainAfter
    <2>3. QED
        BY <2>1, <2>2
<1>4. QED
    BY <1>2, <1>3

\* Nothing lies under a new domain.
LEMMA NewDomainIsEmpty ==
    ASSUME TreeInv, NEW c \in Callers, Commit(c), NEW d \in Stored,
           NEW u, u = req[c].uuid
    PROVE  d \notin DomainsIn(u)'
<1> USE DEF TreeInv
<1> DEFINE from == parent[c].right
<1>1. /\ u \in Stored' /\ u \notin Stored /\ domains'[u] = NewRow(c)
      /\ domains'[d].root = domains[d].root
    BY CommitEffect
<1>0. d \in DomainsIn(u)' => /\ domains'[d].root = domains'[u].root
                              /\ domains'[u].left <= domains'[d].left
                              /\ domains'[d].left <= domains'[u].right
    BY <1>1, InDomainAfter
<1> SUFFICES ASSUME domains'[d].root = NewRow(c).root
             PROVE  ~ (/\ NewRow(c).left <= domains'[d].left
                       /\ domains'[d].left <= NewRow(c).right)
    BY <1>0, <1>1
<1>2. parent[c] # None
    <2>1. domains[d].root # u
        BY <1>1 DEF IntervalsNest
    <2>2. QED
        BY <1>1, <2>1 DEF NewRow
<1>3. /\ NewRow(c).root = parent[c].root /\ from \in Nat
      /\ NewRow(c).left = from /\ NewRow(c).right = from + 1
    BY <1>2, CommitPlace
<1>4. domains'[d].left = Shift(domains[d].left, from) /\ domains[d].left \in Nat
    <2>1. domains[d].root = parent[c].root
        BY <1>1, <1>3
    <2>2. domains'[d].left = Shift(domains[d].left, from)
        BY <1>2, <2>1, CommitEffect
    <2>3. QED
        BY <2>2, StoredRow
<1>5. QED
    BY <1>3, <1>4 DEF Shift

\* A new domain placed at its parent's right side lies in whatever its parent lies in.
LEMMA NewDomainIsPlaced ==
    ASSUME TreeInv, NEW c \in Callers, Commit(c), parent[c] # None,
           parent[c] = domains[req[c].parent], NEW p \in Stored
    PROVE  req[c].uuid \in DomainsIn(p)' <=> req[c].parent \in DomainsIn(p)
<1> USE DEF TreeInv
<1> DEFINE u == req[c].uuid
           q == req[c].parent
           from == parent[c].right
<1>1. /\ q \in Stored /\ domains[q].root = parent[c].root /\ from = domains[q].right
      /\ NewRow(c).root = parent[c].root /\ NewRow(c).left = from
    BY CommitPlace
<1>2. /\ u \in Stored' /\ p \in Stored' /\ domains'[u] = NewRow(c)
      /\ domains'[p].root = domains[p].root
    BY CommitEffect
<1>3. CASE domains[p].root # parent[c].root
    BY <1>1, <1>2, <1>3, InDomain, InDomainAfter
<1>4. CASE domains[p].root = parent[c].root
    <2>1. /\ domains'[p].left = Shift(domains[p].left, from)
          /\ domains'[p].right = Shift(domains[p].right, from)
        BY <1>4, CommitEffect
    <2>2. /\ domains[p].left \in Nat /\ domains[p].right \in Nat
          /\ domains[q].left \in Nat /\ domains[q].right \in Nat
          /\ domains[p].left < domains[p].right /\ domains[q].left < domains[q].right
        BY <1>1, StoredRow DEF IntervalsNest
    <2>3. p # q => \/ domains[p].right < domains[q].left
                   \/ domains[q].right < domains[p].left
                   \/ domains[q].left < domains[p].left /\ domains[p].right < domains[q].right
                   \/ domains[p].left < domains[q].left /\ domains[q].right < domains[p].right
        BY <1>1, <1>4 DEF IntervalsNest, SameTree
    <2>4. /\ domains'[p].left <= from /\ from <= domains'[p].right
          <=> /\ domains[p].left <= domains[q].left
              /\ domains[q].left <= domains[p].right
        BY <1>1, <2>1, <2>2, <2>3 DEF Shift
    <2>5. QED
        BY <1>1, <1>2, <1>4, <2>4, InDomain, InDomainAfter
<1>5. QED
    BY <1>3, <1>4

\* An insertion that was placed by its parent's current row leaves DomainQuery's trees
\* right if they were: only an outdated parent record makes them wrong.
THEOREM FreshParentsKeepSubtrees == Spec => FreshInsertsKeepSubtrees
<1>1. ASSUME TreeInv, NEW c \in Callers, SubtreesAreExact, Commit(c),
             parent[c] # None => parent[c] = domains[req[c].parent]
      PROVE  SubtreesAreExact'
    <2> USE DEF TreeInv
    <2> PICK u : u = req[c].uuid
        OBVIOUS
    <2> SUFFICES ASSUME NEW p \in Stored', NEW d \in Stored' \ {p}
                 PROVE  d \in DomainsIn(p)' <=> domains'[d].parent \in DomainsIn(p)'
        BY DEF SubtreesAreExact
    <2>1. /\ Stored' = Stored \union {u} /\ u \notin Stored /\ domains'[u] = NewRow(c)
          /\ \A e \in Stored : domains'[e].parent = domains[e].parent
        BY <1>1, CommitEffect
    <2>2. \A e \in Stored : domains[e].parent \in Stored \/ domains[e].parent = None
        BY <1>1 DEF ParentIsStored
    <2>3. \A q : None \notin DomainsIn(q) /\ None \notin DomainsIn(q)'
        BY NoneIsNothing DEF DomainsIn, Stored
    <2>4. CASE p \in Stored /\ d \in Stored
        <3>1. d \in DomainsIn(p) <=> domains[d].parent \in DomainsIn(p)
            BY <1>1, <2>4 DEF SubtreesAreExact
        <3>2. domains[d].parent \in Stored =>
                (domains[d].parent \in DomainsIn(p) <=> domains[d].parent \in DomainsIn(p)')
            BY <1>1, <2>4, CommitKeepsSubtrees
        <3>3. QED
            BY <1>1, <2>1, <2>2, <2>3, <2>4, <3>1, <3>2, CommitKeepsSubtrees
    <2>5. CASE p \in Stored /\ d = u
        <3>1. CASE parent[c] = None
            <4>1. NewRow(c).root = u /\ NewRow(c).parent = None
                BY <3>1 DEF NewRow
            <4>2. domains'[p].root # u
                BY <1>1, <2>1, <2>5, CommitEffect DEF IntervalsNest
            <4>3. u \notin DomainsIn(p)'
                BY <1>1, <2>1, <2>5, <4>1, <4>2, InDomainAfter
            <4>4. QED
                BY <2>1, <2>3, <2>5, <4>1, <4>3
        <3>2. CASE parent[c] # None
            <4>1. NewRow(c).parent = req[c].parent /\ req[c].parent \in Stored
                BY <1>1, <3>2, CommitPlace
            <4>2. u \in DomainsIn(p)' <=> req[c].parent \in DomainsIn(p)
                BY <1>1, <2>5, <3>2, NewDomainIsPlaced
            <4>3. req[c].parent \in DomainsIn(p)' <=> req[c].parent \in DomainsIn(p)
                BY <1>1, <2>5, <4>1, CommitKeepsSubtrees
            <4>4. QED
                BY <2>1, <2>5, <4>1, <4>2, <4>3
        <3>3. QED
            BY <3>1, <3>2
    <2>6. CASE p = u /\ d \in Stored
        <3>1. d \notin DomainsIn(u)'
            BY <1>1, <2>6, NewDomainIsEmpty
        <3>2. domains[d].parent \in Stored => domains[d].parent \notin DomainsIn(u)'
            BY <1>1, NewDomainIsEmpty
        <3>3. domains'[d].parent = domains[d].parent
            BY <2>1, <2>6
        <3>4. domains[d].parent \notin DomainsIn(u)'
            BY <2>2, <2>3, <2>6, <3>2
        <3>5. QED
            BY <2>6, <3>1, <3>3, <3>4
    <2>7. QED
        BY <2>1, <2>4, <2>5, <2>6
<1> DEFINE fresh == \A c \in Callers :
        /\ SubtreesAreExact
        /\ Commit(c)
        /\ parent[c] # None => parent[c] = domains[req[c].parent]
        => SubtreesAreExact'
<1>2. TreeInv => [fresh]_vars
    BY <1>1
<1>3. QED
    BY <1>2, RecordsLagBehind, PTL DEF Spec, FreshInsertsKeepSubtrees

-----------------------------------------------------------------------------
(* What it takes for DomainQuery to go wrong. *)

\* DomainQuery's trees are right as long as every child is placed by its parent's current
\* row, for any number of callers, with the cache or without it.
THEOREM FreshInsertsSuffice == Spec /\ InsertsAreFresh => []SubtreesAreExact
<1> DEFINE fresh == \A c \in Callers :
        Commit(c) /\ parent[c] # None => parent[c] = domains[req[c].parent]
           keeps == \A c \in Callers :
        /\ SubtreesAreExact
        /\ Commit(c)
        /\ parent[c] # None => parent[c] = domains[req[c].parent]
        => SubtreesAreExact'
<1>1. Init => SubtreesAreExact
    BY DEF Init, SubtreesAreExact, Stored
<1>2. SubtreesAreExact /\ [Next]_vars /\ [fresh]_vars /\ [keeps]_vars => SubtreesAreExact'
    <2> SUFFICES ASSUME SubtreesAreExact, [Next]_vars, [fresh]_vars, [keeps]_vars
                 PROVE  SubtreesAreExact'
        OBVIOUS
    <2>1. CASE UNCHANGED domains
        BY <2>1 DEF SubtreesAreExact, Stored, DomainsIn, SameTree
    <2>2. CASE ~ UNCHANGED domains
        <3>1. PICK c \in Callers : Commit(c)
            BY <2>2, OnlyCommitWrites
        <3>2. fresh /\ keeps
            BY <2>2 DEF vars
        <3>3. parent[c] # None => parent[c] = domains[req[c].parent]
            BY <3>1, <3>2
        <3>4. QED
            BY <3>1, <3>2, <3>3
    <2>3. QED
        BY <2>1, <2>2
<1>3. InsertsAreFresh <=> [][fresh]_vars
    BY DEF InsertsAreFresh
<1>4. FreshInsertsKeepSubtrees <=> [][keeps]_vars
    BY DEF FreshInsertsKeepSubtrees
<1>5. QED
    BY <1>1, <1>2, <1>3, <1>4, FreshParentsKeepSubtrees, PTL DEF Spec

LEMMA NothingIsOldYet == Init => NothingGrowsOld
BY EmptySeq DEF Init, NothingGrowsOld

\* A call that returns leaves nothing behind.
LEMMA ReturnGrowsNothing ==
    ASSUME TreeInv, NothingGrowsOld, NEW c \in Callers, \A d \in Callers : d = c, Return(c),
           cache' = cache
    PROVE  NothingGrowsOld'
<1>1. fetched'[c] = <<>> /\ parent'[c] = None /\ Len(fetched'[c]) = 0
    BY EmptySeq DEF Return, TreeInv, TreeTypeOK
<1>2. QED
    BY <1>1 DEF NothingGrowsOld

\* A read that ends hands over the row as it is.
LEMMA DeliverGrowsNothing ==
    ASSUME TreeInv, NothingGrowsOld, NEW c \in Callers, \A d \in Callers : d = c,
           pc[c] = "cache_write", NEW row, row = domains[Wanted(req[c])],
           Deliver(c, row), UNCHANGED <<domains, cache>>
    PROVE  NothingGrowsOld'
<1>1. CASE Return(c)
    BY <1>1, ReturnGrowsNothing
<1>2. CASE req[c].op # "read"
    <2>1. /\ parent'[c] = row /\ fetched'[c] = <<>> /\ pc'[c] = "begin" /\ req'[c] = req[c]
          /\ Len(fetched'[c]) = 0
        BY <1>2, EmptySeq DEF Deliver, Goto, TreeInv, TreeTypeOK
    <2>2. row = domains[req[c].parent]
        BY <1>2 DEF Wanted
    <2>3. QED
        BY <2>1, <2>2 DEF NothingGrowsOld
<1>3. QED
    BY <1>1, <1>2 DEF Deliver

LEMMA FetchGrowsNothing ==
    ASSUME TreeInv, NothingGrowsOld, NEW c \in Callers, \A d \in Callers : d = c, Fetch(c)
    PROVE  NothingGrowsOld'
<1> DEFINE frame == [domain |-> Target(c), row |-> domains[Target(c)]]
<1>1. pc[c] = "fetch" /\ UNCHANGED <<domains, cache>> /\ parent[c] = None
      /\ Target(c) \in Domains /\ fetched[c] \in Seq(Frames)
    BY DEF Fetch, TreeInv, StepsFollow, TreeTypeOK
<1>2. CASE Return(c)
    BY <1>1, <1>2, ReturnGrowsNothing
<1>3. CASE /\ domains[Target(c)] # None
           /\ fetched' = [fetched EXCEPT ![c] = <<frame>> \o fetched[c]]
           /\ Goto(c, IF domains[Target(c)].parent = None THEN "cache_write" ELSE "lookup")
           /\ UNCHANGED <<req, parent, snapshot, calls>>
    <2>1. frame \in Frames
        BY <1>1, <1>3 DEF Frames, TreeInv, TreeTypeOK
    <2>2. fetched'[c] = <<frame>> \o fetched[c] /\ pc'[c] \in {"cache_write", "lookup"}
          /\ parent'[c] = None
        BY <1>1, <1>3 DEF Goto, TreeInv, TreeTypeOK
    <2> HIDE DEF frame
    <2>3. /\ Len(fetched[c]) \in Nat
          /\ Len(fetched'[c]) = Len(fetched[c]) + 1
          /\ \A i \in 1..Len(fetched'[c]) :
                fetched'[c][i] = IF i = 1 THEN frame ELSE fetched[c][i - 1]
        <3>1. <<frame>> \in Seq(Frames) /\ Len(<<frame>>) = 1 /\ <<frame>>[1] = frame
            BY <2>1
        <3>2. QED
            BY <1>1, <2>2, <3>1
    <2>4. \A i \in 1..Len(fetched[c]) : fetched[c][i].row = domains[fetched[c][i].domain]
        BY DEF NothingGrowsOld
    <2>5. frame.row = domains[frame.domain]
        BY DEF frame
    <2>6. ASSUME NEW i \in 1..Len(fetched'[c])
          PROVE  fetched'[c][i].row = domains[fetched'[c][i].domain]
        <3>1. i = 1 \/ i - 1 \in 1..Len(fetched[c])
            BY <2>3
        <3>2. QED
            BY <2>3, <2>4, <2>5, <3>1
    <2>7. QED
        BY <1>1, <2>2, <2>6 DEF NothingGrowsOld
<1>4. QED
    BY <1>2, <1>3 DEF Fetch

LEMMA CacheWriteGrowsNothing ==
    ASSUME TreeInv, NothingGrowsOld, ~ CacheEnabled, NEW c \in Callers,
           \A d \in Callers : d = c, CacheWrite(c)
    PROVE  NothingGrowsOld'
<1> DEFINE top == Head(fetched[c])
<1>1. /\ pc[c] = "cache_write" /\ UNCHANGED <<domains, cache>> /\ fetched[c] # <<>>
      /\ parent[c] = None /\ fetched[c] \in Seq(Frames)
      /\ fetched[c][Len(fetched[c])].domain = Wanted(req[c])
    BY DEF CacheWrite, TreeInv, StepsFollow, TreeTypeOK
<1>2. /\ Len(fetched[c]) \in Nat /\ top = fetched[c][1]
      /\ Len(Tail(fetched[c])) = Len(fetched[c]) - 1
      /\ \A i \in 1..Len(Tail(fetched[c])) : Tail(fetched[c])[i] = fetched[c][i + 1]
    BY <1>1, EmptySeq, HeadTailProperties
<1>3. CASE Len(fetched[c]) = 1 /\ Deliver(c, top.row)
    <2>1. top.domain = Wanted(req[c]) /\ top.row = domains[top.domain]
        BY <1>1, <1>2, <1>3 DEF NothingGrowsOld
    <2>2. QED
        BY <1>1, <1>3, <2>1, DeliverGrowsNothing
<1>4. CASE /\ Len(fetched[c]) > 1
           /\ fetched' = [fetched EXCEPT ![c] = Tail(fetched[c])]
           /\ UNCHANGED <<pc, req, parent, snapshot, calls>>
    <2>1. fetched'[c] = Tail(fetched[c])
        BY <1>4 DEF TreeInv, TreeTypeOK
    <2>2. ASSUME NEW i \in 1..Len(fetched'[c])
          PROVE  fetched'[c][i] = fetched[c][i + 1] /\ i + 1 \in 1..Len(fetched[c])
        BY <1>2, <2>1
    <2>3. QED
        BY <1>1, <1>4, <2>2 DEF NothingGrowsOld
<1>5. QED
    BY <1>3, <1>4 DEF CacheWrite

LEMMA NothingOldNext ==
    ASSUME TreeInv, NothingGrowsOld, [Next]_vars, ~ CacheEnabled,
           \A c, d \in Callers : c = d
    PROVE  NothingGrowsOld'
<1>1. CASE UNCHANGED vars
    BY <1>1 DEF vars, NothingGrowsOld
<1>2. ASSUME NEW c \in Callers, DomainRead(c) \/ DomainWrite(c) PROVE NothingGrowsOld'
    <2>1. pc[c] = "idle" /\ pc'[c] # "evict" /\ UNCHANGED <<domains, cache, fetched, parent>>
          /\ fetched[c] = <<>> /\ parent[c] = None /\ Len(fetched[c]) = 0
        BY <1>2, EmptySeq
           DEF DomainRead, DomainWrite, Call, Goto, TreeInv, TreeTypeOK, StepsFollow
    <2>2. QED
        BY <2>1 DEF NothingGrowsOld
<1>3. ASSUME NEW c \in Callers, Fail(c) PROVE NothingGrowsOld'
    BY <1>3, ReturnGrowsNothing DEF Fail
<1>4. ASSUME NEW c \in Callers, Lookup(c) PROVE NothingGrowsOld'
    <2>1. pc[c] = "lookup" /\ cache[Target(c)] = None /\ parent[c] = None
        BY <1>4 DEF Lookup, TreeInv, StepsFollow, NothingGrowsOld
    <2>2. pc'[c] = "fetch" /\ UNCHANGED <<domains, cache, req, fetched, parent>>
        BY <1>4, <2>1 DEF Lookup, Goto, TreeInv, TreeTypeOK
    <2>3. QED
        BY <2>1, <2>2 DEF NothingGrowsOld
<1>5. ASSUME NEW c \in Callers, Begin(c) \/ UpdateRights(c) \/ UpdateLefts(c) \/ Insert(c)
      PROVE  NothingGrowsOld'
    <2>1. CASE Return(c)
        BY <1>5, <2>1, ReturnGrowsNothing DEF Begin, UpdateRights, UpdateLefts, Insert
    <2>2. CASE ~ Return(c)
        <3>1. /\ pc[c] \in {"begin", "update_rights", "update_lefts", "insert"}
              /\ pc'[c] \in {"update_rights", "update_lefts", "insert", "commit"}
              /\ UNCHANGED <<domains, cache, req, fetched, parent>>
            BY <1>5, <2>2
               DEF Begin, UpdateRights, UpdateLefts, Insert, Goto, TreeInv, TreeTypeOK
        <3>2. QED
            BY <3>1 DEF NothingGrowsOld
    <2>3. QED
        BY <2>1, <2>2
<1>6. ASSUME NEW c \in Callers, Commit(c) PROVE NothingGrowsOld'
    <2>1. CASE Return(c)
        BY <1>6, <2>1, ReturnGrowsNothing DEF Commit
    <2>2. CASE ~ Return(c)
        <3>1. /\ pc[c] = "commit" /\ pc'[c] = "evict" /\ UNCHANGED <<cache, fetched>>
              /\ fetched[c] = <<>> /\ Len(fetched[c]) = 0
            BY <1>6, <2>2, EmptySeq DEF Commit, Goto, TreeInv, TreeTypeOK, NothingGrowsOld
        <3>2. QED
            BY <3>1 DEF NothingGrowsOld
    <2>3. QED
        BY <2>1, <2>2
<1>7. ASSUME NEW c \in Callers, Evict(c) PROVE NothingGrowsOld'
    <2>1. cache' = cache /\ Return(c)
        BY <1>7 DEF Evict, TreeInv, TreeTypeOK, NothingGrowsOld
    <2>2. QED
        BY <2>1, ReturnGrowsNothing
<1>8. QED
    BY <1>1, <1>2, <1>3, <1>4, <1>5, <1>6, <1>7, FetchGrowsNothing, CacheWriteGrowsNothing
       DEF Next, Step

\* The one caller of a process without the cache always places a child by its parent's
\* current row; so it takes the cache or a second caller to make DomainQuery's trees wrong.
THEOREM OneUncachedCallerIsExact ==
    ASSUME ~ CacheEnabled, \A c, d \in Callers : c = d
    PROVE  Spec => []SubtreesAreExact
<1> DEFINE fresh == \A c \in Callers :
        Commit(c) /\ parent[c] # None => parent[c] = domains[req[c].parent]
<1>1. Init => NothingGrowsOld
    BY NothingIsOldYet
<1>2. TreeInv /\ NothingGrowsOld /\ [Next]_vars => NothingGrowsOld'
    BY NothingOldNext
<1>3. NothingGrowsOld => [fresh]_vars
    BY DEF NothingGrowsOld, Commit
<1>4. InsertsAreFresh <=> [][fresh]_vars
    BY DEF InsertsAreFresh
<1>5. Spec => InsertsAreFresh
    BY <1>1, <1>2, <1>3, <1>4, RecordsLagBehind, PTL DEF Spec
<1>6. QED
    BY <1>5, FreshInsertsSuffice, PTL

-----------------------------------------------------------------------------
(* The forest that the table holds. *)

\* The nodes of the forest are the rows without their intervals.
LEMMA NodesAreRows ==
    ASSUME TreeTypeOK, NEW d \in Domains
    PROVE  /\ Node(d) \in Nodes \union {None}
           /\ d \in Stored <=> Node(d) # None
           /\ d \in Stored => /\ Node(d).system = "this" /\ Node(d).name = domains[d].name
                              /\ Node(d).parent = domains[d].parent
                              /\ Node(d).root = domains[d].root
<1>1. CASE d \notin Stored
    BY <1>1 DEF Node, Stored
<1>2. CASE d \in Stored
    <2>1. Node(d) = [system |-> "this", name |-> domains[d].name,
                     parent |-> domains[d].parent, root |-> domains[d].root]
        BY <1>2 DEF Node, Stored
    <2>2. Node(d) \in Nodes
        BY <1>2, <2>1, StoredRow DEF Nodes
    <2>3. QED
        BY <1>2, <2>1, <2>2, NoneAssumption
<1>3. QED
    BY <1>1, <1>2

\* COMMIT creates one domain, and the others stay what they were.
LEMMA CommitGrowsForest ==
    ASSUME TreeInv, TreeInv', NEW c \in Callers, Commit(c)
    PROVE  Forest!Next
<1> DEFINE forest == [d \in Domains |-> Node(d)]
<1> PICK u : u = req[c].uuid
    OBVIOUS
<1>1. /\ u \in Domains /\ u \notin Stored /\ req[c] \in WriteRequests /\ ~ Taken(req[c])
      /\ Stored' = Stored \union {u} /\ domains'[u] = NewRow(c)
      /\ \A d \in Stored : /\ domains'[d].name = domains[d].name
                           /\ domains'[d].root = domains[d].root
                           /\ domains'[d].parent = domains[d].parent
    BY CommitEffect DEF TreeInv, StepsFollow
<1>2. req[c].name \in Names
    BY <1>1 DEF WriteRequests
<1>3. ASSUME NEW d \in Domains, d # u PROVE Node(d)' = Node(d)
    BY <1>1, <1>3 DEF Node, Stored
<1>4. Node(u)' = [system |-> "this", name |-> NewRow(c).name,
                  parent |-> NewRow(c).parent, root |-> NewRow(c).root]
    BY <1>1 DEF Node, Stored
<1>5. forest' = [forest EXCEPT ![u] = Node(u)']
    BY <1>1, <1>3
<1>6. Forest!CanCreate(u, "this", req[c].name)
    <2>1. Node(u) = None
        BY <1>1, NodesAreRows DEF TreeInv
    <2>2. ASSUME NEW d \in Domains, Node(d) # None PROVE Node(d).name # req[c].name
        BY <1>1, <2>2, NodesAreRows DEF TreeInv, Taken, Stored
    <2>3. QED
        BY <1>1, <2>1, <2>2 DEF Forest!CanCreate, Forest!In
<1>7. CASE parent[c] = None
    <2>1. Forest!CreateRoot(u, "this", req[c].name)
        BY <1>4, <1>5, <1>6, <1>7 DEF Forest!CreateRoot, NewRow
    <2>2. QED
        BY <1>1, <1>2, <2>1 DEF Forest!Next
<1>8. CASE parent[c] # None
    <2> DEFINE p == req[c].parent
    <2>1. /\ p \in Stored /\ domains[p].root = parent[c].root
          /\ NewRow(c).root = parent[c].root /\ NewRow(c).parent = p
          /\ NewRow(c).name = req[c].name
        BY <1>8, CommitPlace DEF NewRow
    <2>2. p \in Domains /\ p \in Forest!In(forest) /\ forest[p].root = parent[c].root
        BY <2>1, NodesAreRows DEF TreeInv, Stored, Forest!In
    <2>3. Forest!CreateChild(u, "this", req[c].name, p)
        BY <1>4, <1>5, <1>6, <2>1, <2>2 DEF Forest!CreateChild
    <2>4. QED
        BY <1>1, <1>2, <2>2, <2>3 DEF Forest!Next
<1>9. QED
    BY <1>7, <1>8

\* The domains table implements the abstract forest, whatever dbInsertNonRoot rewrites in it:
\* an INSERT adds one domain, under a stored one and with its root, or a root.
THEOREM TableImplementsForest == Spec => ImplementsDomainForest
<1> DEFINE forest == [d \in Domains |-> Node(d)]
<1>1. Init => Forest!Init
    <2> SUFFICES ASSUME Init PROVE Forest!Init
        OBVIOUS
    <2>1. \A d \in Domains : Node(d) = None
        BY DEF Init, Node
    <2>2. Forest!In(forest) = {}
        BY <2>1 DEF Forest!In
    <2>3. QED
        BY <2>1, <2>2 DEF Forest!Init, Forest!IsForest
<1>2. TreeInv /\ TreeInv' /\ [Next]_vars => [Forest!Next]_forest
    <2>1. ASSUME UNCHANGED domains PROVE forest' = forest
        BY <2>1 DEF Node
    <2>2. QED
        BY <2>1, OnlyCommitWrites, CommitGrowsForest
<1>3. QED
    BY <1>1, <1>2, RecordsLagBehind, PTL DEF Spec, ImplementsDomainForest, Forest!Spec

=============================================================================
