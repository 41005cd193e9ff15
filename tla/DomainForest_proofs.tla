------------------------ MODULE DomainForest_proofs ------------------------
(***************************************************************************)
(* Proofs about DomainForest: what every table that implements it has,     *)
(* for every set of domains, and for trees of any depth.                   *)
(***************************************************************************)
EXTENDS DomainForest, TLAPS

\* What a domain is, as long as None is nothing else.
NoneIsNothing == None \notin Domains /\ None \notin Nodes

\* The root of d exists and is a root: it has no parent, and is its own root.
RootStands(f, d) ==
    /\ f[d].root \in In(f)
    /\ f[f[d].root].parent = None
    /\ f[f[d].root].root = f[d].root

\* Climbing from any domain ends, at the root that the domain's row names.
LEMMA RootsStand ==
    ASSUME NEW f, IsForest(f), NoneIsNothing, NEW d \in In(f)
    PROVE  RootStands(f, d)
<1> DEFINE Lost == {e \in In(f) : ~ RootStands(f, e)}
<1> SUFFICES ASSUME Lost # {} PROVE FALSE
    OBVIOUS
<1>1. PICK e \in Lost : f[e].parent \notin Lost
    BY DEF IsForest
<1>2. CASE f[e].parent = None
    BY <1>1, <1>2 DEF IsForest, RootStands
<1>3. CASE f[e].parent # None
    <2> DEFINE p == f[e].parent
    <2>1. p \in In(f) /\ f[e].root = f[p].root
        BY <1>1, <1>3 DEF IsForest
    <2>2. RootStands(f, p)
        BY <1>1, <2>1
    <2>3. QED
        BY <1>1, <2>1, <2>2 DEF RootStands
<1>4. QED
    BY <1>2, <1>3

\* One more domain, a root or with a parent that exists, leaves a forest.
LEMMA ForestGrows ==
    ASSUME NoneIsNothing, NEW f, IsForest(f), NEW d \in Domains, f[d] = None,
           NEW node \in Nodes,
           \/ node.parent = None /\ node.root = d
           \/ node.parent \in In(f) /\ node.root = f[node.parent].root,
           \A e \in In(f) : f[e].system # node.system \/ f[e].name # node.name
    PROVE  IsForest([f EXCEPT ![d] = node])
<1> PICK g : g = [f EXCEPT ![d] = node]
    OBVIOUS
<1>1. f \in [Domains -> Nodes \union {None}] /\ In(f) \in SUBSET Domains
    BY DEF IsForest, In
<1>2. /\ g \in [Domains -> Nodes \union {None}] /\ g[d] = node
      /\ \A e \in Domains : e # d => g[e] = f[e]
    BY <1>1
<1>3. In(g) = In(f) \union {d} /\ d \notin In(f)
    BY <1>2 DEF In, NoneIsNothing
<1>4. \A e \in In(f) : e # d /\ g[e] = f[e] /\ f[e].parent # d
    BY <1>1, <1>2, <1>3 DEF IsForest, In, NoneIsNothing
<1>5. ASSUME NEW e \in In(g)
      PROVE  IF g[e].parent = None THEN g[e].root = e
             ELSE g[e].parent \in In(g) /\ g[e].root = g[g[e].parent].root
    <2>1. CASE e = d
        <3>1. g[e].parent = node.parent /\ g[e].root = node.root
            BY <1>2, <2>1
        <3>2. CASE node.parent = None /\ node.root = d
            BY <2>1, <3>1, <3>2
        <3>3. CASE node.parent \in In(f) /\ node.root = f[node.parent].root
            <4>1. node.parent # None /\ g[node.parent] = f[node.parent]
                BY <1>4, <3>3 DEF In, NoneIsNothing
            <4>2. QED
                BY <1>3, <3>1, <3>3, <4>1
        <3>4. QED
            BY <3>2, <3>3
    <2>2. CASE e # d
        <3>1. e \in In(f) /\ g[e] = f[e]
            BY <1>3, <1>4, <2>2
        <3>2. f[e].parent # None => f[e].parent \in In(f) /\ f[e].root = f[f[e].parent].root
            BY <3>1 DEF IsForest
        <3>3. f[e].parent = None => f[e].root = e
            BY <3>1 DEF IsForest
        <3>4. QED
            BY <1>3, <1>4, <3>1, <3>2, <3>3
    <2>3. QED
        BY <2>1, <2>2
<1>6. ASSUME NEW S \in SUBSET In(g), S # {}
      PROVE  \E e \in S : g[e].parent \notin S
    <2>1. CASE S = {d}
        <3>1. node.parent # d
            BY <1>3 DEF NoneIsNothing
        <3>2. QED
            BY <1>2, <2>1, <3>1
    <2>2. CASE S # {d}
        <3> DEFINE R == S \ {d}
        <3>1. R # {} /\ R \in SUBSET In(f)
            BY <1>3, <1>6, <2>2
        <3>2. PICK e \in R : f[e].parent \notin R
            BY <3>1 DEF IsForest
        <3>3. QED
            BY <1>4, <3>1, <3>2
    <2>3. QED
        BY <2>1, <2>2
<1>7. \A e, h \in In(g) : g[e].system = g[h].system /\ g[e].name = g[h].name => e = h
    BY <1>2, <1>3, <1>4 DEF IsForest
<1>8. IsForest(g)
    BY <1>2, <1>5, <1>6, <1>7 DEF IsForest
<1>9. QED
    BY <1>8

LEMMA NextForest ==
    ASSUME NoneIsNothing, IsForest(forest), [Next]_forest
    PROVE  IsForest(forest')
<1>1. CASE UNCHANGED forest
    BY <1>1
<1>2. ASSUME NEW d \in Domains, NEW s \in Systems, NEW n \in Names, CreateRoot(d, s, n)
      PROVE  IsForest(forest')
    <2> DEFINE node == [system |-> s, name |-> n, parent |-> None, root |-> d]
    <2>1. node \in Nodes /\ node.parent = None /\ node.root = d
          /\ node.system = s /\ node.name = n
        BY DEF Nodes
    <2>2. /\ forest[d] = None /\ forest' = [forest EXCEPT ![d] = node]
          /\ \A e \in In(forest) : forest[e].system # s \/ forest[e].name # n
        BY <1>2 DEF CreateRoot, CanCreate
    <2> HIDE DEF node
    <2>3. QED
        BY <2>1, <2>2, ForestGrows
<1>3. ASSUME NEW d \in Domains, NEW s \in Systems, NEW n \in Names, NEW p \in Domains,
             CreateChild(d, s, n, p)
      PROVE  IsForest(forest')
    <2> DEFINE node == [system |-> s, name |-> n, parent |-> p, root |-> forest[p].root]
    <2>1. forest[p] \in Nodes
        BY <1>3 DEF CreateChild, IsForest, In
    <2>2. node \in Nodes /\ node.parent = p /\ node.root = forest[p].root
          /\ node.system = s /\ node.name = n
        BY <2>1 DEF Nodes
    <2>3. /\ forest[d] = None /\ p \in In(forest) /\ forest' = [forest EXCEPT ![d] = node]
          /\ \A e \in In(forest) : forest[e].system # s \/ forest[e].name # n
        BY <1>3 DEF CreateChild, CanCreate
    <2> HIDE DEF node
    <2>4. QED
        BY <2>2, <2>3, ForestGrows
<1>4. QED
    BY <1>1, <1>2, <1>3 DEF Next

\* Domains form trees for ever: a table that implements the forest has no cycle, and every
\* domain in it has a root that exists, is a root and is everyone's in its tree.
THEOREM ForestsStay ==
    ASSUME NoneIsNothing
    PROVE  Spec => [](IsForest(forest) /\ \A d \in In(forest) : RootStands(forest, d))
<1>1. IsForest(forest) /\ [Next]_forest => IsForest(forest)'
    BY NextForest
<1>2. IsForest(forest) => \A d \in In(forest) : RootStands(forest, d)
    BY RootsStand
<1>3. QED
    BY <1>1, <1>2, PTL DEF Spec, Init

\* No domain is ever dropped, moved, renamed or given to another system.
THEOREM DomainsAreForEver ==
    ASSUME NoneIsNothing
    PROVE  Spec => [][\A d \in In(forest) : forest'[d] = forest[d]]_forest
<1> DEFINE stays == \A d \in In(forest) : forest'[d] = forest[d]
<1>1. IsForest(forest) /\ [Next]_forest => [stays]_forest
    <2> SUFFICES ASSUME IsForest(forest), Next PROVE stays
        OBVIOUS
    <2>1. PICK d \in Domains : /\ forest[d] = None
                               /\ \E node : forest' = [forest EXCEPT ![d] = node]
        BY DEF Next, CreateRoot, CreateChild, CanCreate
    <2>2. \A e \in In(forest) : e \in Domains /\ e # d
        BY <2>1 DEF In
    <2>3. QED
        BY <2>1, <2>2 DEF IsForest
<1>2. Spec => []IsForest(forest)
    BY ForestsStay, PTL
<1>3. QED
    BY <1>1, <1>2, PTL DEF Spec
=============================================================================
