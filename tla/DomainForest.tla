---------------------------- MODULE DomainForest ----------------------------
(***************************************************************************)
(* What DomainWrite promises: domains form trees that only grow.  A domain *)
(* is created once, as a root or under a domain that exists, takes the     *)
(* root of its parent, has a name that is unique in its system, and        *)
(* neither moves nor is renamed.                                           *)
(***************************************************************************)
CONSTANTS Systems, Domains, Names, None

VARIABLE forest  \* what each domain that exists was created as

Nodes == [system: Systems, name: Names, parent: Domains \union {None}, root: Domains]

In(f) == {d \in Domains : f[d] # None}

\* Every parent exists, nobody is an ancestor of itself, and everyone has the root of its
\* parent.
IsForest(f) ==
    /\ f \in [Domains -> Nodes \union {None}]
    /\ \A d \in In(f) :
        IF f[d].parent = None THEN f[d].root = d
        ELSE f[d].parent \in In(f) /\ f[d].root = f[f[d].parent].root
    /\ \A S \in SUBSET In(f) : S # {} => \E d \in S : f[d].parent \notin S
    /\ \A d, e \in In(f) : f[d].system = f[e].system /\ f[d].name = f[e].name => d = e

Init == IsForest(forest)

CanCreate(d, s, n) ==
    /\ forest[d] = None
    /\ \A e \in In(forest) : forest[e].system # s \/ forest[e].name # n

CreateRoot(d, s, n) ==
    /\ CanCreate(d, s, n)
    /\ forest' = [forest EXCEPT ![d] = [system |-> s, name |-> n, parent |-> None, root |-> d]]

CreateChild(d, s, n, p) ==
    /\ CanCreate(d, s, n)
    /\ p \in In(forest)
    /\ forest' = [forest EXCEPT ![d] =
            [system |-> s, name |-> n, parent |-> p, root |-> forest[p].root]]

Next == \E d \in Domains, s \in Systems, n \in Names :
    \/ CreateRoot(d, s, n)
    \/ \E p \in Domains : CreateChild(d, s, n, p)

Spec == Init /\ [][Next]_forest

=============================================================================
