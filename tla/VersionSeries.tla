--------------------------- MODULE VersionSeries ---------------------------
(***************************************************************************)
(* What KindWrite and KindVersionWrite promise: a kind's name and its uuid *)
(* are its own and stay; its versions form a series that starts at an      *)
(* initial version (x.0.0); a version is published once and for all.       *)
(***************************************************************************)
CONSTANTS Kinds, UUIDs, Versions, InitialVersions, Schemas, None

VARIABLES kinds, kindversions

PublishedOf(k) == {v \in Versions : kindversions[k][v] # None}

Init ==
    /\ kinds = [k \in Kinds |-> None]
    /\ kindversions = [k \in Kinds |-> [v \in Versions |-> None]]

WriteKind(k, u) ==
    /\ kinds[k] = None
    /\ \A j \in Kinds : kinds[j] # u
    /\ kinds' = [kinds EXCEPT ![k] = u]
    /\ kindversions' = kindversions

Publish(k, v, s) ==
    /\ kinds[k] # None
    /\ v \notin PublishedOf(k)
    /\ PublishedOf(k) = {} => v \in InitialVersions
    /\ kindversions' = [kindversions EXCEPT ![k][v] = s]
    /\ kinds' = kinds

Next ==
    \/ \E k \in Kinds, u \in UUIDs : WriteKind(k, u)
    \/ \E k \in Kinds, v \in Versions, s \in Schemas : Publish(k, v, s)

Spec == Init /\ [][Next]_<<kinds, kindversions>>

=============================================================================
