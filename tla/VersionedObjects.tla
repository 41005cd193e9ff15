-------------------------- MODULE VersionedObjects --------------------------
(***************************************************************************)
(* What the object store promises its callers: every object is a register  *)
(* with a generation counter, created once under a unique name, replaced   *)
(* only by a caller that knows the latest generation, and never forgetting *)
(* a generation.  A write takes effect in one step, and is acknowledged    *)
(* only if it took effect.                                                 *)
(***************************************************************************)
EXTENDS Naturals

CONSTANTS UUIDs, QualifiedNames, KindVersions, Writes, Generations, None

VARIABLES
    latest,   \* generation of each object, 0 before it is created
    history,  \* what each generation of each object holds
    nameOf,   \* the name each object was created under
    acked     \* the writes reported as successful

absVars == <<latest, history, nameOf, acked>>

Init ==
    /\ latest = [u \in UUIDs |-> 0]
    /\ history = [key \in UUIDs \X Generations |-> None]
    /\ nameOf = [u \in UUIDs |-> None]
    /\ acked = {}

Store(u, v, w) ==
    /\ latest[u] + 1 \in Generations
    /\ latest' = [latest EXCEPT ![u] = @ + 1]
    /\ history' = [history EXCEPT ![<<u, latest[u] + 1>>] =
                        [kindversion |-> v, spec |-> w]]
    /\ acked' \in {acked, acked \union {w}}

Create(u, n, v, w) ==
    /\ latest[u] = 0
    /\ \A x \in UUIDs : nameOf[x] # n
    /\ nameOf' = [nameOf EXCEPT ![u] = n]
    /\ Store(u, v, w)

\* The caller names the generation it replaces.
Replace(u, expected, v, w) ==
    /\ expected # 0
    /\ latest[u] = expected
    /\ UNCHANGED nameOf
    /\ Store(u, v, w)

Next == \E u \in UUIDs, v \in KindVersions, w \in Writes :
    \/ \E n \in QualifiedNames : Create(u, n, v, w)
    \/ \E expected \in Generations : Replace(u, expected, v, w)

Spec == Init /\ [][Next]_absVars

=============================================================================
