--------------------------- MODULE SystemRegistry ---------------------------
(***************************************************************************)
(* What New and SystemWrite promise together: a system is registered once  *)
(* and for all, under an id of its own, and a driver works with the record *)
(* that is registered for its host system or with none.                    *)
(***************************************************************************)
EXTENDS Naturals

CONSTANTS Drivers, Systems, Tags, HostOf, None

VARIABLES
    systems,  \* the record of each system that is registered
    host      \* the record that each driver works with

Records == [id: Nat, tag: Tags]

Init ==
    /\ systems = [s \in Systems |-> None]
    /\ host = [d \in Drivers |-> None]

\* Another system than s has another id.
Register(s) ==
    /\ systems[s] = None
    /\ systems' \in [Systems -> Records \union {None}]
    /\ systems'[s] # None
    /\ \A t \in Systems \ {s} :
        /\ systems'[t] = systems[t]
        /\ systems[t] # None => systems[t].id # systems'[s].id
    /\ host' = host

Start(d) ==
    /\ host[d] = None
    /\ systems[HostOf[d]] # None
    /\ host' = [host EXCEPT ![d] = systems[HostOf[d]]]
    /\ systems' = systems

Stop(d) ==
    /\ host[d] # None
    /\ host' = [host EXCEPT ![d] = None]
    /\ systems' = systems

Next ==
    \/ \E s \in Systems : Register(s)
    \/ \E d \in Drivers : Start(d) \/ Stop(d)

Spec == Init /\ [][Next]_<<systems, host>>

=============================================================================
