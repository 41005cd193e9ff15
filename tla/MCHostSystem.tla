---------------------------- MODULE MCHostSystem ----------------------------
(***************************************************************************)
(* Instances of HostSystem: two drivers with one host system, whose        *)
(* configurations name different tags for it, and a second system that     *)
(* nobody hosts.                                                           *)
(***************************************************************************)
EXTENDS HostSystem

CONSTANTS d1, d2, hosted, foreign, blue, green

OneHost == [d \in Drivers |-> hosted]
TwoTags == [d \in Drivers |-> IF d = d1 THEN blue ELSE green]

APICall(op, s, t) == [op |-> op, system |-> s, tag |-> t]
ForeignCalls ==
    {APICall("write", foreign, blue), APICall("write", foreign, green),
     APICall("read", foreign, blue)}

=============================================================================
