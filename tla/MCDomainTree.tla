---------------------------- MODULE MCDomainTree ----------------------------
(***************************************************************************)
(* Instances of DomainTree.  Five domains and five calls are enough for an  *)
(* insertion by an outdated record to land in another domain's interval.    *)
(***************************************************************************)
EXTENDS DomainTree, TLC

CONSTANTS R, A, B, C, D, c1, c2

WriteDomain(u, n, p) == [op |-> "write", uuid |-> u, name |-> n, parent |-> p]
ReadDomain(u) == [op |-> "read", uuid |-> u]

\* The tree of the hazard: A and B under the root R, C and D under A.
TreeWrites ==
    {WriteDomain(R, "r", None), WriteDomain(A, "a", R), WriteDomain(B, "b", R),
     WriteDomain(C, "c", A), WriteDomain(D, "d", A)}

\* Also a read, a second tree with a taken name and an unknown parent.
TreeCalls ==
    {WriteDomain(R, "r", None), WriteDomain(A, "a", R), WriteDomain(B, "b", A),
     WriteDomain(C, "c", R), WriteDomain(D, "a", None), ReadDomain(A)}

=============================================================================
