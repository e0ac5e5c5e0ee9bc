--------------------------- MODULE MCPushRegistry ---------------------------
(***************************************************************************)
(* PushRegistry with two projecting publishers and two protected requests, *)
(* one of which rebinds the session.                                       *)
(***************************************************************************)
EXTENDS PushRegistry, TLC

CONSTANTS p1, p2, r1, r2

MCPublishers == {p1, p2}
MCRequests == {r1, r2}
MCMutators == {r1}

MCPushes == [p \in MCPublishers |-> 1]
MCSizes == [p \in MCPublishers |-> {1}]

Symmetry == Permutations(MCPublishers)
=============================================================================
