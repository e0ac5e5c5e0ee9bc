----------------------- MODULE MCRecoveryPushBarrier -----------------------
(***************************************************************************)
(* Two publishers, one of which pushes twice, and two overlapping          *)
(* protected requests.  A queue of two entries and three bytes with bodies *)
(* of one and three bytes reaches both limits.                             *)
(***************************************************************************)
EXTENDS RecoveryPushBarrier, TLC

CONSTANTS p1, p2, r1, r2

MCPublishers == {p1, p2}
MCRequests == {r1, r2}

MCPushes == (p1 :> 2) @@ (p2 :> 1)
MCSizes == (p1 :> {1}) @@ (p2 :> {1, 3})
=============================================================================
