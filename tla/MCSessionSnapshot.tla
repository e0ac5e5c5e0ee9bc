------------------------- MODULE MCSessionSnapshot -------------------------
(* Two requests, the first of which binds the user. *)
EXTENDS SessionSnapshot

CONSTANTS m1, m2

MCRequests == {m1, m2}
MCBinders == {m1}
=============================================================================
