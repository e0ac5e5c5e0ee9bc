------------------------ MODULE MCConnectionSessions ------------------------
(***************************************************************************)
(* Two connections that both use two sessions, with a reliability registry *)
(* that has room for one or for both.                                      *)
(***************************************************************************)
EXTENDS ConnectionSessions

CONSTANTS c1, c2, k1, k2

MCConns == {c1, c2}
MCKeys == {k1, k2}
=============================================================================
