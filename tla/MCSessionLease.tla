--------------------------- MODULE MCSessionLease ---------------------------
(***************************************************************************)
(* SessionLease with two connections that fight for the key and two        *)
(* goroutines that keep using whatever lease they know.  Two generations   *)
(* allow a takeover, in either order, and the exhausted generation counter.*)
(***************************************************************************)
EXTENDS SessionLease

CONSTANTS c1, c2, w1, w2, v1

MCConnections == {c1, c2}
MCWorkers == {w1, w2}
MCValues == {v1}
=============================================================================
