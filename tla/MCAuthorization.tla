--------------------------- MODULE MCAuthorization ---------------------------
(***************************************************************************)
(* Two connections that share a handshake engine with room for one         *)
(* exchange, a permanent key from an earlier exchange, and two more keys.  *)
(***************************************************************************)
EXTENDS Authorization, TLC

CONSTANTS c1, c2, p, k1, k2

MCConns == {c1, c2}
MCKeyIds == {p, k1, k2}
MCKnown == {p}

\* Key exchanges and pings are explored apart: no step of one reads the other's state.
MCOneWorkload == (\A c \in Conns : due[c] = 0) \/ (\A c \in Conns : stage[c] = "none")
MCSymmetry == Permutations(MCConns) \cup Permutations({k1, k2})
=============================================================================
