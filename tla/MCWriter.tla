------------------------------ MODULE MCWriter ------------------------------
(* Two publishers that may share a context, one handler and the reader. *)
EXTENDS Writer, TLC

CONSTANTS p1, p2, x1, x2

MCPushers == {p1, p2}
MCContexts == {x1, x2}

\* At most two contexts are done, and one of the publishers' stays alive.
MCFewDone == Cardinality(cancelled) <= 2 /\ ~(MCContexts \subseteq cancelled)

Symmetry == Permutations(MCPushers) \cup Permutations(MCContexts)
=============================================================================
