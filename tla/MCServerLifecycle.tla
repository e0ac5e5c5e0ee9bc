-------------------------- MODULE MCServerLifecycle --------------------------
(***************************************************************************)
(* Two accept loops, three connections from two addresses with one         *)
(* authorization key, a request on each of two of them, one handler slot.  *)
(***************************************************************************)
EXTENDS ServerLifecycle, TLC

CONSTANTS l1, l2, c1, c2, c3, r1, r2

MCListeners == {l1, l2}
MCConns == {c1, c2, c3}
MCRequests == {r1, r2}
MCIpOf == (c1 :> "a") @@ (c2 :> "b") @@ (c3 :> "b")
MCAuthOf == [c \in MCConns |-> "key"]
MCConnOf == (r1 :> c1) @@ (r2 :> c2)
=============================================================================
