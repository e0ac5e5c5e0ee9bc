-------------------------- MODULE MCActiveRequests --------------------------
(* Request 2 is to be invoked after request 1. *)
EXTENDS ActiveRequests

MCDeps == [i \in Ids |-> IF i = 2 THEN {1} ELSE {}]
=============================================================================
