--------------------------- MODULE MCReplayWindow ---------------------------
(***************************************************************************)
(* A client with four requests, two of which share a sequence number, an   *)
(* rpc_drop_answer, and containers that carry requests first sent alone,   *)
(* sent in another container, or sent only there.  A container's id is     *)
(* larger than its children's, as MTProto asks of clients.                 *)
(***************************************************************************)
EXTENDS ReplayWindow

Request(i, s) == [id |-> i, seq |-> s, kind |-> "request"]
Alone(m) == [outer |-> m, children |-> <<>>]
Pack(i, ms) == [outer |-> [id |-> i, seq |-> 0, kind |-> "container"], children |-> ms]

A == Request(1, 1)
B == Request(2, 3)
C == Request(3, 3)
DropAnswer == [id |-> 5, seq |-> 5, kind |-> "control"]
D == Request(6, 7)

MCIds == 1 .. 7
MCEnvelopes ==
  {Alone(A), Alone(C), Alone(DropAnswer), Pack(4, <<A, B>>), Pack(7, <<B, DropAnswer, D>>)}
=============================================================================
