--------------------------- MODULE FencedSession ---------------------------
(***************************************************************************)
(* What a session Coordinator promises for one session key (the comments   *)
(* of the Coordinator and Lease interfaces, session/coordinator.go:16-30): *)
(* at most one owner at a time, generations that only grow, and a durable  *)
(* snapshot that only the present owner changes.  SessionLease implements  *)
(* this specification.                                                     *)
(***************************************************************************)
EXTENDS Naturals

CONSTANTS Values,   \* snapshots an owner may save
          Initial,  \* the snapshot a new session starts from
          Absent    \* the key has no durable snapshot

VARIABLES owner,       \* generation of the present owner, 0 when there is none
          generation,  \* newest generation ever granted
          durable      \* the durable snapshot of the key

vars == <<owner, generation, durable>>

Init == owner = 0 /\ generation = 0 /\ durable \in Values \cup {Initial, Absent}

\* A free key is granted under a generation greater than every earlier one.
Grant == /\ owner = 0
         /\ generation' = generation + 1
         /\ owner' = generation'
         /\ UNCHANGED durable

\* Ownership ends; the next owner needs a new generation.
Yield == /\ owner # 0
         /\ owner' = 0
         /\ UNCHANGED <<generation, durable>>

\* Only the owner brings a snapshot into being, and it is the initial one.
Create == /\ owner # 0
          /\ durable = Absent
          /\ durable' = Initial
          /\ UNCHANGED <<owner, generation>>

\* Only the owner replaces the snapshot, and never one that was deleted.
Replace == /\ owner # 0
           /\ durable # Absent
           /\ durable' \in Values
           /\ UNCHANGED <<owner, generation>>

\* Only the owner deletes the snapshot.
Erase == /\ owner # 0
         /\ durable' = Absent
         /\ UNCHANGED <<owner, generation>>

Next == Grant \/ Yield \/ Create \/ Replace \/ Erase

Spec == Init /\ [][Next]_vars
=============================================================================
