--------------------- MODULE RecoveryPushBarrierProofs ---------------------
(***************************************************************************)
(* Proofs about RecoveryPushBarrier, and about its composition with the    *)
(* push registry, for any number of publishers, requests and pushes, and   *)
(* any limits of the queue.                                                *)
(***************************************************************************)
EXTENDS PushRegistry, Integers, FiniteSetTheorems, TLAPS

Places == {"idle", "direct", "submit", "begin", "dispatch", "finish", "reply", "replied", "failed",
           "drain", "hand", "abort", "close", "done"}

\* The part of the types that the argument uses.
Types ==
  /\ readers \subseteq Publishers
  /\ active \in Nat
  /\ queue \in Seq(Pushes) /\ hand \in Seq(Pushes) /\ queuedBytes \in Int
  /\ wire \in Seq(Ids \cup Requests)
  /\ pc \in [Threads -> Places]
  /\ push \in [Publishers -> [n : Nat, size : Nat]]
  /\ \A p \in Publishers : push[p].n <= MaxPushes[p] /\ (pc[p] # "idle" => push[p].n # 0)
  /\ returned \subseteq Ids /\ before \in [Ids -> SUBSET Ids]

\* Where a request holds or waits for orderMu, where it surely holds it, and
\* where it is counted in active.
Inside == {"begin", "finish", "abort", "reply", "replied", "failed", "drain", "hand"}
Granted == {"reply", "replied", "failed", "drain", "hand"}
Counted == {r \in Requests : pc[r] \in {"dispatch", "finish", "abort", "reply", "replied", "failed"}}

\* orderMu is a readers-writer lock: the goroutine inside is the one it names,
\* and there is no reader while the exclusive holder is past the grant.
LockInv ==
  /\ \A r \in Requests : pc[r] \in Inside <=> orderMu = r
  /\ \A r \in Requests : pc[r] \in Granted => readers = {}
  /\ pc[Shutdown] \in {"idle", "close", "done"} /\ (pc[Shutdown] = "close" <=> orderMu = Shutdown)
  /\ \A p \in Publishers : pc[p] \in {"idle", "direct", "submit"} /\ (pc[p] = "submit" <=> p \in readers)

\* On an open barrier active is the number of requests begun and not settled.
CountInv == IsFiniteSet(Counted) /\ (~closed => active = Cardinality(Counted))

\* A publisher that writes directly finds nothing held and nobody protected; the
\* drain runs when no request is counted; what is held is held for a reason.
GateInv ==
  /\ readers # {} => ~closed /\ ~Gated
  /\ ~closed /\ ~Gated => queue = <<>> /\ hand = <<>>
  /\ \A r \in Requests : pc[r] \in {"drain", "hand"} => draining /\ Counted = {}
  /\ \A r \in Requests : pc[r] = "hand" => Len(hand) = 1
  /\ (\A r \in Requests : pc[r] # "hand") => hand = <<>>

\* A publisher's numbers are used in order, the one of the push it is making last.
Seen == Written \cup Queued \cup Handed \cup returned
FreshInv ==
  \A i \in Ids : i \in Seen =>
    i[2] <= push[i[1]].n /\ (pc[i[1]] # "idle" => i[2] # push[i[1]].n)

\* What is handed or queued is not written yet, and everything it must follow is
\* written or ahead of it in the queue.
QueueInv ==
  /\ \A k \in DOMAIN hand : hand[k].id \notin Written /\ before[hand[k].id] \subseteq Written
  /\ \A k \in DOMAIN queue :
       /\ queue[k].id \notin Written \cup Handed
       /\ before[queue[k].id] \subseteq Written \cup Handed \cup {queue[i].id : i \in 1..(k - 1)}
       /\ \A i \in 1..(k - 1) : queue[i].id # queue[k].id

\* The queue keeps its limits, and its bytes are counted exactly.
LimitsInv ==
  /\ Len(queue) <= MaxCount /\ queuedBytes <= MaxBytes
  /\ IsFiniteSet(HeldBytes) /\ queuedBytes = Cardinality(HeldBytes)

\* What a push must follow had been accepted.
BeforeInv == \A i \in Ids : before[i] \subseteq returned

BarrierInv ==
  /\ Types /\ LockInv /\ CountInv /\ GateInv /\ FreshInv /\ QueueInv /\ BeforeInv
  /\ NoOvertaking /\ AcceptedNotLost /\ LimitsInv

-----------------------------------------------------------------------------
(* Pushes and sequences of them *)

\* The names of pushes are the pairs of a publisher and one of its numbers.
LEMMA IdParts ==
  ASSUME NEW i \in Ids
  PROVE  i[1] \in Publishers /\ i[2] \in 1..MaxPushes[i[1]] /\ i = <<i[1], i[2]>>
BY DEF Ids

\* A publisher and one of its numbers name a push.
LEMMA IdPair ==
  ASSUME NEW p \in Publishers, NEW k \in 1..MaxPushes[p]
  PROVE  <<p, k>> \in Ids
BY DEF Ids

\* What a sequence holds after an append, and before its head is taken.
LEMMA AppendIds ==
  ASSUME NEW q \in Seq(Pushes), NEW m \in Pushes
  PROVE  {Append(q, m)[i].id : i \in DOMAIN Append(q, m)} = {q[i].id : i \in DOMAIN q} \cup {m.id}
BY SMTT(30)

\* Taking the head takes one name.
LEMMA TailIds ==
  ASSUME NEW q \in Seq(Pushes), q # <<>>
  PROVE  {q[i].id : i \in DOMAIN q} = {Head(q).id} \cup {Tail(q)[i].id : i \in DOMAIN Tail(q)}
<1> DEFINE T == {Tail(q)[i].id : i \in DOMAIN Tail(q)}
<1>1. ASSUME NEW i \in DOMAIN q PROVE q[i].id \in {Head(q).id} \cup T
  <2>1. CASE i = 1
    BY <2>1
  <2>2. CASE i # 1
    <3>1. i - 1 \in DOMAIN Tail(q) /\ Tail(q)[i - 1] = q[i]
      BY <2>2
    <3> QED BY <3>1
  <2> QED BY <2>1, <2>2
<1>2. ASSUME NEW i \in DOMAIN Tail(q) PROVE Tail(q)[i].id \in {q[j].id : j \in DOMAIN q}
  <2>1. i + 1 \in DOMAIN q /\ Tail(q)[i] = q[i + 1]
    OBVIOUS
  <2> QED BY <2>1
<1>3. Head(q).id \in {q[j].id : j \in DOMAIN q}
  <2>1. 1 \in DOMAIN q /\ Head(q) = q[1]
    OBVIOUS
  <2> QED BY <2>1
<1> QED BY Zenon, <1>1, <1>2, <1>3

\* An append adds one element.
LEMMA AppendElements ==
  ASSUME NEW S, NEW w \in Seq(S), NEW x \in S
  PROVE  /\ Append(w, x) \in Seq(S)
         /\ {Append(w, x)[i] : i \in DOMAIN Append(w, x)} = {w[i] : i \in DOMAIN w} \cup {x}
<1> DEFINE a == Append(w, x)
<1>1. /\ a \in Seq(S) /\ DOMAIN a = DOMAIN w \cup {Len(w) + 1} /\ a[Len(w) + 1] = x
      /\ \A i \in DOMAIN w : a[i] = w[i]
  OBVIOUS
<1> HIDE DEF a
<1> QED BY <1>1

\* The bytes of one push.
LEMMA PushBytes ==
  ASSUME NEW m \in Pushes
  PROVE  IsFiniteSet({m.id} \X (1..m.size)) /\ Cardinality({m.id} \X (1..m.size)) = m.size
<1>1. m.size \in Nat
  BY DEF Pushes
<1>2. IsFiniteSet(1..m.size) /\ Cardinality(1..m.size) = m.size
  <2>1. IsFiniteSet(1..m.size) /\ Cardinality(1..m.size) = IF 1 > m.size THEN 0 ELSE m.size - 1 + 1
    <3>1. m.size \in Int /\ 1 \in Int
      BY <1>1
    <3> QED BY Zenon, <3>1, FS_Interval
  <2> QED BY <2>1, <1>1
<1>3. IsFiniteSet({m.id}) /\ Cardinality({m.id}) = 1
  BY Zenon, FS_Singleton
<1>4. /\ IsFiniteSet({m.id} \X (1..m.size))
      /\ Cardinality({m.id} \X (1..m.size)) = Cardinality({m.id}) * Cardinality(1..m.size)
  BY Zenon, <1>2, <1>3, FS_Product
<1> QED BY <1>1, <1>2, <1>3, <1>4

\* A push whose name is not in the set adds its bytes to those of the set.
LEMMA BytesSum ==
  ASSUME NEW m \in Pushes, NEW B, IsFiniteSet(B), \A x \in B : x[1] # m.id
  PROVE  /\ IsFiniteSet(B \cup ({m.id} \X (1..m.size)))
         /\ Cardinality(B \cup ({m.id} \X (1..m.size))) = Cardinality(B) + m.size
<1> DEFINE C == {m.id} \X (1..m.size)
<1>1. IsFiniteSet(C) /\ Cardinality(C) = m.size /\ m.size \in Nat
  BY PushBytes DEF Pushes
<1>2. B \cap C = {}
  OBVIOUS
<1> HIDE DEF C
<1>3. /\ IsFiniteSet(B \cup C)
      /\ Cardinality(B \cup C) = Cardinality(B) + Cardinality(C) - Cardinality(B \cap C)
  BY Zenon, <1>1, FS_Union
<1>4. Cardinality(B) \in Nat /\ Cardinality(B \cap C) = 0
  BY Zenon, <1>2, FS_EmptySet, FS_CardinalityType
<1> QED BY <1>1, <1>3, <1>4 DEF C

\* The bytes of a queue of pushes.
BytesOf(q) == UNION {{q[i].id} \X (1..q[i].size) : i \in DOMAIN q}

\* An append adds the bytes of the new push.
LEMMA BytesAppend ==
  ASSUME NEW q \in Seq(Pushes), NEW m \in Pushes, IsFiniteSet(BytesOf(q)), m.id \notin {q[i].id : i \in DOMAIN q}
  PROVE  /\ IsFiniteSet(BytesOf(Append(q, m)))
         /\ Cardinality(BytesOf(Append(q, m))) = Cardinality(BytesOf(q)) + m.size
<1> DEFINE a == Append(q, m)
<1>1. /\ DOMAIN a = DOMAIN q \cup {Len(q) + 1} /\ a[Len(q) + 1] = m
      /\ \A i \in DOMAIN q : a[i] = q[i]
  OBVIOUS
<1> HIDE DEF a
<1>2. BytesOf(a) = BytesOf(q) \cup ({m.id} \X (1..m.size))
  BY <1>1 DEF BytesOf
<1>3. \A x \in BytesOf(q) : x[1] # m.id
  BY DEF BytesOf
<1> QED BY <1>2, <1>3, BytesSum DEF a

\* Taking the head removes its bytes.
LEMMA BytesTail ==
  ASSUME NEW q \in Seq(Pushes), q # <<>>, IsFiniteSet(BytesOf(q)),
         Head(q).id \notin {Tail(q)[i].id : i \in DOMAIN Tail(q)}
  PROVE  /\ IsFiniteSet(BytesOf(Tail(q)))
         /\ Cardinality(BytesOf(q)) = Cardinality(BytesOf(Tail(q))) + Head(q).size
<1> DEFINE t == Tail(q)
           h == Head(q)
<1>1. /\ h \in Pushes /\ h = q[1] /\ 1 \in DOMAIN q
      /\ \A i \in DOMAIN t : i + 1 \in DOMAIN q /\ t[i] = q[i + 1]
      /\ \A i \in DOMAIN q : i # 1 => i - 1 \in DOMAIN t /\ q[i] = t[i - 1]
  OBVIOUS
<1>2. h.id \notin {t[i].id : i \in DOMAIN t}
  OBVIOUS
<1> HIDE DEF t, h
<1>3. BytesOf(q) = BytesOf(t) \cup ({h.id} \X (1..h.size))
  BY <1>1 DEF BytesOf
<1>4. \A x \in BytesOf(t) : x[1] # h.id
  BY <1>2 DEF BytesOf
<1>5. IsFiniteSet(BytesOf(t))
  BY <1>3, FS_Subset
<1> QED BY Zenon, <1>1, <1>3, <1>4, <1>5, BytesSum DEF t, h

\* The invariant holds initially.
LEMMA InitBarrierInv == Init => BarrierInv
<1> SUFFICES ASSUME Init PROVE BarrierInv
  OBVIOUS
<1>1. Types
  <2>1. queue \in Seq(Pushes) /\ hand \in Seq(Pushes) /\ wire \in Seq(Ids \cup Requests)
    BY DEF Init
  <2>2. push \in [Publishers -> [n : Nat, size : Nat]] /\ \A p \in Publishers : push[p].n = 0 /\ pc[p] = "idle"
    BY DEF Init, Threads
  <2>3. pc \in [Threads -> Places]
    BY DEF Init, Places
  <2>4. before \in [Ids -> SUBSET Ids]
    BY DEF Init
  <2>5. \A p \in Publishers : push[p].n <= MaxPushes[p] /\ (pc[p] # "idle" => push[p].n # 0)
    BY <2>2, BarrierAssumption
  <2>6. /\ readers \subseteq Publishers /\ active \in Nat /\ queuedBytes \in Int
        /\ returned \subseteq Ids
    BY DEF Init
  <2> QED BY Zenon, <2>1, <2>2, <2>3, <2>4, <2>5, <2>6 DEF Types
<1>2. LockInv
  BY BarrierAssumption DEF Init, LockInv, Threads, Inside, Granted
<1>3. Counted = {}
  BY DEF Init, Counted, Threads
<1>4. CountInv
  BY <1>3, FS_EmptySet DEF Init, CountInv
<1>5. GateInv
  BY <1>3 DEF Init, GateInv, Threads
<1>6. Written = {} /\ Queued = {} /\ Handed = {} /\ returned = {}
  BY DEF Init, Written, Queued, Handed
<1>7. FreshInv /\ AcceptedNotLost
  BY <1>6 DEF FreshInv, Seen, AcceptedNotLost
<1>8. QueueInv /\ NoOvertaking /\ BeforeInv
  BY SMTT(30), BarrierAssumption DEF Init, QueueInv, NoOvertaking, BeforeInv
<1>9. LimitsInv
  <2>1. HeldBytes = {}
    BY DEF Init, HeldBytes
  <2> QED BY <2>1, BarrierAssumption, FS_EmptySet DEF Init, LimitsInv
<1> QED
  BY <1>1, <1>2, <1>4, <1>5, <1>7, <1>8, <1>9 DEF BarrierInv

-----------------------------------------------------------------------------
(* What a move of a request, or of the shutdown, keeps *)

\* Only the mover's place changes.
LEMMA Moves ==
  ASSUME Types, NEW t \in Threads, NEW to \in Places, pc' = [pc EXCEPT ![t] = to]
  PROVE  /\ pc' \in [Threads -> Places] /\ pc'[t] = to
         /\ \A u \in Threads : u # t => pc'[u] = pc[u]
BY DEF Types

\* Publishers, requests and the shutdown are different goroutines.
LEMMA Kinds ==
  /\ \A p \in Publishers : p \in Threads /\ p \notin Requests /\ p # Shutdown
  /\ \A r \in Requests : r \in Threads /\ r \notin Publishers /\ r # Shutdown /\ r # Nobody
  /\ Shutdown \in Threads /\ Shutdown # Nobody
BY BarrierAssumption DEF Threads

\* A request or the shutdown moves on: the publishers stay where they are.
LEMMA TypesMove ==
  ASSUME Types, NEW t \in Requests \cup {Shutdown}, NEW to \in Places, pc' = [pc EXCEPT ![t] = to],
         UNCHANGED <<readers, push, returned, before>>,
         active' \in Nat, queue' \in Seq(Pushes), hand' \in Seq(Pushes), queuedBytes' \in Int,
         wire' \in Seq(Ids \cup Requests)
  PROVE  Types' /\ \A p \in Publishers : pc'[p] = pc[p]
<1>1. t \in Threads /\ \A p \in Publishers : p \in Threads /\ p # t
  BY Zenon, Kinds
<1>2. pc' \in [Threads -> Places] /\ \A p \in Publishers : pc'[p] = pc[p]
  BY Zenon, <1>1, Moves
<1> QED BY <1>2 DEF Types

\* Nobody else is inside when the lock is free or held by the mover.
LEMMA Alone ==
  ASSUME LockInv, NEW t \in Requests \cup {Shutdown}, orderMu \in {t, Nobody}
  PROVE  \A r \in Requests : r # t => pc[r] \notin Inside
BY Kinds DEF LockInv

\* The mover takes, keeps or gives up the lock.
LEMMA LockMove ==
  ASSUME Types, LockInv, NEW t \in Requests \cup {Shutdown}, NEW to \in Places,
         pc' = [pc EXCEPT ![t] = to], readers' = readers, orderMu \in {t, Nobody},
         orderMu' = IF to \in Inside \cup {"close"} THEN t ELSE Nobody,
         to \in Granted => readers = {},
         IF t = Shutdown THEN to \in {"close", "done"} ELSE to # "close"
  PROVE  LockInv'
<1>1. t \in Threads /\ pc'[t] = to /\ \A u \in Threads : u # t => pc'[u] = pc[u]
  BY Zenon, Moves, Kinds
<1>2. \A r \in Requests : r # t => pc[r] \notin Inside
  BY Alone
<1>3. \A r \in Requests : pc'[r] \in Inside <=> orderMu' = r
  BY <1>1, <1>2, Kinds DEF Inside
<1>4. \A r \in Requests : pc'[r] \in Granted => readers' = {}
  BY <1>1, Kinds DEF LockInv
<1>5. pc'[Shutdown] \in {"idle", "close", "done"} /\ (pc'[Shutdown] = "close" <=> orderMu' = Shutdown)
  BY <1>1, Kinds DEF LockInv, Inside
<1>6. \A p \in Publishers : pc'[p] = pc[p]
  BY <1>1, Kinds
<1> QED BY ZenonT(40), <1>3, <1>4, <1>5, <1>6 DEF LockInv

\* What the move of t keeps of the gate.
LEMMA GateMove ==
  ASSUME Types, LockInv, GateInv, NEW t \in Requests \cup {Shutdown}, NEW to \in Places,
         pc' = [pc EXCEPT ![t] = to], readers' = readers, orderMu \in {t, Nobody},
         readers = {} \/ UNCHANGED <<closed, active, draining>>,
         ~closed' /\ ~Gated' => queue' = <<>> /\ hand' = <<>>,
         to \in {"drain", "hand"} => draining' /\ Counted' = {},
         IF to = "hand" THEN Len(hand') = 1 /\ t # Shutdown ELSE hand' = <<>>
  PROVE  GateInv'
<1>1. t \in Threads /\ pc'[t] = to /\ \A u \in Threads : u # t => pc'[u] = pc[u]
  BY Zenon, Moves, Kinds
<1>2. \A r \in Requests : r # t => pc'[r] \notin {"drain", "hand"}
  BY <1>1, Alone, Kinds DEF Inside
<1>3. \A r \in Requests : pc'[r] \in {"drain", "hand"} => draining' /\ Counted' = {}
  BY <1>1, <1>2
<1>4. \A r \in Requests : pc'[r] = "hand" => Len(hand') = 1
  BY <1>1, <1>2
<1>5. (\A r \in Requests : pc'[r] # "hand") => hand' = <<>>
  BY <1>1
<1>6. readers' # {} => ~closed' /\ ~Gated'
  BY DEF GateInv, Gated
<1> QED BY Zenon, <1>3, <1>4, <1>5, <1>6 DEF GateInv

\* How a move changes the set of counted requests.
LEMMA CountMove ==
  ASSUME Types, NEW r \in Requests, NEW to \in Places, pc' = [pc EXCEPT ![r] = to]
  PROVE  Counted' = IF to \in {"dispatch", "finish", "abort", "reply", "replied", "failed"}
                    THEN Counted \cup {r} ELSE Counted \ {r}
<1>1. pc'[r] = to /\ \A u \in Requests : u # r => pc'[u] = pc[u]
  BY Zenon, Moves, Kinds
<1> QED BY <1>1 DEF Counted

\* A move into or out of the places where a request is not counted, or between
\* counted ones, keeps the count; so does any move when the barrier is closed.
LEMMA CountKept ==
  ASSUME Types, CountInv, NEW r \in Requests, NEW to \in Places, pc' = [pc EXCEPT ![r] = to],
         closed' \/ (~closed /\ active' = active /\ Counted' = Counted)
  PROVE  CountInv'
<1>1. IsFiniteSet(Counted \cup {r}) /\ IsFiniteSet(Counted \ {r})
  BY FS_AddElement, FS_RemoveElement DEF CountInv
<1>2. Counted' = Counted \cup {r} \/ Counted' = Counted \ {r}
  BY Zenon, CountMove
<1>3. IsFiniteSet(Counted')
  BY Zenon, <1>1, <1>2
<1> QED BY <1>3 DEF CountInv

\* The shutdown is not a request.
LEMMA CountShutdown ==
  ASSUME Types, CountInv, NEW to \in Places, pc' = [pc EXCEPT ![Shutdown] = to],
         closed' \/ UNCHANGED <<closed, active>>
  PROVE  Counted' = Counted /\ CountInv'
<1>1. Counted' = Counted
  <2>1. \A r \in Requests : pc'[r] = pc[r]
    BY Zenon, Moves, Kinds
  <2> QED BY <2>1 DEF Counted
<1> QED BY <1>1 DEF CountInv

-----------------------------------------------------------------------------
(* What happens to the pushes *)

\* What is written, queued and handed, and in which order.
Content == FreshInv /\ QueueInv /\ BeforeInv /\ NoOvertaking /\ AcceptedNotLost

\* What is queued, handed or written is known.
LEMMA Known ==
  ASSUME Types
  PROVE  /\ \A k \in DOMAIN queue : queue[k].id \in Ids \cap Seen
         /\ \A k \in DOMAIN hand : hand[k].id \in Ids \cap Seen
         /\ \A k \in DOMAIN wire : wire[k] \in Seen
<1>1. ASSUME NEW q \in Seq(Pushes), NEW k \in DOMAIN q PROVE q[k].id \in Ids
  <2>1. q[k] \in Pushes
    OBVIOUS
  <2> QED BY <2>1 DEF Pushes
<1>2. queue \in Seq(Pushes) /\ hand \in Seq(Pushes)
  BY DEF Types
<1> QED BY <1>1, <1>2 DEF Seen, Written, Queued, Handed

\* Nothing happens to the pushes that are queued, handed or written.
LEMMA ContentSame ==
  ASSUME Types, Content, UNCHANGED <<queue, hand, wire, returned>>, closed' \/ ~closed,
         FreshInv', BeforeInv', \A i \in Ids \cap Seen : before'[i] = before[i]
  PROVE  Content'
<1>1. UNCHANGED <<Written, Queued, Handed>>
  BY DEF Written, Queued, Handed
<1>2. /\ \A k \in DOMAIN queue : queue[k].id \in Ids \cap Seen
      /\ \A k \in DOMAIN hand : hand[k].id \in Ids \cap Seen
      /\ \A k \in DOMAIN wire : wire[k] \in Seen
  BY Known
<1>3. QueueInv'
  BY SMTT(30), <1>1, <1>2 DEF Content, QueueInv
<1>4. NoOvertaking'
  BY <1>2 DEF Content, NoOvertaking
<1>5. AcceptedNotLost'
  BY <1>1 DEF Content, AcceptedNotLost
<1> QED BY Zenon, <1>3, <1>4, <1>5 DEF Content

\* A request moves, and nothing happens to any push.
LEMMA ContentKept ==
  ASSUME Types, Content, UNCHANGED <<queue, hand, wire, push, returned, before>>, closed' \/ ~closed,
         \A p \in Publishers : pc'[p] = pc[p]
  PROVE  Content'
<1>1. Seen' = Seen
  BY DEF Seen, Written, Queued, Handed
<1>2. FreshInv'
  BY <1>1, IdParts DEF Content, FreshInv
<1>3. BeforeInv'
  BY DEF Content, BeforeInv
<1> QED BY Zenon, <1>2, <1>3, ContentSame

\* The barrier closes and drops what is queued, and perhaps what is handed.
LEMMA ContentDropped ==
  ASSUME Types, Content, closed', queue' = <<>>, hand' \in {hand, <<>>}, UNCHANGED <<wire, returned>>,
         FreshInv', BeforeInv', \A i \in Ids \cap Seen : before'[i] = before[i]
  PROVE  Content'
<1>1. Written' = Written
  BY DEF Written
<1>2. (\A k \in DOMAIN hand : hand[k].id \in Ids \cap Seen) /\ (\A k \in DOMAIN wire : wire[k] \in Seen)
  BY Known
<1>3. \A k \in DOMAIN hand' : hand'[k].id \notin Written' /\ before'[hand'[k].id] \subseteq Written'
  BY <1>1, <1>2 DEF Content, QueueInv
<1>4. QueueInv'
  BY <1>3 DEF QueueInv
<1>5. NoOvertaking'
  BY <1>2 DEF Content, NoOvertaking
<1>6. AcceptedNotLost'
  BY DEF AcceptedNotLost
<1> QED BY Zenon, <1>4, <1>5, <1>6 DEF Content

\* A request closes the barrier: everybody's names stay used in order.
LEMMA ContentClosed ==
  ASSUME Types, Content, closed', queue' = <<>>, hand' \in {hand, <<>>},
         UNCHANGED <<wire, push, returned, before>>, \A p \in Publishers : pc'[p] = pc[p]
  PROVE  Content'
<1>1. Seen' \subseteq Seen
  BY DEF Seen, Written, Queued, Handed
<1>2. FreshInv'
  BY <1>1, IdParts DEF Content, FreshInv
<1>3. BeforeInv'
  BY DEF Content, BeforeInv
<1> QED BY Zenon, <1>2, <1>3, ContentDropped

\* The push of p is the only one that may become known, under its latest number.
LEMMA FreshPush ==
  ASSUME Types, FreshInv, NEW p \in Publishers, push'[p].n \in Nat, push[p].n <= push'[p].n,
         \A d \in Publishers : d # p => pc'[d] = pc[d] /\ push'[d] = push[d],
         Seen' \subseteq Seen \cup {<<p, push'[p].n>>},
         pc'[p] # "idle" => Seen' \subseteq Seen /\ (push[p].n < push'[p].n \/ pc[p] # "idle")
  PROVE  FreshInv'
<1>1. \A d \in Publishers : push[d].n \in Nat
  BY Zenon DEF Types
<1> SUFFICES ASSUME NEW i \in Ids, i \in Seen'
             PROVE  i[2] <= push'[i[1]].n /\ (pc'[i[1]] # "idle" => i[2] # push'[i[1]].n)
  BY DEF FreshInv
<1>2. i[1] \in Publishers /\ i[2] \in Nat /\ i = <<i[1], i[2]>>
  BY IdParts
<1>3. CASE i \in Seen
  <2>1. i[2] <= push[i[1]].n /\ (pc[i[1]] # "idle" => i[2] # push[i[1]].n)
    BY <1>3 DEF FreshInv
  <2>2. CASE i[1] = p
    BY SMTT(30), <2>1, <2>2, <1>1, <1>2
  <2>3. CASE i[1] # p
    BY Zenon, <2>1, <2>3, <1>2
  <2> QED BY Zenon, <2>2, <2>3
<1>4. CASE i \notin Seen
  <2>1. i = <<p, push'[p].n>> /\ pc'[p] = "idle"
    BY <1>4
  <2> QED BY <2>1
<1> QED BY Zenon, <1>3, <1>4

-----------------------------------------------------------------------------
(* push *)

\* The push a publisher makes has a name, one nobody has seen yet.
LEMMA MineIsPush ==
  ASSUME Types, FreshInv, NEW p \in Publishers, pc[p] # "idle"
  PROVE  /\ Mine(p) \in Pushes /\ Mine(p).id = <<p, push[p].n>> /\ Mine(p).id \in Ids
         /\ Mine(p).id \notin Seen
<1>1. push[p].n \in 1..MaxPushes[p] /\ push[p].size \in Nat
  BY BarrierAssumption DEF Types
<1>2. <<p, push[p].n>> \in Ids
  BY Zenon, <1>1, IdPair
<1>3. Mine(p) \in Pushes /\ Mine(p).id = <<p, push[p].n>>
  BY <1>1, <1>2 DEF Mine, Pushes
<1>4. <<p, push[p].n>> \notin Seen
  BY <1>2 DEF FreshInv
<1> QED BY Zenon, <1>2, <1>3, <1>4

\* A call of push takes the publisher's next number.
LEMMA CallIsPush ==
  ASSUME Types, FreshInv, NEW p \in Publishers, NEW size \in Sizes[p], push[p].n < MaxPushes[p]
  PROVE  /\ [id |-> <<p, push[p].n + 1>>, size |-> size] \in Pushes
         /\ <<p, push[p].n + 1>> \in Ids /\ <<p, push[p].n + 1>> \notin Seen
         /\ push[p].n \in Nat /\ size \in Nat
<1>1. push[p].n \in Nat /\ MaxPushes[p] \in Nat /\ size \in Nat
  BY BarrierAssumption DEF Types
<1>2. <<p, push[p].n + 1>> \in Ids
  BY SMTT(30), <1>1, IdPair
<1>3. <<p, push[p].n + 1>> \notin Seen
  BY <1>1, <1>2 DEF FreshInv
<1> QED BY Zenon, <1>1, <1>2, <1>3 DEF Pushes

\* Hold either closes the barrier or appends within the limits.
LEMMA HoldCases ==
  ASSUME NEW m, Hold(m)
  PROVE  \/ closed' /\ queue' = <<>> /\ queuedBytes' = 0 /\ returned' = returned
         \/ /\ ~(Len(queue) >= MaxCount) /\ ~(m.size > MaxBytes - queuedBytes)
            /\ queue' = Append(queue, m) /\ queuedBytes' = queuedBytes + m.size
            /\ returned' = returned \cup {m.id} /\ closed' = closed
BY Zenon DEF Hold, CloseLocked

\* The queue stays a queue of pushes within its limits, its bytes counted.
LEMMA HoldTypes ==
  ASSUME Types, LimitsInv, NEW m \in Pushes, m.id \in Ids, m.id \notin Seen, Hold(m)
  PROVE  /\ queue' \in Seq(Pushes) /\ queuedBytes' \in Int /\ returned' \subseteq Ids
         /\ LimitsInv'
<1>1. m.size \in Nat /\ queue \in Seq(Pushes) /\ queuedBytes \in Int /\ returned \subseteq Ids
  BY DEF Pushes, Types
<1>2. MaxCount \in Nat /\ MaxBytes \in Nat
  BY BarrierAssumption
<1>3. CASE queue' = <<>> /\ queuedBytes' = 0 /\ returned' = returned
  <2>1. HeldBytes' = {}
    BY SMTT(30), <1>3 DEF HeldBytes
  <2> QED BY SMTT(30), <1>1, <1>2, <1>3, <2>1, FS_EmptySet DEF LimitsInv
<1>4. CASE /\ ~(Len(queue) >= MaxCount) /\ ~(m.size > MaxBytes - queuedBytes)
           /\ queue' = Append(queue, m) /\ queuedBytes' = queuedBytes + m.size
           /\ returned' = returned \cup {m.id}
  <2>1. queue' \in Seq(Pushes) /\ Len(queue') = Len(queue) + 1 /\ Len(queue) \in Nat
    BY SMTT(30), <1>1, <1>4
  <2>2. HeldBytes = BytesOf(queue) /\ HeldBytes' = BytesOf(Append(queue, m))
    BY <1>4 DEF HeldBytes, BytesOf
  <2>3. m.id \notin {queue[i].id : i \in DOMAIN queue}
    BY DEF Seen, Queued
  <2>4. IsFiniteSet(HeldBytes') /\ Cardinality(HeldBytes') = Cardinality(HeldBytes) + m.size
    BY Zenon, <1>1, <2>2, <2>3, BytesAppend DEF LimitsInv
  <2> QED BY SMTT(30), <1>1, <1>2, <1>4, <2>1, <2>4 DEF LimitsInv
<1> QED BY ZenonT(40), <1>3, <1>4, HoldCases

\* What is known after Hold.
LEMMA HoldSeen ==
  ASSUME Types, NEW m \in Pushes, Hold(m), UNCHANGED <<hand, wire>>
  PROVE  Seen' \subseteq Seen \cup {m.id}
<1>1. queue \in Seq(Pushes)
  BY DEF Types
<1>2. Written' = Written /\ Handed' = Handed
  BY DEF Written, Handed
<1>3. Queued' = {} \/ Queued' = Queued \cup {m.id}
  <2>1. CASE queue' = <<>>
    BY SMTT(30), <2>1 DEF Queued
  <2>2. CASE queue' = Append(queue, m)
    BY SMTT(30), <2>2, <1>1, AppendIds DEF Queued
  <2> QED BY ZenonT(40), <2>1, <2>2, HoldCases
<1>4. returned' \subseteq returned \cup {m.id}
  <2>1. returned' = returned \/ returned' = returned \cup {m.id}
    BY Zenon, HoldCases
  <2> QED BY <2>1
<1> QED BY Zenon, <1>2, <1>3, <1>4 DEF Seen

\* A push that is held goes behind everything it must follow.
LEMMA HoldContent ==
  ASSUME Types, Content, ~closed, NEW m \in Pushes, Hold(m), m.id \notin Seen,
         UNCHANGED <<hand, wire>>, FreshInv', BeforeInv',
         before'[m.id] \subseteq returned, \A i \in Ids \cap Seen : before'[i] = before[i]
  PROVE  Content'
<1>1. queue \in Seq(Pushes)
  BY DEF Types
<1>2. CASE closed' /\ queue' = <<>> /\ returned' = returned
  BY <1>2, ContentDropped
<1>3. CASE queue' = Append(queue, m) /\ returned' = returned \cup {m.id}
  <2>1. Written' = Written /\ Handed' = Handed /\ Queued' = Queued \cup {m.id}
    BY SMTT(30), <1>1, <1>3, AppendIds DEF Written, Handed, Queued
  <2>2. /\ \A k \in DOMAIN queue : queue[k].id \in Ids \cap Seen
        /\ \A k \in DOMAIN hand : hand[k].id \in Ids \cap Seen
        /\ \A k \in DOMAIN wire : wire[k] \in Seen
    BY Zenon, Known
  <2>3. NoOvertaking'
    BY SMTT(30), <2>2 DEF Content, NoOvertaking
  <2>4. returned \subseteq Written \cup Queued \cup Handed
    BY Zenon DEF Content, AcceptedNotLost
  <2>5. AcceptedNotLost'
    BY Zenon, <2>1, <2>4, <1>3 DEF AcceptedNotLost
  <2>6. \A k \in DOMAIN hand' : hand'[k].id \notin Written' /\ before'[hand'[k].id] \subseteq Written'
    BY Zenon, <2>1, <2>2 DEF Content, QueueInv
  <2>7. /\ DOMAIN queue' = 1..(Len(queue) + 1) /\ Len(queue) \in Nat /\ DOMAIN queue = 1..Len(queue)
        /\ queue'[Len(queue) + 1] = m /\ \A k \in 1..Len(queue) : queue'[k] = queue[k]
    BY SMTT(30), <1>1, <1>3
  <2>8. ASSUME NEW k \in DOMAIN queue'
        PROVE  /\ queue'[k].id \notin Written' \cup Handed'
               /\ before'[queue'[k].id] \subseteq Written' \cup Handed' \cup {queue'[i].id : i \in 1..(k - 1)}
               /\ \A i \in 1..(k - 1) : queue'[i].id # queue'[k].id
    <3>1. CASE k = Len(queue) + 1
      <4>1. {queue'[i].id : i \in 1..(k - 1)} = Queued /\ queue'[k] = m
        BY SMTT(30), <3>1, <2>7 DEF Queued
      <4>2. \A i \in 1..(k - 1) : queue'[i].id \in Queued
        BY <4>1
      <4>3. m.id \notin Written /\ m.id \notin Handed /\ m.id \notin Queued
        BY Zenon DEF Seen
      <4> QED BY ZenonT(40), <4>1, <4>2, <4>3, <2>1, <2>4
    <3>2. CASE k # Len(queue) + 1
      <4>1. k \in DOMAIN queue /\ queue'[k] = queue[k] /\ \A i \in 1..(k - 1) : queue'[i] = queue[i]
        BY SMTT(30), <3>2, <2>7
      <4>2. before'[queue'[k].id] = before[queue[k].id]
        BY Zenon, <4>1, <2>2
      <4>3. {queue'[i].id : i \in 1..(k - 1)} = {queue[i].id : i \in 1..(k - 1)}
        BY Zenon, <4>1
      <4> QED BY ZenonT(40), <4>1, <4>2, <4>3, <2>1 DEF Content, QueueInv
    <3> QED BY Zenon, <3>1, <3>2
  <2>9. QueueInv'
    BY Zenon, <2>6, <2>8 DEF QueueInv
  <2> QED BY ZenonT(40), <2>3, <2>5, <2>9 DEF Content
<1> QED BY Zenon, <1>2, <1>3, HoldCases

\* What the move of a publisher keeps of the lock, the count and the gate.
LEMMA PublisherMove ==
  ASSUME Types, LockInv, CountInv, GateInv, NEW p \in Publishers, NEW to \in {"idle", "direct", "submit"},
         pc'[p] = to, \A u \in Threads : u # p => pc'[u] = pc[u],
         UNCHANGED <<orderMu, active, draining, hand>>,
         readers' = IF to = "submit" THEN readers \cup {p} ELSE readers \ {p},
         to = "submit" => orderMu = Nobody /\ ~closed /\ ~Gated,
         \/ UNCHANGED <<closed, queue>>
         \/ Gated /\ ~closed /\ to # "submit"
  PROVE  LockInv' /\ CountInv' /\ GateInv'
<1>1. \A r \in Requests : pc'[r] = pc[r]
  BY Zenon, Kinds
<1>2. Counted' = Counted
  BY Zenon, <1>1 DEF Counted
<1>3. Gated' = Gated
  BY DEF Gated
<1>4. pc'[Shutdown] = pc[Shutdown]
  BY ZenonT(40), Kinds
<1>5. \A r \in Requests : pc'[r] \in Granted => readers' = {}
  <2>1. \A r \in Requests : pc[r] \in Granted => readers = {} /\ orderMu # Nobody
    BY ZenonT(40), Kinds DEF LockInv, Inside, Granted
  <2> QED BY Zenon, <1>1, <2>1
<1>6. \A d \in Publishers : pc'[d] \in {"idle", "direct", "submit"} /\ (pc'[d] = "submit" <=> d \in readers')
  <2>1. \A d \in Publishers : d # p => pc'[d] = pc[d]
    BY Zenon, Kinds
  <2> QED BY <2>1 DEF LockInv
<1>7. LockInv'
  BY ZenonT(40), <1>1, <1>4, <1>5, <1>6 DEF LockInv
<1>8. closed' \/ closed' = closed \/ (Gated /\ ~closed)
  BY Zenon
<1>9. CountInv'
  BY Zenon, <1>2, <1>8 DEF CountInv
<1>10. readers' # {} => ~closed' /\ ~Gated'
  <2>1. readers' # {} => readers # {} \/ to = "submit"
    OBVIOUS
  <2> QED BY Zenon, <2>1, <1>3 DEF GateInv
<1>11. ~closed' /\ ~Gated' => queue' = <<>> /\ hand' = <<>>
  BY Zenon, <1>3 DEF GateInv
<1>12. GateInv'
  BY Zenon, <1>1, <1>2, <1>10, <1>11 DEF GateInv
<1> QED BY <1>7, <1>9, <1>12

\* The parts of the invariant, named for the steps below.
LEMMA Parts ==
  BarrierInv <=> Types /\ LockInv /\ CountInv /\ GateInv /\ Content /\ LimitsInv
BY Zenon DEF BarrierInv, Content

LEMMA PartsNext ==
  ASSUME Types', LockInv', CountInv', GateInv', Content', LimitsInv'
  PROVE  BarrierInv'
BY Zenon DEF BarrierInv, Content

LEMMA PushCallStep ==
  ASSUME BarrierInv, NEW p \in Publishers, NEW size \in Sizes[p], PushCall(p, size)
  PROVE  BarrierInv'
<1>p. Types /\ LockInv /\ CountInv /\ GateInv /\ Content /\ LimitsInv /\ FreshInv /\ BeforeInv
  BY Zenon, Parts DEF Content
<1> DEFINE m == [id |-> <<p, push[p].n + 1>>, size |-> size]
<1>1. /\ pc[p] = "idle" /\ push[p].n < MaxPushes[p]
      /\ push' = [push EXCEPT ![p] = [n |-> push[p].n + 1, size |-> size]]
      /\ before' = [before EXCEPT ![<<p, push[p].n + 1>>] = returned]
      /\ UNCHANGED <<orderMu, readers, active, draining, hand, wire>>
  BY ZenonT(40) DEF PushCall
<1>2. m \in Pushes /\ m.id = <<p, push[p].n + 1>> /\ m.id \in Ids /\ m.id \notin Seen
      /\ push[p].n \in Nat /\ size \in Nat
  BY Zenon, <1>p, <1>1, CallIsPush
<1>3. \/ closed /\ UNCHANGED <<pc, closed, queue, queuedBytes, returned>>
      \/ ~closed /\ Gated /\ Hold(m) /\ UNCHANGED pc
      \/ ~closed /\ ~Gated /\ pc' = [pc EXCEPT ![p] = "direct"] /\ UNCHANGED <<closed, queue, queuedBytes, returned>>
  BY ZenonT(40) DEF PushCall, Goto
<1> HIDE DEF m
<1>4. p \in Threads /\ \A u \in Threads : u # p => pc'[u] = pc[u]
  BY Zenon, <1>3, <1>p, Kinds DEF Types
<1>5. pc'[p] \in {"idle", "direct"} /\ (pc'[p] # "idle" => UNCHANGED <<closed, queue, queuedBytes, returned>>)
  BY Zenon, <1>1, <1>3, <1>4, <1>p DEF Types
<1>6. queue' \in Seq(Pushes) /\ queuedBytes' \in Int /\ returned' \subseteq Ids /\ LimitsInv'
  <2>1. CASE Hold(m)
    BY Zenon, <2>1, <1>2, <1>p, HoldTypes
  <2>2. CASE UNCHANGED <<queue, queuedBytes, returned>>
    BY Zenon, <2>2, <1>p DEF Types, LimitsInv, HeldBytes
  <2> QED BY Zenon, <1>3, <2>1, <2>2
<1>7. /\ push'[p].n = push[p].n + 1 /\ push' \in [Publishers -> [n : Nat, size : Nat]]
      /\ \A d \in Publishers : d # p => push'[d] = push[d] /\ pc'[d] = pc[d]
  <2>1. push \in [Publishers -> [n : Nat, size : Nat]]
    BY ZenonT(40), <1>p DEF Types
  <2>2. /\ push'[p].n = push[p].n + 1 /\ push' \in [Publishers -> [n : Nat, size : Nat]]
        /\ \A d \in Publishers : d # p => push'[d] = push[d]
    BY SMTT(30), <1>1, <1>2, <2>1
  <2>3. \A d \in Publishers : d # p => pc'[d] = pc[d]
    BY Zenon, <1>4, Kinds
  <2> QED BY Zenon, <2>2, <2>3
<1>8. Types'
  <2>1. pc' \in [Threads -> Places]
    BY Zenon, <1>3, <1>p DEF Types, Places
  <2>2. before' \in [Ids -> SUBSET Ids]
    BY Zenon, <1>1, <1>p DEF Types
  <2>3. \A d \in Publishers : push'[d].n <= MaxPushes[d] /\ (pc'[d] # "idle" => push'[d].n # 0)
    <3>1. \A d \in Publishers : push[d].n <= MaxPushes[d] /\ (pc[d] # "idle" => push[d].n # 0)
      BY Zenon, <1>p DEF Types
    <3>2. MaxPushes[p] \in Nat
      BY ZenonT(40), BarrierAssumption
    <3>3. push'[p].n <= MaxPushes[p] /\ push'[p].n # 0
      BY SMTT(30), <1>1, <1>2, <1>7, <3>2
    <3> QED BY Zenon, <1>7, <3>1, <3>3
  <2> QED BY ZenonT(40), <2>1, <2>2, <2>3, <1>1, <1>6, <1>7, <1>p DEF Types
<1>9. LockInv' /\ CountInv' /\ GateInv'
  <2>1. readers' = readers \ {p}
    BY <1>1, <1>p DEF LockInv
  <2>2. UNCHANGED <<closed, queue>> \/ (Gated /\ ~closed)
    BY Zenon, <1>3
  <2> QED BY ZenonT(40), <2>1, <2>2, <1>1, <1>4, <1>5, <1>p, PublisherMove
<1>10. Seen' \subseteq Seen \cup {m.id} /\ (pc'[p] # "idle" => Seen' \subseteq Seen)
  <2>1. CASE Hold(m) /\ UNCHANGED pc
    BY ZenonT(40), <2>1, <1>1, <1>2, <1>p, HoldSeen
  <2>2. CASE UNCHANGED <<queue, returned>>
    BY <2>2, <1>1 DEF Seen, Written, Queued, Handed
  <2> QED BY Zenon, <1>3, <2>1, <2>2
<1>11. FreshInv'
  <2>1. push'[p].n \in Nat /\ push[p].n <= push'[p].n /\ push[p].n < push'[p].n
    BY SMTT(30), <1>2, <1>7
  <2>2. Seen' \subseteq Seen \cup {<<p, push'[p].n>>}
    BY Zenon, <1>2, <1>7, <1>10
  <2> QED BY ZenonT(40), <2>1, <2>2, <1>7, <1>10, <1>p, FreshPush
<1>12. before'[m.id] = returned /\ \A i \in Ids : i # m.id => before'[i] = before[i]
  BY ZenonT(40), <1>1, <1>2, <1>p DEF Types
<1>13. BeforeInv'
  <2>1. returned \subseteq returned'
    BY ZenonT(40), <1>3, HoldCases
  <2> QED BY Zenon, <2>1, <1>12, <1>p DEF BeforeInv
<1>14. \A i \in Ids \cap Seen : before'[i] = before[i]
  BY Zenon, <1>2, <1>12
<1>15. Content'
  <2>1. CASE ~closed /\ Hold(m)
    BY ZenonT(40), <2>1, <1>1, <1>2, <1>11, <1>12, <1>13, <1>14, <1>p, HoldContent
  <2>2. CASE UNCHANGED <<closed, queue, returned>>
    BY ZenonT(40), <2>2, <1>1, <1>11, <1>13, <1>14, <1>p, ContentSame
  <2> QED BY Zenon, <1>3, <2>1, <2>2
<1> QED BY ZenonT(40), <1>6, <1>8, <1>9, <1>15, PartsNext

LEMMA PushDirectStep ==
  ASSUME BarrierInv, NEW p \in Publishers, PushDirect(p)
  PROVE  BarrierInv'
<1>p. Types /\ LockInv /\ CountInv /\ GateInv /\ Content /\ LimitsInv /\ FreshInv /\ BeforeInv
  BY Zenon, Parts DEF Content
<1>1. /\ pc[p] = "direct" /\ orderMu = Nobody
      /\ UNCHANGED <<orderMu, active, draining, push, hand, wire, before>>
  BY ZenonT(40) DEF PushDirect
<1>2. /\ Mine(p) \in Pushes /\ Mine(p).id = <<p, push[p].n>> /\ Mine(p).id \in Ids
      /\ Mine(p).id \notin Seen
  BY Zenon, <1>p, <1>1, MineIsPush
<1>3. \/ closed /\ pc' = [pc EXCEPT ![p] = "idle"] /\ UNCHANGED <<readers, closed, queue, queuedBytes, returned>>
      \/ ~closed /\ Gated /\ Hold(Mine(p)) /\ pc' = [pc EXCEPT ![p] = "idle"] /\ UNCHANGED readers
      \/ /\ ~closed /\ ~Gated /\ readers' = readers \cup {p} /\ pc' = [pc EXCEPT ![p] = "submit"]
         /\ UNCHANGED <<closed, queue, queuedBytes, returned>>
  BY ZenonT(40) DEF PushDirect, Goto
<1>4. p \in Threads /\ p \notin readers
  BY Zenon, <1>1, <1>p, Kinds DEF LockInv
<1>5. pc' \in [Threads -> Places] /\ \A u \in Threads : u # p => pc'[u] = pc[u]
  BY ZenonT(40), <1>3, <1>4, <1>p DEF Types, Places
<1>6. \/ pc'[p] = "idle" /\ readers' = readers
      \/ /\ pc'[p] = "submit" /\ ~closed /\ ~Gated /\ readers' = readers \cup {p}
         /\ UNCHANGED <<closed, queue, queuedBytes, returned>>
  BY Zenon, <1>3, <1>4, <1>p DEF Types
<1>7. queue' \in Seq(Pushes) /\ queuedBytes' \in Int /\ returned' \subseteq Ids /\ LimitsInv'
  <2>1. CASE Hold(Mine(p))
    BY ZenonT(40), <2>1, <1>2, <1>p, HoldTypes
  <2>2. CASE UNCHANGED <<queue, queuedBytes, returned>>
    BY Zenon, <2>2, <1>p DEF Types, LimitsInv, HeldBytes
  <2> QED BY ZenonT(40), <1>3, <2>1, <2>2
<1>8. \A d \in Publishers : d # p => pc'[d] = pc[d]
  BY ZenonT(40), <1>5, Kinds
<1>9. Types'
  <2>1. \A d \in Publishers : push'[d].n <= MaxPushes[d] /\ (pc'[d] # "idle" => push'[d].n # 0)
    BY ZenonT(40), <1>1, <1>8, <1>p DEF Types
  <2>2. readers' \subseteq Publishers
    BY <1>6, <1>p DEF Types
  <2> QED BY ZenonT(40), <2>1, <2>2, <1>1, <1>5, <1>7, <1>p DEF Types
<1>10. LockInv' /\ CountInv' /\ GateInv'
  <2>1. UNCHANGED <<closed, queue>> \/ (Gated /\ ~closed)
    BY Zenon, <1>3
  <2>2. CASE pc'[p] = "idle" /\ readers' = readers
    <3>1. readers' = readers \ {p}
      BY Zenon, <2>2, <1>4
    <3> QED BY ZenonT(40), <2>1, <2>2, <3>1, <1>1, <1>5, <1>p, PublisherMove
  <2>3. CASE pc'[p] = "submit" /\ ~closed /\ ~Gated /\ readers' = readers \cup {p} /\ UNCHANGED <<closed, queue>>
    BY ZenonT(40), <2>3, <1>1, <1>5, <1>p, PublisherMove
  <2> QED BY Zenon, <1>6, <2>2, <2>3
<1>11. Seen' \subseteq Seen \cup {Mine(p).id} /\ (pc'[p] # "idle" => Seen' \subseteq Seen)
  <2>1. CASE Hold(Mine(p)) /\ pc'[p] = "idle"
    BY ZenonT(40), <2>1, <1>1, <1>2, <1>p, HoldSeen
  <2>2. CASE UNCHANGED <<queue, returned>>
    BY <2>2, <1>1 DEF Seen, Written, Queued, Handed
  <2>3. (Hold(Mine(p)) /\ pc'[p] = "idle") \/ UNCHANGED <<queue, returned>>
    BY Zenon, <1>3, <1>6
  <2> QED BY ZenonT(40), <2>1, <2>2, <2>3
<1>12. FreshInv'
  <2>1. push'[p].n = push[p].n /\ push[p].n \in Nat /\ \A d \in Publishers : push'[d] = push[d]
    BY ZenonT(40), <1>1, <1>p DEF Types
  <2>2. push'[p].n \in Nat /\ push[p].n <= push'[p].n
    BY <2>1
  <2>3. Seen' \subseteq Seen \cup {<<p, push'[p].n>>}
    BY Zenon, <2>1, <1>2, <1>11
  <2>4. pc[p] # "idle"
    BY Zenon, <1>1
  <2> QED BY ZenonT(40), <2>1, <2>2, <2>3, <2>4, <1>8, <1>11, <1>p, FreshPush
<1>13. BeforeInv'
  <2>1. returned \subseteq returned'
    BY Zenon, <1>3, HoldCases
  <2> QED BY Zenon, <2>1, <1>1, <1>p DEF BeforeInv
<1>14. Content'
  <2>1. CASE ~closed /\ Hold(Mine(p))
    <3>1. before'[Mine(p).id] \subseteq returned
      BY ZenonT(40), <1>1, <1>2, <1>p DEF BeforeInv
    <3> QED BY ZenonT(40), <2>1, <3>1, <1>1, <1>2, <1>12, <1>13, <1>p, HoldContent
  <2>2. CASE UNCHANGED <<closed, queue, returned>>
    BY ZenonT(40), <2>2, <1>1, <1>12, <1>13, <1>p, ContentSame
  <2> QED BY Zenon, <1>3, <2>1, <2>2
<1> QED BY ZenonT(40), <1>7, <1>9, <1>10, <1>14, PartsNext

\* The writer takes x: nothing it must follow is missing from what is written.
LEMMA WireAppend ==
  ASSUME Types, NoOvertaking, NEW x \in Ids \cup Requests, wire' = Append(wire, x), before' = before,
         x \in Ids => x \notin Written /\ before[x] \subseteq Written
  PROVE  wire' \in Seq(Ids \cup Requests) /\ Written' = Written \cup {x} /\ NoOvertaking'
<1>1. wire \in Seq(Ids \cup Requests)
  BY Zenon DEF Types
<1>2. wire' \in Seq(Ids \cup Requests) /\ Written' = Written \cup {x}
  BY SMTT(30), <1>1, AppendElements DEF Written
<1>3. /\ DOMAIN wire' = 1..(Len(wire) + 1) /\ Len(wire) \in Nat /\ DOMAIN wire = 1..Len(wire)
      /\ wire'[Len(wire) + 1] = x /\ \A k \in 1..Len(wire) : wire'[k] = wire[k]
  BY <1>1
<1>4. ASSUME NEW j \in DOMAIN wire', wire'[j] \in Ids
      PROVE  /\ wire'[j] \notin {wire'[i] : i \in 1..(j - 1)}
             /\ before'[wire'[j]] \subseteq {wire'[i] : i \in 1..(j - 1)}
  <2>1. CASE j = Len(wire) + 1
    <3>1. {wire'[i] : i \in 1..(j - 1)} = Written /\ wire'[j] = x
      BY SMTT(30), <2>1, <1>3 DEF Written
    <3> QED BY ZenonT(40), <3>1, <1>4
  <2>2. CASE j # Len(wire) + 1
    <3>1. j \in DOMAIN wire /\ wire'[j] = wire[j] /\ \A i \in 1..(j - 1) : wire'[i] = wire[i]
      BY SMTT(30), <2>2, <1>3
    <3>2. {wire'[i] : i \in 1..(j - 1)} = {wire[i] : i \in 1..(j - 1)}
      BY Zenon, <3>1
    <3> QED BY ZenonT(40), <3>1, <3>2, <1>4 DEF NoOvertaking
  <2> QED BY ZenonT(40), <2>1, <2>2
<1>5. NoOvertaking'
  BY Zenon, <1>4 DEF NoOvertaking
<1> QED BY Zenon, <1>2, <1>5

LEMMA PushSubmitStep ==
  ASSUME BarrierInv, NEW p \in Publishers, NEW written \in BOOLEAN, NEW ok \in BOOLEAN,
         PushSubmit(p, written, ok)
  PROVE  BarrierInv'
<1>p. /\ Types /\ LockInv /\ CountInv /\ GateInv /\ Content /\ LimitsInv
      /\ FreshInv /\ BeforeInv /\ NoOvertaking /\ AcceptedNotLost
  BY Zenon, Parts DEF Content
<1>1. /\ pc[p] = "submit" /\ pc' = [pc EXCEPT ![p] = "idle"] /\ readers' = readers \ {p}
      /\ wire' = IF written THEN Append(wire, Mine(p).id) ELSE wire
      /\ returned' = IF ok THEN returned \cup {Mine(p).id} ELSE returned
      /\ ok => written
      /\ UNCHANGED <<orderMu, active, draining, closed, queue, queuedBytes, push, hand, before>>
  BY ZenonT(40) DEF PushSubmit, Goto, stateVars
<1>2. /\ Mine(p).id = <<p, push[p].n>> /\ Mine(p).id \in Ids /\ Mine(p).id \notin Seen
  BY Zenon, <1>p, <1>1, MineIsPush
<1>3. ~closed /\ queue = <<>> /\ hand = <<>>
  BY ZenonT(40), <1>1, <1>p DEF LockInv, GateInv
<1>4. Queued = {} /\ Handed = {} /\ Queued' = {} /\ Handed' = {}
  BY SMTT(30), <1>1, <1>3 DEF Queued, Handed
<1>5. returned \subseteq Written /\ Mine(p).id \notin Written
  BY Zenon, <1>2, <1>3, <1>4, <1>p DEF AcceptedNotLost, Seen
<1>6. before[Mine(p).id] \subseteq Written
  BY Zenon, <1>2, <1>5, <1>p DEF BeforeInv
<1>7. /\ wire' \in Seq(Ids \cup Requests) /\ NoOvertaking'
      /\ Written' = IF written THEN Written \cup {Mine(p).id} ELSE Written
  <2>1. CASE written
    BY ZenonT(40), <2>1, <1>1, <1>2, <1>5, <1>6, <1>p, WireAppend
  <2>2. CASE ~written
    <3>1. wire' = wire /\ before' = before
      BY Zenon, <2>2, <1>1
    <3>2. wire \in Seq(Ids \cup Requests) /\ NoOvertaking
      BY ZenonT(40), <1>p DEF Types
    <3>3. NoOvertaking'
      BY SMTT(30), <3>1, <3>2 DEF NoOvertaking
    <3>4. Written' = Written
      BY Zenon, <3>1 DEF Written
    <3> QED BY ZenonT(40), <2>2, <3>1, <3>2, <3>3, <3>4
  <2> QED BY Zenon, <2>1, <2>2
<1>8. p \in Threads /\ pc' \in [Threads -> Places] /\ pc'[p] = "idle" /\ \A u \in Threads : u # p => pc'[u] = pc[u]
  BY Zenon, <1>1, <1>p, Kinds DEF Types, Places
<1>9. \A d \in Publishers : d # p => pc'[d] = pc[d]
  BY ZenonT(40), <1>8, Kinds
<1>10. returned' \subseteq Ids /\ readers' \subseteq Publishers
  BY ZenonT(40), <1>1, <1>2, <1>p DEF Types
<1>11. \A d \in Publishers : push'[d].n <= MaxPushes[d] /\ (pc'[d] # "idle" => push'[d].n # 0)
  BY Zenon, <1>1, <1>8, <1>9, <1>p DEF Types
<1>12. Types'
  BY ZenonT(40), <1>1, <1>7, <1>8, <1>10, <1>11, <1>p DEF Types
<1>13. LockInv' /\ CountInv' /\ GateInv'
  BY Zenon, <1>1, <1>8, <1>p, PublisherMove
<1>14. Seen' \subseteq Seen \cup {Mine(p).id}
  BY Zenon, <1>1, <1>4, <1>7 DEF Seen
<1>15. FreshInv'
  <2>1. push'[p].n = push[p].n /\ push[p].n \in Nat /\ \A d \in Publishers : push'[d] = push[d]
    BY ZenonT(40), <1>1, <1>p DEF Types
  <2>2. push'[p].n \in Nat /\ push[p].n <= push'[p].n
    BY <2>1
  <2>3. Seen' \subseteq Seen \cup {<<p, push'[p].n>>}
    BY Zenon, <2>1, <1>2, <1>14
  <2> QED BY ZenonT(40), <2>1, <2>2, <2>3, <1>8, <1>9, <1>p, FreshPush
<1>16. BeforeInv' /\ QueueInv'
  <2>1. returned \subseteq returned'
    BY ZenonT(40), <1>1
  <2>2. BeforeInv'
    BY ZenonT(40), <2>1, <1>1, <1>p DEF BeforeInv
  <2>3. queue' = <<>> /\ hand' = <<>>
    BY Zenon, <1>1, <1>3
  <2>4. DOMAIN queue' = {} /\ DOMAIN hand' = {}
    BY <2>3
  <2>5. QueueInv'
    BY Zenon, <2>4 DEF QueueInv
  <2> QED BY Zenon, <2>2, <2>5
<1>17. AcceptedNotLost'
  BY ZenonT(40), <1>1, <1>5, <1>7 DEF AcceptedNotLost
<1>18. LimitsInv'
  BY Zenon, <1>1, <1>p DEF LimitsInv, HeldBytes
<1> QED BY ZenonT(40), <1>7, <1>12, <1>13, <1>15, <1>16, <1>17, <1>18, PartsNext DEF Content

-----------------------------------------------------------------------------
(* begin, finish, cancel and close *)

LEMMA OrderLockStep ==
  ASSUME BarrierInv, NEW t \in Requests \cup {Shutdown}, NEW from, NEW to, OrderLock(t, from, to),
         \/ t = Shutdown /\ from = "idle" /\ to = "close"
         \/ t \in Requests /\ from = "idle" /\ to = "begin"
         \/ t \in Requests /\ from = "dispatch" /\ to \in {"finish", "abort"}
  PROVE  BarrierInv'
<1>p. Types /\ LockInv /\ CountInv /\ GateInv /\ Content /\ LimitsInv
  BY Zenon, Parts
<1>1. /\ pc[t] = from /\ pc' = [pc EXCEPT ![t] = to] /\ orderMu = Nobody /\ orderMu' = t
      /\ UNCHANGED <<readers, active, draining, closed, queue, queuedBytes, push, hand, wire, returned, before>>
  BY Zenon DEF OrderLock, Goto, stateVars, historyVars
<1>2. to \in {"close", "begin", "finish", "abort"} /\ (t = Shutdown => to = "close") /\ (t # Shutdown => to # "close")
  BY Zenon, Kinds
<1>3. to \in Places /\ to \in Inside \cup {"close"} /\ to \notin Granted /\ to \notin {"drain", "hand"}
  BY <1>2 DEF Places, Inside, Granted
<1>4. Types' /\ \A p \in Publishers : pc'[p] = pc[p]
  <2>1. /\ active' \in Nat /\ queue' \in Seq(Pushes) /\ hand' \in Seq(Pushes) /\ queuedBytes' \in Int
        /\ wire' \in Seq(Ids \cup Requests)
    BY Zenon, <1>1, <1>p DEF Types
  <2> QED BY ZenonT(40), <2>1, <1>1, <1>3, <1>p, TypesMove
<1>5. LockInv'
  <2>1. IF t = Shutdown THEN to \in {"close", "done"} ELSE to # "close"
    BY <1>2
  <2> QED BY ZenonT(40), <2>1, <1>1, <1>3, <1>p, LockMove
<1>6. CountInv'
  <2>1. CASE t = Shutdown
    BY ZenonT(40), <2>1, <1>1, <1>3, <1>p, CountShutdown
  <2>2. CASE t \in Requests
    <3>1. t \in Counted <=> to \in {"finish", "abort"}
      BY Zenon, <2>2, <1>1, Kinds DEF Counted
    <3>2. Counted' = IF to \in {"dispatch", "finish", "abort", "reply", "replied", "failed"}
                     THEN Counted \cup {t} ELSE Counted \ {t}
      BY ZenonT(40), <2>2, <1>1, <1>3, <1>p, CountMove
    <3>3. Counted' = Counted
      BY Zenon, <3>1, <3>2, <1>2
    <3> QED BY Zenon, <3>3, <1>1, <1>p DEF CountInv
  <2> QED BY Zenon, <2>1, <2>2
<1>7. hand = <<>>
  BY Zenon, <1>1, <1>p, Kinds DEF LockInv, GateInv, Inside
<1>8. GateInv'
  <2>1. ~closed' /\ ~Gated' => queue' = <<>> /\ hand' = <<>>
    BY Zenon, <1>1, <1>p DEF GateInv, Gated
  <2> QED BY ZenonT(40), <2>1, <1>1, <1>3, <1>7, <1>p, GateMove
<1>9. Content' /\ LimitsInv'
  <2>1. Content'
    BY ZenonT(40), <1>1, <1>4, <1>p, ContentKept
  <2> QED BY Zenon, <2>1, <1>1, <1>p DEF LimitsInv, HeldBytes
<1> QED BY ZenonT(40), <1>4, <1>5, <1>6, <1>8, <1>9, PartsNext

LEMMA BeginStep ==
  ASSUME BarrierInv, NEW r \in Requests, Begin(r)
  PROVE  BarrierInv'
<1>p. Types /\ LockInv /\ CountInv /\ GateInv /\ Content /\ LimitsInv
  BY Zenon, Parts
<1>1. /\ pc[r] = "begin" /\ readers = {} /\ orderMu = r /\ orderMu' = Nobody
      /\ active' = IF closed THEN active ELSE active + 1
      /\ pc' = [pc EXCEPT ![r] = "dispatch"]
      /\ UNCHANGED <<readers, draining, closed, queue, queuedBytes, push, hand, wire, returned, before>>
  BY Zenon DEF Begin, OrderHeld, Goto, historyVars
<1>2. "dispatch" \in Places /\ "dispatch" \notin Inside \cup {"close"} /\ "dispatch" \notin Granted
  BY Zenon DEF Places, Inside, Granted
<1>3. active \in Nat /\ active' \in Nat
  BY SMTT(30), <1>1, <1>p DEF Types
<1>4. Types' /\ \A p \in Publishers : pc'[p] = pc[p]
  <2>1. /\ queue' \in Seq(Pushes) /\ hand' \in Seq(Pushes) /\ queuedBytes' \in Int
        /\ wire' \in Seq(Ids \cup Requests)
    BY Zenon, <1>1, <1>p DEF Types
  <2> QED BY ZenonT(40), <2>1, <1>1, <1>2, <1>3, <1>p, TypesMove
<1>5. LockInv'
  BY ZenonT(40), <1>1, <1>2, <1>p, LockMove, Kinds
<1>6. CountInv'
  <2>1. Counted' = Counted \cup {r} /\ r \notin Counted
    BY ZenonT(40), <1>1, <1>2, <1>p, CountMove DEF Counted
  <2>2. IsFiniteSet(Counted) /\ (~closed => active = Cardinality(Counted))
    BY <1>p DEF CountInv
  <2>3. IsFiniteSet(Counted') /\ Cardinality(Counted') = Cardinality(Counted) + 1
    BY Zenon, <2>1, <2>2, FS_AddElement
  <2> QED BY Zenon, <2>2, <2>3, <1>1 DEF CountInv
<1>7. hand = <<>>
  BY Zenon, <1>1, <1>p DEF LockInv, GateInv, Inside
<1>8. GateInv'
  <2>1. ~closed' /\ ~Gated' => queue' = <<>> /\ hand' = <<>>
    BY SMTT(30), <1>1, <1>3 DEF Gated
  <2> QED BY ZenonT(40), <2>1, <1>1, <1>2, <1>7, <1>p, GateMove
<1>9. Content'
  BY ZenonT(40), <1>1, <1>4, <1>p, ContentKept
<1>10. LimitsInv'
  BY ZenonT(40), <1>1, <1>p DEF LimitsInv, HeldBytes
<1> QED BY ZenonT(40), <1>4, <1>5, <1>6, <1>8, <1>9, <1>10, PartsNext

LEMMA FinishStep ==
  ASSUME BarrierInv, NEW r \in Requests, Finish(r)
  PROVE  BarrierInv'
<1>p. Types /\ LockInv /\ CountInv /\ GateInv /\ Content /\ LimitsInv
  BY Zenon, Parts
<1> DEFINE to == IF closed THEN "done" ELSE "reply"
<1>1. /\ pc[r] = "finish" /\ readers = {} /\ orderMu = r
      /\ UNCHANGED <<readers, active, draining, closed, queue, queuedBytes, push, hand, wire, returned, before>>
  BY ZenonT(40) DEF Finish, OrderHeld, stateVars, historyVars
<1>2. pc' = [pc EXCEPT ![r] = to] /\ orderMu' = IF to = "done" THEN Nobody ELSE r
  BY Zenon DEF Finish, OrderHeld, Goto
<1>3. to \in Places /\ (to \in Inside \cup {"close"} <=> to # "done") /\ to \notin {"close", "drain", "hand"}
  BY DEF Places, Inside
<1>4. to = "done" => closed
  OBVIOUS
<1>0. to = "done" \/ (~closed /\ to = "reply")
  OBVIOUS
<1> HIDE DEF to
<1>5. Types' /\ \A p \in Publishers : pc'[p] = pc[p]
  <2>1. /\ active' \in Nat /\ queue' \in Seq(Pushes) /\ hand' \in Seq(Pushes) /\ queuedBytes' \in Int
        /\ wire' \in Seq(Ids \cup Requests)
    BY ZenonT(40), <1>1, <1>p DEF Types
  <2> QED BY ZenonT(40), <2>1, <1>1, <1>2, <1>3, <1>p, TypesMove
<1>6. LockInv'
  BY ZenonT(40), <1>1, <1>2, <1>3, <1>p, LockMove, Kinds
<1>7. CountInv'
  <2>1. CASE to = "done"
    BY ZenonT(40), <2>1, <1>1, <1>2, <1>3, <1>4, <1>p, CountKept
  <2>2. CASE ~closed /\ to = "reply"
    <3>1. Counted' = Counted
      BY SMTT(30), <2>2, <1>1, <1>2, <1>3, <1>p, CountMove DEF Counted
    <3> QED BY ZenonT(40), <2>2, <3>1, <1>1, <1>2, <1>3, <1>p, CountKept
  <2> QED BY ZenonT(40), <2>1, <2>2, <1>0
<1>8. hand = <<>>
  BY <1>1, <1>p DEF LockInv, GateInv, Inside
<1>9. GateInv'
  <2>1. ~closed' /\ ~Gated' => queue' = <<>> /\ hand' = <<>>
    BY Zenon, <1>1, <1>p DEF GateInv, Gated
  <2> QED BY ZenonT(40), <2>1, <1>1, <1>2, <1>3, <1>8, <1>p, GateMove
<1>10. Content'
  BY ZenonT(40), <1>1, <1>5, <1>p, ContentKept
<1>11. LimitsInv'
  BY Zenon, <1>1, <1>p DEF LimitsInv, HeldBytes
<1> QED BY Zenon, <1>5, <1>6, <1>7, <1>9, <1>10, <1>11, PartsNext

LEMMA SubmitReplyStep ==
  ASSUME BarrierInv, NEW r \in Requests, NEW written \in BOOLEAN, NEW ok \in BOOLEAN,
         SubmitReply(r, written, ok)
  PROVE  BarrierInv'
<1>p. /\ Types /\ LockInv /\ CountInv /\ GateInv /\ Content /\ LimitsInv
      /\ FreshInv /\ QueueInv /\ BeforeInv /\ NoOvertaking /\ AcceptedNotLost
  BY Zenon, Parts DEF Content
<1> DEFINE to == IF ok THEN "replied" ELSE "failed"
<1>1. /\ pc[r] = "reply" /\ pc' = [pc EXCEPT ![r] = to]
      /\ wire' = IF written THEN Append(wire, r) ELSE wire
      /\ UNCHANGED <<orderMu, readers, active, draining, closed, queue, queuedBytes, push, hand, returned, before>>
  BY Zenon DEF SubmitReply, Goto, stateVars
<1>2. to \in {"replied", "failed"}
  OBVIOUS
<1> HIDE DEF to
<1>3. to \in Places /\ to \in Inside /\ to \in Granted /\ to \notin {"close", "drain", "hand"}
  BY Zenon, <1>2 DEF Places, Inside, Granted
<1>4. orderMu = r /\ readers = {} /\ hand = <<>>
  BY Zenon, <1>1, <1>p DEF LockInv, GateInv, Inside, Granted
<1>5. r \notin Ids
  BY BarrierAssumption
<1>6. /\ wire' \in Seq(Ids \cup Requests) /\ NoOvertaking'
      /\ Written' = IF written THEN Written \cup {r} ELSE Written
  <2>1. CASE written
    BY ZenonT(40), <2>1, <1>1, <1>5, <1>p, WireAppend
  <2>2. CASE ~written
    <3>1. wire' = wire /\ before' = before
      BY Zenon, <2>2, <1>1
    <3>2. wire \in Seq(Ids \cup Requests) /\ NoOvertaking
      BY ZenonT(40), <1>p DEF Types
    <3>3. NoOvertaking'
      BY SMTT(30), <3>1, <3>2 DEF NoOvertaking
    <3>4. Written' = Written
      BY Zenon, <3>1 DEF Written
    <3> QED BY ZenonT(40), <2>2, <3>1, <3>2, <3>3, <3>4
  <2> QED BY ZenonT(40), <2>1, <2>2
<1>7. Types' /\ \A p \in Publishers : pc'[p] = pc[p]
  <2>1. active' \in Nat /\ queue' \in Seq(Pushes) /\ hand' \in Seq(Pushes) /\ queuedBytes' \in Int
    BY Zenon, <1>1, <1>p DEF Types
  <2> QED BY ZenonT(40), <2>1, <1>1, <1>3, <1>6, <1>p, TypesMove
<1>8. LockInv'
  <2>1. orderMu' = IF to \in Inside \cup {"close"} THEN r ELSE Nobody
    BY ZenonT(40), <1>1, <1>3, <1>4
  <2> QED BY ZenonT(40), <2>1, <1>1, <1>3, <1>4, <1>p, LockMove, Kinds
<1>9. CountInv'
  <2>1. Counted' = Counted
    <3>1. r \in Counted
      BY <1>1 DEF Counted
    <3>2. Counted' = Counted \cup {r}
      BY ZenonT(40), <1>1, <1>2, <1>3, <1>p, CountMove
    <3> QED BY ZenonT(40), <3>1, <3>2
  <2> QED BY Zenon, <2>1, <1>1, <1>p DEF CountInv
<1>10. GateInv'
  <2>1. ~closed' /\ ~Gated' => queue' = <<>> /\ hand' = <<>>
    BY Zenon, <1>1, <1>p DEF GateInv, Gated
  <2> QED BY ZenonT(40), <2>1, <1>1, <1>3, <1>4, <1>p, GateMove
<1>11. Queued' = Queued /\ Handed' = Handed
  BY Zenon, <1>1 DEF Queued, Handed
<1>12. FreshInv'
  <2>1. \A i \in Ids : i \in Seen' => i \in Seen
    BY ZenonT(40), <1>1, <1>5, <1>6, <1>11 DEF Seen
  <2> QED BY ZenonT(40), <2>1, <1>1, <1>7, <1>p, IdParts DEF FreshInv
<1>13. QueueInv'
  <2>1. \A k \in DOMAIN queue : queue[k].id # r
    BY Zenon, <1>5, <1>p, Known
  <2>2. Written \subseteq Written'
    BY <1>6
  <2>3. \A k \in DOMAIN queue : queue[k].id \notin Written \cup Handed => queue[k].id \notin Written' \cup Handed
    BY Zenon, <2>1, <1>6
  <2>4. ASSUME NEW k \in DOMAIN queue
        PROVE  /\ queue[k].id \notin Written' \cup Handed
               /\ before[queue[k].id] \subseteq Written' \cup Handed \cup {queue[i].id : i \in 1..(k - 1)}
               /\ \A i \in 1..(k - 1) : queue[i].id # queue[k].id
    BY Zenon, <2>2, <2>3, <1>p DEF QueueInv
  <2>5. queue' = queue /\ hand' = <<>> /\ before' = before
    BY ZenonT(40), <1>1, <1>4
  <2> QED BY SMTT(30), <2>4, <2>5, <1>11 DEF QueueInv
<1>14. BeforeInv' /\ LimitsInv'
  BY Zenon, <1>1, <1>p DEF BeforeInv, LimitsInv, HeldBytes
<1>15. AcceptedNotLost'
  BY ZenonT(40), <1>1, <1>6, <1>11, <1>p DEF AcceptedNotLost
<1> QED BY ZenonT(40), <1>6, <1>7, <1>8, <1>9, <1>10, <1>12, <1>13, <1>14, <1>15, PartsNext DEF Content

\* The barrier closes, and what becomes of the pushes is settled elsewhere.
LEMMA CloseMove ==
  ASSUME BarrierInv, NEW t \in Requests \cup {Shutdown}, orderMu = t, readers = {},
         pc' = [pc EXCEPT ![t] = "done"], orderMu' = Nobody, hand' = <<>>,
         closed', queue' = <<>>, queuedBytes' = 0,
         UNCHANGED <<readers, active, draining, push, returned, before>>,
         Content', wire' \in Seq(Ids \cup Requests)
  PROVE  BarrierInv'
<1>p. Types /\ LockInv /\ CountInv /\ GateInv /\ Content /\ LimitsInv
  BY Zenon, Parts
<1>1. "done" \in Places /\ "done" \notin Inside \cup {"close"} /\ "done" \notin Granted
  BY Zenon DEF Places, Inside, Granted
<1>2. active' \in Nat /\ queue' \in Seq(Pushes) /\ hand' \in Seq(Pushes) /\ queuedBytes' \in Int
  BY <1>p DEF Types
<1>3. Types' /\ \A p \in Publishers : pc'[p] = pc[p]
  BY Zenon, <1>1, <1>2, <1>p, TypesMove
<1>4. LockInv'
  BY Zenon, <1>1, <1>p, LockMove
<1>5. CountInv'
  <2>1. CASE t = Shutdown
    BY ZenonT(40), <2>1, <1>1, <1>p, CountShutdown
  <2>2. CASE t \in Requests
    BY ZenonT(40), <2>2, <1>1, <1>p, CountKept
  <2> QED BY Zenon, <2>1, <2>2
<1>6. GateInv'
  BY ZenonT(40), <1>1, <1>p, GateMove
<1>7. LimitsInv'
  <2>1. HeldBytes' = {}
    BY DEF HeldBytes
  <2> QED BY SMTT(30), <2>1, BarrierAssumption, FS_EmptySet DEF LimitsInv
<1> QED BY ZenonT(40), <1>3, <1>4, <1>5, <1>6, <1>7, PartsNext

\* The barrier closes: reply, drain and abort failures, and the shutdown.
LEMMA CloseStep ==
  ASSUME BarrierInv, NEW t \in Requests \cup {Shutdown}, orderMu = t, readers = {},
         pc' = [pc EXCEPT ![t] = "done"], orderMu' = Nobody, hand' = <<>>,
         closed', queue' = <<>>, queuedBytes' = 0,
         UNCHANGED <<readers, active, draining, push, wire, returned, before>>
  PROVE  BarrierInv'
<1>1. Types /\ Content
  BY Zenon, Parts
<1>2. \A p \in Publishers : pc'[p] = pc[p]
  BY ZenonT(40), <1>1, Kinds DEF Types
<1>3. Content'
  BY Zenon, <1>1, <1>2, ContentClosed
<1>4. wire' \in Seq(Ids \cup Requests)
  BY Zenon, <1>1 DEF Types
<1> QED BY ZenonT(40), <1>3, <1>4, CloseMove

LEMMA ReplyFailedStep ==
  ASSUME BarrierInv, NEW r \in Requests, ReplyFailed(r)
  PROVE  BarrierInv'
<1>1. orderMu = r /\ readers = {} /\ hand = <<>>
  BY DEF ReplyFailed, BarrierInv, LockInv, GateInv, Inside, Granted
<1>2. /\ pc' = [pc EXCEPT ![r] = "done"] /\ orderMu' = Nobody /\ closed' /\ queue' = <<>> /\ queuedBytes' = 0
      /\ UNCHANGED <<readers, active, draining, push, hand, wire, returned, before>>
  BY Zenon DEF ReplyFailed, CloseLocked, Goto, historyVars
<1> QED BY ZenonT(40), <1>1, <1>2, CloseStep

\* The push in the hands of drainLocked was written, and the barrier closes all the
\* same: its name stays used, and nothing was written before it out of order.
LEMMA ContentHanded ==
  ASSUME Types, Content, Len(hand) = 1, closed', queue' = <<>>, hand' = <<>>,
         wire' = Append(wire, Head(hand).id), UNCHANGED <<push, returned, before>>,
         \A p \in Publishers : pc'[p] = pc[p]
  PROVE  Content' /\ wire' \in Seq(Ids \cup Requests)
<1>p. FreshInv /\ QueueInv /\ BeforeInv /\ NoOvertaking
  BY ZenonT(40) DEF Content
<1> DEFINE x == Head(hand).id
<1>1. DOMAIN hand = {1} /\ Head(hand) = hand[1]
  BY SMTT(30) DEF Types
<1>2. x \in Ids /\ x \notin Written /\ before[x] \subseteq Written /\ Handed = {x}
  <2>1. hand[1].id \in Ids
    BY Zenon, <1>1, Known
  <2>2. x = hand[1].id
    BY Zenon, <1>1
  <2>3. hand[1].id \notin Written /\ before[hand[1].id] \subseteq Written
    BY Zenon, <1>1, <1>p DEF QueueInv
  <2>4. Handed = {hand[1].id}
    BY Zenon, <1>1 DEF Handed
  <2> QED BY Zenon, <2>1, <2>2, <2>3, <2>4
<1> HIDE DEF x
<1>3. wire' = Append(wire, x)
  BY Zenon DEF x
<1>4. wire' \in Seq(Ids \cup Requests) /\ Written' = Written \cup {x} /\ NoOvertaking'
  BY ZenonT(40), <1>2, <1>3, <1>p, WireAppend
<1>5. DOMAIN hand' = {} /\ DOMAIN queue' = {}
  BY SMTT(30)
<1>6. Seen' \subseteq Seen
  <2>1. Queued' = {} /\ Handed' = {}
    BY Zenon, <1>5 DEF Queued, Handed
  <2> QED BY Zenon, <2>1, <1>2, <1>4 DEF Seen
<1>7. FreshInv'
  BY Zenon, <1>6, <1>p, IdParts DEF FreshInv
<1>8. BeforeInv'
  BY Zenon, <1>p DEF BeforeInv
<1>9. QueueInv'
  BY Zenon, <1>5 DEF QueueInv
<1>10. AcceptedNotLost'
  BY Zenon DEF AcceptedNotLost
<1> QED BY ZenonT(40), <1>4, <1>7, <1>8, <1>9, <1>10 DEF Content

LEMMA DrainFailsStep ==
  ASSUME BarrierInv, NEW r \in Requests, NEW written \in BOOLEAN, DrainFails(r, written)
  PROVE  BarrierInv'
<1>1. orderMu = r /\ readers = {} /\ Len(hand) = 1
  BY DEF DrainFails, BarrierInv, LockInv, GateInv, Inside, Granted
<1>2. /\ pc' = [pc EXCEPT ![r] = "done"] /\ orderMu' = Nobody /\ closed' /\ queue' = <<>> /\ queuedBytes' = 0
      /\ hand' = <<>> /\ UNCHANGED <<readers, active, draining, push, returned, before>>
      /\ wire' = IF written THEN Append(wire, Head(hand).id) ELSE wire
  BY Zenon DEF DrainFails, CloseLocked, Goto
<1>3. CASE written
  <2>1. Types /\ Content
    BY Zenon, Parts
  <2>2. wire' = Append(wire, Head(hand).id)
    BY Zenon, <1>2, <1>3
  <2>3. (\A p \in Publishers : pc'[p] = pc[p]) => Content' /\ wire' \in Seq(Ids \cup Requests)
    BY ZenonT(40), <1>1, <1>2, <2>1, <2>2, ContentHanded
  <2>4. \A p \in Publishers : pc'[p] = pc[p]
    BY ZenonT(40), <1>2, <2>1, Kinds DEF Types
  <2> QED BY ZenonT(40), <1>1, <1>2, <2>3, <2>4, CloseMove
<1>4. CASE ~written
  <2>1. wire' = wire
    BY Zenon, <1>2, <1>4
  <2> QED BY ZenonT(40), <1>1, <1>2, <2>1, CloseStep
<1> QED BY ZenonT(40), <1>3, <1>4

LEMMA ShutdownStep ==
  ASSUME BarrierInv, Close
  PROVE  BarrierInv'
<1>1. orderMu = Shutdown /\ readers = {}
  BY Zenon DEF Close, OrderHeld
<1>2. hand = <<>>
  BY Zenon, <1>1, Kinds DEF BarrierInv, LockInv, GateInv, Inside
<1>3. /\ pc' = [pc EXCEPT ![Shutdown] = "done"] /\ orderMu' = Nobody /\ closed' /\ queue' = <<>> /\ queuedBytes' = 0
      /\ UNCHANGED <<readers, active, draining, push, hand, wire, returned, before>>
  BY Zenon DEF Close, CloseLocked, Goto, historyVars
<1> QED BY ZenonT(40), <1>1, <1>2, <1>3, CloseStep

\* A request leaves without touching the pushes.
LEMMA DoneStep ==
  ASSUME BarrierInv, NEW r \in Requests, orderMu = r, readers = {}, hand = <<>>,
         pc' = [pc EXCEPT ![r] = "done"], orderMu' = Nobody, active' \in Nat, CountInv',
         ~closed' /\ ~Gated' => queue = <<>>,
         UNCHANGED <<readers, closed, queue, queuedBytes, push, hand, wire, returned, before>>
  PROVE  BarrierInv'
<1>p. Types /\ LockInv /\ CountInv /\ GateInv /\ Content /\ LimitsInv
  BY ZenonT(40), Parts
<1>1. "done" \in Places /\ "done" \notin Inside \cup {"close"} /\ "done" \notin Granted
  BY DEF Places, Inside, Granted
<1>2. /\ queue' \in Seq(Pushes) /\ hand' \in Seq(Pushes) /\ queuedBytes' \in Int
      /\ wire' \in Seq(Ids \cup Requests)
  BY Zenon, <1>p DEF Types
<1>3. Types' /\ \A p \in Publishers : pc'[p] = pc[p]
  BY ZenonT(40), <1>1, <1>2, <1>p, TypesMove
<1>4. LockInv'
  BY ZenonT(40), <1>1, <1>p, LockMove, Kinds
<1>5. GateInv'
  BY ZenonT(40), <1>1, <1>p, GateMove
<1>6. Content'
  BY ZenonT(40), <1>3, <1>p, ContentKept
<1>7. LimitsInv'
  BY <1>p DEF LimitsInv, HeldBytes
<1> QED BY ZenonT(40), <1>3, <1>4, <1>5, <1>6, <1>7, PartsNext

LEMMA AbortStep ==
  ASSUME BarrierInv, NEW r \in Requests, Abort(r)
  PROVE  BarrierInv'
<1>p. Types /\ LockInv /\ CountInv /\ GateInv
  BY Zenon, Parts
<1>1. /\ pc[r] = "abort" /\ orderMu = r /\ readers = {} /\ orderMu' = Nobody /\ pc' = [pc EXCEPT ![r] = "done"]
      /\ UNCHANGED <<readers, active, draining, push, hand, wire, returned, before>>
  BY ZenonT(40) DEF Abort, OrderHeld, Goto, historyVars
<1>2. hand = <<>>
  BY Zenon, <1>1, <1>p DEF LockInv, GateInv, Inside
<1>3. CASE ~closed
  <2>1. closed' /\ queue' = <<>> /\ queuedBytes' = 0
    BY Zenon, <1>3 DEF Abort, CloseLocked
  <2> QED BY ZenonT(40), <2>1, <1>1, <1>2, CloseStep
<1>4. CASE closed
  <2>1. closed' /\ UNCHANGED <<closed, queue, queuedBytes>>
    BY Zenon, <1>4 DEF Abort
  <2>2. CountInv' /\ active' \in Nat
    <3>1. "done" \in Places /\ active \in Nat
      BY <1>p DEF Places, Types
    <3> QED BY ZenonT(40), <3>1, <2>1, <1>1, <1>p, CountKept
  <2> QED BY ZenonT(40), <2>1, <2>2, <1>1, <1>2, DoneStep
<1> QED BY Zenon, <1>3, <1>4

LEMMA SettleStep ==
  ASSUME BarrierInv, NEW r \in Requests, Settle(r)
  PROVE  BarrierInv'
<1>p. Types /\ LockInv /\ CountInv /\ GateInv /\ Content /\ LimitsInv
  BY Zenon, Parts
<1>1. /\ pc[r] = "replied" /\ active' = IF closed \/ active = 0 THEN active ELSE active - 1
      /\ UNCHANGED <<readers, closed, queue, queuedBytes, push, hand, wire, returned, before>>
  BY ZenonT(40) DEF Settle, historyVars
<1>2. orderMu = r /\ readers = {} /\ hand = <<>> /\ r \in Counted
  BY ZenonT(40), <1>1, <1>p DEF LockInv, GateInv, Inside, Granted, Counted
<1>3. active \in Nat /\ active' \in Nat
  BY SMTT(30), <1>1, <1>p DEF Types
<1>4. IsFiniteSet(Counted \ {r}) /\ (~closed => active' = Cardinality(Counted \ {r}))
  <2>1. /\ IsFiniteSet(Counted) /\ Cardinality(Counted) \in Nat
        /\ IsFiniteSet(Counted \ {r}) /\ Cardinality(Counted \ {r}) = Cardinality(Counted) - 1
        /\ Cardinality(Counted \ {r}) \in Nat
    BY Zenon, <1>2, <1>p, FS_RemoveElement, FS_CardinalityType DEF CountInv
  <2>2. ~closed => active = Cardinality(Counted)
    BY ZenonT(40), <1>p DEF CountInv
  <2> QED BY SMTT(30), <2>1, <2>2, <1>1, <1>3
<1>5. CASE ~closed /\ active' = 0 /\ queue # <<>>
  <2>1. draining' /\ pc' = [pc EXCEPT ![r] = "drain"] /\ orderMu' = orderMu
    BY ZenonT(40), <1>5 DEF Settle, Goto
  <2>2. "drain" \in Places /\ "drain" \in Inside /\ "drain" # "close"
    BY DEF Places, Inside
  <2>3. Counted' = Counted \ {r}
    BY ZenonT(40), <2>1, <2>2, <1>p, CountMove
  <2>4. Counted \ {r} = {}
    BY Zenon, <1>4, <1>5, FS_EmptySet
  <2>5. Types' /\ \A p \in Publishers : pc'[p] = pc[p]
    <3>1. /\ queue' \in Seq(Pushes) /\ hand' \in Seq(Pushes) /\ queuedBytes' \in Int
          /\ wire' \in Seq(Ids \cup Requests)
      BY Zenon, <1>1, <1>p DEF Types
    <3> QED BY ZenonT(40), <3>1, <2>1, <2>2, <1>1, <1>3, <1>p, TypesMove
  <2>6. LockInv'
    <3>1. orderMu' = IF "drain" \in Inside \cup {"close"} THEN r ELSE Nobody
      BY ZenonT(40), <2>1, <2>2, <1>2
    <3> QED BY ZenonT(40), <3>1, <2>1, <2>2, <1>1, <1>2, <1>p, LockMove, Kinds
  <2>7. CountInv'
    BY Zenon, <2>3, <1>1, <1>4 DEF CountInv
  <2>8. GateInv'
    <3>1. Gated' /\ "drain" # "hand" /\ Counted' = {}
      BY Zenon, <2>1, <2>3, <2>4 DEF Gated
    <3> QED BY ZenonT(40), <3>1, <2>1, <2>2, <1>1, <1>2, <1>p, GateMove
  <2>9. Content'
    BY ZenonT(40), <2>5, <1>1, <1>p, ContentKept
  <2>10. LimitsInv'
    BY Zenon, <1>1, <1>p DEF LimitsInv, HeldBytes
  <2> QED BY Zenon, <2>5, <2>6, <2>7, <2>8, <2>9, <2>10, PartsNext
<1>6. CASE ~(~closed /\ active' = 0 /\ queue # <<>>)
  <2>1. orderMu' = Nobody /\ pc' = [pc EXCEPT ![r] = "done"]
    BY Zenon, <1>6 DEF Settle, Goto
  <2>2. Counted' = Counted \ {r}
    <3>1. "done" \in Places
      BY ZenonT(40) DEF Places
    <3> QED BY Zenon, <2>1, <3>1, <1>p, CountMove
  <2>3. CountInv'
    BY Zenon, <2>2, <1>1, <1>4 DEF CountInv
  <2>4. ~closed' /\ ~Gated' => queue = <<>>
    BY <1>1, <1>6 DEF Gated
  <2> QED BY ZenonT(40), <2>1, <2>3, <2>4, <1>1, <1>2, <1>3, DoneStep
<1> QED BY ZenonT(40), <1>5, <1>6

LEMMA LeaseEndsStep ==
  ASSUME BarrierInv, LeaseEnds \/ UNCHANGED vars
  PROVE  BarrierInv'
<1>p. Types /\ LockInv /\ CountInv /\ GateInv /\ Content /\ LimitsInv
  BY Zenon, Parts
<1>1. UNCHANGED <<orderMu, readers, active, draining, closed, queue, queuedBytes, pc, push, hand, wire, returned, before>>
  BY Zenon DEF LeaseEnds, vars, stateVars, historyVars
<1>2. Types'
  BY ZenonT(40), <1>1, <1>p DEF Types
<1>3. LockInv' /\ Counted' = Counted /\ Gated' = Gated
  BY Zenon, <1>1, <1>p DEF LockInv, Counted, Gated
<1>4. CountInv' /\ GateInv'
  BY <1>1, <1>3, <1>p DEF CountInv, GateInv
<1>5. Content'
  BY ZenonT(40), <1>1, <1>p, ContentKept
<1>6. LimitsInv'
  BY <1>1, <1>p DEF LimitsInv, HeldBytes
<1> QED BY ZenonT(40), <1>2, <1>3, <1>4, <1>5, <1>6, PartsNext

\* The head of the queue goes into the hands of the drain.
LEMMA TakeContent ==
  ASSUME Types, Content, ~closed', queue # <<>>, hand = <<>>, hand' = <<Head(queue)>>, queue' = Tail(queue),
         UNCHANGED <<wire, push, returned, before>>, \A p \in Publishers : pc'[p] = pc[p], ~closed
  PROVE  Content'
<1>p. FreshInv /\ QueueInv /\ BeforeInv /\ NoOvertaking /\ AcceptedNotLost
  BY ZenonT(40) DEF Content
<1>1. /\ queue \in Seq(Pushes) /\ Len(queue) \in Nat /\ 1 \in DOMAIN queue /\ Head(queue) = queue[1]
      /\ DOMAIN queue' = 1..(Len(queue) - 1) /\ \A k \in DOMAIN queue' : k + 1 \in DOMAIN queue /\ queue'[k] = queue[k + 1]
  BY SMTT(30) DEF Types
<1>2. Written' = Written /\ Handed = {} /\ Handed' = {queue[1].id}
  BY SMTT(30), <1>1 DEF Written, Handed
<1>3. Queued = Queued' \cup {queue[1].id}
  <2>1. Queued = {Head(queue).id} \cup {Tail(queue)[i].id : i \in DOMAIN Tail(queue)}
    BY Zenon, <1>1, TailIds DEF Queued
  <2>2. Queued' = {Tail(queue)[i].id : i \in DOMAIN Tail(queue)}
    BY Zenon DEF Queued
  <2> QED BY Zenon, <2>1, <2>2, <1>1
<1>4. FreshInv'
  <2>1. Seen' = Seen
    BY <1>2, <1>3 DEF Seen
  <2> QED BY ZenonT(40), <2>1, <1>p, IdParts DEF FreshInv
<1>5. \A k \in DOMAIN hand' : hand'[k].id \notin Written' /\ before'[hand'[k].id] \subseteq Written'
  <2>1. queue[1].id \notin Written /\ before[queue[1].id] \subseteq Written
    BY SMTT(30), <1>1, <1>2, <1>p DEF QueueInv
  <2>2. \A k \in DOMAIN hand' : hand'[k] = queue[1]
    BY <1>1
  <2> QED BY ZenonT(40), <2>1, <2>2, <1>2
<1>6. ASSUME NEW k \in DOMAIN queue'
      PROVE  /\ queue'[k].id \notin Written' \cup Handed'
             /\ before'[queue'[k].id] \subseteq Written' \cup Handed' \cup {queue'[i].id : i \in 1..(k - 1)}
             /\ \A i \in 1..(k - 1) : queue'[i].id # queue'[k].id
  <2> DEFINE j == k + 1
  <2>1. /\ j \in DOMAIN queue /\ queue'[k] = queue[j] /\ 1 \in 1..(j - 1)
        /\ \A i \in 1..(k - 1) : queue'[i] = queue[i + 1] /\ i + 1 \in 1..(j - 1)
    BY <1>1
  <2>2. /\ queue[j].id \notin Written
        /\ before[queue[j].id] \subseteq Written \cup {queue[i].id : i \in 1..(j - 1)}
        /\ \A i \in 1..(j - 1) : queue[i].id # queue[j].id
    BY ZenonT(40), <2>1, <1>2, <1>p DEF QueueInv
  <2>3. {queue[i].id : i \in 1..(j - 1)} \subseteq {queue[1].id} \cup {queue'[i].id : i \in 1..(k - 1)}
    <3> SUFFICES ASSUME NEW i \in 1..(j - 1)
                 PROVE  queue[i].id \in {queue[1].id} \cup {queue'[d].id : d \in 1..(k - 1)}
      BY Zenon
    <3>1. CASE i = 1
      BY <3>1
    <3>2. CASE i # 1
      <4>1. i - 1 \in 1..(k - 1) /\ queue'[i - 1] = queue[i]
        BY SMTT(20), <3>2, <1>1
      <4> QED BY ZenonT(40), <4>1
    <3> QED BY Zenon, <3>1, <3>2
  <2> HIDE DEF j
  <2> QED BY ZenonT(40), <2>1, <2>2, <2>3, <1>2
<1>7. QueueInv'
  BY ZenonT(40), <1>5, <1>6 DEF QueueInv
<1>8. BeforeInv' /\ NoOvertaking'
  BY SMTT(30), <1>p DEF BeforeInv, NoOvertaking
<1>9. AcceptedNotLost'
  BY Zenon, <1>2, <1>3, <1>p DEF AcceptedNotLost
<1> QED BY ZenonT(40), <1>4, <1>7, <1>8, <1>9 DEF Content

LEMMA DrainTakeStep ==
  ASSUME BarrierInv, NEW r \in Requests, DrainTake(r)
  PROVE  BarrierInv'
<1>p. Types /\ LockInv /\ CountInv /\ GateInv /\ Content /\ LimitsInv
  BY Zenon, Parts
<1>1. pc[r] = "drain" /\ UNCHANGED <<readers, active, closed, push, wire, returned, before>>
  BY ZenonT(40) DEF DrainTake, DrainTakeWith, historyVars
<1>2. orderMu = r /\ readers = {} /\ hand = <<>> /\ draining /\ Counted = {}
  BY ZenonT(40), <1>1, <1>p DEF LockInv, GateInv, Inside, Granted
<1>3. active \in Nat /\ active' \in Nat /\ "done" \in Places /\ "hand" \in Places /\ "hand" \in Inside
      /\ "hand" # "close"
  BY <1>1, <1>p DEF Types, Places, Inside
<1>4. CASE closed \/ active # 0 \/ queue = <<>>
  <2>1. orderMu' = Nobody /\ pc' = [pc EXCEPT ![r] = "done"] /\ UNCHANGED <<queue, queuedBytes, hand>>
    BY Zenon, <1>4 DEF DrainTake, DrainTakeWith, Goto
  <2>2. Counted' = Counted
    <3>1. Counted' = Counted \ {r}
      BY ZenonT(40), <2>1, <1>3, <1>p, CountMove
    <3> QED BY Zenon, <3>1, <1>2
  <2>3. CountInv'
    BY Zenon, <2>2, <1>1, <1>p DEF CountInv
  <2>4. ~closed' /\ ~Gated' => queue = <<>>
    BY ZenonT(40), <1>1, <1>4 DEF Gated
  <2> QED BY ZenonT(40), <2>1, <2>3, <2>4, <1>1, <1>2, <1>3, DoneStep
<1>5. CASE ~(closed \/ active # 0 \/ queue = <<>>)
  <2>1. /\ pc' = [pc EXCEPT ![r] = "hand"] /\ hand' = <<Head(queue)>> /\ queue' = Tail(queue)
        /\ queuedBytes' = queuedBytes - Head(queue).size /\ UNCHANGED <<orderMu, draining>>
    BY ZenonT(40), <1>5 DEF DrainTake, DrainTakeWith, Goto
  <2>2. queue \in Seq(Pushes) /\ queue # <<>> /\ queuedBytes \in Int /\ Head(queue) \in Pushes /\ Head(queue).size \in Nat
    <3>1. queue \in Seq(Pushes) /\ queue # <<>> /\ queuedBytes \in Int
      BY Zenon, <1>5, <1>p DEF Types
    <3>2. Head(queue) \in Pushes
      BY <3>1
    <3> QED BY Zenon, <3>1, <3>2 DEF Pushes
  <2>3. queue' \in Seq(Pushes) /\ Len(queue') = Len(queue) - 1 /\ Len(queue) \in Nat
    BY SMTT(30), <2>1, <2>2
  <2>4. hand' \in Seq(Pushes) /\ Len(hand') = 1
    BY SMTT(30), <2>1, <2>2
  <2>5. queuedBytes' \in Int /\ queuedBytes' <= queuedBytes
    BY SMTT(30), <2>1, <2>2
  <2>6. wire' \in Seq(Ids \cup Requests)
    BY Zenon, <1>1, <1>p DEF Types
  <2>7. Types' /\ \A p \in Publishers : pc'[p] = pc[p]
    BY ZenonT(40), <2>1, <2>3, <2>4, <2>5, <2>6, <1>1, <1>3, <1>p, TypesMove
  <2>8. LockInv'
    <3>1. orderMu' = IF "hand" \in Inside \cup {"close"} THEN r ELSE Nobody
      BY Zenon, <2>1, <1>2, <1>3
    <3> QED BY ZenonT(40), <3>1, <2>1, <1>1, <1>2, <1>3, <1>p, LockMove, Kinds
  <2>9. Counted' = {}
    <3>1. Counted' = Counted \ {r}
      BY ZenonT(40), <2>1, <1>3, <1>p, CountMove
    <3> QED BY Zenon, <3>1, <1>2
  <2>10. CountInv'
    BY Zenon, <2>9, <1>1, <1>2, <1>p DEF CountInv
  <2>11. GateInv'
    <3>1. Gated' /\ draining'
      BY Zenon, <2>1, <1>2 DEF Gated
    <3>2. IF "hand" = "hand" THEN Len(hand') = 1 /\ r # Shutdown ELSE hand' = <<>>
      BY <2>4, Kinds
    <3> QED BY ZenonT(40), <3>1, <3>2, <2>1, <2>9, <1>1, <1>2, <1>3, <1>p, GateMove
  <2>12. Content'
    BY ZenonT(40), <2>1, <2>2, <2>7, <1>1, <1>2, <1>5, <1>p, TakeContent
  <2>13. LimitsInv'
    <3>1. HeldBytes = BytesOf(queue) /\ HeldBytes' = BytesOf(Tail(queue))
      BY Zenon, <2>1 DEF HeldBytes, BytesOf
    <3>2. Head(queue).id \notin {Tail(queue)[i].id : i \in DOMAIN Tail(queue)}
      <4>1. \A i \in DOMAIN Tail(queue) : i + 1 \in DOMAIN queue /\ 1 \in 1..i /\ Tail(queue)[i] = queue[i + 1]
        BY SMTT(30), <2>2
      <4>2. \A k \in DOMAIN queue : \A i \in 1..(k - 1) : queue[i].id # queue[k].id
        BY <1>p DEF Content, QueueInv
      <4>3. Head(queue) = queue[1] /\ \A i \in DOMAIN Tail(queue) : i \in Nat
        BY <2>2
      <4> QED BY SMTT(30), <4>1, <4>2, <4>3
    <3>3. IsFiniteSet(HeldBytes') /\ Cardinality(HeldBytes) = Cardinality(HeldBytes') + Head(queue).size
      BY ZenonT(40), <2>2, <3>1, <3>2, <1>p, BytesTail DEF LimitsInv
    <3>4. Cardinality(HeldBytes') \in Nat
      BY Zenon, <3>3, FS_CardinalityType
    <3>5. queuedBytes' = Cardinality(HeldBytes')
      BY SMTT(30), <2>1, <2>2, <3>3, <3>4, <1>p DEF LimitsInv
    <3> QED BY SMTT(40), <2>2, <2>3, <2>5, <3>3, <3>5, <1>p, BarrierAssumption DEF LimitsInv
  <2> QED BY Zenon, <2>7, <2>8, <2>10, <2>11, <2>12, <2>13, PartsNext
<1> QED BY Zenon, <1>4, <1>5

LEMMA DrainSubmitStep ==
  ASSUME BarrierInv, NEW r \in Requests, DrainSubmit(r)
  PROVE  BarrierInv'
<1>p. /\ Types /\ LockInv /\ CountInv /\ GateInv /\ Content /\ LimitsInv
      /\ FreshInv /\ QueueInv /\ BeforeInv /\ NoOvertaking /\ AcceptedNotLost
  BY Zenon, Parts DEF Content
<1>1. /\ pc[r] = "hand" /\ pc' = [pc EXCEPT ![r] = "drain"] /\ wire' = Append(wire, Head(hand).id) /\ hand' = <<>>
      /\ UNCHANGED <<orderMu, readers, active, draining, closed, queue, queuedBytes, push, returned, before>>
  BY ZenonT(40) DEF DrainSubmit, Goto, stateVars
<1>2. orderMu = r /\ readers = {} /\ draining /\ Counted = {} /\ Len(hand) = 1
  BY Zenon, <1>1, <1>p DEF LockInv, GateInv, Inside, Granted
<1> DEFINE x == Head(hand).id
<1>3. hand \in Seq(Pushes) /\ DOMAIN hand = {1} /\ Head(hand) = hand[1]
  BY SMTT(20), <1>2, <1>p DEF Types
<1>4. x \in Ids /\ x \notin Written /\ before[x] \subseteq Written /\ Handed = {x}
  <2>1. hand[1].id \in Ids
    BY Zenon, <1>3, <1>p, Known
  <2> QED BY ZenonT(40), <2>1, <1>3, <1>p DEF QueueInv, Handed
<1> HIDE DEF x
<1>5. wire' = Append(wire, x)
  BY ZenonT(40), <1>1 DEF x
<1>6. wire' \in Seq(Ids \cup Requests) /\ Written' = Written \cup {x} /\ NoOvertaking'
  BY SMTT(30), <1>1, <1>4, <1>5, <1>p, WireAppend
<1>7. "drain" \in Places /\ "drain" \in Inside /\ "drain" # "close" /\ "drain" # "hand"
  BY DEF Places, Inside
<1>8. Types' /\ \A p \in Publishers : pc'[p] = pc[p]
  <2>1. active' \in Nat /\ queue' \in Seq(Pushes) /\ hand' \in Seq(Pushes) /\ queuedBytes' \in Int
    BY <1>1, <1>p DEF Types
  <2> QED BY ZenonT(40), <2>1, <1>1, <1>6, <1>7, <1>p, TypesMove
<1>9. LockInv'
  <2>1. orderMu' = IF "drain" \in Inside \cup {"close"} THEN r ELSE Nobody
    BY Zenon, <1>1, <1>2, <1>7
  <2> QED BY ZenonT(40), <2>1, <1>1, <1>2, <1>7, <1>p, LockMove, Kinds
<1>10. Counted' = {}
  <2>1. Counted' = Counted \ {r}
    BY ZenonT(40), <1>1, <1>7, <1>p, CountMove
  <2> QED BY Zenon, <2>1, <1>2
<1>11. CountInv'
  BY Zenon, <1>1, <1>2, <1>10, <1>p DEF CountInv
<1>12. GateInv'
  <2>1. Gated' /\ draining'
    BY ZenonT(40), <1>1, <1>2 DEF Gated
  <2> QED BY ZenonT(40), <2>1, <1>1, <1>2, <1>7, <1>10, <1>p, GateMove
<1>13. Queued' = Queued /\ Handed' = {} /\ DOMAIN hand' = {}
  <2>1. DOMAIN hand' = {}
    BY SMTT(30), <1>1
  <2> QED BY Zenon, <2>1, <1>1 DEF Queued, Handed
<1>14. FreshInv'
  <2>1. Seen' = Seen
    BY ZenonT(40), <1>1, <1>4, <1>6, <1>13 DEF Seen
  <2> QED BY ZenonT(40), <2>1, <1>1, <1>8, <1>p, IdParts DEF FreshInv
<1>15. QueueInv'
  <2>1. Written' \cup Handed' = Written \cup Handed
    BY Zenon, <1>4, <1>6, <1>13
  <2>2. queue' = queue /\ before' = before
    BY Zenon, <1>1
  <2>3. QueueInv
    BY Zenon, <1>p
  <2> QED BY SMTT(30), <2>1, <2>2, <2>3, <1>13 DEF QueueInv
<1>16. BeforeInv' /\ LimitsInv'
  BY Zenon, <1>1, <1>p DEF BeforeInv, LimitsInv, HeldBytes
<1>17. AcceptedNotLost'
  BY ZenonT(40), <1>1, <1>4, <1>6, <1>13, <1>p DEF AcceptedNotLost
<1> QED BY ZenonT(40), <1>6, <1>8, <1>9, <1>11, <1>12, <1>14, <1>15, <1>16, <1>17, PartsNext DEF Content

\* Every step keeps the invariant.
LEMMA BarrierInvStep == BarrierInv /\ [Next]_vars => BarrierInv'
<1> SUFFICES ASSUME BarrierInv, [Next]_vars PROVE BarrierInv'
  OBVIOUS
<1>1. ASSUME NEW p \in Publishers, PushStep(p) PROVE BarrierInv'
  BY ZenonT(40), <1>1, PushDirectStep, PushSubmitStep DEF PushStep
<1>2. ASSUME NEW r \in Requests, BeginLock(r) \/ FinishLock(r) \/ AbortLock(r) PROVE BarrierInv'
  BY ZenonT(40), <1>2, OrderLockStep DEF BeginLock, FinishLock, AbortLock
<1>3. ASSUME CloseLock PROVE BarrierInv'
  BY ZenonT(40), <1>3, OrderLockStep DEF CloseLock
<1>4. ASSUME NEW r \in Requests, RequestStep(r) PROVE BarrierInv'
  BY ZenonT(40), <1>2, <1>4, BeginStep, FinishStep, SubmitReplyStep, ReplyFailedStep, SettleStep, DrainTakeStep,
     DrainSubmitStep, DrainFailsStep, AbortStep DEF RequestStep
<1> QED BY ZenonT(40), <1>1, <1>2, <1>3, <1>4, PushCallStep, ShutdownStep, LeaseEndsStep DEF Next

-----------------------------------------------------------------------------
(* The theorems *)

\* Every reachable state satisfies the invariant: the lock, the counter active,
\* the draining and closed flags, the queue and the order of what is written.
THEOREM BarrierInvariant == Spec => []BarrierInv
<1> QED BY InitBarrierInv, BarrierInvStep, PTL DEF Spec

\* A push is never written twice, and never before, or instead of, one that had
\* been accepted when it started: the direct path, enqueueLocked and drainLocked
\* keep one order, for any number of publishers, requests and pushes.
THEOREM NothingOvertakes == Spec => []NoOvertaking
<1>1. BarrierInv => NoOvertaking
  BY Zenon DEF BarrierInv
<1> QED BY <1>1, BarrierInvariant, PTL

\* An accepted push is written, held or in the hands of drainLocked until the
\* barrier is closed.
THEOREM NothingAcceptedIsLost == Spec => []AcceptedNotLost
<1>1. BarrierInv => AcceptedNotLost
  BY Zenon DEF BarrierInv
<1> QED BY <1>1, BarrierInvariant, PTL

\* enqueueLocked keeps the queue within its two limits, whatever they are, and
\* queuedBytes is the size of what is queued through appends, drains and closes.
THEOREM QueueIsBounded == Spec => []QueueWithinLimits
<1>1. BarrierInv => QueueWithinLimits
  BY DEF BarrierInv, LimitsInv, QueueWithinLimits
<1> QED BY <1>1, BarrierInvariant, PTL

\* A step that writes a push is one of a direct writer or of the drain, and finds
\* no protected request between begin and its reply.
LEMMA SilentStep ==
  BarrierInv /\ [Next]_vars => (wire' # wire /\ wire'[Len(wire')] \in Ids => \A r \in Requests : ~Protected(r))
<1> SUFFICES ASSUME BarrierInv, [Next]_vars, wire' # wire, wire'[Len(wire')] \in Ids, NEW r \in Requests
             PROVE  ~Protected(r)
  OBVIOUS
<1>p. Types /\ LockInv /\ CountInv /\ GateInv
  BY Zenon, Parts
<1>1. Counted = {} => ~Protected(r)
  BY DEF Counted, Protected
<1>2. ASSUME NEW p \in Publishers, NEW written \in BOOLEAN, NEW ok \in BOOLEAN, PushSubmit(p, written, ok)
      PROVE  Counted = {}
  <2>1. ~closed /\ active = 0
    BY ZenonT(40), <1>2, <1>p DEF PushSubmit, LockInv, GateInv, Gated
  <2> QED BY ZenonT(40), <2>1, <1>p, FS_EmptySet DEF CountInv
<1>3. ASSUME NEW d \in Requests, DrainSubmit(d) \/ \E written \in BOOLEAN : DrainFails(d, written)
      PROVE  Counted = {}
  BY <1>3, <1>p DEF DrainSubmit, DrainFails, GateInv
<1>4. ASSUME NEW d \in Requests, NEW written \in BOOLEAN, NEW ok \in BOOLEAN, SubmitReply(d, written, ok)
      PROVE  FALSE
  <2>1. wire' = Append(wire, d) /\ wire \in Seq(Ids \cup Requests) /\ d \notin Ids
    BY Zenon, <1>4, <1>p, BarrierAssumption DEF SubmitReply, Types
  <2>2. wire'[Len(wire')] = d
    BY <2>1
  <2> QED BY ZenonT(40), <2>1, <2>2
<1>5. \/ \E p \in Publishers : \E written, ok \in BOOLEAN : PushSubmit(p, written, ok)
      \/ \E d \in Requests : \/ DrainSubmit(d) \/ (\E written \in BOOLEAN : DrainFails(d, written))
                            \/ \E written, ok \in BOOLEAN : SubmitReply(d, written, ok)
  <2>1. ASSUME NEW t, NEW from, NEW to, OrderLock(t, from, to) PROVE FALSE
    BY Zenon, <2>1 DEF OrderLock, historyVars
  <2>2. ASSUME NEW d \in Requests, RequestStep(d), ~DrainSubmit(d), ~ \E written \in BOOLEAN : DrainFails(d, written),
               ~ \E written, ok \in BOOLEAN : SubmitReply(d, written, ok)
        PROVE  FALSE
    BY ZenonT(40), <2>1, <2>2 DEF RequestStep, Begin, FinishLock, AbortLock, Finish, ReplyFailed, Settle,
       DrainTake, DrainTakeWith, Abort, historyVars
  <2>3. ASSUME NEW p \in Publishers, NEW size \in Sizes[p], PushCall(p, size) \/ PushDirect(p) PROVE FALSE
    BY Zenon, <2>3 DEF PushCall, PushDirect
  <2>4. ASSUME NEW p \in Publishers, PushDirect(p) PROVE FALSE
    BY Zenon, <2>4 DEF PushDirect
  <2>5. ASSUME LeaseEnds \/ Close \/ UNCHANGED vars PROVE FALSE
    BY Zenon, <2>5 DEF LeaseEnds, Close, vars, historyVars
  <2> QED BY ZenonT(40), <2>1, <2>2, <2>3, <2>4, <2>5 DEF Next, PushStep, BeginLock, CloseLock
<1> QED BY ZenonT(40), <1>1, <1>2, <1>3, <1>4, <1>5

\* No push reaches the writer between the begin of a protected request and the
\* write of its reply, whichever of its two checks the push passed before begin
\* took orderMu.
THEOREM ProtectedRequestsAreSilent == Spec => ProtectedSilence
<1> QED BY BarrierInvariant, SilentStep, PTL DEF Spec, ProtectedSilence

-----------------------------------------------------------------------------
(* The push registry around the barrier *)

\* The part of the types that the argument uses.  Only a request that rebinds the
\* session has mutations to apply.
RegistryTypes ==
  /\ registered \in Objects \cup {0}
  /\ targetMu \in [Objects -> Publishers \cup {Nobody}]
  /\ binding \in [Objects -> Bindings]
  /\ reachable \in [Objects -> BOOLEAN]
  /\ plan \in [Publishers -> [object : Objects \cup {0}, binding : Bindings]]
  /\ found \in [Requests -> Objects \cup {0}]
  /\ update \in [Requests -> {"save", "find", "apply", "done"}]
  /\ \A r \in Requests \ Mutators : update[r] = "done"

\* A second registration object is inserted only after the one withdrawal, so
\* nobody has planned for it before.
SecondInv ==
  /\ registered # 1 => removed
  /\ registered # 2 => \A p \in Publishers : plan[p].object # 2

\* A publisher inside Sender.Push holds the mutex of the registration it planned
\* for, and the registration still is what the push was encoded for.
HolderInv ==
  \A p \in Publishers : pc[p] # "idle" =>
    /\ plan[p].object \in Objects /\ targetMu[plan[p].object] = p
    /\ reachable[plan[p].object] /\ binding[plan[p].object] = plan[p].binding

RegistryInv == RegistryTypes /\ SecondInv /\ HolderInv

\* The registry adds guards and state of its own to the barrier's steps.
LEMMA RegistryStepIsBarrierStep == RegistryNext => [Next]_vars
<1> SUFFICES ASSUME RegistryNext PROVE Next \/ UNCHANGED vars
  BY Zenon
<1>1. ASSUME NEW p \in Publishers, Collect(p) \/ PushStale(p) PROVE UNCHANGED vars
  BY Zenon, <1>1 DEF Collect, PushStale
<1>2. ASSUME NEW p \in Publishers, PushOn(p) PROVE Next
  BY Zenon, <1>2 DEF PushOn, Next
<1>3. ASSUME NEW p \in Publishers, NEW size \in Sizes[p], PushCurrent(p, size) PROVE Next
  BY Zenon, <1>3 DEF PushCurrent, Next
<1>4. ASSUME NEW r \in Requests, RequestOn(r) PROVE Next \/ UNCHANGED vars
  <2>1. ASSUME NEW written \in BOOLEAN, NEW ok \in BOOLEAN, Reply(r, written, ok) PROVE Next
    BY Zenon, <2>1 DEF Reply, Next, RequestStep
  <2>2. ASSUME SaveMutation(r) \/ UpdateFind(r) \/ UpdateRetry(r) PROVE UNCHANGED vars
    BY ZenonT(40), <2>2 DEF SaveMutation, UpdateFind, UpdateRetry
  <2>3. ASSUME NEW reach \in BOOLEAN, UpdateInsert(r, reach) \/ UpdateReplace(r, reach) PROVE UNCHANGED vars
    BY Zenon, <2>3 DEF UpdateInsert, UpdateReplace
  <2>4. ASSUME Begin(r) \/ FinishLock(r) \/ AbortLock(r) \/ Finish(r) \/ ReplyFailed(r)
                 \/ Settle(r) \/ DrainTake(r) \/ DrainSubmit(r) \/ Abort(r)
                 \/ (\E written \in BOOLEAN : DrainFails(r, written))
        PROVE  Next
    BY ZenonT(40), <2>4 DEF Next, RequestStep
  <2> QED BY ZenonT(40), <1>4, <2>1, <2>2, <2>3, <2>4 DEF RequestOn
<1>5. ASSUME ShutdownOn PROVE Next \/ UNCHANGED vars
  BY Zenon, <1>5 DEF ShutdownOn, RemovePresence, Next
<1>6. ASSUME NEW r \in Requests, BeginLock(r) PROVE Next
  BY Zenon, <1>6 DEF Next
<1>7. ASSUME LeaseEnds PROVE Next
  BY Zenon, <1>7 DEF Next
<1> QED BY ZenonT(40), <1>1, <1>2, <1>3, <1>4, <1>5, <1>6, <1>7 DEF RegistryNext

\* A session whose pushes come through the registry, and whose replies publish new
\* bindings, uses its barrier as RecoveryPushBarrier says: what is proved of the
\* barrier holds in the composition (runtime_push.go around recovery_push_barrier.go).
THEOREM RegistryImplementsBarrier == RegistrySpec => Spec
<1>1. RegistryInit => Init
  BY Zenon DEF RegistryInit
<1>2. [RegistryNext]_allVars => [Next]_vars
  <2>1. UNCHANGED allVars => UNCHANGED vars
    BY Zenon DEF allVars
  <2> QED BY ZenonT(40), <2>1, RegistryStepIsBarrierStep
<1> QED BY <1>1, <1>2, PTL DEF RegistrySpec, Spec

\* What the requests, the lease and the shutdown do to the barrier: publishers stay
\* where they are and nothing is accepted.
LEMMA OthersMove ==
  ASSUME BarrierInv,
         \/ \E r \in Requests : \/ BeginLock(r) \/ Begin(r) \/ FinishLock(r) \/ AbortLock(r) \/ Finish(r)
                                \/ ReplyFailed(r) \/ Settle(r) \/ DrainTake(r) \/ DrainSubmit(r) \/ (\E written \in BOOLEAN : DrainFails(r, written))
                                \/ Abort(r) \/ \E written, ok \in BOOLEAN : SubmitReply(r, written, ok)
         \/ LeaseEnds \/ CloseLock \/ Close
  PROVE  returned' = returned /\ \A p \in Publishers : pc'[p] = pc[p]
<1>1. Types
  BY ZenonT(40) DEF BarrierInv
<1>2. ASSUME NEW t \in Requests \cup {Shutdown}, NEW to, pc' = [pc EXCEPT ![t] = to]
      PROVE  \A p \in Publishers : pc'[p] = pc[p]
  <2>1. \A p \in Publishers : p \in Threads /\ p # t
    BY Zenon, Kinds
  <2> QED BY Zenon, <1>1, <1>2, <2>1 DEF Types
<1>3. ASSUME NEW r \in Requests, BeginLock(r) \/ FinishLock(r) \/ AbortLock(r)
      PROVE  returned' = returned /\ \A p \in Publishers : pc'[p] = pc[p]
  BY ZenonT(40), <1>2, <1>3 DEF BeginLock, FinishLock, AbortLock, OrderLock, Goto, historyVars
<1>4. ASSUME NEW r \in Requests, Begin(r) \/ ReplyFailed(r) \/ DrainSubmit(r) \/ Abort(r) \/ (\E written \in BOOLEAN : DrainFails(r, written))
      PROVE  returned' = returned /\ \A p \in Publishers : pc'[p] = pc[p]
  BY ZenonT(40), <1>2, <1>4 DEF Begin, ReplyFailed, DrainSubmit, DrainFails, Abort, Goto, historyVars
<1>5. ASSUME NEW r \in Requests, Finish(r) \/ Settle(r) \/ DrainTake(r)
      PROVE  returned' = returned /\ \A p \in Publishers : pc'[p] = pc[p]
  BY ZenonT(40), <1>2, <1>5 DEF Finish, Settle, DrainTake, DrainTakeWith, Goto, historyVars
<1>6. ASSUME NEW r \in Requests, NEW written \in BOOLEAN, NEW ok \in BOOLEAN, SubmitReply(r, written, ok)
      PROVE  returned' = returned /\ \A p \in Publishers : pc'[p] = pc[p]
  BY Zenon, <1>2, <1>6 DEF SubmitReply, Goto
<1>7. ASSUME LeaseEnds PROVE returned' = returned /\ \A p \in Publishers : pc'[p] = pc[p]
  BY Zenon, <1>7 DEF LeaseEnds, historyVars
<1>8. ASSUME CloseLock \/ Close PROVE returned' = returned /\ \A p \in Publishers : pc'[p] = pc[p]
  BY ZenonT(40), <1>2, <1>8 DEF CloseLock, Close, OrderLock, Goto, historyVars
<1> QED BY ZenonT(40), <1>3, <1>4, <1>5, <1>6, <1>7, <1>8

\* A publisher's call moves only that publisher, and accepts at most its own push.
LEMMA CallerMoves ==
  ASSUME BarrierInv, NEW p \in Publishers, PushStep(p) \/ \E size \in Sizes[p] : PushCall(p, size)
  PROVE  /\ \A q \in Publishers : q # p => pc'[q] = pc[q]
         /\ \A i \in returned' \ returned : i[1] = p
         /\ PushStep(p) => pc[p] # "idle"
<1>1. Types
  BY ZenonT(40) DEF BarrierInv
<1>2. ASSUME NEW to, pc' = [pc EXCEPT ![p] = to]
      PROVE  \A q \in Publishers : q # p => pc'[q] = pc[q]
  <2>1. \A q \in Publishers : q \in Threads
    BY ZenonT(40), Kinds
  <2> QED BY Zenon, <1>1, <1>2, <2>1 DEF Types
<1>3. ASSUME NEW n, NEW size, Hold([id |-> <<p, n>>, size |-> size])
      PROVE  \A i \in returned' \ returned : i[1] = p
  <2>1. \/ returned' = returned
        \/ returned' = returned \cup {<<p, n>>}
    BY <1>3 DEF Hold
  <2>2. <<p, n>>[1] = p
    OBVIOUS
  <2> QED BY ZenonT(40), <2>1, <2>2
<1>4. ASSUME NEW size \in Sizes[p], PushCall(p, size)
      PROVE  /\ \A q \in Publishers : q # p => pc'[q] = pc[q]
             /\ \A i \in returned' \ returned : i[1] = p
  BY ZenonT(30), <1>2, <1>3, <1>4 DEF PushCall, Goto
<1>5. ASSUME PushDirect(p)
      PROVE  /\ \A q \in Publishers : q # p => pc'[q] = pc[q]
             /\ \A i \in returned' \ returned : i[1] = p
  BY ZenonT(30), <1>2, <1>3, <1>5 DEF PushDirect, Goto, Mine
<1>6. ASSUME NEW written \in BOOLEAN, NEW ok \in BOOLEAN, PushSubmit(p, written, ok)
      PROVE  /\ \A q \in Publishers : q # p => pc'[q] = pc[q]
             /\ \A i \in returned' \ returned : i[1] = p
  <2>1. returned' = returned \/ returned' = returned \cup {Mine(p).id}
    BY ZenonT(40), <1>6 DEF PushSubmit
  <2>2. Mine(p).id = <<p, push[p].n>>
    BY Zenon DEF Mine
  <2>3. \A i \in returned' \ returned : i[1] = p
    <3>1. <<p, push[p].n>>[1] = p
      OBVIOUS
    <3> QED BY ZenonT(40), <2>1, <2>2, <3>1
  <2> QED BY ZenonT(40), <1>2, <1>6, <2>3 DEF PushSubmit, Goto
<1>7. PushStep(p) => pc[p] # "idle"
  <2>1. PushStep(p) => pc[p] = "direct" \/ pc[p] = "submit"
    BY Zenon DEF PushStep, PushDirect, PushSubmit
  <2> QED BY <2>1
<1> QED BY ZenonT(40), <1>4, <1>5, <1>6, <1>7 DEF PushStep

\* A function changed at one place.
LEMMA Except ==
  ASSUME NEW S, NEW T, NEW f \in [S -> T], NEW x \in S, NEW y \in T
  PROVE  /\ [f EXCEPT ![x] = y] \in [S -> T] /\ [f EXCEPT ![x] = y][x] = y
         /\ \A z \in S : z # x => [f EXCEPT ![x] = y][z] = f[z]
BY Zenon

\* Facts about the names of registrations and bindings.
LEMMA RegistryNames ==
  /\ Objects = {1, 2} /\ 0 \notin Objects /\ Original \in Bindings /\ Mutators \subseteq Bindings
  /\ NoPlan \in [object : Objects \cup {0}, binding : Bindings] /\ NoPlan.object = 0
  /\ Nobody \notin Publishers
BY RegistryAssumption DEF Objects, Bindings, NoPlan

\* PublishProjected outside Sender.Push: the plan of a publisher that is not in a
\* call changes, and nothing else.
LEMMA PlanStep ==
  ASSUME RegistryInv, NEW p \in Publishers, Collect(p) \/ PushStale(p)
  PROVE  RegistryInv'
<1>1. PICK m : /\ plan' = [plan EXCEPT ![p] = m] /\ m \in [object : Objects \cup {0}, binding : Bindings]
               /\ m.object \in {registered, 0}
  <2>1. CASE Collect(p)
    <3>1. plan' = [plan EXCEPT ![p] = [object |-> registered, binding |-> binding[registered]]] /\ registered # 0
      BY ZenonT(40), <2>1 DEF Collect
    <3>2. registered \in Objects /\ binding[registered] \in Bindings
      BY Zenon, <3>1 DEF RegistryInv, RegistryTypes
    <3>3. PICK m : m = [object |-> registered, binding |-> binding[registered]]
      BY Zenon
    <3>4. m \in [object : Objects \cup {0}, binding : Bindings] /\ m.object = registered
      BY <3>2, <3>3
    <3>5. m.object \in {registered, 0}
      BY Zenon, <3>4
    <3> QED BY ZenonT(40), <3>1, <3>3, <3>4, <3>5
  <2>2. CASE PushStale(p)
    BY Zenon, <2>2, RegistryNames DEF PushStale
  <2> QED BY ZenonT(40), <2>1, <2>2
<1>2. /\ pc[p] = "idle" /\ pc' = pc /\ UNCHANGED registryVars /\ update' = update /\ found' = found /\ removed' = removed
  BY Zenon DEF Collect, PushStale, vars
<1>3. plan \in [Publishers -> [object : Objects \cup {0}, binding : Bindings]]
  BY Zenon DEF RegistryInv, RegistryTypes
<1>4. /\ plan' \in [Publishers -> [object : Objects \cup {0}, binding : Bindings]]
      /\ plan'[p] = m /\ \A q \in Publishers : q # p => plan'[q] = plan[q]
  BY Zenon, <1>1, <1>3, Except
<1>5. /\ registered' = registered /\ binding' = binding /\ reachable' = reachable /\ targetMu' = targetMu
  BY Zenon, <1>2 DEF registryVars
<1>6. RegistryTypes'
  BY ZenonT(40), <1>2, <1>4, <1>5 DEF RegistryInv, RegistryTypes
<1>7. SecondInv'
  <2>1. registered' # 2 => \A q \in Publishers : plan'[q].object # 2
    <3> SUFFICES ASSUME registered # 2, NEW q \in Publishers PROVE plan'[q].object # 2
      BY Zenon, <1>5
    <3>1. CASE q = p
      BY SMTT(30), <1>1, <1>4, <3>1
    <3>2. CASE q # p
      BY Zenon, <1>4, <3>2 DEF RegistryInv, SecondInv
    <3> QED BY ZenonT(40), <3>1, <3>2
  <2> QED BY ZenonT(40), <1>2, <1>5, <2>1 DEF RegistryInv, SecondInv
<1>8. HolderInv'
  <2> SUFFICES ASSUME NEW q \in Publishers, pc'[q] # "idle"
               PROVE  /\ plan'[q].object \in Objects /\ targetMu'[plan'[q].object] = q
                      /\ reachable'[plan'[q].object] /\ binding'[plan'[q].object] = plan'[q].binding
    BY Zenon DEF HolderInv
  <2>1. q # p /\ pc[q] # "idle"
    BY Zenon, <1>2
  <2> QED BY ZenonT(40), <1>4, <1>5, <2>1 DEF RegistryInv, HolderInv
<1> QED BY ZenonT(40), <1>6, <1>7, <1>8 DEF RegistryInv

\* Sender.Push: the mutex of the registration is taken when the call does not
\* return at once, and given back when it returns.
LEMMA SenderStep ==
  ASSUME BarrierInv, RegistryInv, NEW p \in Publishers, PushOn(p) \/ \E size \in Sizes[p] : PushCurrent(p, size)
  PROVE  RegistryInv'
<1>1. PICK o : o = plan[p].object
  BY Zenon
<1>2. PushStep(p) \/ \E size \in Sizes[p] : PushCall(p, size)
  BY Zenon DEF PushOn, PushCurrent
<1>3. \A q \in Publishers : q # p => pc'[q] = pc[q]
  BY ZenonT(40), <1>2, CallerMoves
<1>4. /\ o \in Objects /\ reachable[o] /\ binding[o] = plan[p].binding /\ targetMu[o] \in {Nobody, p}
      /\ PushOn(p) => targetMu[o] = p
  <2>1. CASE PushOn(p)
    <3>1. pc[p] # "idle"
      BY ZenonT(40), <1>2, <2>1, CallerMoves DEF PushOn
    <3>2. o \in Objects /\ reachable[o] /\ binding[o] = plan[p].binding /\ targetMu[o] = p
      BY ZenonT(40), <1>1, <3>1 DEF RegistryInv, HolderInv
    <3> QED BY <3>2
  <2>2. CASE ~PushOn(p)
    <3>1. PICK size \in Sizes[p] : PushCurrent(p, size)
      BY Zenon, <2>2
    <3>2. o # 0 /\ targetMu[o] = Nobody /\ reachable[o] /\ binding[o] = plan[p].binding
      BY ZenonT(40), <1>1, <3>1 DEF PushCurrent
    <3>3. plan[p].object \in Objects \cup {0}
      BY DEF RegistryInv, RegistryTypes
    <3> QED BY ZenonT(40), <1>1, <2>2, <3>2, <3>3
  <2> QED BY ZenonT(40), <2>1, <2>2
<1>5. /\ registered' = registered /\ binding' = binding /\ reachable' = reachable
      /\ update' = update /\ found' = found /\ removed' = removed
  BY Zenon DEF PushOn, PushCurrent
<1>6. \/ /\ pc'[p] = "idle" /\ plan' = [plan EXCEPT ![p] = NoPlan]
         /\ targetMu' = targetMu \/ targetMu' = [targetMu EXCEPT ![o] = Nobody]
      \/ plan' = plan /\ targetMu' = [targetMu EXCEPT ![o] = p]
      \/ plan' = plan /\ targetMu' = targetMu /\ targetMu[o] = p
  BY Zenon, <1>1, <1>4 DEF PushOn, PushCurrent
<1>7. /\ plan \in [Publishers -> [object : Objects \cup {0}, binding : Bindings]]
      /\ targetMu \in [Objects -> Publishers \cup {Nobody}]
  BY Zenon DEF RegistryInv, RegistryTypes
<1>8. /\ plan' \in [Publishers -> [object : Objects \cup {0}, binding : Bindings]]
      /\ \A q \in Publishers : q # p => plan'[q] = plan[q]
      /\ plan'[p] = plan[p] \/ (plan'[p] = NoPlan /\ pc'[p] = "idle")
  <2>1. CASE plan' = plan
    BY ZenonT(40), <1>7, <2>1
  <2>2. CASE pc'[p] = "idle" /\ plan' = [plan EXCEPT ![p] = NoPlan]
    <3>1. NoPlan \in [object : Objects \cup {0}, binding : Bindings]
      BY Zenon, RegistryNames
    <3> QED BY ZenonT(40), <1>7, <2>2, <3>1, Except
  <2> QED BY ZenonT(40), <1>6, <2>1, <2>2
<1>9. /\ targetMu' \in [Objects -> Publishers \cup {Nobody}]
      /\ \A x \in Objects : x # o => targetMu'[x] = targetMu[x]
      /\ pc'[p] # "idle" => targetMu'[o] = p
  <2>1. p \in Publishers \cup {Nobody} /\ Nobody \in Publishers \cup {Nobody}
    BY Zenon
  <2>2. CASE pc'[p] = "idle" /\ targetMu' = [targetMu EXCEPT ![o] = Nobody]
    BY ZenonT(40), <1>4, <1>7, <2>1, <2>2, Except
  <2>3. CASE targetMu' = [targetMu EXCEPT ![o] = p]
    BY ZenonT(40), <1>4, <1>7, <2>1, <2>3, Except
  <2>4. CASE targetMu' = targetMu /\ (pc'[p] = "idle" \/ targetMu[o] = p)
    BY Zenon, <1>7, <2>4
  <2> QED BY ZenonT(40), <1>6, <2>2, <2>3, <2>4
<1>10. RegistryTypes'
  BY ZenonT(40), <1>5, <1>8, <1>9 DEF RegistryInv, RegistryTypes
<1>11. SecondInv'
  <2>1. registered' # 2 => \A q \in Publishers : plan'[q].object # 2
    <3> SUFFICES ASSUME registered # 2, NEW q \in Publishers PROVE plan'[q].object # 2
      BY Zenon, <1>5
    <3>1. plan[q].object # 2
      BY Zenon DEF RegistryInv, SecondInv
    <3>2. plan'[q] = plan[q] \/ plan'[q] = NoPlan
      BY ZenonT(40), <1>8
    <3>3. NoPlan.object # 2
      BY RegistryNames
    <3> QED BY ZenonT(40), <3>1, <3>2, <3>3
  <2> QED BY ZenonT(40), <1>5, <2>1 DEF RegistryInv, SecondInv
<1>12. HolderInv'
  <2> SUFFICES ASSUME NEW q \in Publishers, pc'[q] # "idle"
               PROVE  /\ plan'[q].object \in Objects /\ targetMu'[plan'[q].object] = q
                      /\ reachable'[plan'[q].object] /\ binding'[plan'[q].object] = plan'[q].binding
    BY Zenon DEF HolderInv
  <2>1. CASE q = p
    <3>1. plan'[q] = plan[p]
      BY ZenonT(40), <1>8, <2>1
    <3> QED BY ZenonT(40), <1>1, <1>4, <1>5, <1>9, <2>1, <3>1
  <2>2. CASE q # p
    <3>1. pc[q] # "idle" /\ plan'[q] = plan[q]
      BY ZenonT(40), <1>3, <1>8, <2>2
    <3>2. /\ plan[q].object \in Objects /\ targetMu[plan[q].object] = q
          /\ reachable[plan[q].object] /\ binding[plan[q].object] = plan[q].binding
      BY ZenonT(40), <3>1 DEF RegistryInv, HolderInv
    <3>3. plan[q].object # o
      BY SMTT(30), <1>4, <2>2, <3>2, RegistryNames
    <3> QED BY ZenonT(40), <1>5, <1>9, <3>1, <3>2, <3>3
  <2> QED BY Zenon, <2>1, <2>2
<1> QED BY ZenonT(40), <1>10, <1>11, <1>12 DEF RegistryInv

\* A request, the lease or the shutdown moves in the barrier.
LEMMA OthersStep ==
  ASSUME BarrierInv, RegistryInv, UNCHANGED AroundRegistry, \A p \in Publishers : pc'[p] = pc[p]
  PROVE  RegistryInv'
<1>1. /\ registered' = registered /\ binding' = binding /\ reachable' = reachable /\ targetMu' = targetMu
      /\ plan' = plan /\ update' = update /\ found' = found /\ removed' = removed
  BY Zenon DEF AroundRegistry, registryVars
<1>2. RegistryTypes' /\ SecondInv'
  BY Zenon, <1>1 DEF RegistryInv, RegistryTypes, SecondInv
<1>3. HolderInv'
  BY Zenon, <1>1 DEF RegistryInv, HolderInv
<1> QED BY ZenonT(40), <1>2, <1>3 DEF RegistryInv

\* applyMutationsLocked up to the change of a registration.
LEMMA UpdateStep ==
  ASSUME RegistryInv, NEW r \in Requests, SaveMutation(r) \/ UpdateFind(r) \/ UpdateRetry(r)
  PROVE  RegistryInv'
<1>1. PICK to \in {"find", "apply"} : update' = [update EXCEPT ![r] = to]
  BY Zenon DEF SaveMutation, UpdateFind, UpdateRetry
<1>2. /\ registered' = registered /\ binding' = binding /\ reachable' = reachable /\ targetMu' = targetMu
      /\ plan' = plan /\ removed' = removed /\ pc' = pc
  BY ZenonT(40) DEF SaveMutation, UpdateFind, UpdateRetry, vars, registryVars
<1>3. update[r] \in {"save", "find", "apply"}
  <2>1. update[r] = "save" \/ update[r] = "find" \/ update[r] = "apply"
    BY Zenon DEF SaveMutation, UpdateFind, UpdateRetry
  <2> QED BY Zenon, <2>1
<1>4. /\ update \in [Requests -> {"save", "find", "apply", "done"}]
      /\ \A q \in Requests \ Mutators : update[q] = "done"
  BY Zenon DEF RegistryInv, RegistryTypes
<1>5. r \in Mutators
  BY Zenon, <1>3, <1>4
<1>6. /\ update' \in [Requests -> {"save", "find", "apply", "done"}]
      /\ \A q \in Requests : q # r => update'[q] = update[q]
  BY <1>1, <1>4
<1>7. \A q \in Requests \ Mutators : update'[q] = "done"
  BY ZenonT(40), <1>4, <1>5, <1>6
<1>8. found' \in [Requests -> Objects \cup {0}]
  <2>1. found' = found \/ found' = [found EXCEPT ![r] = registered]
    BY Zenon DEF SaveMutation, UpdateFind, UpdateRetry
  <2>2. found \in [Requests -> Objects \cup {0}] /\ registered \in Objects \cup {0}
    BY Zenon DEF RegistryInv, RegistryTypes
  <2>3. [found EXCEPT ![r] = registered] \in [Requests -> Objects \cup {0}]
    BY Zenon, <2>2, Except
  <2> QED BY ZenonT(40), <2>1, <2>2, <2>3
<1>9. RegistryTypes' /\ SecondInv'
  BY ZenonT(40), <1>2, <1>6, <1>7, <1>8 DEF RegistryInv, RegistryTypes, SecondInv
<1>10. HolderInv'
  BY Zenon, <1>2 DEF RegistryInv, HolderInv
<1> QED BY ZenonT(40), <1>9, <1>10 DEF RegistryInv

\* Presence.Update publishes the new binding: on a registration nobody pushes to,
\* or on one that nobody has seen.
LEMMA RebindStep ==
  ASSUME RegistryInv, NEW r \in Requests, NEW reach \in BOOLEAN, UpdateInsert(r, reach) \/ UpdateReplace(r, reach)
  PROVE  RegistryInv'
<1>1. /\ registered \in Objects \cup {0} /\ targetMu \in [Objects -> Publishers \cup {Nobody}]
      /\ binding \in [Objects -> Bindings] /\ reachable \in [Objects -> BOOLEAN]
      /\ found \in [Requests -> Objects \cup {0}] /\ update \in [Requests -> {"save", "find", "apply", "done"}]
      /\ \A q \in Requests \ Mutators : update[q] = "done"
  BY Zenon DEF RegistryInv, RegistryTypes
<1>2. /\ update[r] = "apply" /\ update' = [update EXCEPT ![r] = "done"]
      /\ targetMu' = targetMu /\ plan' = plan /\ found' = found /\ removed' = removed /\ pc' = pc
  BY Zenon DEF UpdateInsert, UpdateReplace, vars
<1>3. PICK o \in Objects : /\ binding' = [binding EXCEPT ![o] = r] /\ reachable' = [reachable EXCEPT ![o] = reach]
                           /\ \A p \in Publishers : pc[p] # "idle" => plan[p].object # o
                           /\ registered' = o /\ (registered' # 1 => removed)
                           /\ registered = 2 => registered' = 2
  <2>1. CASE UpdateInsert(r, reach)
    <3>1. /\ registered = 0 /\ registered' = 2
          /\ binding' = [binding EXCEPT ![2] = r] /\ reachable' = [reachable EXCEPT ![2] = reach]
      BY ZenonT(40), <2>1 DEF UpdateInsert
    <3>2. removed /\ \A p \in Publishers : plan[p].object # 2
      BY <3>1 DEF RegistryInv, SecondInv
    <3>3. 2 \in Objects
      BY RegistryNames
    <3>4. registered # 2
      BY <3>1
    <3> QED BY ZenonT(40), <3>1, <3>2, <3>3, <3>4
  <2>2. CASE UpdateReplace(r, reach)
    <3>1. PICK o : o = found[r]
      BY Zenon
    <3>2. /\ o # 0 /\ targetMu[o] = Nobody /\ registered = o /\ registered' = registered
          /\ binding' = [binding EXCEPT ![o] = r] /\ reachable' = [reachable EXCEPT ![o] = reach]
      BY ZenonT(40), <2>2, <3>1 DEF UpdateReplace
    <3>3. o \in Objects
      BY <1>1, <3>2
    <3>4. \A p \in Publishers : pc[p] # "idle" => plan[p].object # o
      <4> SUFFICES ASSUME NEW p \in Publishers, pc[p] # "idle", plan[p].object = o PROVE FALSE
        BY Zenon
      <4>1. targetMu[plan[p].object] = p
        BY Zenon DEF RegistryInv, HolderInv
      <4>2. p = Nobody
        BY Zenon, <3>2, <4>1
      <4> QED BY Zenon, <4>2, RegistryNames
    <3>5. registered' # 1 => removed
      BY ZenonT(40), <3>2 DEF RegistryInv, SecondInv
    <3> QED BY ZenonT(40), <3>2, <3>3, <3>4, <3>5
  <2> QED BY Zenon, <2>1, <2>2
<1>4. r \in Mutators
  BY <1>1, <1>2
<1>5. r \in Bindings
  BY ZenonT(40), <1>4, RegistryNames
<1>6. /\ binding' \in [Objects -> Bindings] /\ \A x \in Objects : x # o => binding'[x] = binding[x]
  BY ZenonT(40), <1>1, <1>3, <1>5, Except
<1>7. /\ reachable' \in [Objects -> BOOLEAN] /\ \A x \in Objects : x # o => reachable'[x] = reachable[x]
  BY Zenon, <1>1, <1>3, Except
<1>8. /\ update' \in [Requests -> {"save", "find", "apply", "done"}]
      /\ \A q \in Requests \ Mutators : update'[q] = "done"
  <2>1. /\ update' \in [Requests -> {"save", "find", "apply", "done"}]
        /\ \A q \in Requests : q # r => update'[q] = update[q]
    BY ZenonT(40), <1>1, <1>2
  <2> QED BY ZenonT(40), <1>1, <1>4, <2>1
<1>9. registered' \in Objects \cup {0}
  BY Zenon, <1>3
<1>10. RegistryTypes'
  BY ZenonT(40), <1>2, <1>6, <1>7, <1>8, <1>9 DEF RegistryInv, RegistryTypes
<1>11. SecondInv'
  BY Zenon, <1>2, <1>3 DEF RegistryInv, SecondInv
<1>12. HolderInv'
  <2> SUFFICES ASSUME NEW p \in Publishers, pc[p] # "idle"
               PROVE  /\ plan[p].object \in Objects /\ targetMu[plan[p].object] = p
                      /\ reachable'[plan[p].object] /\ binding'[plan[p].object] = plan[p].binding
    BY Zenon, <1>2 DEF HolderInv
  <2>1. /\ plan[p].object \in Objects /\ targetMu[plan[p].object] = p
        /\ reachable[plan[p].object] /\ binding[plan[p].object] = plan[p].binding
    BY Zenon DEF RegistryInv, HolderInv
  <2>2. plan[p].object # o
    BY Zenon, <1>3
  <2> QED BY ZenonT(40), <1>6, <1>7, <2>1, <2>2
<1> QED BY ZenonT(40), <1>10, <1>11, <1>12 DEF RegistryInv

\* Presence.Remove waits for the push in progress.
LEMMA RemoveStep ==
  ASSUME RegistryInv, RemovePresence
  PROVE  RegistryInv'
<1>1. /\ ~removed /\ registered' = 0 /\ removed' = TRUE
      /\ registered # 0 => targetMu[registered] = Nobody
      /\ reachable' = IF registered = 0 THEN reachable ELSE [reachable EXCEPT ![registered] = FALSE]
      /\ binding' = binding /\ targetMu' = targetMu /\ plan' = plan /\ update' = update /\ found' = found /\ pc' = pc
  BY Zenon DEF RemovePresence, vars
<1>2. registered = 1 /\ reachable \in [Objects -> BOOLEAN]
  BY ZenonT(40), <1>1 DEF RegistryInv, SecondInv, RegistryTypes
<1>3. 1 \in Objects /\ registered # 0 /\ registered # 2 /\ registered' # 2
  BY SMTT(30), <1>1, <1>2, RegistryNames
<1>4. reachable' = [reachable EXCEPT ![1] = FALSE] /\ targetMu[1] = Nobody
  BY ZenonT(40), <1>1, <1>2, <1>3
<1>5. reachable' \in [Objects -> BOOLEAN] /\ \A x \in Objects : x # 1 => reachable'[x] = reachable[x]
  BY ZenonT(40), <1>2, <1>3, <1>4, Except
<1>6. registered' \in Objects \cup {0}
  BY Zenon, <1>1
<1>7. RegistryTypes'
  BY ZenonT(40), <1>1, <1>5, <1>6 DEF RegistryInv, RegistryTypes
<1>8. SecondInv'
  BY Zenon, <1>1, <1>3 DEF RegistryInv, SecondInv
<1>9. HolderInv'
  <2> SUFFICES ASSUME NEW p \in Publishers, pc[p] # "idle"
               PROVE  /\ plan[p].object \in Objects /\ targetMu[plan[p].object] = p
                      /\ reachable'[plan[p].object] /\ binding[plan[p].object] = plan[p].binding
    BY Zenon, <1>1 DEF HolderInv
  <2>1. /\ plan[p].object \in Objects /\ targetMu[plan[p].object] = p
        /\ reachable[plan[p].object] /\ binding[plan[p].object] = plan[p].binding
    BY Zenon DEF RegistryInv, HolderInv
  <2>2. plan[p].object # 1
    BY ZenonT(40), <1>4, <2>1, RegistryNames
  <2> QED BY ZenonT(40), <1>5, <2>1, <2>2
<1> QED BY ZenonT(40), <1>7, <1>8, <1>9 DEF RegistryInv

\* Every step of the composition keeps the invariant.
LEMMA RegistryInvStep == BarrierInv /\ RegistryInv /\ [RegistryNext]_allVars => RegistryInv'
<1> SUFFICES ASSUME BarrierInv, RegistryInv, [RegistryNext]_allVars PROVE RegistryInv'
  OBVIOUS
<1>1. ASSUME NEW r \in Requests, RequestOn(r) PROVE RegistryInv'
  <2>1. ASSUME NEW written \in BOOLEAN, NEW ok \in BOOLEAN, Reply(r, written, ok) PROVE RegistryInv'
    <3>1. SubmitReply(r, written, ok) /\ UNCHANGED AroundRegistry
      BY Zenon, <2>1 DEF Reply, AroundRegistry
    <3> QED BY ZenonT(40), <3>1, OthersMove, OthersStep
  <2>2. ASSUME Begin(r) \/ FinishLock(r) \/ AbortLock(r) \/ Finish(r) \/ ReplyFailed(r)
                 \/ Settle(r) \/ DrainTake(r) \/ DrainSubmit(r) \/ Abort(r)
                 \/ (\E written \in BOOLEAN : DrainFails(r, written)),
               UNCHANGED AroundRegistry
        PROVE  RegistryInv'
    BY ZenonT(40), <2>2, OthersMove, OthersStep
  <2> QED BY ZenonT(40), <1>1, <2>1, <2>2, UpdateStep, RebindStep DEF RequestOn
<1>2. ASSUME NEW r \in Requests, BeginLock(r), UNCHANGED AroundRegistry PROVE RegistryInv'
  BY ZenonT(40), <1>2, OthersMove, OthersStep
<1>3. ASSUME LeaseEnds \/ CloseLock \/ Close, UNCHANGED AroundRegistry PROVE RegistryInv'
  BY ZenonT(40), <1>3, OthersMove, OthersStep
<1>4. ASSUME ShutdownOn PROVE RegistryInv'
  BY ZenonT(40), <1>3, <1>4, RemoveStep DEF ShutdownOn
<1>5. ASSUME UNCHANGED allVars PROVE RegistryInv'
  <2>1. UNCHANGED AroundRegistry /\ pc' = pc
    BY Zenon, <1>5 DEF allVars, AroundRegistry, vars
  <2> QED BY Zenon, <2>1, OthersStep
<1> QED BY ZenonT(40), <1>1, <1>2, <1>3, <1>4, <1>5, PlanStep, SenderStep DEF RegistryNext

\* At the start one registration is reachable and nobody is pushing.
LEMMA InitRegistryInv == RegistryInit => RegistryInv
<1> SUFFICES ASSUME RegistryInit PROVE RegistryInv
  OBVIOUS
<1>1. /\ registered = 1 /\ binding = [o \in Objects |-> Original] /\ reachable = [o \in Objects |-> o = 1]
      /\ targetMu = [o \in Objects |-> Nobody] /\ plan = [p \in Publishers |-> NoPlan]
      /\ update = [r \in Requests |-> IF r \in Mutators THEN "save" ELSE "done"]
      /\ found = [r \in Requests |-> 0] /\ pc = [t \in Threads |-> "idle"]
  BY ZenonT(40) DEF RegistryInit, Init
<1>2. /\ registered \in Objects \cup {0} /\ targetMu \in [Objects -> Publishers \cup {Nobody}]
      /\ binding \in [Objects -> Bindings] /\ reachable \in [Objects -> BOOLEAN]
      /\ found \in [Requests -> Objects \cup {0}]
  BY ZenonT(40), <1>1, RegistryNames
<1>3. /\ update \in [Requests -> {"save", "find", "apply", "done"}]
      /\ \A r \in Requests \ Mutators : update[r] = "done"
  BY <1>1
<1>4. /\ plan \in [Publishers -> [object : Objects \cup {0}, binding : Bindings]]
      /\ \A p \in Publishers : plan[p].object = 0
  BY Zenon, <1>1, RegistryNames
<1>5. RegistryTypes
  BY ZenonT(40), <1>2, <1>3, <1>4 DEF RegistryTypes
<1>6. SecondInv
  BY SMTT(30), <1>1, <1>4 DEF SecondInv
<1>7. HolderInv
  BY Zenon, <1>1, Kinds DEF HolderInv
<1> QED BY ZenonT(40), <1>5, <1>6, <1>7 DEF RegistryInv

\* Every reachable state of the composition satisfies the registry's invariant.
THEOREM RegistryInvariant == RegistrySpec => []RegistryInv
<1> QED BY RegistryImplementsBarrier, BarrierInvariant, InitRegistryInv, RegistryInvStep, PTL DEF RegistrySpec

\* A projected push is accepted, into the queue or by the writer, only while the
\* registration has the binding the push was encoded for, for any number of
\* publishers and rebinding requests: pushProjectedIfCurrent compares and pushes
\* under one hold of target.mu, which Update and Remove need (runtime_push.go).
THEOREM ProjectionsAreCurrent == RegistrySpec => ProjectionIsCurrent
<1>1. BarrierInv /\ RegistryInv /\ [RegistryNext]_allVars =>
        [\A i \in returned' \ returned :
           LET p == i[1]  o == plan[p].object IN reachable[o] /\ binding[o] = plan[p].binding]_allVars
  <2> SUFFICES ASSUME BarrierInv, RegistryInv, RegistryNext, NEW i \in returned' \ returned
               PROVE  reachable[plan[i[1]].object] /\ binding[plan[i[1]].object] = plan[i[1]].binding
    BY Zenon
  <2>1. PICK p \in Publishers : PushOn(p) \/ \E size \in Sizes[p] : PushCurrent(p, size)
    <3>1. ASSUME NEW p \in Publishers, Collect(p) \/ PushStale(p) PROVE returned' = returned
      BY Zenon, <3>1 DEF Collect, PushStale, vars, historyVars
    <3>2. ASSUME NEW r \in Requests, RequestOn(r) PROVE returned' = returned
      <4>1. ASSUME NEW written \in BOOLEAN, NEW ok \in BOOLEAN, Reply(r, written, ok) PROVE returned' = returned
        BY Zenon, <4>1, OthersMove DEF Reply
      <4>2. ASSUME SaveMutation(r) \/ UpdateFind(r) \/ UpdateRetry(r) PROVE returned' = returned
        BY Zenon, <4>2 DEF SaveMutation, UpdateFind, UpdateRetry, vars, historyVars
      <4>3. ASSUME NEW reach \in BOOLEAN, UpdateInsert(r, reach) \/ UpdateReplace(r, reach) PROVE returned' = returned
        BY Zenon, <4>3 DEF UpdateInsert, UpdateReplace, vars, historyVars
      <4> QED BY ZenonT(40), <3>2, <4>1, <4>2, <4>3, OthersMove DEF RequestOn
    <3>3. ASSUME ShutdownOn PROVE returned' = returned
      <4>1. ASSUME RemovePresence PROVE returned' = returned
        BY Zenon, <4>1 DEF RemovePresence, vars, historyVars
      <4> QED BY ZenonT(40), <3>3, <4>1, OthersMove DEF ShutdownOn
    <3>4. ASSUME LeaseEnds \/ \E r \in Requests : BeginLock(r) PROVE returned' = returned
      BY Zenon, <3>4, OthersMove
    <3> QED BY ZenonT(40), <3>1, <3>2, <3>3, <3>4 DEF RegistryNext
  <2>2. i[1] = p
    BY Zenon, <2>1, CallerMoves DEF PushOn, PushCurrent
  <2>3. CASE PushOn(p)
    <3>1. pc[p] # "idle"
      BY Zenon, <2>3, CallerMoves DEF PushOn
    <3> QED BY Zenon, <2>2, <3>1 DEF RegistryInv, HolderInv
  <2>4. CASE \E size \in Sizes[p] : PushCurrent(p, size)
    BY Zenon, <2>2, <2>4 DEF PushCurrent
  <2> QED BY ZenonT(40), <2>1, <2>3, <2>4
<1> QED BY <1>1, RegistryImplementsBarrier, BarrierInvariant, RegistryInvariant, PTL DEF ProjectionIsCurrent, RegistrySpec
=============================================================================
