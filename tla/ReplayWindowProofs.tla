------------------------- MODULE ReplayWindowProofs -------------------------
(***************************************************************************)
(* Replay protection, sequence numbers and REQUEST_RETRY for every window  *)
(* size, every set of ids and envelopes with any number of children.       *)
(***************************************************************************)
EXTENDS ReplayWindow, FiniteSetTheorems, TLAPS

\* What a replay state must be for ids to be compared with it.
State(s) == s.floor \in Nat /\ s.recent \subseteq Ids

Types ==
  /\ State(snap) /\ State(cand)
  /\ pc \in {"idle", "validate", "valid", "record", "route", "closed"}
  /\ pc = "validate" => env \in Envelopes /\ Len(todo) <= Len(kept) + 1
  /\ kept \in Seq(Message) /\ todo \in Seq(Message) /\ fresh \in Seq(Message)
  /\ accepted \subseteq Message
  /\ reserved \subseteq Ids
  /\ runs \in [Ids -> Nat]

\* The candidate refuses everything accepted before and everything it has
\* accepted itself, and the two are disjoint.
CandidateInv ==
  pc \in {"validate", "valid"} =>
    /\ \A m \in accepted : Covered(cand, m.id)
    /\ \A k \in DOMAIN fresh : /\ Covered(cand, fresh[k].id)
                               /\ \A m \in accepted : m.id # fresh[k].id

\* A reservation stands for a handler that has not started: its id is about
\* to be accepted, or was accepted with this envelope.
ReservationInv ==
  /\ pc \in {"idle", "validate", "closed"} => reserved = {}
  /\ pc = "valid" => \A i \in reserved : \E k \in DOMAIN fresh : fresh[k].id = i
  /\ pc \in {"record", "route"} => \A i \in reserved : \E m \in accepted : m.id = i
  /\ \A i \in reserved : runs[i] = 0
  /\ \A i \in Ids : runs[i] # 0 => \E m \in accepted : m.id = i

ReplayInv == Types /\ AcceptedStaysRefused /\ CandidateInv /\ ReservationInv /\ ExecutedOnce

\* Message ids are positive numbers.
LEMMA IdsAreNumbers == Ids \subseteq Nat /\ 0 \notin Ids
BY ReplayAssumption

\* A message carries one of the ids.
LEMMA MessageIds == ASSUME NEW m \in Message PROVE m.id \in Ids
BY DEF Message

\* Eviction never uncovers an id: the evicted one is at or below the new floor.
LEMMA AcceptCovers ==
  ASSUME NEW s, State(s), NEW m \in Message, NEW lo \in s.recent \cup {0}
  PROVE  /\ State(Accept(s, m, lo))
         /\ Covered(Accept(s, m, lo), m.id)
         /\ \A i \in Ids : Covered(s, i) => Covered(Accept(s, m, lo), i)
<1> DEFINE t == Accept(s, m, lo)
<1>1. t.floor = FloorAfter(s, lo)
  BY DEF Accept
<1>2. t.recent = (s.recent \ {lo}) \cup (IF m.id <= FloorAfter(s, lo) THEN {} ELSE {m.id})
  BY DEF Accept
<1>3. lo \in Nat /\ s.floor \in Nat /\ m.id \in Nat /\ m.id \in Ids /\ Ids \subseteq Nat
  <2>1. m.id \in Ids
    BY MessageIds
  <2>2. s.floor \in Nat /\ s.recent \subseteq Ids
    BY DEF State
  <2>3. Ids \subseteq Nat
    BY IdsAreNumbers
  <2>4. lo \in Ids \/ lo = 0
    BY <2>2, Zenon
  <2>5. 0 \in Nat
    OBVIOUS
  <2>6. lo \in Nat
    BY <2>3, <2>4, <2>5, Zenon
  <2> QED
    BY <2>1, <2>2, <2>3, <2>6, Zenon
<1>4. FloorAfter(s, lo) \in Nat /\ lo <= FloorAfter(s, lo) /\ s.floor <= FloorAfter(s, lo)
  BY <1>3 DEF FloorAfter
<1> HIDE DEF t
<1>5. State(t)
  BY <1>1, <1>2, <1>3, <1>4 DEF State
<1>6. Covered(t, m.id)
  BY <1>1, <1>2, <1>3, <1>4 DEF Covered
<1>7. ASSUME NEW i \in Ids, Covered(s, i) PROVE Covered(t, i)
  BY <1>1, <1>2, <1>3, <1>4, <1>7 DEF Covered
<1> QED
  BY <1>5, <1>6, <1>7 DEF t

\* Rebuilding the validator from a snapshot forgets no covered id.
LEMMA RestoreCovers ==
  ASSUME NEW s, State(s)
  PROVE  State(Restored(s)) /\ \A i \in Ids : Covered(s, i) => Covered(Restored(s), i)
<1>1. Restored(s).floor = s.floor /\ Restored(s).recent = {i \in s.recent : i > s.floor}
  BY DEF Restored
<1> QED
  BY <1>1, IdsAreNumbers DEF State, Covered

\* The invariant holds in a session without history.
LEMMA InitReplayInv == Init => ReplayInv
BY ReplayAssumption DEF Init, ReplayInv, Types, State, EmptyState, AcceptedStaysRefused, CandidateInv,
   ReservationInv, ExecutedOnce

\* Giving up an envelope before or after its save keeps the invariant.
LEMMA DropKeeps ==
  ASSUME ReplayInv, NEW next \in {"idle", "closed"}, Drop(next),
         snap' = snap, accepted' = accepted, runs' = runs
  PROVE  ReplayInv'
BY DEF ReplayInv, Types, State, EmptyState, AcceptedStaysRefused, CandidateInv, ReservationInv,
   ExecutedOnce, Drop, Covered

\* So does a step of anyone but the reader.
LEMMA StutterKeeps ==
  ASSUME ReplayInv, snap' = snap, reader' = reader, accepted' = accepted, runs' = runs
  PROVE  ReplayInv'
<1>1. /\ pc' = pc /\ env' = env /\ kept' = kept /\ todo' = todo /\ cand' = cand /\ fresh' = fresh
      /\ reserved' = reserved
  BY DEF reader
<1> QED
  BY <1>1 DEF ReplayInv, Types, State, AcceptedStaysRefused, CandidateInv, ReservationInv,
     ExecutedOnce, Covered

\* Every step keeps the invariant.
LEMMA ReplayInvStep == ReplayInv /\ [Next]_vars => ReplayInv'
<1> SUFFICES ASSUME ReplayInv, [Next]_vars PROVE ReplayInv'
  OBVIOUS
<1>0. \A m \in accepted : m.id \in Ids
  BY DEF ReplayInv, Types, Message
<1>1. ASSUME NEW e \in Envelopes, Deliver(e) PROVE ReplayInv'
  <2>1. e.children \in Seq(Message) /\ e.outer \in Message
    BY ReplayAssumption
  <2>2. <<e.outer>> \o e.children \in Seq(Message) /\ Len(<<e.outer>> \o e.children) = Len(e.children) + 1
    BY <2>1
  <2>3. State(cand') /\ \A m \in accepted : Covered(cand', m.id)
    BY SMTT(60), <1>0, <1>1, RestoreCovers DEF Deliver, Restart, ReplayInv, Types, AcceptedStaysRefused
  <2> QED
    BY SMTT(30), <1>1, <2>1, <2>2, <2>3 DEF Deliver, Restart, ReplayInv, Types, AcceptedStaysRefused, CandidateInv,
       ReservationInv, ExecutedOnce, process, history
<1>2. CASE ValidateOne
  <2> DEFINE m == Head(todo)
  <2>1. m \in Message /\ todo' \in Seq(Message) /\ Len(todo') <= Len(kept) + 1
    BY <1>2 DEF ValidateOne, ReplayInv, Types
  <2>2. PICK lo \in cand.recent \cup {0} : cand' = Accept(cand, m, lo)
    BY <1>2 DEF ValidateOne
  <2>3. /\ State(cand') /\ Covered(cand', m.id)
        /\ \A i \in Ids : Covered(cand, i) => Covered(cand', i)
    BY <2>1, <2>2, AcceptCovers DEF ReplayInv, Types
  <2>4. \A n \in accepted : n.id # m.id
    BY <1>2 DEF ValidateOne, Replay, ReplayInv, CandidateInv, Covered
  <2>5. fresh' = Append(fresh, m) /\ fresh \in Seq(Message) /\ fresh' \in Seq(Message)
    BY <1>2, <2>1 DEF ValidateOne, ReplayInv, Types
  <2>6. \A k \in DOMAIN fresh' : fresh'[k] = m \/ (k \in DOMAIN fresh /\ fresh'[k] = fresh[k])
    BY <2>1, <2>5
  <2>7. \A k \in DOMAIN fresh : fresh[k].id \in Ids
    BY SMTT(60), <2>5, MessageIds
  <2>8. Types'
    <3>1. UNCHANGED <<snap, pc, env, kept, reserved, accepted, runs>>
      BY Zenon, <1>2 DEF ValidateOne, history
    <3> HIDE DEF m
    <3> QED BY <2>1, <2>3, <2>5, <3>1 DEF ReplayInv, Types
  <2>9. CandidateInv'
    BY SMTT(30), <1>0, <1>2, <2>3, <2>4, <2>6, <2>7 DEF ValidateOne, ReplayInv, CandidateInv, history
  <2> QED
    BY SMTT(60), <1>2, <2>8, <2>9 DEF ValidateOne, ReplayInv, AcceptedStaysRefused, ReservationInv,
       ExecutedOnce, process, history
<1>3. CASE SkipRetransmission
  <2> DEFINE at == Len(kept) - Len(todo) + 1
             left == SubSeq(kept, 1, at - 1) \o SubSeq(kept, at + 1, Len(kept))
  <2>1. left \in Seq(Message)
    <3>1. kept \in Seq(Message) /\ Len(todo) \in Nat /\ Len(kept) \in Nat /\ Len(todo) # 0
      BY SMTT(60), <1>3 DEF SkipRetransmission, ReplayInv, Types
    <3>2. at \in Nat /\ at <= Len(kept)
      BY <1>3, <3>1 DEF SkipRetransmission, ReplayInv, Types
    <3>3. SubSeq(kept, 1, at - 1) \in Seq(Message)
      BY <3>1, <3>2
    <3>4. SubSeq(kept, at + 1, Len(kept)) \in Seq(Message)
      <4>1. CASE at + 1 > Len(kept)
        BY <3>1, <3>2, <4>1
      <4>2. CASE at + 1 <= Len(kept)
        BY SMTT(60), <3>1, <3>2, <4>2
      <4> QED
        BY SMTT(60), <3>1, <3>2, <4>1, <4>2
    <3> QED
      BY <3>3, <3>4
  <2>2. env.outer \in Message
    BY SMTT(60), <1>3, ReplayAssumption DEF SkipRetransmission, ReplayInv, Types
  <2>3. kept' = left /\ todo' = <<env.outer>> \o left /\ fresh' = <<>> /\ cand' = Restored(snap)
    BY <1>3 DEF SkipRetransmission, Restart
  <2> HIDE DEF left
  <2>5. kept' \in Seq(Message) /\ todo' \in Seq(Message) /\ Len(todo') <= Len(kept') + 1
    <3>1. /\ <<env.outer>> \o left \in Seq(Message)
          /\ Len(<<env.outer>> \o left) = Len(left) + 1 /\ Len(left) \in Nat
      BY <2>1, <2>2
    <3> QED
      BY <2>1, <2>3, <3>1
  <2>4. State(cand') /\ \A m \in accepted : Covered(cand', m.id)
    BY <1>0, <2>3, RestoreCovers DEF ReplayInv, Types, AcceptedStaysRefused
  <2>6. /\ pc = "validate" /\ pc' = pc /\ env' = env /\ snap' = snap /\ reserved' = reserved
        /\ accepted' = accepted /\ runs' = runs
    BY <1>3 DEF SkipRetransmission, history
  <2> QED
    BY SMTT(60), <2>3, <2>4, <2>5, <2>6 DEF ReplayInv, Types, State, AcceptedStaysRefused, Covered,
       CandidateInv, ReservationInv, ExecutedOnce
<1>4. CASE RefuseReplay \/ Refuse \/ RejectOverloaded \/ Routed \/ CloseReader \/ Reconnect \/ Crash
  <2>1. UNCHANGED <<snap, accepted, runs>> /\ (Drop("idle") \/ Drop("closed"))
    BY Zenon, <1>4 DEF RefuseReplay, Refuse, RejectOverloaded, Routed, CloseReader, Reconnect, Crash, history
  <2> QED BY Zenon, <2>1, DropKeeps
<1>5. CASE Begin
  <2>1. \A i \in Wanted : i \in Ids /\ \E k \in DOMAIN fresh : fresh[k].id = i
    <3>1. \A k \in DOMAIN fresh : fresh[k].id \in Ids
      BY SMTT(60), MessageIds DEF ReplayInv, Types
    <3> QED
      BY <3>1 DEF Wanted
  <2>2. \A i \in Wanted : runs[i] = 0
    BY SMTT(60), <1>5, <2>1 DEF Begin, ReplayInv, CandidateInv, ReservationInv
  <2> QED
    BY <1>5, <2>1, <2>2 DEF Begin, ReplayInv, Types, AcceptedStaysRefused, CandidateInv, ReservationInv,
       ExecutedOnce, process, history
<1>6. CASE Save
  <2>1. Elems(fresh) \subseteq Message
    BY SMTT(60) DEF Elems, ReplayInv, Types
  <2>2. \A m \in accepted' : Covered(cand, m.id)
    BY <1>6 DEF Save, Elems, ReplayInv, CandidateInv
  <2>3. \A i \in reserved : \E m \in accepted' : m.id = i
    BY SMTT(60), <1>6 DEF Save, Elems, ReplayInv, ReservationInv
  <2> QED
    BY <1>6, <2>1, <2>2, <2>3 DEF Save, ReplayInv, Types, AcceptedStaysRefused, CandidateInv,
       ReservationInv, ExecutedOnce, process
<1>7. CASE Record
  BY <1>7 DEF Record, ReplayInv, Types, AcceptedStaysRefused, CandidateInv, ReservationInv,
     ExecutedOnce, history
<1>8. CASE RouteFresh
  <2> DEFINE i == Head(route).id
  <2>1. CASE i \in reserved
    <3>1. runs[i] = 0 /\ i \in Ids /\ \E m \in accepted : m.id = i
      BY ZenonT(60), <1>8, <2>1 DEF RouteFresh, ReplayInv, Types, ReservationInv
    <3>2. runs' = [runs EXCEPT ![i] = 1] /\ reserved' = reserved \ {i}
      BY SMTT(30), <1>8, <2>1, <3>1 DEF RouteFresh
    <3> QED
      BY SMTT(60), <1>8, <3>1, <3>2 DEF RouteFresh, ReplayInv, Types, State, AcceptedStaysRefused, CandidateInv,
         ReservationInv, ExecutedOnce, Covered
  <2>2. CASE i \notin reserved
    BY ZenonT(40), <1>8, <2>2 DEF RouteFresh, ReplayInv, Types, AcceptedStaysRefused, CandidateInv,
       ReservationInv, ExecutedOnce
  <2> QED
    BY SMTT(60), <2>1, <2>2
<1>9. CASE RouteReplay \/ \E i \in Ids : RouteDrop(i)
  <2>1. UNCHANGED <<snap, pc, env, kept, todo, cand, fresh, reserved, accepted, runs>>
    BY Zenon, <1>9 DEF RouteReplay, RouteDrop, history
  <2> QED
    BY <2>1 DEF ReplayInv, Types, State, AcceptedStaysRefused, CandidateInv, ReservationInv,
       ExecutedOnce, Covered
<1>10. ASSUME NEW i \in Ids, Write(i) \/ Answer(i) \/ Abandon(i) \/ Forget(i) \/ CancelHandler(i) PROVE ReplayInv'
  BY Zenon, <1>10, StutterKeeps DEF Write, Answer, Abandon, Forget, CancelHandler, history
<1>11. CASE ExpireEntry \/ CloseSession \/ UNCHANGED vars
  BY ZenonT(40), <1>11, StutterKeeps DEF ExpireEntry, CloseSession, vars, history
<1> QED
  BY Zenon, <1>1, <1>2, <1>3, <1>4, <1>5, <1>6, <1>7, <1>8, <1>9, <1>10, <1>11 DEF Next

\* The replay window's invariant, for every behaviour.
THEOREM ReplayInvariant == Spec => []ReplayInv
BY InitReplayInv, ReplayInvStep, PTL DEF Spec

\* An id whose acceptance was saved is refused for good: eviction from the
\* recent set, restarts and reconnects never open the window to it again.
THEOREM AcceptanceIsForGood == Spec => []AcceptedStaysRefused
<1>1. ReplayInv => AcceptedStaysRefused
  BY DEF ReplayInv
<1> QED
  BY <1>1, ReplayInvariant, PTL

\* No handler starts twice for one client message id, whatever containers,
\* resends, reconnects and process restarts the session goes through.
THEOREM HandlersRunAtMostOnce == Spec => []ExecutedOnce
<1>1. ReplayInv => ExecutedOnce
  BY DEF ReplayInv
<1> QED
  BY <1>1, ReplayInvariant, PTL
-----------------------------------------------------------------------------
(* Sequence numbers *)

Content(ms) == {m.seq : m \in {n \in ms : ContentRelated(n)}}
OnceIn(ms) == \A m, n \in ms : ContentRelated(m) /\ ContentRelated(n) /\ m.seq = n.seq => m = n

\* The numbers remembered under the next number seq: each once, odd and inside
\* the reordering window, and among them every accepted number (ns) that is in it.
Window(seqs, seq, ns) ==
  /\ seqs \in Seq(Nat) /\ seq \in Nat /\ seq % 2 = 0
  /\ \A i, j \in DOMAIN seqs : seqs[i] = seqs[j] /\ seqs[i] # 0 => i = j
  /\ \A i \in DOMAIN seqs : seqs[i] # 0 =>
       seqs[i] % 2 = 1 /\ seqs[i] < seq /\ seqs[i] + 2 * SeqLimit >= seq + 1
  /\ \A n \in ns : /\ n \in Nat /\ n % 2 = 1 /\ n < seq
                   /\ n + 2 * SeqLimit >= seq + 1 => n \in Elems(seqs)

\* What was accepted before and, while an envelope is being validated, with it.
SequenceInv ==
  /\ Window(snap.seqs, snap.seq, Content(accepted)) /\ SequenceOnce
  /\ pc \in {"validate", "valid"} =>
       /\ Window(cand.seqs, cand.seq, Content(accepted \cup Elems(fresh)))
       /\ OnceIn(accepted \cup Elems(fresh))

\* Keeping leaves the places of a list alone.
LEMMA KeepingSeq ==
  ASSUME NEW seqs \in Seq(Nat), NEW at
  PROVE  /\ Keeping(seqs, at) \in Seq(Nat) /\ DOMAIN Keeping(seqs, at) = DOMAIN seqs
         /\ \A i \in DOMAIN seqs : Keeping(seqs, at)[i] = IF i \in at THEN seqs[i] ELSE 0
BY DEF Keeping

\* Pruning for a larger next number keeps what the window still admits.
LEMMA PrunedWindow ==
  ASSUME NEW seqs, NEW seq, NEW ns, Window(seqs, seq, ns), NEW up \in Nat, seq <= up, up % 2 = 0
  PROVE  Window(Pruned(seqs, up), up, ns)
<1> DEFINE at == {i \in DOMAIN seqs : seqs[i] + 2 * SeqLimit >= up + 1}
           p == Keeping(seqs, at)
<1>0. SeqLimit \in Nat /\ seq \in Nat /\ seqs \in Seq(Nat)
  BY ReplayAssumption DEF Window
<1>1. /\ p \in Seq(Nat) /\ DOMAIN p = DOMAIN seqs
      /\ \A i \in DOMAIN seqs : p[i] = IF i \in at THEN seqs[i] ELSE 0
  BY Zenon, <1>0, KeepingSeq
<1>2. \A i \in DOMAIN seqs : seqs[i] \in Nat
  BY <1>0
<1> HIDE DEF p
<1>3. \A i, j \in DOMAIN p : p[i] = p[j] /\ p[i] # 0 => i = j
  BY <1>1 DEF Window
<1>4. \A i \in DOMAIN p : p[i] # 0 => p[i] % 2 = 1 /\ p[i] < up /\ p[i] + 2 * SeqLimit >= up + 1
  <2> SUFFICES ASSUME NEW i \in DOMAIN seqs, p[i] # 0
               PROVE  p[i] % 2 = 1 /\ p[i] < up /\ p[i] + 2 * SeqLimit >= up + 1
    BY Zenon, <1>1
  <2>1. p[i] = seqs[i] /\ seqs[i] # 0 /\ seqs[i] \in Nat /\ seqs[i] + 2 * SeqLimit >= up + 1
    BY <1>1, <1>2
  <2>2. seqs[i] % 2 = 1 /\ seqs[i] < seq
    BY Zenon, <2>1 DEF Window
  <2>3. seqs[i] < up
    BY SMTT(40), <2>1, <2>2, <1>0
  <2> QED BY Zenon, <2>1, <2>2, <2>3
<1>5. ASSUME NEW n \in ns
      PROVE  n \in Nat /\ n % 2 = 1 /\ n < up /\ (n + 2 * SeqLimit >= up + 1 => n \in Elems(p))
  <2>1. n \in Nat /\ n % 2 = 1 /\ n < seq /\ (n + 2 * SeqLimit >= seq + 1 => n \in Elems(seqs))
    BY DEF Window
  <2>2. ASSUME n + 2 * SeqLimit >= up + 1 PROVE n \in Elems(p)
    <3>1. PICK i \in DOMAIN seqs : seqs[i] = n
      BY SMTT(30), <2>1, <2>2, <1>0 DEF Elems
    <3>2. p[i] = n
      BY <3>1, <2>2, <1>1
    <3> QED BY <3>1, <3>2, <1>1 DEF Elems
  <2> QED BY <2>1, <2>2, <1>0
<1>6. Window(p, up, ns)
  BY Zenon, <1>1, <1>3, <1>4, <1>5 DEF Window
<1> QED BY Zenon, <1>6 DEF Pruned, p

\* The odd numbers of the window, from its lower end on, are its places 1 to SeqLimit.
PlaceOf(n, seq) == ((n + 2 * SeqLimit - (seq + 1)) \div 2) + 1

\* An odd number that the window admits has a place in it ...
LEMMA PlaceInWindow ==
  ASSUME SeqLimit \in Nat, NEW n \in Nat, NEW seq \in Nat, n % 2 = 1, seq % 2 = 0,
         n < seq, n + 2 * SeqLimit >= seq + 1
  PROVE  PlaceOf(n, seq) \in 1 .. SeqLimit
BY DEF PlaceOf

\* ... and different numbers have different places.
LEMMA PlacesDiffer ==
  ASSUME SeqLimit \in Nat, NEW n \in Nat, NEW k \in Nat, NEW seq \in Nat, n % 2 = 1, k % 2 = 1, seq % 2 = 0,
         PlaceOf(n, seq) = PlaceOf(k, seq)
  PROVE  n = k
<1> DEFINE x == n + 2 * SeqLimit - (seq + 1)
           y == k + 2 * SeqLimit - (seq + 1)
<1>1. x \in Int /\ y \in Int /\ x % 2 = 0 /\ y % 2 = 0
  OBVIOUS
<1>2. x \div 2 = y \div 2
  BY <1>1 DEF PlaceOf
<1> HIDE DEF x, y
<1>3. x = y
  BY <1>1, <1>2
<1> QED BY <1>3 DEF x, y

\* The window has room for as many numbers as are kept at most: rememberSequenceNo
\* never gives one up that could come again.
LEMMA NotFull ==
  ASSUME NEW seqs, NEW seq, NEW ns, Window(seqs, seq, ns),
         NEW n \in Nat, n % 2 = 1, n < seq, n + 2 * SeqLimit >= seq + 1, n \notin Elems(seqs)
  PROVE  Cardinality(Remembers(seqs)) # SeqLimit
<1> DEFINE at == Remembers(seqs)
           num(i) == IF i = 0 THEN n ELSE seqs[i]
           place(i) == PlaceOf(num(i), seq)
           f == [i \in at \cup {0} |-> place(i)]
<1>0. SeqLimit \in Nat /\ seq \in Nat /\ seq % 2 = 0 /\ seqs \in Seq(Nat)
  BY ReplayAssumption DEF Window
<1>1. 0 \notin at /\ \A i \in at : i \in DOMAIN seqs /\ i # 0
  BY <1>0 DEF Remembers
<1>2. \A i \in at \cup {0} : /\ num(i) \in Nat /\ num(i) % 2 = 1 /\ num(i) < seq
                             /\ num(i) + 2 * SeqLimit >= seq + 1
  BY SMTT(30), <1>0, <1>1 DEF Window, Remembers
<1>3. \A i, j \in at \cup {0} : num(i) = num(j) => i = j
  BY <1>0, <1>1 DEF Window, Remembers, Elems
<1> HIDE DEF num, at
<1>4. \A i \in at \cup {0} : place(i) \in 1 .. SeqLimit
  BY Zenon, <1>0, <1>2, PlaceInWindow
<1>5. \A i, j \in at \cup {0} : place(i) = place(j) => num(i) = num(j)
  BY Zenon, <1>0, <1>2, PlacesDiffer
<1> HIDE DEF place
<1>6. f \in Injection(at \cup {0}, 1 .. SeqLimit)
  BY <1>3, <1>4, <1>5 DEF Injection, IsInjective
<1> HIDE DEF f
<1>7. IsFiniteSet(1 .. SeqLimit) /\ Cardinality(1 .. SeqLimit) = SeqLimit
  <2>1. IsFiniteSet(1 .. SeqLimit) /\ Cardinality(1 .. SeqLimit) = IF 1 > SeqLimit THEN 0 ELSE SeqLimit - 1 + 1
    <3>1. 1 \in Int /\ SeqLimit \in Int
      BY <1>0
    <3> QED BY Zenon, <3>1, FS_Interval
  <2> QED BY <2>1, <1>0
<1>8. IsFiniteSet(at \cup {0}) /\ Cardinality(at \cup {0}) <= SeqLimit
  BY <1>6, <1>7, FS_Injection
<1>9. IsFiniteSet(at)
  BY <1>8, FS_Subset
<1>10. Cardinality(at \cup {0}) = Cardinality(at) + 1 /\ Cardinality(at) \in Nat
  BY Zenon, <1>1, <1>9, FS_AddElement, FS_CardinalityType
<1> QED BY <1>0, <1>8, <1>10 DEF at

\* Rebuilding the validator from a snapshot forgets no number of the window.
LEMMA RestoreWindow ==
  ASSUME NEW s, NEW ns, Window(s.seqs, s.seq, ns)
  PROVE  Window(Restored(s).seqs, Restored(s).seq, ns)
<1> DEFINE below == {i \in DOMAIN s.seqs : s.seqs[i] % 2 = 1 /\ s.seqs[i] < s.seq + 1}
           p == Keeping(s.seqs, below)
<1>1. Restored(s).seq = s.seq /\ Restored(s).seqs = Pruned(p, s.seq)
  BY DEF Restored
<1>2. s.seqs \in Seq(Nat) /\ s.seq \in Nat /\ s.seq % 2 = 0
  BY Zenon DEF Window
<1>3. p = s.seqs
  <2>1. /\ p \in Seq(Nat) /\ DOMAIN p = DOMAIN s.seqs
        /\ \A i \in DOMAIN s.seqs : p[i] = IF i \in below THEN s.seqs[i] ELSE 0
    BY SMTT(30), <1>2, KeepingSeq
  <2>2. ASSUME NEW i \in DOMAIN s.seqs PROVE p[i] = s.seqs[i]
    <3>1. s.seqs[i] \in Nat
      BY SMTT(30), <1>2
    <3>2. CASE s.seqs[i] = 0
      BY <2>1, <3>2
    <3>3. CASE s.seqs[i] # 0
      <4>1. s.seqs[i] % 2 = 1 /\ s.seqs[i] < s.seq
        BY Zenon, <3>3 DEF Window
      <4>2. i \in below
        BY <3>1, <4>1, <1>2
      <4> QED BY Zenon, <2>1, <4>2
    <3> QED BY Zenon, <3>2, <3>3
  <2> HIDE DEF p
  <2> QED BY SMTT(30), <2>1, <2>2, <1>2
<1> HIDE DEF p
<1>4. s.seq <= s.seq
  BY <1>2
<1>5. Window(Pruned(s.seqs, s.seq), s.seq, ns)
  BY Zenon, <1>2, <1>4, PrunedWindow
<1> QED BY ZenonT(40), <1>1, <1>3, <1>5

\* A number that validateSequenceNo admits was not accepted before.
LEMMA AdmittedIsNew ==
  ASSUME NEW s, NEW ns, Window(s.seqs, s.seq, ns), NEW m \in Message, ContentRelated(m), SequenceOK(s, m)
  PROVE  m.seq \in Nat /\ m.seq % 2 = 1 /\ m.seq + 2 * SeqLimit >= s.seq + 1 /\ m.seq \notin ns
<1>0. SeqLimit \in Nat /\ SeqLimit # 0 /\ s.seq \in Nat /\ m.seq \in Nat
  BY ReplayAssumption DEF Window, Message
<1>1. /\ m.seq % 2 = 1
      /\ \/ m.seq = s.seq + 1
         \/ s.seq = 0
         \/ m.seq \notin Elems(s.seqs) /\ m.seq + 2 * SeqLimit >= s.seq + 1
  BY Zenon DEF SequenceOK
<1>2. \A n \in ns : n \in Nat /\ n < s.seq /\ (n + 2 * SeqLimit >= s.seq + 1 => n \in Elems(s.seqs))
  BY Zenon DEF Window
<1> QED BY SMTT(30), <1>0, <1>1, <1>2

\* validateOne remembers the number of a content message, and forgets none that
\* the window still admits.
LEMMA AcceptWindow ==
  ASSUME NEW s, NEW ns, Window(s.seqs, s.seq, ns), NEW m \in Message, ContentRelated(m), SequenceOK(s, m), NEW lo
  PROVE  Window(Accept(s, m, lo).seqs, Accept(s, m, lo).seq, ns \cup {m.seq})
<1> DEFINE up == IF m.seq >= s.seq + 1 THEN m.seq + 1 ELSE s.seq
           p == Pruned(s.seqs, up)
           q == Append(p, m.seq)
<1>0. SeqLimit \in Nat /\ SeqLimit # 0 /\ s.seq \in Nat /\ s.seq % 2 = 0 /\ m.seq \in Nat
  BY ReplayAssumption DEF Window, Message
<1>1. m.seq % 2 = 1 /\ m.seq + 2 * SeqLimit >= s.seq + 1 /\ m.seq \notin ns
  BY ZenonT(40), AdmittedIsNew
<1>2. Accept(s, m, lo).seq = up /\ Accept(s, m, lo).seqs = SeqRemembered(p, m.seq)
  BY DEF Accept
<1>3. up \in Nat /\ s.seq <= up /\ up % 2 = 0 /\ m.seq < up /\ m.seq + 2 * SeqLimit >= up + 1
  BY <1>0, <1>1
<1> HIDE DEF up, p, q
<1>4. Window(p, up, ns)
  BY Zenon, <1>3, PrunedWindow DEF p
<1>5. p \in Seq(Nat) /\ m.seq # 0
  BY SMTT(30), <1>1, <1>4 DEF Window
<1>6. m.seq \notin Elems(p)
  <2> SUFFICES ASSUME NEW i \in DOMAIN p, p[i] = m.seq PROVE FALSE
    BY Zenon DEF Elems
  <2>1. p[i] < up
    BY <1>4, <1>5 DEF Window
  <2>2. i \in DOMAIN s.seqs /\ s.seqs[i] = m.seq
    <3>1. /\ DOMAIN p = DOMAIN s.seqs
          /\ \A j \in DOMAIN s.seqs : p[j] = s.seqs[j] \/ p[j] = 0
      BY SMTT(30), KeepingSeq DEF p, Pruned, Window
    <3> QED BY ZenonT(40), <3>1, <1>5
  <2>3. m.seq < s.seq /\ m.seq \in Elems(s.seqs)
    BY Zenon, <2>2, <1>5 DEF Window, Elems
  <2>4. m.seq # s.seq + 1 /\ s.seq # 0
    BY SMTT(30), <2>3, <1>0, <1>5
  <2> QED BY ZenonT(40), <2>3, <2>4, <1>0 DEF SequenceOK
<1>7. SeqRemembered(p, m.seq) = q
  BY Zenon, <1>0, <1>1, <1>3, <1>4, <1>6, NotFull DEF SeqRemembered, q
<1>8. /\ q \in Seq(Nat) /\ Len(q) = Len(p) + 1 /\ q[Len(q)] = m.seq
      /\ DOMAIN q = DOMAIN p \cup {Len(q)} /\ \A i \in DOMAIN p : q[i] = p[i]
  BY SMTT(30), <1>0, <1>5 DEF q
<1>9. \A i, j \in DOMAIN q : q[i] = q[j] /\ q[i] # 0 => i = j
  <2>1. \A i, j \in DOMAIN p : p[i] = p[j] /\ p[i] # 0 => i = j
    BY Zenon, <1>4 DEF Window
  <2>2. \A i \in DOMAIN p : q[i] # m.seq
    BY <1>6, <1>8 DEF Elems
  <2> QED BY <2>1, <2>2, <1>8
<1>10. \A i \in DOMAIN q : q[i] # 0 => q[i] % 2 = 1 /\ q[i] < up /\ q[i] + 2 * SeqLimit >= up + 1
  BY Zenon, <1>1, <1>3, <1>4, <1>8 DEF Window
<1>11. \A n \in ns \cup {m.seq} : /\ n \in Nat /\ n % 2 = 1 /\ n < up
                                  /\ n + 2 * SeqLimit >= up + 1 => n \in Elems(q)
  <2>1. \A n \in Elems(p) \cup {m.seq} : n \in Elems(q)
    BY <1>8 DEF Elems
  <2>2. \A n \in ns : /\ n \in Nat /\ n % 2 = 1 /\ n < up
                      /\ n + 2 * SeqLimit >= up + 1 => n \in Elems(p)
    BY Zenon, <1>4 DEF Window
  <2> QED BY Zenon, <2>1, <2>2, <1>0, <1>1, <1>3
<1>12. Window(q, up, ns \cup {m.seq})
  BY Zenon, <1>3, <1>8, <1>9, <1>10, <1>11 DEF Window
<1> QED BY Zenon, <1>2, <1>7, <1>12

\* A message more on the candidate.
LEMMA FreshMessage ==
  ASSUME NEW s, NEW ms, ms \subseteq Message, Window(s.seqs, s.seq, Content(ms)), OnceIn(ms),
         NEW m \in Message, SequenceOK(s, m), NEW lo
  PROVE  /\ Window(Accept(s, m, lo).seqs, Accept(s, m, lo).seq, Content(ms \cup {m}))
         /\ OnceIn(ms \cup {m})
<1>1. CASE ContentRelated(m)
  <2>1. m.seq \notin Content(ms)
    BY Zenon, <1>1, AdmittedIsNew
  <2>2. Content(ms \cup {m}) = Content(ms) \cup {m.seq}
    BY Zenon, <1>1 DEF Content
  <2>3. OnceIn(ms \cup {m})
    BY <2>1 DEF OnceIn, Content
  <2> DEFINE ns == Content(ms)
  <2>4. Window(s.seqs, s.seq, ns) /\ Content(ms \cup {m}) = ns \cup {m.seq}
    BY Zenon, <2>2
  <2> HIDE DEF ns
  <2>5. Window(Accept(s, m, lo).seqs, Accept(s, m, lo).seq, ns \cup {m.seq})
    BY Zenon, <1>1, <2>4, AcceptWindow
  <2> QED BY Zenon, <2>3, <2>4, <2>5
<1>2. CASE ~ContentRelated(m)
  <2>1. Content(ms \cup {m}) = Content(ms)
    BY ZenonT(40), <1>2 DEF Content
  <2>2. Accept(s, m, lo).seqs = s.seqs /\ Accept(s, m, lo).seq = s.seq
    BY <1>2 DEF Accept
  <2>3. OnceIn(ms \cup {m})
    BY <1>2 DEF OnceIn
  <2> QED BY Zenon, <2>1, <2>2, <2>3
<1> QED BY Zenon, <1>1, <1>2

\* Validation starts on what was saved.
LEMMA RestartKeeps ==
  ASSUME SequenceInv, cand' = Restored(snap), fresh' = <<>>, UNCHANGED <<snap, accepted>>
  PROVE  SequenceInv'
<1>1. accepted' \cup Elems(fresh') = accepted
  BY SMTT(30) DEF Elems
<1>2. Window(cand'.seqs, cand'.seq, Content(accepted))
  BY ZenonT(40), RestoreWindow DEF SequenceInv
<1>3. OnceIn(accepted) /\ SequenceOnce'
  BY DEF SequenceInv, SequenceOnce, OnceIn
<1> QED BY Zenon, <1>1, <1>2, <1>3 DEF SequenceInv

\* Steps that leave the candidate alone, or give it up.
LEMMA CandidateKeeps ==
  ASSUME SequenceInv, UNCHANGED <<snap, accepted>>,
         pc' \notin {"validate", "valid"} \/ (UNCHANGED <<cand, fresh>> /\ pc \in {"validate", "valid"})
  PROVE  SequenceInv'
<1>1. SequenceOnce' /\ Window(snap'.seqs, snap'.seq, Content(accepted'))
  BY Zenon DEF SequenceInv, SequenceOnce
<1>2. CASE pc' \notin {"validate", "valid"}
  BY Zenon, <1>1, <1>2 DEF SequenceInv
<1>3. CASE UNCHANGED <<cand, fresh>> /\ pc \in {"validate", "valid"}
  <2>1. accepted' \cup Elems(fresh') = accepted \cup Elems(fresh) /\ cand' = cand
    BY <1>3
  <2>2. Window(cand.seqs, cand.seq, Content(accepted \cup Elems(fresh))) /\ OnceIn(accepted \cup Elems(fresh))
    BY Zenon, <1>3 DEF SequenceInv
  <2> QED BY Zenon, <1>1, <2>1, <2>2 DEF SequenceInv
<1> QED BY Zenon, <1>2, <1>3

\* At the start no number is used.
LEMMA InitSequence == Init => SequenceInv
<1> SUFFICES ASSUME Init PROVE SequenceInv
  OBVIOUS
<1>1. snap.seqs = <<>> /\ snap.seq = 0 /\ accepted = {} /\ pc = "idle"
  BY DEF Init, EmptyState
<1>2. Content(accepted) = {} /\ SequenceOnce
  BY <1>1 DEF Content, SequenceOnce
<1>3. Window(snap.seqs, snap.seq, {})
  BY <1>1 DEF Window
<1> QED BY Zenon, <1>1, <1>2, <1>3 DEF SequenceInv

\* Every step keeps the numbers apart.
LEMMA SequenceInvStep == ReplayInv /\ SequenceInv /\ [Next]_vars => SequenceInv'
<1> SUFFICES ASSUME ReplayInv, SequenceInv, [Next]_vars PROVE SequenceInv'
  OBVIOUS
<1>1. ASSUME NEW e \in Envelopes, Deliver(e) PROVE SequenceInv'
  BY Zenon, <1>1, RestartKeeps DEF Deliver, Restart, history
<1>2. CASE SkipRetransmission
  BY Zenon, <1>2, RestartKeeps DEF SkipRetransmission, Restart, history
<1>3. CASE ValidateOne
  <2> DEFINE m == Head(todo)
             all == accepted \cup Elems(fresh)
  <2>1. PICK lo : cand' = Accept(cand, m, lo)
    BY Zenon, <1>3 DEF ValidateOne
  <2>2. /\ pc = "validate" /\ todo # <<>> /\ SequenceOK(cand, m) /\ fresh' = Append(fresh, m)
        /\ UNCHANGED <<snap, accepted>>
    BY Zenon, <1>3 DEF ValidateOne, history
  <2>3. todo \in Seq(Message) /\ fresh \in Seq(Message) /\ accepted \subseteq Message
    BY Zenon DEF ReplayInv, Types
  <2>4. m \in Message
    BY <2>2, <2>3
  <2> HIDE DEF m
  <2>5. accepted' \cup Elems(fresh') = all \cup {m} /\ all \subseteq Message
    <3>1. Elems(fresh') = Elems(fresh) \cup {m}
      BY SMTT(30), <2>2, <2>3, <2>4 DEF Elems
    <3>2. Elems(fresh) \subseteq Message
      BY <2>3 DEF Elems
    <3> QED BY Zenon, <3>1, <3>2, <2>2, <2>3
  <2>6. Window(cand.seqs, cand.seq, Content(all)) /\ OnceIn(all) /\ SequenceOnce
        /\ Window(snap.seqs, snap.seq, Content(accepted))
    BY Zenon, <2>2 DEF SequenceInv
  <2> HIDE DEF all
  <2>7. Window(cand'.seqs, cand'.seq, Content(all \cup {m})) /\ OnceIn(all \cup {m})
    BY Zenon, <2>1, <2>2, <2>4, <2>5, <2>6, FreshMessage
  <2>8. SequenceOnce' /\ Window(snap'.seqs, snap'.seq, Content(accepted'))
    BY ZenonT(40), <2>2, <2>6 DEF SequenceOnce
  <2> QED BY Zenon, <2>5, <2>7, <2>8 DEF SequenceInv
<1>4. CASE Save
  <2>1. pc = "valid" /\ snap' = cand /\ accepted' = accepted \cup Elems(fresh) /\ pc' = "record"
    BY Zenon, <1>4 DEF Save
  <2>2. Window(snap'.seqs, snap'.seq, Content(accepted')) /\ OnceIn(accepted')
    BY Zenon, <2>1 DEF SequenceInv
  <2>3. SequenceOnce'
    BY Zenon, <2>2 DEF SequenceOnce, OnceIn
  <2> QED BY <2>1, <2>2, <2>3 DEF SequenceInv
<1>5. CASE RefuseReplay \/ Refuse \/ RejectOverloaded \/ Routed \/ CloseReader \/ Reconnect \/ Crash
  <2>1. pc' \in {"idle", "closed"} /\ UNCHANGED <<snap, accepted>>
    BY Zenon, <1>5 DEF RefuseReplay, Refuse, RejectOverloaded, Routed, CloseReader, Reconnect, Crash, Drop, history
  <2> QED BY <2>1, CandidateKeeps
<1>6. CASE Begin
  <2>1. pc = "validate" /\ UNCHANGED <<snap, accepted, cand, fresh>>
    BY Zenon, <1>6 DEF Begin, history
  <2> QED BY <2>1, CandidateKeeps
<1>7. CASE Record \/ RouteFresh \/ RouteReplay \/ \E i \in Ids : RouteDrop(i)
  <2>1. pc' = "route" /\ UNCHANGED <<snap, accepted>>
    BY Zenon, <1>7 DEF Record, RouteFresh, RouteReplay, RouteDrop, history
  <2> QED BY <2>1, CandidateKeeps
<1>8. CASE UNCHANGED <<snap, accepted, pc, cand, fresh>>
  BY Zenon, <1>8, CandidateKeeps
<1>9. ASSUME NEW i \in Ids, Write(i) \/ Answer(i) \/ Abandon(i) \/ Forget(i) \/ CancelHandler(i) PROVE SequenceInv'
  BY Zenon, <1>8, <1>9 DEF Write, Answer, Abandon, Forget, CancelHandler, reader, history
<1>10. CASE ExpireEntry \/ CloseSession \/ UNCHANGED vars
  BY ZenonT(40), <1>8, <1>10 DEF ExpireEntry, CloseSession, vars, reader, history
<1> QED
  BY ZenonT(40), <1>1, <1>2, <1>3, <1>4, <1>5, <1>6, <1>7, <1>9, <1>10 DEF Next

\* No two accepted content messages share a sequence number: the bounded list of
\* remembered numbers never gives up one that the reordering window would admit
\* again, whatever order the numbers come in (validator.go:346-348, 420-444).
THEOREM NumbersAreUsedOnce == Spec => []SequenceOnce
<1>1. SequenceInv => SequenceOnce
  BY DEF SequenceInv
<1> QED
  BY <1>1, InitSequence, SequenceInvStep, ReplayInvariant, PTL DEF Spec

-----------------------------------------------------------------------------
(* REQUEST_RETRY *)

\* A retransmission was covered before the envelope and a fresh message was not, so
\* what is replayed is not reserved; and an id whose loss was reported has no
\* reservation, now or later: it was accepted.
RetryInv ==
  /\ pc \in {"idle", "closed"} => replayed = {}
  /\ pc \in {"validate", "valid"} =>
       /\ \A i \in Ids : Covered(snap, i) => Covered(cand, i)
       /\ \A k \in DOMAIN fresh : ~Covered(snap, fresh[k].id)
       /\ \A i \in replayed : Covered(snap, i)
  /\ pc \in {"valid", "record", "route"} => replayed \cap reserved = {}
  /\ \A t \in told : t.lost => t.id \in IdsOf(accepted) /\ t.id \notin reserved

\* What Retry adds is marked lost when its id was accepted.
LEMMA RetryFacts ==
  ASSUME NEW is
  PROVE  \A t \in Retry(is) : t \in told \/ (t.id \in is /\ (t.lost => t.id \in IdsOf(accepted)))
<1> SUFFICES ASSUME NEW i \in is, NEW t, t = [id |-> i, lost |-> i \in IdsOf(accepted)]
             PROVE  t.id \in is /\ (t.lost => t.id \in IdsOf(accepted))
  BY Zenon DEF Retry
<1>1. t.id = i /\ t.lost = (i \in IdsOf(accepted))
  BY Zenon
<1> QED BY Zenon, <1>1

\* The reader gives the envelope up.
LEMMA RetryDrop ==
  ASSUME RetryInv, NEW next \in {"idle", "closed"}, Drop(next), accepted' = accepted,
         \A t \in told' : t \in told \/ (t.lost => t.id \in IdsOf(accepted))
  PROVE  RetryInv'
<1>1. pc' \in {"idle", "closed"} /\ replayed' = {} /\ reserved' = {}
  BY Zenon DEF Drop
<1>2. pc' \notin {"validate", "valid"} /\ pc' \notin {"valid", "record", "route"}
  BY <1>1
<1>3. \A t \in told' : t.lost => t.id \in IdsOf(accepted') /\ t.id \notin reserved'
  BY Zenon, <1>1 DEF RetryInv
<1> QED BY Zenon, <1>1, <1>2, <1>3 DEF RetryInv

\* Every step keeps the invariant.
LEMMA RetryInvStep == ReplayInv /\ RetryInv /\ [Next]_vars => RetryInv'
<1> SUFFICES ASSUME ReplayInv, RetryInv, [Next]_vars PROVE RetryInv'
  OBVIOUS
<1>0. Types /\ CandidateInv /\ ReservationInv
  BY Zenon DEF ReplayInv
<1>1. State(snap) /\ State(cand) /\ fresh \in Seq(Message) /\ todo \in Seq(Message)
  BY Zenon, <1>0 DEF Types
<1>2. \A i \in Ids : Covered(snap, i) => Covered(Restored(snap), i)
  BY Zenon, <1>1, RestoreCovers
<1>3. DOMAIN (<<>>) = {}
  OBVIOUS
<1>4. ASSUME NEW e \in Envelopes, Deliver(e) PROVE RetryInv'
  <2>1. /\ pc = "idle" /\ pc' = "validate" /\ cand' = Restored(snap) /\ fresh' = <<>> /\ snap' = snap
        /\ replayed' = replayed /\ reserved' = reserved /\ told' = told /\ accepted' = accepted
    BY Zenon, <1>4 DEF Deliver, Restart, history
  <2>2. replayed = {} /\ pc' \notin {"idle", "closed"} /\ pc' \notin {"valid", "record", "route"}
    BY <2>1 DEF RetryInv
  <2>3. \A i \in Ids : Covered(snap', i) => Covered(cand', i)
    BY Zenon, <1>2, <2>1
  <2>4. \A k \in DOMAIN fresh' : ~Covered(snap', fresh'[k].id)
    BY Zenon, <1>3, <2>1
  <2> QED BY Zenon, <2>1, <2>2, <2>3, <2>4 DEF RetryInv
<1>5. CASE ValidateOne
  <2>1. PICK m : m = Head(todo)
    BY Zenon
  <2>2. /\ pc = "validate" /\ pc' = pc /\ snap' = snap /\ fresh' = Append(fresh, m) /\ todo # <<>>
        /\ replayed' = replayed /\ reserved' = reserved /\ told' = told /\ accepted' = accepted
        /\ ~Replay(cand, m)
    BY Zenon, <1>5, <2>1 DEF ValidateOne, history
  <2>3. m \in Message /\ m.id \in Ids
    BY <1>1, <2>1, <2>2, MessageIds
  <2>4. PICK lo \in cand.recent \cup {0} : cand' = Accept(cand, m, lo)
    BY Zenon, <1>5, <2>1 DEF ValidateOne
  <2>5. \A i \in Ids : Covered(cand, i) => Covered(cand', i)
    BY Zenon, <1>1, <2>3, <2>4, AcceptCovers
  <2>6. ~Covered(snap, m.id)
    <3>1. Covered(snap, m.id) => Covered(cand, m.id)
      BY Zenon, <2>2, <2>3 DEF RetryInv
    <3> QED BY Zenon, <2>2, <3>1 DEF Replay, Covered
  <2>7. \A k \in DOMAIN fresh' : fresh'[k] = m \/ (k \in DOMAIN fresh /\ fresh'[k] = fresh[k])
    BY <1>1, <2>2, <2>3
  <2>8. /\ \A i \in Ids : Covered(snap', i) => Covered(cand', i)
        /\ \A k \in DOMAIN fresh' : ~Covered(snap', fresh'[k].id)
        /\ \A i \in replayed' : Covered(snap', i)
    BY Zenon, <2>2, <2>5, <2>6, <2>7 DEF RetryInv
  <2>9. pc' \notin {"idle", "closed"} /\ pc' \notin {"valid", "record", "route"}
    BY <2>2
  <2> QED BY Zenon, <2>2, <2>8, <2>9 DEF RetryInv
<1>6. CASE SkipRetransmission
  <2>1. PICK i : i = Head(todo).id
    BY Zenon
  <2>2. /\ pc = "validate" /\ pc' = pc /\ cand' = Restored(snap) /\ fresh' = <<>> /\ snap' = snap
        /\ replayed' = replayed \cup {i} /\ reserved' = reserved /\ told' = told /\ accepted' = accepted
        /\ i \in snap.recent
    BY Zenon, <1>6, <2>1 DEF SkipRetransmission, Restart, Remembered, history
  <2>3. Covered(snap, i)
    BY Zenon, <2>2 DEF Covered
  <2>4. /\ \A j \in Ids : Covered(snap', j) => Covered(cand', j)
        /\ \A k \in DOMAIN fresh' : ~Covered(snap', fresh'[k].id)
    BY Zenon, <1>2, <1>3, <2>2
  <2>5. \A j \in replayed' : Covered(snap', j)
    BY Zenon, <2>2, <2>3 DEF RetryInv
  <2>6. pc' \notin {"idle", "closed"} /\ pc' \notin {"valid", "record", "route"}
    BY <2>2
  <2> QED BY Zenon, <2>2, <2>4, <2>5, <2>6 DEF RetryInv
<1>7. CASE RefuseReplay
  <2>1. PICK is : told' = Retry(is)
    BY Zenon, <1>7 DEF RefuseReplay
  <2>2. Drop("idle") /\ accepted' = accepted
    BY Zenon, <1>7 DEF RefuseReplay
  <2> QED BY Zenon, <2>1, <2>2, RetryFacts, RetryDrop
<1>8. CASE Refuse \/ RejectOverloaded \/ Routed \/ CloseReader \/ Reconnect \/ Crash
  <2>1. told' = told /\ accepted' = accepted /\ (Drop("idle") \/ Drop("closed"))
    BY Zenon, <1>8 DEF Refuse, RejectOverloaded, Routed, CloseReader, Reconnect, Crash, history
  <2> QED BY Zenon, <2>1, RetryDrop
<1>9. CASE Begin
  <2>1. /\ pc = "validate" /\ pc' = "valid" /\ reserved' = Wanted /\ snap' = snap /\ cand' = cand /\ fresh' = fresh
        /\ replayed' = replayed /\ told' = told /\ accepted' = accepted
    BY ZenonT(40), <1>9 DEF Begin, history
  <2>2. \A i \in Wanted : \E k \in DOMAIN fresh : fresh[k].id = i
    BY Zenon DEF Wanted
  <2>3. /\ \A i \in Ids : Covered(snap, i) => Covered(cand, i)
        /\ \A k \in DOMAIN fresh : ~Covered(snap, fresh[k].id)
        /\ \A i \in replayed : Covered(snap, i)
    BY Zenon, <2>1 DEF RetryInv
  <2>4. replayed \cap Wanted = {}
    BY Zenon, <2>2, <2>3
  <2>5. \A i \in Wanted : i \notin IdsOf(accepted)
    <3>1. pc \in {"validate", "valid"}
      BY <2>1
    <3>2. \A k \in DOMAIN fresh : \A m \in accepted : m.id # fresh[k].id
      BY Zenon, <1>0, <3>1 DEF CandidateInv
    <3> SUFFICES ASSUME NEW i \in Wanted, i \in IdsOf(accepted) PROVE FALSE
      BY Zenon
    <3>3. PICK m \in accepted : m.id = i
      BY Zenon DEF IdsOf
    <3>4. PICK k \in DOMAIN fresh : fresh[k].id = i
      BY Zenon, <2>2
    <3>5. m.id # fresh[k].id
      BY Zenon, <3>2
    <3> QED BY Zenon, <3>3, <3>4, <3>5
  <2>6. pc' \notin {"idle", "closed"}
    BY <2>1
  <2> QED BY Zenon, <2>1, <2>3, <2>4, <2>5, <2>6 DEF RetryInv
<1>10. CASE Save
  <2>1. /\ pc = "valid" /\ pc' = "record" /\ reserved' = reserved /\ accepted' = accepted \cup Elems(fresh)
        /\ replayed' = replayed /\ told' = told
    BY Zenon, <1>10 DEF Save
  <2>2. IdsOf(accepted) \subseteq IdsOf(accepted')
    BY Zenon, <2>1 DEF IdsOf
  <2>3. pc' \notin {"idle", "closed"} /\ pc' \notin {"validate", "valid"}
    BY <2>1
  <2> QED BY Zenon, <2>1, <2>2, <2>3 DEF RetryInv
<1>11. CASE Record
  <2>1. /\ pc = "record" /\ pc' = "route" /\ reserved' = reserved /\ accepted' = accepted
        /\ replayed' = replayed /\ told' = told
    BY Zenon, <1>11 DEF Record, history
  <2>2. pc' \notin {"idle", "closed"} /\ pc' \notin {"validate", "valid"}
    BY <2>1
  <2> QED BY Zenon, <2>1, <2>2 DEF RetryInv
<1>12. CASE RouteFresh \/ \E i \in Ids : RouteDrop(i)
  <2>1. /\ pc = "route" /\ pc' = pc /\ reserved' \subseteq reserved /\ accepted' = accepted
        /\ replayed' = replayed /\ told' = told
    BY Zenon, <1>12 DEF RouteFresh, RouteDrop, history
  <2>2. pc' \notin {"idle", "closed"} /\ pc' \notin {"validate", "valid"}
    BY <2>1
  <2> QED BY Zenon, <2>1, <2>2 DEF RetryInv
<1>13. CASE RouteReplay
  <2>1. PICK is : is = {i \in {Head(route).id} : Head(route).kind = "request" /\ i \notin active \cup retained}
    BY Zenon
  <2>2. /\ pc = "route" /\ pc' = pc /\ reserved' = reserved /\ accepted' = accepted
        /\ replayed' = replayed /\ told' = Retry(is) /\ is \subseteq replayed
    BY Zenon, <1>13, <2>1 DEF RouteReplay
  <2>3. replayed \cap reserved = {}
    BY Zenon, <2>2 DEF RetryInv
  <2>4. \A t \in told' : t.lost => t.id \in IdsOf(accepted) /\ t.id \notin reserved
    BY Zenon, <2>2, <2>3, RetryFacts DEF RetryInv
  <2>5. pc' \notin {"idle", "closed"} /\ pc' \notin {"validate", "valid"}
    BY <2>2
  <2> QED BY Zenon, <2>2, <2>3, <2>4, <2>5 DEF RetryInv
<1>14. CASE \/ ExpireEntry \/ CloseSession \/ UNCHANGED vars
             \/ \E i \in Ids : Write(i) \/ Answer(i) \/ Abandon(i) \/ Forget(i) \/ CancelHandler(i)
  <2>1. /\ snap' = snap /\ pc' = pc /\ cand' = cand /\ fresh' = fresh /\ replayed' = replayed /\ reserved' = reserved
        /\ accepted' = accepted /\ told' = told
    BY Zenon, <1>14 DEF ExpireEntry, CloseSession, Write, Answer, Abandon, Forget, CancelHandler, vars, reader, history
  <2> QED BY Zenon, <2>1 DEF RetryInv
<1> QED BY ZenonT(40), <1>4, <1>5, <1>6, <1>7, <1>8, <1>9, <1>10, <1>11, <1>12, <1>13, <1>14 DEF Next

\* A handler that has started is not reserved; while the session is open only a
\* cancelled request is missing from the registry; and a handler whose request was
\* reported lost can have no response taken any more, or the session is closing.
HandlerInv ==
  /\ running \subseteq Ids /\ \A i \in running : runs[i] # 0
  /\ ~closing => running \cup reserved \subseteq active \cup cancelled
  /\ \A t \in told : t.lost /\ t.id \in running => t.id \in cancelled \cup written \/ closing

\* Steps that leave the handlers alone: REQUEST_RETRY is for ids out of the registry.
LEMMA HandlersUnmoved ==
  ASSUME HandlerInv, UNCHANGED <<handlers, runs>>, reserved' \subseteq reserved,
         \A t \in told' : t \in told \/ t.id \notin active
  PROVE  HandlerInv'
<1>1. UNCHANGED <<active, running, cancelled, written, closing, runs>>
  BY Zenon DEF handlers
<1>2. running' \subseteq Ids /\ \A i \in running' : runs'[i] # 0
  BY Zenon, <1>1 DEF HandlerInv
<1>3. ~closing' => running' \cup reserved' \subseteq active' \cup cancelled'
  BY Zenon, <1>1 DEF HandlerInv
<1>4. ASSUME NEW t \in told', t.lost, t.id \in running', ~closing' PROVE t.id \in cancelled' \cup written'
  <2>1. CASE t \in told
    BY Zenon, <1>1, <1>4, <2>1 DEF HandlerInv
  <2>2. CASE t.id \notin active
    BY Zenon, <1>1, <1>4, <2>2 DEF HandlerInv
  <2> QED BY Zenon, <2>1, <2>2
<1> QED BY Zenon, <1>2, <1>3, <1>4 DEF HandlerInv

\* REQUEST_RETRY is told for ids that are not in the registry only.
LEMMA ToldIsInactive ==
  ASSUME RefuseReplay \/ RouteReplay
  PROVE  UNCHANGED <<handlers, runs>> /\ reserved' \subseteq reserved
         /\ \A t \in told' : t \in told \/ t.id \notin active
<1>1. CASE RefuseReplay
  <2>1. PICK is : is = RetryFor(env, Head(todo).id)
    BY Zenon
  <2>2. told' = Retry(is) /\ UNCHANGED <<handlers, runs>> /\ reserved' = {}
    BY Zenon, <1>1, <2>1 DEF RefuseReplay, Drop
  <2>3. \A i \in is : i \notin active
    BY Zenon, <2>1 DEF RetryFor, Settled
  <2> QED BY Zenon, <2>2, <2>3, RetryFacts
<1>2. CASE RouteReplay
  <2>1. PICK is : is = {i \in {Head(route).id} : Head(route).kind = "request" /\ i \notin active \cup retained}
    BY Zenon
  <2>2. told' = Retry(is) /\ UNCHANGED <<handlers, runs>> /\ reserved' = reserved
    BY Zenon, <1>2, <2>1 DEF RouteReplay
  <2>3. \A i \in is : i \notin active
    BY Zenon, <2>1
  <2> QED BY Zenon, <2>2, <2>3, RetryFacts
<1> QED BY Zenon, <1>1, <1>2

\* Every step keeps the invariant.
LEMMA HandlerInvStep == ReplayInv /\ RetryInv /\ HandlerInv /\ [Next]_vars => HandlerInv'
<1> SUFFICES ASSUME ReplayInv, RetryInv, HandlerInv, [Next]_vars PROVE HandlerInv'
  OBVIOUS
<1>0. runs \in [Ids -> Nat] /\ reserved \subseteq Ids /\ \A i \in reserved : runs[i] = 0
  BY Zenon DEF ReplayInv, Types, ReservationInv
<1>1. running \cap reserved = {}
  BY Zenon, <1>0 DEF HandlerInv
<1>2. CASE RefuseReplay \/ RouteReplay
  BY Zenon, <1>2, ToldIsInactive, HandlersUnmoved
<1>3. CASE \/ \E e \in Envelopes : Deliver(e)
           \/ ValidateOne \/ SkipRetransmission \/ Refuse \/ RejectOverloaded \/ Save \/ Record \/ Routed
           \/ ExpireEntry \/ UNCHANGED vars \/ \E i \in Ids : Forget(i)
  <2>1. UNCHANGED <<handlers, runs, told>> /\ reserved' \in {reserved, {}}
    BY Zenon, <1>3 DEF Deliver, ValidateOne, SkipRetransmission, Refuse, RejectOverloaded, Save, Record, Routed,
       ExpireEntry, Forget, vars, reader, process, history, Drop
  <2> QED BY Zenon, <2>1, HandlersUnmoved
<1>4. CASE Begin
  <2>1. UNCHANGED <<running, cancelled, written, closing, runs, told>> /\ reserved' = Wanted /\ active' = active \cup Wanted
    BY Zenon, <1>4 DEF Begin, history
  <2> QED BY ZenonT(40), <2>1 DEF HandlerInv
<1>5. CASE RouteFresh
  <2>1. PICK i : i = Head(route).id
    BY Zenon
  <2>2. /\ UNCHANGED <<active, cancelled, written, closing, told>> /\ reserved' = reserved \ {i}
        /\ \/ i \in reserved /\ runs' = [runs EXCEPT ![i] = @ + 1] /\ running' = running \cup {i}
           \/ i \notin reserved /\ UNCHANGED <<runs, running>>
    BY Zenon, <1>5, <2>1 DEF RouteFresh
  <2>3. CASE i \in reserved /\ runs' = [runs EXCEPT ![i] = @ + 1] /\ running' = running \cup {i}
    <3>1. i \in Ids /\ running' \subseteq Ids
      BY Zenon, <1>0, <2>3 DEF HandlerInv
    <3>2. \A j \in running' : runs'[j] # 0
      <4>1. \A j \in running : runs[j] # 0 /\ j \in Ids
        BY Zenon DEF HandlerInv
      <4> QED BY <1>0, <2>3, <3>1, <4>1
    <3>3. ~closing' => running' \cup reserved' \subseteq active' \cup cancelled'
      BY Zenon, <2>2, <2>3 DEF HandlerInv
    <3>4. \A t \in told' : t.lost /\ t.id \in running' => t.id \in cancelled' \cup written' \/ closing'
      BY Zenon, <2>2, <2>3 DEF HandlerInv, RetryInv
    <3> QED BY Zenon, <3>1, <3>2, <3>3, <3>4 DEF HandlerInv
  <2>4. CASE i \notin reserved /\ UNCHANGED <<runs, running>>
    <3>1. UNCHANGED <<handlers, runs, told>> /\ reserved' \subseteq reserved
      BY Zenon, <2>2, <2>4 DEF handlers
    <3> QED BY Zenon, <3>1, HandlersUnmoved
  <2> QED BY Zenon, <2>2, <2>3, <2>4
<1>6. ASSUME NEW i \in Ids, RouteDrop(i) PROVE HandlerInv'
  <2>1. /\ UNCHANGED <<running, written, closing, reserved, runs, told>>
        /\ active' = active \ {i} /\ cancelled' = cancelled \cup {i}
    BY Zenon, <1>6 DEF RouteDrop, history
  <2> QED BY ZenonT(40), <2>1 DEF HandlerInv
<1>7. ASSUME NEW i \in Ids, Write(i) \/ CancelHandler(i) PROVE HandlerInv'
  <2>1. /\ UNCHANGED <<running, active, closing, reserved, runs, told>>
        /\ cancelled \subseteq cancelled' /\ written \subseteq written'
    BY Zenon, <1>7 DEF Write, CancelHandler, reader, history
  <2> QED BY ZenonT(40), <2>1 DEF HandlerInv
<1>8. ASSUME NEW i \in Ids, Answer(i) \/ Abandon(i) PROVE HandlerInv'
  <2>1. /\ UNCHANGED <<closing, reserved, runs, told>> /\ i \in running
        /\ active' = active \ {i} /\ running' = running \ {i}
        /\ cancelled' = cancelled \ {i} /\ written' = written \ {i}
    BY Zenon, <1>8 DEF Answer, Abandon, Ended, reader, history
  <2>2. \A j \in reserved : j # i
    BY Zenon, <1>1, <2>1
  <2> QED BY ZenonT(40), <2>1, <2>2 DEF HandlerInv
<1>9. CASE CloseReader
  <2>1. /\ UNCHANGED <<closing, running, written, runs, told>> /\ reserved' = {}
        /\ active' = active \ reserved /\ cancelled' = cancelled \ reserved
    BY Zenon, <1>9 DEF CloseReader, Drop, Release, history
  <2>2. \A j \in running : j \notin reserved
    BY Zenon, <1>1
  <2> QED BY ZenonT(40), <2>1, <2>2 DEF HandlerInv
<1>10. CASE CloseSession
  <2>1. closing' = TRUE /\ UNCHANGED <<running, reserved, runs>>
    BY Zenon, <1>10 DEF CloseSession, reader, history
  <2> QED BY ZenonT(40), <2>1 DEF HandlerInv
<1>11. CASE Reconnect \/ Crash
  <2>1. running' = {} /\ reserved' = {}
    BY Zenon, <1>11 DEF Reconnect, Crash, Drop
  <2> QED BY ZenonT(40), <2>1 DEF HandlerInv
<1> QED BY ZenonT(40), <1>2, <1>3, <1>4, <1>5, <1>6, <1>7, <1>8, <1>9, <1>10, <1>11 DEF Next

\* When REQUEST_RETRY has been told for a request that had been accepted, no handler
\* ever starts for its id again; and one that was dropped and still runs has no
\* response taken any more, unless the session is shutting down.
THEOREM RetriesAreFinal == Spec => RetryIsFinal
<1>1. Init => RetryInv /\ HandlerInv
  <2> SUFFICES ASSUME Init PROVE RetryInv /\ HandlerInv
    OBVIOUS
  <2>1. pc = "idle" /\ replayed = {} /\ told = {} /\ running = {} /\ reserved = {}
    BY Zenon DEF Init
  <2> QED BY <2>1 DEF RetryInv, HandlerInv
<1>2. ReplayInv /\ RetryInv /\ HandlerInv /\ [Next]_vars =>
        [\A t \in told : t.lost => /\ runs'[t.id] = runs[t.id]
                                   /\ t.id \in written' => t.id \in written \/ closing]_vars
  <2> SUFFICES ASSUME ReplayInv, RetryInv, HandlerInv, Next, NEW t \in told, t.lost
               PROVE  runs'[t.id] = runs[t.id] /\ (t.id \in written' => t.id \in written \/ closing)
    BY Zenon
  <2>1. runs'[t.id] = runs[t.id]
    <3>1. CASE RouteFresh
      <4>1. PICK i : i = Head(route).id
        BY Zenon
      <4>2. runs' = runs \/ (i \in reserved /\ runs' = [runs EXCEPT ![i] = @ + 1])
        BY Zenon, <3>1, <4>1 DEF RouteFresh
      <4>3. runs \in [Ids -> Nat] /\ t.id \notin reserved
        BY Zenon DEF ReplayInv, Types, RetryInv
      <4>4. t.id \in Ids
        <5>1. \A m \in accepted : m.id \in Ids
          BY Zenon, MessageIds DEF ReplayInv, Types
        <5> QED BY Zenon, <5>1 DEF IdsOf, RetryInv
      <4>5. CASE i \in reserved /\ runs' = [runs EXCEPT ![i] = @ + 1]
        <5>1. i # t.id
          BY Zenon, <4>3, <4>5
        <5> QED BY <4>3, <4>4, <4>5, <5>1
      <4> QED BY Zenon, <4>2, <4>5
    <3>2. CASE ~RouteFresh
      <4>1. runs' = runs
        BY ZenonT(40), <3>2 DEF Next, Deliver, ValidateOne, SkipRetransmission, RefuseReplay, Refuse, Begin,
           RejectOverloaded, Save, Record, RouteDrop, RouteReplay, Routed, Write, Answer, Abandon, Forget,
           CancelHandler, ExpireEntry, CloseReader, CloseSession, Reconnect, Crash, history
      <4> QED BY Zenon, <4>1
    <3> QED BY Zenon, <3>1, <3>2
  <2>2. ASSUME t.id \in written', t.id \notin written PROVE closing
    <3>1. CASE \E i \in Ids : Write(i)
      <4>1. PICK i \in Ids : i \in running \ (cancelled \cup written) /\ written' = written \cup {i}
        BY Zenon, <3>1 DEF Write
      <4> QED BY Zenon, <2>2, <4>1 DEF HandlerInv
    <3>2. CASE ~\E i \in Ids : Write(i)
      <4>1. written' \subseteq written
        BY ZenonT(40), <3>2 DEF Next, Deliver, ValidateOne, SkipRetransmission, RefuseReplay, Refuse, Begin,
           RejectOverloaded, Save, Record, RouteFresh, RouteDrop, RouteReplay, Routed, Answer, Abandon, Ended, Forget,
           CancelHandler, ExpireEntry, CloseReader, Release, CloseSession, Reconnect, Crash, process, handlers
      <4> QED BY Zenon, <2>2, <4>1
    <3> QED BY Zenon, <3>1, <3>2
  <2> QED BY Zenon, <2>1, <2>2
<1> QED BY <1>1, <1>2, RetryInvStep, HandlerInvStep, ReplayInvariant, PTL DEF RetryIsFinal, Spec
=============================================================================
