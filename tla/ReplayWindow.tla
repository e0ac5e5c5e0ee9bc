---------------------------- MODULE ReplayWindow ----------------------------
(***************************************************************************)
(* Inbound replay protection of one MTProto session across containers,     *)
(* reconnects and process restarts: the protocol validator                 *)
(* (mtproto/protocol/validator.go), the session validator around it        *)
(* (internal/runtime/inbound.go), the process-local inbound ledger         *)
(* (internal/runtime/inbound_state.go) and connectionSession.handleEncrypted*)
(* (internal/runtime/connection_session.go).                               *)
(*                                                                         *)
(* The reader validates an envelope message by message on a candidate copy *)
(* of the durable replay state, saves the candidate, records the messages  *)
(* and routes them in wire order.  Handlers work, are cancelled and end    *)
(* while it does so: an id leaves the registry of active requests when it  *)
(* is dropped or the session closes, and its handler runs on.              *)
(*                                                                         *)
(* Snapshot saves of the writer and of session mutations do not interleave *)
(* with the reader's here: SessionSnapshot is about what they do to it.    *)
(***************************************************************************)
EXTENDS Integers, Sequences, FiniteSets

CONSTANTS Ids,        \* client message ids, ordered as numbers
          Envelopes,  \* what clients put on the wire
          Limit,      \* recent message ids kept (RecentMessageIDLimit)
          SeqLimit,   \* content sequence numbers kept (ContentSequenceLimit)
          MaxInt32,   \* the largest sequence number
          LedgerCap,  \* InboundStateConfig.Capacity
          ActiveCap,  \* request admission of the connection
          ShortTTL    \* the ledger's TTL is shorter than the id window

Kinds == {"request", "control", "plain", "container"}

(* One wire message.  The kind is what classifyMessageKind makes of its    *)
(* constructor: an application request, a content-related control (an odd  *)
(* ping, rpc_drop_answer), a message without content, or a container.      *)
Message == [id : Ids, seq : Nat, kind : Kinds]

ASSUME ReplayAssumption ==
  /\ Ids \subseteq Nat \ {0}
  /\ Limit \in Nat \ {0} /\ SeqLimit \in Nat \ {0}
  /\ LedgerCap \in Nat \ {0} /\ ActiveCap \in Nat /\ MaxInt32 \in Nat
  /\ ShortTTL \in BOOLEAN
  /\ Envelopes \subseteq [outer : Message, children : Seq(Message)]

VARIABLES
  snap,      \* durable replay state: the store's session.Snapshot
  pc,        \* the reader's step
  env,       \* the envelope being handled
  kept,      \* its children that are not remembered retransmissions
  todo,      \* messages of outer and kept still to validate
  cand,      \* candidate replay state
  fresh,     \* messages validated on cand, in order
  replayed,  \* ids of the children that are retransmissions
  route,     \* messages still to route
  reserved,  \* reservations of the envelope not yet handed to a handler
  active,    \* ids in the registry of active requests, reserved ones included
  running,   \* requests whose handler has started and not ended
  cancelled, \* running or reserved requests whose context is cancelled
  written,   \* running requests whose response the writer has taken
  closing,   \* the session shuts down
  ledger,    \* InboundStateLedger entries, oldest first
  retained,  \* requests whose response the reliability store retains
  accepted,  \* history: messages whose acceptance was saved
  runs,      \* history: handlers started for an id
  told       \* history: REQUEST_RETRY errors, and if the id was accepted then

reader == <<pc, env, kept, todo, cand, fresh, replayed, route, reserved>>
handlers == <<active, running, cancelled, written, closing>>
process == <<handlers, ledger, retained>>
history == <<accepted, runs, told>>
vars == <<snap, reader, process, history>>

NoEnv == [outer |-> [id |-> 0, seq |-> 0, kind |-> "plain"], children |-> <<>>]
EmptyState == [highest |-> 0, floor |-> 0, recent |-> {}, seq |-> 0, seqs |-> <<>>]

Elems(s) == {s[i] : i \in DOMAIN s}
IdsOf(ms) == {m.id : m \in ms}
ContentRelated(m) == m.kind \in {"request", "control"}
IsContainer(e) == e.outer.kind = "container"

-----------------------------------------------------------------------------
(* The protocol validator *)

(* recentSeqNos.  A number that is forgotten leaves a hole, 0, so that the *)
(* others keep their order.                                                *)
Remembers(seqs) == {i \in DOMAIN seqs : seqs[i] # 0}
Keeping(seqs, at) == [i \in DOMAIN seqs |-> IF i \in at THEN seqs[i] ELSE 0]

\* Mutant: the prune drops the lowest number the window still admits.
PrunedTooFar(seqs, seq) == Keeping(seqs, {i \in DOMAIN seqs : seqs[i] + 2 * SeqLimit > seq + 1})

(* pruneSequenceNos: numbers below the reordering window are forgotten.    *)
Pruned(seqs, seq) == Keeping(seqs, {i \in DOMAIN seqs : seqs[i] + 2 * SeqLimit >= seq + 1})

(* rememberSequenceNo: first in, first out.                                *)
SeqRemembered(seqs, n) ==
  LET at == Remembers(seqs)
      oldest == CHOOSE i \in at : \A j \in at : i <= j
  IN  IF n \in Elems(seqs) THEN seqs
      ELSE Append(IF Cardinality(at) = SeqLimit THEN Keeping(seqs, at \ {oldest}) ELSE seqs, n)

(* NewValidator: rebuilds the validator from the saved snapshot.           *)
Restored(s) ==
  LET above == {i \in s.recent : i > s.floor}
      seen == above \cup {s.highest}
      below == {i \in DOMAIN s.seqs : s.seqs[i] % 2 = 1 /\ s.seqs[i] < s.seq + 1}
  IN  [highest |-> CHOOSE h \in seen : \A i \in seen : i <= h,
       floor |-> s.floor,
       recent |-> above,
       seq |-> s.seq,
       seqs |-> Pruned(Keeping(s.seqs, below), s.seq)]

Replay(s, m) == m.id <= s.floor \/ m.id = s.highest \/ m.id \in s.recent

(* validateSequenceNo.                                                     *)
SequenceOK(s, m) ==
  \/ ~ContentRelated(m) /\ m.seq % 2 = 0
  \/ /\ ContentRelated(m) /\ m.seq # MaxInt32 /\ m.seq % 2 = 1
     /\ \/ m.seq = s.seq + 1
        \/ s.seq = 0 /\ Remembers(s.seqs) = {}
        \/ /\ m.seq \notin Elems(s.seqs)
           /\ m.seq + 2 * SeqLimit >= s.seq + 1
           /\ m.seq <= s.seq + 2 * SeqLimit + 1

(* rememberMessageID: a full window gives up its smallest id lo and the    *)
(* floor rises to it; an id at or below the floor is not stored.           *)
Evicts(s, lo) ==
  IF Cardinality(s.recent) = Limit
  THEN lo \in s.recent /\ \A i \in s.recent : lo <= i
  ELSE lo = 0

\* Mutant: the evicted id does not raise the floor.
FloorKept(s, lo) == s.floor

FloorAfter(s, lo) == IF lo > s.floor THEN lo ELSE s.floor

(* The state changes of validateOne once both checks have passed.          *)
Accept(s, m, lo) ==
  LET seq == IF ContentRelated(m) /\ m.seq >= s.seq + 1 THEN m.seq + 1 ELSE s.seq
  IN  [highest |-> IF m.id > s.highest THEN m.id ELSE s.highest,
       floor |-> FloorAfter(s, lo),
       recent |-> (s.recent \ {lo}) \cup (IF m.id <= FloorAfter(s, lo) THEN {} ELSE {m.id}),
       seq |-> seq,
       seqs |-> IF ContentRelated(m) THEN SeqRemembered(Pruned(s.seqs, seq), m.seq) ELSE s.seqs]

-----------------------------------------------------------------------------
(* The inbound ledger *)

Newest(s) == SubSeq(s, IF Len(s) > LedgerCap THEN Len(s) - LedgerCap + 1 ELSE 1, Len(s))

(* Record for every validated message, with evictLocked.                   *)
Recorded(l, ms) ==
  Newest(l \o [i \in DOMAIN ms |-> [id |-> ms[i].id, responded |-> FALSE]])

(* Complete with a response: no effect on an id the ledger has given up.   *)
Completed(l, i) == [k \in DOMAIN l |-> [l[k] EXCEPT !.responded = @ \/ l[k].id = i]]

HasResponse(i) == \E k \in DOMAIN ledger : ledger[k].id = i /\ ledger[k].responded

-----------------------------------------------------------------------------
(* The reader: handleEncrypted *)

Init ==
  /\ snap = EmptyState /\ cand = EmptyState
  /\ pc = "idle" /\ env = NoEnv
  /\ kept = <<>> /\ todo = <<>> /\ fresh = <<>> /\ route = <<>>
  /\ replayed = {} /\ reserved = {} /\ retained = {}
  /\ active = {} /\ running = {} /\ cancelled = {} /\ written = {} /\ closing = FALSE
  /\ ledger = <<>> /\ accepted = {} /\ told = {}
  /\ runs = [i \in Ids |-> 0]

(* The reader is done with the envelope: everything it held is given up.   *)
Drop(next) ==
  /\ pc' = next /\ env' = NoEnv /\ cand' = EmptyState
  /\ kept' = <<>> /\ todo' = <<>> /\ fresh' = <<>> /\ route' = <<>>
  /\ replayed' = {} /\ reserved' = {}

(* releaseReservations: what is reserved and not routed.                   *)
Release ==
  /\ active' = active \ reserved /\ cancelled' = cancelled \ reserved
  /\ UNCHANGED <<running, written, closing>>

(* Validate restarts on a copy of the restored state with every child that *)
(* is left.                                                                *)
Restart(children) ==
  /\ kept' = children
  /\ cand' = Restored(snap)
  /\ fresh' = <<>>

Deliver(e) ==
  /\ pc = "idle"
  /\ pc' = "validate" /\ env' = e
  /\ Restart(e.children) /\ todo' = <<e.outer>> \o e.children
  /\ UNCHANGED <<snap, replayed, route, reserved, process, history>>

(* validateOne accepts the next message.                                   *)
ValidateOne ==
  /\ pc = "validate" /\ todo # <<>>
  /\ ~Replay(cand, Head(todo)) /\ SequenceOK(cand, Head(todo))
  /\ \E lo \in cand.recent \cup {0} :
       Evicts(cand, lo) /\ cand' = Accept(cand, Head(todo), lo)
  /\ todo' = Tail(todo)
  /\ fresh' = Append(fresh, Head(todo))
  /\ UNCHANGED <<snap, pc, env, kept, replayed, route, reserved, process, history>>

Remembered == Head(todo).id # env.outer.id /\ Head(todo).id \in snap.recent

(* A remembered child is taken out and validation starts again: the child  *)
(* is the one at position Len(kept) - Len(todo) + 1, and every copy before *)
(* it has been taken out already.                                          *)
SkipRetransmission ==
  /\ pc = "validate" /\ todo # <<>>
  /\ Replay(cand, Head(todo)) /\ IsContainer(env) /\ Remembered
  /\ LET at == Len(kept) - Len(todo) + 1
         left == SubSeq(kept, 1, at - 1) \o SubSeq(kept, at + 1, Len(kept))
     IN  Restart(left) /\ todo' = <<env.outer>> \o left
  /\ replayed' = replayed \cup {Head(todo).id}
  /\ UNCHANGED <<snap, pc, env, route, reserved, process, history>>

(* recoverInterruptedApplicationReplay: which requests of the envelope get *)
(* REQUEST_RETRY when message bad is refused as a replay.  With none, the  *)
(* client gets bad_msg_notification instead.  The error is retained as the *)
(* answer of its request.                                                  *)
Messages(e) == IF IsContainer(e) THEN Elems(e.children) ELSE {e.outer}
Settled(i) == i \in active \/ HasResponse(i)

\* Mutant: a live handler does not stand in the way of REQUEST_RETRY.
RetryForActive(e, bad) ==
  IF HasResponse(bad) THEN {}
  ELSE {m.id : m \in {n \in Messages(e) :
          /\ n.kind = "request" /\ ~HasResponse(n.id)
          /\ (IsContainer(e) /\ bad = e.outer.id) \/ n.id = bad}}

RetryFor(e, bad) ==
  IF Settled(bad) THEN {}
  ELSE {m.id : m \in {n \in Messages(e) :
          /\ n.kind = "request" /\ ~Settled(n.id)
          /\ (IsContainer(e) /\ bad = e.outer.id) \/ n.id = bad}}

Retry(is) == told \cup {[id |-> i, lost |-> i \in IdsOf(accepted)] : i \in is}

RefuseReplay ==
  /\ pc = "validate" /\ todo # <<>>
  /\ Replay(cand, Head(todo)) /\ ~(IsContainer(env) /\ Remembered)
  /\ told' = Retry(RetryFor(env, Head(todo).id))
  /\ retained' = retained \cup RetryFor(env, Head(todo).id)
  /\ Drop("idle")
  /\ UNCHANGED <<snap, handlers, ledger, accepted, runs>>

(* bad_msg_notification for any other reason: the sequence number, or the  *)
(* format, time or salt of a message, which the model leaves open.  The    *)
(* whole envelope is refused.                                              *)
Refuse ==
  /\ pc = "validate" /\ todo # <<>>
  /\ Drop("idle")
  /\ UNCHANGED <<snap, process, history>>

Wanted == {fresh[i].id : i \in {j \in DOMAIN fresh : fresh[j].kind = "request"}}

(* beginRequests reserves and registers every request of the envelope, or  *)
(* none; a closing session takes none.  A handler holds its admission      *)
(* until it ends, also when it has been dropped.                           *)
Begin ==
  /\ pc = "validate" /\ todo = <<>> /\ ~closing
  /\ Cardinality(running) + Cardinality(Wanted) <= ActiveCap
  /\ pc' = "valid" /\ reserved' = Wanted /\ active' = active \cup Wanted
  /\ UNCHANGED <<snap, env, kept, todo, cand, fresh, replayed, route, running, cancelled, written,
                 closing, ledger, retained, history>>

(* rejectOverloaded: SERVER_BUSY, a retained answer, and nothing is saved. *)
RejectOverloaded ==
  /\ pc = "validate" /\ todo = <<>> /\ ~closing
  /\ Cardinality(running) + Cardinality(Wanted) > ActiveCap
  /\ retained' = retained \cup Wanted
  /\ Drop("idle")
  /\ UNCHANGED <<snap, handlers, ledger, history>>

\* Mutant: the snapshot saved is the one that was read.
SaveOld ==
  /\ pc = "valid"
  /\ accepted' = accepted \cup Elems(fresh)
  /\ pc' = "record"
  /\ UNCHANGED <<snap, env, kept, todo, cand, fresh, replayed, route, reserved, process, runs, told>>

(* lease.Save of the candidate: acceptance is durable.                     *)
Save ==
  /\ pc = "valid"
  /\ snap' = cand
  /\ accepted' = accepted \cup Elems(fresh)
  /\ pc' = "record"
  /\ UNCHANGED <<env, kept, todo, cand, fresh, replayed, route, reserved, process, runs, told>>

(* recordValidated, and the start of the routing loop over all messages.   *)
Record ==
  /\ pc = "record"
  /\ ledger' = Recorded(ledger, fresh)
  /\ pc' = "route"
  /\ route' = IF IsContainer(env) THEN env.children ELSE <<env.outer>>
  /\ UNCHANGED <<snap, env, kept, todo, cand, fresh, replayed, reserved, handlers, retained, history>>

(* routeMessage: a fresh request starts its handler, also when it has been *)
(* cancelled since it was reserved; a control is answered in place.        *)
RouteFresh ==
  /\ pc = "route" /\ route # <<>> /\ Head(route).id \notin replayed
  /\ IF Head(route).id \in reserved
     THEN /\ runs' = [runs EXCEPT ![Head(route).id] = @ + 1]
          /\ running' = running \cup {Head(route).id}
     ELSE UNCHANGED <<runs, running>>
  /\ reserved' = reserved \ {Head(route).id}
  /\ route' = Tail(route)
  /\ UNCHANGED <<snap, pc, env, kept, todo, cand, fresh, replayed, active, cancelled, written, closing,
                 ledger, retained, accepted, told>>

(* A control that is rpc_drop_answer: the id leaves the registry and its   *)
(* context is cancelled; a handler that has started runs on.               *)
RouteDrop(i) ==
  /\ pc = "route" /\ route # <<>> /\ Head(route).id \notin replayed
  /\ Head(route).kind = "control" /\ i \in active
  /\ active' = active \ {i} /\ cancelled' = cancelled \cup {i}
  /\ route' = Tail(route)
  /\ UNCHANGED <<snap, pc, env, kept, todo, cand, fresh, replayed, reserved, running, written, closing,
                 ledger, retained, history>>

(* recoverContainerReplay: resend a retained response, leave an active     *)
(* request alone, tell the client to retry anything else.                  *)
RouteReplay ==
  /\ pc = "route" /\ route # <<>> /\ Head(route).id \in replayed
  /\ LET lost == {i \in {Head(route).id} : /\ Head(route).kind = "request"
                                            /\ i \notin active \cup retained}
     IN  told' = Retry(lost) /\ retained' = retained \cup lost
  /\ route' = Tail(route)
  /\ UNCHANGED <<snap, pc, env, kept, todo, cand, fresh, replayed, reserved, handlers, ledger,
                 accepted, runs>>

Routed ==
  /\ pc = "route" /\ route = <<>>
  /\ Drop("idle")
  /\ UNCHANGED <<snap, process, history>>

-----------------------------------------------------------------------------
(* Handlers, session ends and process restarts *)

(* The writer takes the response of a handler whose context is live and    *)
(* retains it.                                                             *)
Write(i) ==
  /\ i \in running \ (cancelled \cup written)
  /\ written' = written \cup {i} /\ retained' = retained \cup {i}
  /\ UNCHANGED <<snap, reader, active, running, cancelled, closing, ledger, history>>

(* The handler has ended.                                                  *)
Ended(i) ==
  /\ active' = active \ {i} /\ running' = running \ {i}
  /\ cancelled' = cancelled \ {i} /\ written' = written \ {i}
  /\ UNCHANGED closing

(* applyOutcome got the writer's answer: the ledger entry is completed     *)
(* before the request stops being active.                                  *)
Answer(i) ==
  /\ i \in running \cap written
  /\ ledger' = Completed(ledger, i)
  /\ Ended(i)
  /\ UNCHANGED <<snap, reader, retained, history>>

(* The handler ends and does not complete the entry: it was cancelled,     *)
(* perhaps while the writer worked on its response, or the write failed.   *)
Abandon(i) ==
  /\ i \in running
  /\ Ended(i)
  /\ UNCHANGED <<snap, reader, ledger, retained, history>>

(* The store forgets a response: acknowledged, evicted or expired.         *)
Forget(i) ==
  /\ i \in retained
  /\ retained' = retained \ {i}
  /\ UNCHANGED <<snap, reader, handlers, ledger, history>>

(* expireLocked removes the oldest entry.                                  *)
ExpireEntry ==
  /\ ShortTTL /\ ledger # <<>>
  /\ ledger' = Tail(ledger)
  /\ UNCHANGED <<snap, reader, handlers, retained, history>>

(* The reader fails or its connection ends; unrouted reservations are      *)
(* released.                                                               *)
CloseReader ==
  /\ pc # "closed"
  /\ Drop("closed") /\ Release
  /\ UNCHANGED <<snap, ledger, retained, history>>

(* The session actor shuts down, after the reader or while it works: the   *)
(* registry is emptied first ...                                           *)
CloseSession ==
  /\ ~closing
  /\ closing' = TRUE /\ active' = {}
  /\ UNCHANGED <<snap, reader, running, cancelled, written, ledger, retained, history>>

(* ... and the handlers are cancelled one by one.                          *)
CancelHandler(i) ==
  /\ closing /\ i \in (running \cup reserved) \ cancelled
  /\ cancelled' = cancelled \cup {i}
  /\ UNCHANGED <<snap, reader, active, running, written, closing, ledger, retained, history>>

(* The next connection's actor starts once requestWG has been waited for.  *)
Reconnect ==
  /\ pc = "closed" /\ closing /\ running = {}
  /\ Drop("idle") /\ closing' = FALSE
  /\ UNCHANGED <<snap, active, running, cancelled, written, ledger, retained, history>>

(* The process stops: only the stored snapshot survives.                   *)
Crash ==
  /\ Drop("idle")
  /\ active' = {} /\ running' = {} /\ cancelled' = {} /\ written' = {} /\ closing' = FALSE
  /\ ledger' = <<>> /\ retained' = {}
  /\ UNCHANGED <<snap, history>>

Next ==
  \/ \E e \in Envelopes : Deliver(e)
  \/ ValidateOne \/ SkipRetransmission \/ RefuseReplay \/ Refuse
  \/ Begin \/ RejectOverloaded \/ Save \/ Record
  \/ RouteFresh \/ RouteReplay \/ Routed
  \/ \E i \in Ids : RouteDrop(i) \/ Write(i) \/ Answer(i) \/ Abandon(i) \/ Forget(i) \/ CancelHandler(i)
  \/ ExpireEntry \/ CloseReader \/ CloseSession \/ Reconnect \/ Crash

Spec == Init /\ [][Next]_vars

-----------------------------------------------------------------------------
(* Properties *)

ReplayState == [highest : Nat, floor : Nat, recent : SUBSET Ids, seq : Nat, seqs : Seq(Nat)]

(* The replay state keeps its shape and the window its bound               *)
(* (rememberMessageID's eviction, recentIDs[:limit-1]).                    *)
TypeOK ==
  /\ snap \in ReplayState /\ cand \in ReplayState
  /\ pc \in {"idle", "validate", "valid", "record", "route", "closed"}
  /\ reserved \subseteq Ids /\ active \subseteq running \cup reserved
  /\ cancelled \subseteq running \cup reserved /\ written \subseteq running /\ running \subseteq Ids
  /\ closing \in BOOLEAN
  /\ accepted \subseteq Message /\ told \subseteq [id : Ids, lost : BOOLEAN]
  /\ runs \in [Ids -> Nat]

Covered(s, i) == i <= s.floor \/ i \in s.recent

(* An id whose acceptance was saved stays refused for good: it is in the   *)
(* recent set or at or below the floor, whatever was evicted, saved or     *)
(* restarted since (rememberMessageID's floor, validator.go:397-418).      *)
AcceptedStaysRefused == \A m \in accepted : Covered(snap, m.id)

(* No handler starts twice for one client message id: not through a resend,*)
(* a container that repeats it, a reconnect or a process restart           *)
(* (recoverContainerReplay "never routes a retransmitted body").           *)
ExecutedOnce == \A i \in Ids : runs[i] <= 1

(* No two accepted content messages share a sequence number ("duplicate    *)
(* sequence numbers cannot execute under fresh IDs", validator.go:346-348).*)
SequenceOnce ==
  \A m, n \in accepted :
    ContentRelated(m) /\ ContentRelated(n) /\ m.seq = n.seq => m = n

(* A client told REQUEST_RETRY for a request that was accepted and lost    *)
(* may send the call again under a new id: no handler ever starts for the  *)
(* old id again, and a handler that still works on it, because the request *)
(* was dropped, has no response taken any more, unless the session is      *)
(* shutting down (recoverInterruptedApplicationReplay,                     *)
(* recoverContainerReplay, ActiveRequestRegistry.Drop).                    *)
RetryIsFinal ==
  [][\A t \in told : t.lost =>
       /\ runs'[t.id] = runs[t.id]
       /\ t.id \in written' => t.id \in written \/ closing]_vars
===============================================================================
