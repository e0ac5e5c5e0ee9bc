------------------------------- MODULE Writer -------------------------------
(***************************************************************************)
(* The session writer (internal/runtime/writer.go) with the store of       *)
(* retained messages (mtproto/reliability/store.go): the one goroutine     *)
(* that numbers, persists, retains and writes frames, and its callers.     *)
(* Publishers push; one handler answers a request; the session's reader    *)
(* (Actor) runs the control messages msgs_ack and msg_resend_req and the   *)
(* recovery of a replayed request.  The store and the sequence number      *)
(* outlive the writer: the next owner of the session goes on with both.    *)
(*                                                                         *)
(* A message is a record; ids grow as MsgIDGenerator makes them (the next  *)
(* owner's generator starts from the clock, which has moved on), and a     *)
(* frame is named by the id of its first message.  All messages are kept   *)
(* equally long, so the oldest retained message, the one with the least    *)
(* id, expires first.  outcomeMu, which keeps some callers apart, is left  *)
(* out: the callers here interleave freely.  Saves of the snapshot by      *)
(* others are in SessionSnapshot.                                          *)
(***************************************************************************)
EXTENDS Naturals, Sequences, FiniteSets

CONSTANTS Pushers, Handler, Actor,  \* callers
          Contexts,                 \* contexts of the publishers
          Request,                  \* the request the handler answers
          None,
          Capacity,                 \* of the store of retained messages
          MaxBatch,                 \* maxOpportunisticPushBatch
          MaxSubmissions,           \* bound on the pushes and answers
          MaxPrograms,              \* bound on the messages the Actor handles
          MaxOwners                 \* bound on the owners of the session

Callers == Pushers \cup {Handler, Actor}
AllContexts == Contexts \cup {Handler, Actor}

ASSUME WriterAssumption ==
  /\ Capacity \in Nat \ {0} /\ MaxBatch \in Nat \ {0}
  /\ MaxSubmissions \in Nat /\ MaxPrograms \in Nat /\ MaxOwners \in Nat
  /\ Handler # Actor /\ Pushers \cap {Handler, Actor} = {} /\ Contexts \cap {Handler, Actor} = {}
  /\ None \notin Callers /\ None # Request

VARIABLES
  phase,      \* per caller: before, in the first or second select of, or after Writer.request
  call,       \* per caller: the writerRequest
  reply,      \* per caller: what the reply channel holds
  made,       \* per caller: the ids of the messages made for the call
  todo,       \* the calls the Actor still makes for the message it handles
  eligible,   \* msg_resend_req: all inspected messages can be resent
  programs,   \* messages the Actor has handled
  completed,  \* the inbound ledger has the request's response (HasResponse)
  cancelled,  \* contexts that are done
  pc,         \* the writer goroutine
  batch,      \* the requests that are processed together
  pending,    \* the request that ended a batch
  frame,      \* the prepared frame, 0 for none
  prepared,   \* every message prepared so far
  nextSeq,    \* Snapshot.ServerSeqNo as stored
  nextId,     \* the message id generator
  retained,   \* the messages in reliability.Store
  acked,      \* ids of the retained messages that are acknowledged
  forgotten,  \* ids of messages that expired or were evicted
  wire,       \* messages that reached the client
  retired,    \* the lease is retired
  cause,      \* why: the lease's cause, or the fatal error about to be it
  owner       \* number of the session's owner

callerVars == <<phase, call, reply, made, todo, eligible, programs, completed>>
writerVars == <<pc, batch, pending, frame>>
storeVars == <<nextSeq, nextId, prepared, retained, acked, forgotten, wire>>
sessionVars == <<retired, cause, owner>>
vars == <<callerVars, cancelled, writerVars, storeVars, sessionVars>>

Ops == {"push", "result", "retry", "interrupted", "notice", "ack", "inspect", "resend", "replay", "close", "none"}
Calls == [from : Callers, op : Ops, ctx : AllContexts, ids : SUBSET Nat]
NoCall == [from |-> Actor, op |-> "none", ctx |-> Actor, ids |-> {}]
Answers == {"ok", "failed", "cancelled", "known", "unknown", "eligible", "ineligible"}
Errors == {"failed", "cancelled"}
Messages == [id : Nat, frame : Nat, seq : Nat, kind : Ops, request : {Request, None}]
MessageIds(messages) == {m.id : m \in messages}
Sent == MessageIds(wire)
Retained == MessageIds(retained)

\* Types; the ids in use are those the generator has given out.
TypeOK ==
  /\ phase \in [Callers -> {"idle", "offer", "wait", "done", "closed"}]
  /\ call \in [Callers -> Calls]
  /\ reply \in [Callers -> Answers \cup {"none"}]
  /\ made \in [Callers -> SUBSET (1..(nextId - 1))]
  /\ todo \in Seq(Calls) /\ eligible \in BOOLEAN /\ programs \in 0..MaxPrograms
  /\ completed \in BOOLEAN
  /\ cancelled \subseteq AllContexts
  /\ pc \in {"run", "collect", "process", "write", "stop", "closed"}
  /\ batch \in Seq(Calls) /\ Len(batch) <= MaxBatch /\ pending \in Calls
  /\ frame \in 0..(nextId - 1)
  /\ nextSeq \in Nat /\ nextId \in Nat \ {0}
  /\ prepared \subseteq Messages /\ MessageIds(prepared) \subseteq 1..(nextId - 1)
  /\ retained \subseteq prepared /\ wire \subseteq prepared
  /\ acked \subseteq Retained /\ forgotten \subseteq 1..(nextId - 1)
  /\ retired \in BOOLEAN /\ cause \in Errors \cup {"none"} /\ owner \in 1..MaxOwners

Init ==
  /\ phase = [c \in Callers |-> "idle"] /\ call = [c \in Callers |-> NoCall]
  /\ reply = [c \in Callers |-> "none"]
  /\ made = [c \in Callers |-> {}]
  /\ todo = <<>> /\ eligible = TRUE /\ programs = 0 /\ completed = FALSE
  /\ cancelled = {}
  /\ pc = "run" /\ batch = <<>> /\ pending = NoCall /\ frame = 0
  /\ nextSeq = 0 /\ nextId = 1 /\ prepared = {} /\ retained = {} /\ acked = {} /\ forgotten = {} /\ wire = {}
  /\ retired = FALSE /\ cause = "none" /\ owner = 1

(***************************************************************************)
(* Writer.request, the callers' side                                       *)
(***************************************************************************)

Enter(c, request) ==
  /\ phase[c] = "idle"
  /\ phase' = [phase EXCEPT ![c] = "offer"]
  /\ call' = [call EXCEPT ![c] = request]
  /\ UNCHANGED <<reply, made, completed, cancelled, writerVars, storeVars, sessionVars>>

MaySubmit == Cardinality({c \in Callers \ {Actor} : phase[c] # "idle"}) < MaxSubmissions

\* requestSender.Push: each publisher pushes once.
Push(p, ctx) ==
  /\ MaySubmit
  /\ Enter(p, [from |-> p, op |-> "push", ctx |-> ctx, ids |-> {}])
  /\ UNCHANGED <<todo, eligible, programs>>

\* applyOutcome submits the rpc_result with its acknowledgement.  Shutdown waits
\* for handlers, so the handler belongs to the first owner.
Answer ==
  /\ owner = 1 /\ MaySubmit
  /\ Enter(Handler, [from |-> Handler, op |-> "result", ctx |-> Handler, ids |-> {}])
  /\ UNCHANGED <<todo, eligible, programs>>

\* The Actor goes on unless the call failed: then the connection ends.  applyOutcome
\* completes the ledger entry of the request when its answer was submitted.
Return(c, result) ==
  /\ phase' = [phase EXCEPT ![c] = IF result = "closed" THEN "closed"
                                   ELSE IF c = Actor THEN "idle" ELSE "done"]
  /\ call' = [call EXCEPT ![c] = NoCall]
  /\ reply' = [reply EXCEPT ![c] = "none"]
  /\ made' = [made EXCEPT ![c] = {}]
  /\ eligible' = IF c = Actor /\ result = "ineligible" THEN FALSE ELSE eligible
  /\ todo' = IF c # Actor THEN todo
             ELSE IF result \in {"failed", "cancelled", "closed"} THEN <<>>
             ELSE IF result = "known" THEN Tail(todo) ELSE todo
  /\ completed' = (completed \/ (c = Handler /\ result = "ok"))
  /\ UNCHANGED <<programs, cancelled, writerVars, storeVars, sessionVars>>

GetReply(c) == phase[c] = "wait" /\ reply[c] # "none" /\ Return(c, reply[c])

GiveUp(c) == phase[c] \in {"offer", "wait"} /\ call[c].ctx \in cancelled /\ Return(c, "cancelled")

\* Mutant: a closed writer is an error even when the reply is there.
SeeClosedOnly(c) ==
  /\ phase[c] \in {"offer", "wait"} /\ pc = "closed"
  /\ Return(c, "closed")

\* done is closed and there is no reply: the caller gets w.cause().
SeeClosed(c) ==
  /\ phase[c] \in {"offer", "wait"} /\ pc = "closed"
  /\ reply[c] = "none"
  /\ Return(c, "closed")

\* rpc_drop_answer, a publisher that gives up, the end of the connection.
CancelContext(ctx) ==
  /\ ctx \notin cancelled
  /\ ctx = Handler \/ \E c \in Callers : phase[c] \in {"offer", "wait"} /\ call[c].ctx = ctx
  /\ cancelled' = cancelled \cup {ctx}
  /\ UNCHANGED <<callerVars, writerVars, storeVars, sessionVars>>

(***************************************************************************)
(* The Actor: what the client's messages make the session's reader call    *)
(***************************************************************************)

Ask(op, ids) == [from |-> Actor, op |-> op, ctx |-> Actor, ids |-> ids]

\* The first of the calls that the message leads to.
Handle(calls) ==
  /\ todo = <<>> /\ Actor \notin cancelled
  /\ programs < MaxPrograms
  /\ programs' = programs + 1
  /\ Enter(Actor, Head(calls))
  /\ todo' = Tail(calls)
  /\ UNCHANGED eligible

\* msgs_ack for a message the client has.
AckMessage == \E i \in Sent : Handle(<<Ask("ack", {i})>>)

\* msg_resend_req: inspect every message, then resend all of them or none.  The
\* client asks for the first messages of one or two frames; its request is not
\* content-related and gets no acknowledgement.
ResendMessage ==
  \E i, j \in {m.frame : m \in prepared} :
    Handle(IF i = j THEN <<Ask("inspect", {i}), Ask("resend", {i})>>
           ELSE <<Ask("inspect", {i}), Ask("inspect", {j}), Ask("resend", {i, j})>>)

\* The request is not in the registry: it was answered or dropped, or its handler
\* is gone with an earlier owner.
Inactive == phase[Handler] \in {"done", "closed"} \/ Handler \in cancelled \/ owner > 1

\* recoverContainerReplay, for a request that comes again inside a container.
ReplayRequest ==
  /\ Inactive
  /\ Handle(<<Ask("replay", {}), Ask("retry", {}), Ask("notice", {})>>)

\* recoverInterruptedApplicationReplay, for one that comes again alone: it looks at
\* the ledger and not at the store; otherwise the client gets bad_msg_notification.
ReplayAlone ==
  Handle(<<Ask(IF Inactive /\ ~completed THEN "interrupted" ELSE "notice", {})>>)

\* The ledger evicts the entry or it expires.
LedgerForgets ==
  /\ completed /\ completed' = FALSE
  /\ UNCHANGED <<phase, call, reply, made, todo, eligible, programs, cancelled, writerVars, storeVars, sessionVars>>

\* An application outcome may end with a Close intent.
CloseSession == Handle(<<Ask("close", {})>>)

\* The next call; messages that cannot be resent are reported instead.
ActorCall ==
  /\ todo # <<>>
  /\ Enter(Actor, IF Head(todo).op = "resend" /\ ~eligible THEN Ask("notice", {}) ELSE Head(todo))
  /\ todo' = Tail(todo)
  /\ eligible' = (eligible \/ Head(todo).op = "resend")
  /\ UNCHANGED programs

(***************************************************************************)
(* Writer.run                                                              *)
(***************************************************************************)

Receive(c) ==
  /\ phase[c] = "offer"
  /\ phase' = [phase EXCEPT ![c] = "wait"]
  /\ UNCHANGED <<call, reply, made, todo, eligible, programs, completed, cancelled, storeVars, sessionVars>>

\* The next request, or the one that ended the last batch.
Take(c) ==
  /\ pc = "run" /\ pending = NoCall
  /\ Receive(c)
  /\ batch' = <<call[c]>>
  /\ pc' = IF call[c].op = "push" THEN "collect" ELSE "process"
  /\ UNCHANGED <<pending, frame>>

TakePending ==
  /\ pc = "run" /\ pending # NoCall /\ ~retired
  /\ batch' = <<pending>> /\ pending' = NoCall
  /\ pc' = IF pending.op = "push" THEN "collect" ELSE "process"
  /\ UNCHANGED <<callerVars, cancelled, frame, storeVars, sessionVars>>

\* Mutant: pushes of different contexts share a frame.
CompatibleAnyContext(first, next) == next.op = "push"

\* pushRequest and sameWriterContext.
Compatible(first, next) == next.op = "push" /\ next.ctx = first.ctx

\* collectPushRequests: whoever is waiting joins, unless it is something else or
\* does not fit; then it is next.  The writer does not wait for more.
Collect(c, fits) ==
  /\ pc = "collect" /\ Len(batch) < MaxBatch
  /\ Receive(c)
  /\ IF Compatible(batch[1], call[c]) /\ fits
     THEN batch' = Append(batch, call[c]) /\ UNCHANGED <<pc, pending>>
     ELSE pending' = call[c] /\ pc' = "process" /\ UNCHANGED batch
  /\ UNCHANGED frame

(***************************************************************************)
(* processRequest                                                          *)
(***************************************************************************)

Op == batch[1].op
Processing(ops) == pc \in {"collect", "process"} /\ Op \in ops
Done == batch[1].ctx \in cancelled

\* What a failing save or write returns: the error of a context that is done, or of
\* a lease that is retired (ensureActiveLocked, a closed temporaryFrameSink).
Failures == IF Done \/ retired THEN Errors ELSE {"failed"}

Submitters == {batch[k].from : k \in DOMAIN batch}
Waiting(c) == phase[c] = "wait" /\ c \in Submitters

\* A fatal error stops the writer and is the cause, unless the lease has one; the
\* cause of a Close intent is the application's.
Finish(answer, fatal) ==
  /\ batch' = <<>> /\ frame' = 0
  /\ pc' = IF fatal THEN "stop" ELSE "run"
  /\ cause' \in IF ~fatal \/ retired THEN {cause} ELSE IF answer \in Errors THEN {answer} ELSE Errors

\* Mutant: only the first request of a batch is answered.
RespondFirst(answer, fatal) ==
  /\ reply' = [c \in Callers |-> IF Waiting(c) /\ c = batch[1].from THEN answer ELSE reply[c]]
  /\ Finish(answer, fatal)

\* Everybody in the batch gets the response; the writer goes on or stops.
Respond(answer, fatal) ==
  /\ reply' = [c \in Callers |-> IF Waiting(c) THEN answer ELSE reply[c]]
  /\ Finish(answer, fatal)

\* A save or a write has failed.
Fail == \E error \in Failures : Respond(error, TRUE)

AroundProcess == <<phase, call, todo, eligible, programs, completed, cancelled, pending, retired, owner>>

\* A command whose context is done changes nothing and is not fatal.
ProcessCancelled ==
  /\ Processing({"ack", "inspect", "replay"}) /\ Done
  /\ Respond("cancelled", FALSE)
  /\ UNCHANGED <<AroundProcess, made, storeVars>>

Acknowledge ==
  /\ Processing({"ack"}) /\ ~Done
  /\ acked' = acked \cup (batch[1].ids \cap Retained)
  /\ Respond("ok", FALSE)
  /\ UNCHANGED <<AroundProcess, made, nextSeq, nextId, prepared, retained, forgotten, wire>>

\* LookupForResend.
Resendable(i) == i \in Retained \ acked

Inspect ==
  /\ Processing({"inspect"}) /\ ~Done
  /\ Respond(IF \A i \in batch[1].ids : Resendable(i) THEN "eligible" ELSE "ineligible", FALSE)
  /\ UNCHANGED <<AroundProcess, made, storeVars>>

\* connectionFrameSink.WriteFrame of the frame f: it refuses a context that is
\* done; a write that fails may still have reached the client.
WriteFrame(f, ok, arrives) ==
  /\ ok => arrives
  /\ Done => ~arrives
  /\ wire' = IF arrives THEN wire \cup {m \in prepared : m.frame = f} ELSE wire

\* Mutant: a response inside a container is not correlated with its request.
LookupResponseAlone ==
  {m \in retained : m.request = Request /\ \A n \in retained \ {m} : n.frame # m.frame}

\* LookupResponse: the retained responses to the request.
LookupResponse == {m \in retained : m.request = Request}

Newest(messages) == CHOOSE m \in messages : \A n \in messages : n.id <= m.id

ReplayResponse(ok, arrives) ==
  /\ Processing({"replay"}) /\ ~Done
  /\ IF LookupResponse = {} THEN ok /\ arrives /\ Respond("unknown", FALSE) /\ UNCHANGED wire
     ELSE IF Newest(LookupResponse).id \in acked THEN ok /\ arrives /\ Respond("known", FALSE) /\ UNCHANGED wire
     ELSE /\ WriteFrame(Newest(LookupResponse).frame, ok, arrives)
          /\ IF ok THEN Respond("known", FALSE) ELSE Fail
  /\ UNCHANGED <<AroundProcess, made, nextSeq, nextId, prepared, retained, acked, forgotten>>

ProcessClose ==
  /\ Processing({"close"})
  /\ Respond("ok", TRUE)
  /\ UNCHANGED <<AroundProcess, made, storeVars>>

\* Resend: one message after the other; one that is gone is a fatal error.
ResendOne(i, ok, arrives) ==
  /\ Processing({"resend"}) /\ i \in batch[1].ids
  /\ IF Resendable(i)
     THEN LET f == (CHOOSE m \in retained : m.id = i).frame IN
          /\ WriteFrame(f, ok, arrives)
          /\ IF ~ok THEN Fail
             ELSE IF batch[1].ids = {i} THEN Respond("ok", FALSE)
             ELSE batch' = <<[batch[1] EXCEPT !.ids = @ \ {i}]>> /\ UNCHANGED <<pc, reply, frame, cause>>
     ELSE ok /\ arrives /\ Respond("failed", TRUE) /\ UNCHANGED wire
  /\ UNCHANGED <<AroundProcess, made, nextSeq, nextId, prepared, retained, acked, forgotten>>

(***************************************************************************)
(* process for intents that make messages                                  *)
(***************************************************************************)

\* What the batch puts into its frame: pushes, or an answer with the
\* acknowledgement of its request, or one message.
Items ==
  IF Op \in {"result", "interrupted"} THEN <<Op, "ack">> ELSE [k \in 1..Len(batch) |-> batch[k].op]

\* Several messages travel in a container, which is a message of its own.
Places == IF Len(Items) = 1 THEN 1 ELSE Len(Items) + 1
Kind(k) == IF k <= Len(Items) THEN Items[k] ELSE "notice"

ResponseKinds == {"result", "retry", "interrupted"}
ContentRelated(kind) == kind = "push" \/ kind \in ResponseKinds

ContentBefore(k) == Cardinality({j \in 1..(k - 1) : ContentRelated(Kind(j))})

\* nextSequenceNo.
SequenceNo(k) ==
  IF ContentRelated(Kind(k)) THEN 2 * (nextSeq + ContentBefore(k)) + 1 ELSE 2 * (nextSeq + ContentBefore(k))

NewSeq == nextSeq + ContentBefore(Places + 1)

Message(k) ==
  [id |-> nextId + k - 1, frame |-> nextId, seq |-> SequenceNo(k), kind |-> Kind(k),
   request |-> IF Kind(k) \in ResponseKinds THEN Request ELSE None]

NewFrame == {Message(k) : k \in 1..Places}

MessageOps == {"push", "notice"} \cup ResponseKinds

MadeFor(c) ==
  IF ~Waiting(c) THEN made[c]
  ELSE IF Op = "push" THEN {nextId + k - 1 : k \in {k \in DOMAIN batch : batch[k].from = c}}
  ELSE nextId..(nextId + Len(Items) - 1)

\* Store.Put, message after message: a full store forgets the oldest.
Latest(messages) ==
  {m \in messages : Cardinality({n \in messages : n.id > m.id}) < Capacity}

\* What is put into the store displaces what no longer fits.
Put(messages) ==
  LET next == Latest(retained \cup messages)
  IN /\ retained' = next
     /\ acked' = acked \cap MessageIds(next)
     /\ forgotten' = forgotten \cup MessageIds((retained \cup messages) \ next)

\* Mutant: only the first message of a frame is retained.
RetainFirst(messages) == Put({m \in messages : m.id = nextId})

\* process puts every message of the frame.
Retain(messages) == Put(messages)

\* The frame is prepared, under fresh ids.
Prepare(messages) ==
  /\ frame' = nextId
  /\ prepared' = prepared \cup messages
  /\ nextId' = nextId + Places
  /\ made' = [c \in Callers |-> MadeFor(c)]

\* Mutant: sequence numbers are used and not saved.
SaveNothing ==
  /\ Processing(MessageOps)
  /\ ~retired /\ ~Done
  /\ Prepare(NewFrame) /\ Retain(NewFrame)
  /\ pc' = "write"
  /\ UNCHANGED <<AroundProcess, reply, batch, nextSeq, wire, cause>>

\* prepare, lease.Save, and Store.Put for every message.
Save ==
  /\ Processing(MessageOps)
  /\ ~retired /\ ~Done
  /\ Prepare(NewFrame) /\ Retain(NewFrame)
  /\ nextSeq' = NewSeq
  /\ pc' = "write"
  /\ UNCHANGED <<AroundProcess, reply, batch, wire, cause>>

\* The encoding, the lease or the store fails, or Put does because the lifetime of
\* the message, and with it of all that is retained, has passed.
SaveFails(saved) ==
  /\ Processing(MessageOps)
  /\ saved => ~retired /\ ~Done
  /\ nextSeq' = IF saved THEN NewSeq ELSE nextSeq
  /\ Fail
  /\ UNCHANGED <<AroundProcess, made, nextId, prepared, retained, acked, forgotten, wire>>

Write(ok, arrives) ==
  /\ pc = "write"
  /\ WriteFrame(frame, ok, arrives)
  /\ IF ok THEN Respond("ok", FALSE) ELSE Fail
  /\ UNCHANGED <<AroundProcess, made, nextSeq, nextId, prepared, retained, acked, forgotten>>

(***************************************************************************)
(* The end of a turn, of the writer and of the session                     *)
(***************************************************************************)

\* The lease is retired and done is closed.  A request left in pending gets no
\* response.
Stop ==
  /\ pc = "stop" \/ (pc = "run" /\ retired)
  /\ retired' = TRUE
  /\ pc' = "closed"
  /\ UNCHANGED <<callerVars, cancelled, batch, pending, frame, storeVars, cause, owner>>

\* The lease is retired by others, with whatever cause: also the cancellation of
\* the connection's context.
LeaseEnds ==
  /\ ~retired /\ retired' = TRUE /\ cause' \in Errors
  /\ UNCHANGED <<callerVars, cancelled, writerVars, storeVars, owner>>

\* The session's next owner starts a writer on the same store and snapshot, when
\* the calls to the old one have ended.
NextOwner ==
  /\ pc = "closed" /\ owner < MaxOwners
  /\ \A c \in Callers : phase[c] \notin {"offer", "wait"}
  /\ phase' = [phase EXCEPT ![Actor] = "idle"]
  /\ pc' = "run" /\ pending' = NoCall /\ todo' = <<>>
  /\ cancelled' = cancelled \ {Actor}
  /\ retired' = FALSE /\ cause' = "none" /\ owner' = owner + 1
  /\ UNCHANGED <<call, reply, made, eligible, programs, completed, batch, frame, storeVars>>

Oldest(messages) == CHOOSE m \in messages : \A n \in messages : m.id <= n.id

\* expireLocked: a command looks into the store after the messages of the oldest
\* frame, which have one lifetime, have expired.
Expire ==
  /\ Processing({"ack", "inspect", "replay", "resend"})
  /\ retained # {}
  /\ LET old == {m \in retained : m.frame = Oldest(retained).frame} IN
     /\ retained' = retained \ old
     /\ acked' = acked \ MessageIds(old)
     /\ forgotten' = forgotten \cup MessageIds(old)
  /\ UNCHANGED <<callerVars, cancelled, writerVars, nextSeq, nextId, prepared, wire, sessionVars>>

ProcessStep ==
  \/ ProcessCancelled \/ Acknowledge \/ Inspect \/ ProcessClose \/ Save
  \/ \E saved \in BOOLEAN : SaveFails(saved)
  \/ \E ok, arrives \in BOOLEAN :
       ReplayResponse(ok, arrives) \/ Write(ok, arrives) \/ \E i \in 1..(nextId - 1) : ResendOne(i, ok, arrives)

WriterStep == TakePending \/ ProcessStep \/ Stop

Received(c) == Take(c) \/ \E fits \in BOOLEAN : Collect(c, fits)

Ended(c) == GetReply(c) \/ SeeClosed(c)

Next ==
  \/ \E p \in Pushers, ctx \in Contexts : Push(p, ctx)
  \/ Answer \/ AckMessage \/ ResendMessage \/ ReplayRequest \/ ReplayAlone \/ CloseSession \/ ActorCall
  \/ \E c \in Callers : Received(c) \/ Ended(c) \/ GiveUp(c)
  \/ \E ctx \in AllContexts : CancelContext(ctx)
  \/ WriterStep \/ LeaseEnds \/ NextOwner \/ Expire \/ LedgerForgets

Spec == Init /\ [][Next]_vars

(***************************************************************************)
(* Properties                                                              *)
(***************************************************************************)

\* What Submit returns is true: after success the caller's messages have been
\* written, in whatever batch; a caller that is told the writer is closed, with
\* no response, had nothing numbered or written.
OutcomeTruth ==
  [][\A c \in Callers : phase[c] = "wait" /\ phase'[c] # "wait" =>
       /\ reply[c] = "ok" /\ call[c].op \in MessageOps => made[c] # {} /\ made[c] \subseteq Sent
       /\ phase'[c] = "closed" => made[c] = {}]_vars

\* What Writer.request has for the caller.
Response(c) ==
  IF reply[c] # "none" THEN reply[c] ELSE IF pc = "closed" THEN cause ELSE "none"

\* A caller whose own context is alive gets a cancellation only when the session is
\* over: pushes of different contexts are never processed together, and although
\* the cause of a closed writer may be the cancellation of somebody else's push,
\* the lease is retired before it is returned.  A handler ends silently on
\* context.Canceled (connection_session.go:416-418), which loses its answer unless
\* the session ends.
CancellationIsOwnOrFinal ==
  \A c \in Callers : phase[c] \in {"offer", "wait"} /\ Response(c) = "cancelled" =>
    call[c].ctx \in cancelled \/ retired

\* No two content-related messages that reach the client have the same sequence
\* number, through failed saves, writes that fail and the next owner's writer.
SequenceUnique ==
  \A m, n \in wire : m.seq % 2 = 1 /\ m.seq = n.seq => m = n

\* Whatever reached the client can be acknowledged, inspected and resent until
\* the store's limits make it forget the message, and the store keeps its limit.
WireIsRetained == Sent \subseteq Retained \cup forgotten /\ Cardinality(retained) <= Capacity

\* As long as an answer is retained, a client that replays its request inside a
\* container gets that answer again, never a second one, also when the request was
\* dropped while its answer was on its way.  When it replays the request alone the
\* handler's answer is followed by a second one, the retryable error, only if the
\* ledger does not have the answer or the request was dropped.
OneAnswer ==
  \A m, n \in wire : m.request = Request /\ n.request = Request /\ m.id < n.id =>
    \/ m.id \in forgotten
    \/ n.kind = "interrupted" /\ (m.kind = "result" => ~completed \/ Handler \in cancelled)

\* Nobody is forgotten inside Writer.request: a caller whose request was received
\* is in the batch, is the one that ended it, has its response or sees done
\* closed, and a writer that waits for requests owes no response.
NobodyStranded ==
  \A c \in Callers : phase[c] = "wait" /\ reply[c] = "none" =>
    pc = "closed" \/ c \in Submitters \/ (pending # NoCall /\ pending.from = c)
=============================================================================
