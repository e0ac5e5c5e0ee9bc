---------------------------- MODULE WriterProofs ----------------------------
(***************************************************************************)
(* What the session writer promises, for any number of publishers,         *)
(* contexts and owners, any batch size and any capacity of the store:      *)
(* responses are true, no caller is left without one or gets the           *)
(* cancellation of another while the session goes on, sequence numbers are *)
(* used once, what was written stays retained until the store's limit      *)
(* displaces it, and a request has one answer as long as the ledger or the *)
(* store is asked for it.                                                  *)
(*                                                                         *)
(* The inductive invariant WriterInv says who a request in the writer's    *)
(* hands belongs to (HeldInv), what a caller's response and messages stand *)
(* for (ReplyInv), which numbers and ids are taken and what the store      *)
(* holds (StoreInv), and when a second answer may be made (AnswerInv).     *)
(***************************************************************************)
EXTENDS Writer, FiniteSetTheorems, TLAPS

\* What the proofs use of the types.
Types ==
  /\ phase \in [Callers -> {"idle", "offer", "wait", "done", "closed"}]
  /\ call \in [Callers -> Calls]
  /\ reply \in [Callers -> Answers \cup {"none"}]
  /\ made \in [Callers -> SUBSET Nat]
  /\ todo \in Seq(Calls)
  /\ pc \in {"run", "collect", "process", "write", "stop", "closed"}
  /\ batch \in Seq(Calls) /\ pending \in Calls
  /\ owner \in Nat \ {0}

\* A caller inside Writer.request asks for what such a caller asks for, under its
\* own name and context; outside it has neither a response nor messages.
CallInv ==
  \A c \in Callers :
    /\ phase[c] \in {"offer", "wait"} =>
         /\ call[c].from = c
         /\ c \in Pushers => call[c].op = "push" /\ call[c].ctx \in Contexts
         /\ c = Handler => call[c].op = "result" /\ call[c].ctx = Handler /\ owner = 1
         /\ c = Actor => call[c].op \notin {"push", "result", "none"} /\ call[c].ctx = Actor
    /\ phase[c] # "wait" => reply[c] = "none" /\ made[c] = {}

\* The request b is in the writer's hands: its caller waits for the response, or
\* has given up, its context done, and submits nothing else to this writer.
Held(b) ==
  LET c == b.from
  IN \/ phase[c] = "wait" /\ reply[c] = "none" /\ call[c].op = b.op /\ call[c].ctx = b.ctx
     \/ /\ b.ctx \in cancelled
        /\ IF c = Actor THEN phase[c] = "idle" /\ todo = <<>> /\ Actor \in cancelled ELSE phase[c] = "done"

InHand(b) == (\E k \in DOMAIN batch : b = batch[k]) \/ (b = pending /\ b # NoCall /\ pc # "closed")

\* The batch is not empty while it is processed, holds one request or pushes of
\* one context, and the pending request is of another caller.
HeldInv ==
  /\ pc \in {"collect", "process", "write"} <=> Len(batch) > 0
  /\ pc = "collect" => pending = NoCall /\ batch[1].op = "push"
  /\ pc = "write" => batch[1].op \in MessageOps
  /\ Len(batch) > 1 => \A k \in DOMAIN batch : batch[k].op = "push" /\ batch[k].ctx = batch[1].ctx
  /\ \A b \in Calls : InHand(b) => Held(b) /\ b.op # "none"
  /\ pending # NoCall => pending.from \notin Submitters

\* A cancellation is the caller's own, or the lease is retired, as it is once the
\* writer is closed; a successful submission has messages that
\* were written; messages without a response are those of the frame about to be
\* written; a request without a response is in the writer's hands.
ReplyInv ==
  /\ \A c \in Callers :
       /\ reply[c] = "cancelled" => call[c].ctx \in cancelled \/ retired
       /\ reply[c] = "ok" /\ call[c].op \in MessageOps => made[c] # {} /\ made[c] \subseteq Sent
       /\ reply[c] = "known" => call[c].op = "replay"
       /\ reply[c] = "none" /\ made[c] # {} => pc = "write" /\ c \in Submitters
       /\ phase[c] = "wait" /\ reply[c] = "none" =>
            pc = "closed" \/ c \in Submitters \/ (pending # NoCall /\ pending.from = c)
  /\ pc = "write" => \A c \in Submitters : phase[c] = "wait" =>
       made[c] # {} /\ made[c] \subseteq MessageIds({m \in prepared : m.frame = frame})
  /\ pc = "closed" => retired

\* Ids and the numbers of content-related messages are taken once and below the
\* next ones; a prepared message is retained or was forgotten.
StoreInv ==
  /\ nextSeq \in Nat /\ nextId \in Nat \ {0}
  /\ prepared \subseteq Messages /\ IsFiniteSet(prepared)
  /\ retained \subseteq prepared /\ wire \subseteq prepared
  /\ Cardinality(retained) <= Capacity
  /\ \A m \in prepared :
       /\ m.id < nextId
       /\ m.seq % 2 = 1 => m.seq < 2 * nextSeq
       /\ m \in retained \/ m.id \in forgotten
  /\ \A m, n \in prepared : m.id = n.id \/ (m.seq % 2 = 1 /\ m.seq = n.seq) => m = n

\* The handler's answer can no longer be made.
HandlerOver == phase[Handler] \in {"done", "closed"} \/ Handler \in cancelled \/ owner > 1

Responses == {m \in prepared : m.request = Request}
AllForgotten == \A m \in Responses : m.id \in forgotten

\* The ledger does not have the handler's answer, or the request was dropped.
Unrecorded == ~completed \/ Handler \in cancelled

\* The response n may be made after m.
Superseded(m, n) ==
  m.id \in forgotten \/ (n.kind = "interrupted" /\ (m.kind = "result" => Unrecorded))

\* A call the reader may have left to make.
Left(r) == r.op \notin {"replay", "interrupted", "push", "result", "none"} /\ r.from = Actor /\ r.ctx = Actor

\* A response that was made before another one is forgotten, or superseded by the
\* error for a request that came again alone.  The handler makes the first one; the
\* reader asks for the retryable error when the handler cannot make an answer any
\* more and the writer has found none, or the ledger has none.
AnswerInv ==
  /\ \A m, n \in Responses : m.id < n.id => Superseded(m, n)
  /\ ~HandlerOver /\ made[Handler] = {} => Responses = {}
  /\ ~HandlerOver => \A m \in Responses : m.kind = "result"
  /\ phase[Actor] \in {"offer", "wait"} /\ call[Actor].op = "interrupted" => HandlerOver /\ Unrecorded
  /\ phase[Actor] \in {"offer", "wait"} /\ call[Actor].op = "replay" =>
       HandlerOver /\ todo # <<>> /\ reply[Actor] \in {"none", "known", "unknown", "failed", "cancelled"}
  /\ phase[Actor] \in {"offer", "wait"} /\ call[Actor].op = "retry" =>
       HandlerOver /\ (made[Actor] = {} => AllForgotten)
  /\ \A k \in DOMAIN todo : Left(todo[k])
  /\ \A k \in DOMAIN todo : todo[k].op = "retry" =>
       /\ k = 1 /\ HandlerOver
       /\ \/ phase[Actor] = "idle" /\ AllForgotten
          \/ phase[Actor] = "offer" /\ call[Actor].op = "replay"
          \/ phase[Actor] = "wait" /\ call[Actor].op = "replay" /\ (reply[Actor] = "unknown" => AllForgotten)

WriterInv == Types /\ CallInv /\ HeldInv /\ ReplyInv /\ StoreInv /\ AnswerInv

-----------------------------------------------------------------------------
(* Calls enter and leave Writer.request *)

\* The pairwise different names the proofs use.
LEMMA Names ==
  /\ Handler \in Callers /\ Actor \in Callers /\ Handler # Actor
  /\ \A c \in Callers : c \in Pushers \/ c = Handler \/ c = Actor
  /\ \A c \in Pushers : c \in Callers /\ c # Handler /\ c # Actor
  /\ NoCall \in Calls /\ NoCall.op = "none" /\ NoCall.from = Actor
BY WriterAssumption DEF Callers, NoCall, Calls, Ops, AllContexts

\* What a caller may ask for.
Proper(c, r) ==
  /\ r.from = c
  /\ c \in Pushers => r.op = "push" /\ r.ctx \in Contexts
  /\ c = Handler => r.op = "result" /\ r.ctx = Handler /\ owner = 1
  /\ c = Actor => r.op \notin {"push", "result", "none"} /\ r.ctx = Actor

\* Requests in the batch are requests of callers.
LEMMA BatchFacts ==
  ASSUME Types
  PROVE  /\ Len(batch) \in Nat /\ DOMAIN batch = 1..Len(batch)
         /\ \A k \in DOMAIN batch : batch[k] \in Calls /\ batch[k].from \in Callers
         /\ Submitters \subseteq Callers
         /\ \A c \in Submitters : \E k \in DOMAIN batch : batch[k].from = c
         /\ \A k \in DOMAIN batch : batch[k].from \in Submitters
<1>1. Len(batch) \in Nat /\ DOMAIN batch = 1..Len(batch) /\ \A k \in DOMAIN batch : batch[k] \in Calls
  BY DEF Types
<1>2. \A b \in Calls : b.from \in Callers
  BY DEF Calls
<1> QED BY Zenon, <1>1, <1>2 DEF Submitters

\* Entering Writer.request: the caller is none of those the writer holds.
LEMMA EnterKeeps ==
  ASSUME Types, CallInv, HeldInv, ReplyInv,
         NEW c \in Callers, NEW r \in Calls, Enter(c, r), Proper(c, r),
         todo' \in Seq(Calls), c # Actor => todo' = todo,
         c = Actor => Actor \notin cancelled \/ todo # <<>>
  PROVE  Types' /\ CallInv' /\ HeldInv' /\ ReplyInv'
<1>1. /\ phase[c] = "idle" /\ phase' = [phase EXCEPT ![c] = "offer"] /\ call' = [call EXCEPT ![c] = r]
      /\ reply' = reply /\ made' = made /\ cancelled' = cancelled /\ owner' = owner
      /\ pc' = pc /\ batch' = batch /\ pending' = pending /\ frame' = frame
      /\ prepared' = prepared /\ wire' = wire /\ retired' = retired
  BY Zenon DEF Enter, writerVars, storeVars, sessionVars
<1>2. /\ phase'[c] = "offer" /\ call'[c] = r
      /\ \A d \in Callers : d # c => phase'[d] = phase[d] /\ call'[d] = call[d]
  BY <1>1 DEF Types
<1>3. Types'
  BY <1>1 DEF Types
<1>4. CallInv'
  <2> SUFFICES ASSUME NEW d \in Callers
               PROVE  /\ phase'[d] \in {"offer", "wait"} => Proper(d, call[d])'
                      /\ phase'[d] # "wait" => reply'[d] = "none" /\ made'[d] = {}
    BY Zenon DEF CallInv, Proper
  <2>1. CASE d = c
    BY SMTT(30), <1>1, <1>2, <2>1 DEF CallInv, Proper
  <2>2. CASE d # c
    BY <1>1, <1>2, <2>2 DEF CallInv, Proper
  <2> QED BY Zenon, <2>1, <2>2
<1>5. HeldInv'
  <2>1. ASSUME NEW b \in Calls, Held(b) PROVE Held(b)'
    <3>1. b.from \in Callers
      BY DEF Calls
    <3>2. b.from # c
      BY <1>1, <2>1 DEF Held
    <3>3. b.from = Actor => todo' = todo
      BY Zenon, <3>2
    <3> QED BY Zenon, <1>1, <1>2, <2>1, <3>1, <3>2, <3>3 DEF Held
  <2>2. Submitters' = Submitters
    BY Zenon, <1>1 DEF Submitters
  <2>3. \A b : InHand(b)' <=> InHand(b)
    BY Zenon, <1>1 DEF InHand
  <2> QED BY Zenon, <1>1, <2>1, <2>2, <2>3 DEF HeldInv
<1>6. ReplyInv'
  <2>1. Submitters' = Submitters /\ Sent' = Sent
    BY Zenon, <1>1 DEF Submitters, Sent
  <2>2. reply[c] = "none"
    BY <1>1 DEF CallInv
  <2>3. \A d \in Callers : phase'[d] = "wait" => phase[d] = "wait" /\ d # c
    BY <1>2
  <2>4. ASSUME NEW d \in Callers
        PROVE  /\ reply'[d] = "cancelled" => call'[d].ctx \in cancelled' \/ retired'
               /\ reply'[d] = "known" => call'[d].op = "replay"
               /\ reply'[d] = "ok" /\ call'[d].op \in MessageOps => made'[d] # {} /\ made'[d] \subseteq Sent'
    BY <1>1, <1>2, <2>1, <2>2 DEF ReplyInv
  <2>5. Submitters \subseteq Callers
    BY Zenon, BatchFacts
  <2> QED BY Zenon, <1>1, <2>1, <2>3, <2>4, <2>5 DEF ReplyInv
<1> QED BY Zenon, <1>3, <1>4, <1>5, <1>6

\* The reader enters: with a replay or the retryable error only when the handler
\* is over, and with the error only when all earlier answers are forgotten or the
\* ledger has none.
LEMMA ActorEnterAnswer ==
  ASSUME Types, CallInv, AnswerInv, NEW r \in Calls, Enter(Actor, r),
         r.op = "replay" => HandlerOver /\ todo' # <<>>,
         r.op = "retry" => HandlerOver /\ AllForgotten,
         r.op = "interrupted" => HandlerOver /\ Unrecorded,
         \A k \in DOMAIN todo' : Left(todo'[k]) /\ (todo'[k].op = "retry" => k = 1 /\ r.op = "replay")
  PROVE  AnswerInv'
<1>1. /\ phase[Actor] = "idle" /\ phase' = [phase EXCEPT ![Actor] = "offer"] /\ call' = [call EXCEPT ![Actor] = r]
      /\ reply' = reply /\ made' = made /\ cancelled' = cancelled /\ owner' = owner
      /\ prepared' = prepared /\ forgotten' = forgotten /\ completed' = completed
  BY Zenon DEF Enter, writerVars, storeVars, sessionVars
<1>2. phase'[Actor] = "offer" /\ call'[Actor] = r /\ phase'[Handler] = phase[Handler]
  BY <1>1, Names DEF Types
<1>3. reply[Actor] = "none" /\ made[Actor] = {}
  BY <1>1, Names DEF CallInv
<1>4. /\ (HandlerOver' <=> HandlerOver) /\ Responses' = Responses /\ (AllForgotten' <=> AllForgotten)
      /\ (Unrecorded' <=> Unrecorded) /\ \A m, n : Superseded(m, n)' <=> Superseded(m, n)
  BY Zenon, <1>1, <1>2 DEF HandlerOver, Responses, AllForgotten, Unrecorded, Superseded
<1>5. /\ \A m, n \in Responses' : m.id < n.id => Superseded(m, n)'
      /\ ~HandlerOver' /\ made'[Handler] = {} => Responses' = {}
      /\ ~HandlerOver' => \A m \in Responses' : m.kind = "result"
  BY Zenon, <1>1, <1>4 DEF AnswerInv
<1>6. /\ r.op = "replay" => HandlerOver' /\ todo' # <<>> /\ reply'[Actor] \in {"none", "known", "unknown", "failed", "cancelled"}
      /\ r.op = "retry" => HandlerOver' /\ AllForgotten'
      /\ r.op = "interrupted" => HandlerOver' /\ Unrecorded'
  BY Zenon, <1>1, <1>3, <1>4
<1>7. \A k \in DOMAIN todo' : todo'[k].op = "retry" => k = 1 /\ HandlerOver' /\ phase'[Actor] = "offer" /\ call'[Actor].op = "replay"
  BY Zenon, <1>2, <1>6
<1> QED BY Zenon, <1>2, <1>5, <1>6, <1>7 DEF AnswerInv, Left

\* Anybody else who enters changes nothing that AnswerInv is about.
LEMMA OtherEnterAnswer ==
  ASSUME Types, AnswerInv, NEW c \in Callers \ {Actor}, NEW r \in Calls, Enter(c, r), todo' = todo
  PROVE  AnswerInv'
<1>1. /\ phase[c] = "idle" /\ phase' = [phase EXCEPT ![c] = "offer"] /\ call' = [call EXCEPT ![c] = r]
      /\ reply' = reply /\ made' = made /\ cancelled' = cancelled /\ owner' = owner
      /\ prepared' = prepared /\ forgotten' = forgotten /\ completed' = completed
  BY Zenon DEF Enter, writerVars, storeVars, sessionVars
<1>2. /\ phase'[Actor] = phase[Actor] /\ call'[Actor] = call[Actor]
      /\ phase'[Handler] \in {"done", "closed"} <=> phase[Handler] \in {"done", "closed"}
  BY <1>1, Names DEF Types
<1>3. /\ (HandlerOver' <=> HandlerOver) /\ Responses' = Responses /\ (AllForgotten' <=> AllForgotten)
      /\ (Unrecorded' <=> Unrecorded) /\ \A m, n : Superseded(m, n)' <=> Superseded(m, n)
  BY Zenon, <1>1, <1>2 DEF HandlerOver, Responses, AllForgotten, Unrecorded, Superseded
<1> QED BY ZenonT(40), <1>1, <1>2, <1>3 DEF AnswerInv

HandInv == Types /\ CallInv /\ HeldInv /\ ReplyInv /\ AnswerInv

LEMMA PushKeeps ==
  ASSUME HandInv, NEW p \in Pushers, NEW ctx \in Contexts, Push(p, ctx)
  PROVE  HandInv'
<1>1. PICK r : r = [from |-> p, op |-> "push", ctx |-> ctx, ids |-> {}]
  BY Zenon
<1>2. Enter(p, r) /\ todo' = todo
  BY Zenon, <1>1 DEF Push
<1>3. p \in Callers \ {Actor} /\ p # Handler
  BY Zenon, Names
<1>4. r \in Calls /\ Proper(p, r)
  BY <1>1, <1>3 DEF Calls, Ops, AllContexts, Proper
<1>5. Types /\ CallInv /\ HeldInv /\ ReplyInv /\ AnswerInv /\ todo' \in Seq(Calls)
  BY Zenon, <1>2 DEF HandInv, Types
<1>6. Types' /\ CallInv' /\ HeldInv' /\ ReplyInv'
  BY Zenon, <1>2, <1>3, <1>4, <1>5, EnterKeeps
<1> QED BY Zenon, <1>2, <1>3, <1>4, <1>5, <1>6, OtherEnterAnswer DEF HandInv

LEMMA AnswerKeeps ==
  ASSUME HandInv, Answer
  PROVE  HandInv'
<1>1. PICK r : r = [from |-> Handler, op |-> "result", ctx |-> Handler, ids |-> {}]
  BY Zenon
<1>2. Enter(Handler, r) /\ todo' = todo /\ owner = 1
  BY Zenon, <1>1 DEF Answer
<1>3. Handler \in Callers \ {Actor} /\ Handler \notin Pushers
  BY Zenon, Names
<1>4. r \in Calls /\ Proper(Handler, r)
  BY <1>1, <1>2, <1>3 DEF Calls, Ops, AllContexts, Proper
<1>5. Types /\ CallInv /\ HeldInv /\ ReplyInv /\ AnswerInv /\ todo' \in Seq(Calls)
  BY Zenon, <1>2 DEF HandInv, Types
<1>6. Types' /\ CallInv' /\ HeldInv' /\ ReplyInv'
  BY Zenon, <1>2, <1>3, <1>4, <1>5, EnterKeeps
<1> QED BY Zenon, <1>2, <1>3, <1>4, <1>5, <1>6, OtherEnterAnswer DEF HandInv

\* The reader starts on a message that leads to the given calls.
LEMMA HandleKeeps ==
  ASSUME HandInv, NEW calls \in Seq(Calls), Handle(calls), calls # <<>>,
         Proper(Actor, Head(calls)), Head(calls).op # "retry",
         Head(calls).op = "replay" => HandlerOver /\ Tail(calls) # <<>>,
         Head(calls).op = "interrupted" => HandlerOver /\ Unrecorded,
         \A k \in DOMAIN Tail(calls) :
            Left(Tail(calls)[k]) /\ (Tail(calls)[k].op = "retry" => k = 1 /\ Head(calls).op = "replay")
  PROVE  HandInv'
<1>1. Enter(Actor, Head(calls)) /\ todo' = Tail(calls) /\ Actor \notin cancelled
  BY Zenon DEF Handle
<1>2. Head(calls) \in Calls /\ Tail(calls) \in Seq(Calls) /\ Actor \in Callers
  BY Names
<1>3. PICK r \in Calls : r = Head(calls)
  BY Zenon, <1>2
<1>4. Types /\ CallInv /\ HeldInv /\ ReplyInv /\ AnswerInv
  BY Zenon DEF HandInv
<1>5. Types' /\ CallInv' /\ HeldInv' /\ ReplyInv'
  BY Zenon, <1>1, <1>2, <1>3, <1>4, EnterKeeps
<1>6. AnswerInv'
  BY Zenon, <1>1, <1>2, <1>3, <1>4, ActorEnterAnswer
<1> QED BY Zenon, <1>5, <1>6 DEF HandInv

\* What the actor submits is a proper call of the actor.
LEMMA AskFacts ==
  ASSUME NEW op \in Ops \ {"push", "result", "none"}, NEW ids \in SUBSET Nat
  PROVE  /\ Ask(op, ids) \in Calls /\ Ask(op, ids).op = op /\ Proper(Actor, Ask(op, ids))
         /\ op \notin {"replay", "interrupted"} => Left(Ask(op, ids))
<1>1. Actor \in Callers /\ Actor # Handler /\ Actor \notin Pushers
  BY Zenon, Names
<1>2. Ask(op, ids) \in Calls
  BY <1>1 DEF Ask, Calls, AllContexts
<1>3. Ask(op, ids).from = Actor /\ Ask(op, ids).op = op /\ Ask(op, ids).ctx = Actor
  BY DEF Ask
<1> QED BY <1>1, <1>2, <1>3 DEF Proper, Left

\* A message that leads to one call.
LEMMA HandleOne ==
  ASSUME HandInv, NEW r \in Calls, Handle(<<r>>), Proper(Actor, r), r.op \notin {"replay", "retry"},
         r.op = "interrupted" => HandlerOver /\ Unrecorded
  PROVE  HandInv'
<1>1. <<r>> \in Seq(Calls) /\ <<r>> # <<>> /\ Head(<<r>>) = r /\ Tail(<<r>>) = <<>> /\ DOMAIN Tail(<<r>>) = {}
  OBVIOUS
<1> QED BY Zenon, <1>1, HandleKeeps

LEMMA ControlKeeps ==
  ASSUME HandInv, StoreInv, AckMessage \/ CloseSession
  PROVE  HandInv'
<1>1. CASE AckMessage
  <2>1. PICK i \in Sent : Handle(<<Ask("ack", {i})>>)
    BY Zenon, <1>1 DEF AckMessage
  <2>2. {i} \in SUBSET Nat
    BY DEF StoreInv, Sent, MessageIds, Messages
  <2>3. "ack" \in Ops \ {"push", "result", "none"}
    BY DEF Ops
  <2> QED BY <2>1, <2>2, <2>3, AskFacts, HandleOne
<1>2. CASE CloseSession
  <2>1. Handle(<<Ask("close", {})>>)
    BY Zenon, <1>2 DEF CloseSession
  <2>2. "close" \in Ops \ {"push", "result", "none"} /\ {} \in SUBSET Nat
    BY DEF Ops
  <2> QED BY Zenon, <2>1, <2>2, AskFacts, HandleOne
<1> QED BY Zenon, <1>1, <1>2

\* msg_resend_req leads to inspections and then a resend, to no answer.
LEMMA ResendKeeps ==
  ASSUME HandInv, StoreInv, ResendMessage
  PROVE  HandInv'
<1>1. PICK i, j \in {m.frame : m \in prepared} :
        Handle(IF i = j THEN <<Ask("inspect", {i}), Ask("resend", {i})>>
               ELSE <<Ask("inspect", {i}), Ask("inspect", {j}), Ask("resend", {i, j})>>)
  BY Zenon DEF ResendMessage
<1>2. i \in Nat /\ j \in Nat
  BY DEF StoreInv, Messages
<1>3. "inspect" \in Ops \ {"push", "result", "none"} /\ "resend" \in Ops \ {"push", "result", "none"}
  BY DEF Ops
<1>4. PICK a : a = Ask("inspect", {i})
  BY Zenon
<1>5. PICK b : b = Ask("inspect", {j})
  BY Zenon
<1>6. PICK d : d = Ask("resend", {i})
  BY Zenon
<1>7. PICK e : e = Ask("resend", {i, j})
  BY Zenon
<1>8. /\ a \in Calls /\ b \in Calls /\ d \in Calls /\ e \in Calls
      /\ a.op = "inspect" /\ b.op = "inspect" /\ d.op = "resend" /\ e.op = "resend"
      /\ Proper(Actor, a) /\ Left(b) /\ Left(d) /\ Left(e)
  <2>1. {i} \in SUBSET Nat /\ {j} \in SUBSET Nat /\ {i, j} \in SUBSET Nat
    BY <1>2
  <2> QED BY Zenon, <2>1, <1>3, <1>4, <1>5, <1>6, <1>7, AskFacts
<1>9. CASE i = j
  <2>1. PICK calls : calls = <<a, d>>
    BY Zenon
  <2>2. calls \in Seq(Calls) /\ calls # <<>> /\ Head(calls) = a /\ Tail(calls) = <<d>>
    BY <1>8, <2>1
  <2>3. \A k \in DOMAIN Tail(calls) : Tail(calls)[k] = d
    <3>1. \A k \in DOMAIN <<d>> : <<d>>[k] = d
      OBVIOUS
    <3> QED BY Zenon, <2>2, <3>1
  <2>4. Handle(calls)
    BY Zenon, <1>1, <1>4, <1>6, <1>9, <2>1
  <2> QED BY Zenon, <1>8, <2>2, <2>3, <2>4, HandleKeeps
<1>10. CASE i # j
  <2>1. PICK calls : calls = <<a, b, e>>
    BY Zenon
  <2>2. calls \in Seq(Calls) /\ calls # <<>> /\ Head(calls) = a /\ Tail(calls) = <<b, e>>
    BY <1>8, <2>1
  <2>3. \A k \in DOMAIN Tail(calls) : Tail(calls)[k] \in {b, e}
    <3>1. \A k \in DOMAIN <<b, e>> : <<b, e>>[k] \in {b, e}
      OBVIOUS
    <3> QED BY ZenonT(40), <2>2, <3>1
  <2>4. Handle(calls)
    BY Zenon, <1>1, <1>4, <1>5, <1>7, <1>10, <2>1
  <2> QED BY SMTT(30), <1>8, <2>2, <2>3, <2>4, HandleKeeps
<1> QED BY Zenon, <1>9, <1>10

\* The recovery of a replayed request starts when its handler is over.
LEMMA ReplayRequestKeeps ==
  ASSUME HandInv, ReplayRequest
  PROVE  HandInv'
<1>1. PICK a : a = Ask("replay", {})
  BY Zenon
<1>2. PICK b : b = Ask("retry", {})
  BY Zenon
<1>3. PICK d : d = Ask("notice", {})
  BY Zenon
<1>4. HandlerOver /\ Handle(<<a, b, d>>)
  BY Zenon, <1>1, <1>2, <1>3 DEF ReplayRequest, Inactive, HandlerOver
<1>5. {} \in SUBSET Nat /\ {"replay", "retry", "notice"} \subseteq Ops \ {"push", "result", "none"}
  BY DEF Ops
<1>6. /\ a \in Calls /\ b \in Calls /\ d \in Calls
      /\ a.op = "replay" /\ b.op = "retry" /\ d.op = "notice"
      /\ Proper(Actor, a) /\ Left(b) /\ Left(d)
  BY Zenon, <1>1, <1>2, <1>3, <1>5, AskFacts
<1>7. PICK calls : calls = <<a, b, d>>
  BY Zenon
<1>8. calls \in Seq(Calls) /\ calls # <<>> /\ Head(calls) = a /\ Tail(calls) = <<b, d>> /\ Tail(calls) # <<>>
  BY <1>6, <1>7
<1>9. \A k \in DOMAIN Tail(calls) : (k = 1 /\ Tail(calls)[k] = b) \/ Tail(calls)[k] = d
  <2>1. \A k \in DOMAIN <<b, d>> : (k = 1 /\ <<b, d>>[k] = b) \/ <<b, d>>[k] = d
    OBVIOUS
  <2> QED BY Zenon, <1>8, <2>1
<1>10. Handle(calls)
  BY Zenon, <1>4, <1>7
<1> QED BY SMTT(30), <1>4, <1>6, <1>8, <1>9, <1>10, HandleKeeps

\* A request that came again alone gets the error when the handler is over and the
\* ledger has no answer.
LEMMA ReplayAloneKeeps ==
  ASSUME HandInv, ReplayAlone
  PROVE  HandInv'
<1>1. PICK op : op = IF Inactive /\ ~completed THEN "interrupted" ELSE "notice"
  BY Zenon
<1>2. PICK r : r = Ask(op, {})
  BY Zenon
<1>3. Handle(<<r>>)
  BY Zenon, <1>1, <1>2 DEF ReplayAlone
<1>4. op = "notice" \/ (op = "interrupted" /\ HandlerOver /\ Unrecorded)
  BY Zenon, <1>1 DEF Inactive, HandlerOver, Unrecorded
<1>5. op \in Ops \ {"push", "result", "none"} /\ op \notin {"replay", "retry"} /\ {} \in SUBSET Nat
  BY <1>4 DEF Ops
<1>6. r \in Calls /\ r.op = op /\ Proper(Actor, r)
  BY Zenon, <1>2, <1>5, AskFacts
<1>7. r.op = "interrupted" => HandlerOver /\ Unrecorded
  BY <1>4, <1>6
<1> QED BY Zenon, <1>3, <1>5, <1>6, <1>7, HandleOne

\* The reader's next call: the retryable error when the writer knew no answer.
LEMMA ActorCallKeeps ==
  ASSUME HandInv, ActorCall
  PROVE  HandInv'
<1>1. Types /\ CallInv /\ HeldInv /\ ReplyInv /\ AnswerInv
  BY Zenon DEF HandInv
<1>2. todo \in Seq(Calls) /\ todo # <<>> /\ todo' = Tail(todo)
  BY Zenon, <1>1 DEF ActorCall, Types
<1>3. /\ 1 \in DOMAIN todo /\ Head(todo) = todo[1] /\ todo[1] \in Calls /\ Tail(todo) \in Seq(Calls)
      /\ \A k \in DOMAIN Tail(todo) : k + 1 \in DOMAIN todo /\ Tail(todo)[k] = todo[k + 1] /\ k + 1 # 1
  BY <1>2
<1>4. PICK r : r = IF todo[1].op = "resend" /\ ~eligible THEN Ask("notice", {}) ELSE todo[1]
  BY Zenon
<1>5. Enter(Actor, r)
  BY Zenon, <1>3, <1>4 DEF ActorCall
<1>6. "notice" \in Ops \ {"push", "result", "none"} /\ {} \in SUBSET Nat
  BY DEF Ops
<1>7. \A k \in DOMAIN todo : Left(todo[k])
  BY Zenon, <1>1 DEF AnswerInv, Left
<1>8. Left(todo[1]) => Proper(Actor, todo[1])
  BY Names DEF Left, Proper
<1>9. r \in Calls /\ Proper(Actor, r) /\ r.op # "replay" /\ r.op # "interrupted" /\ (r.op = "retry" => todo[1].op = "retry")
  BY Zenon, <1>3, <1>4, <1>6, <1>7, <1>8, AskFacts DEF Left
<1>10. phase[Actor] = "idle" /\ Actor \in Callers
  BY Zenon, <1>5, Names DEF Enter
<1>11. r.op = "retry" => HandlerOver /\ AllForgotten
  BY Zenon, <1>1, <1>3, <1>9, <1>10 DEF AnswerInv
<1>12. \A k \in DOMAIN todo' : Left(todo'[k]) /\ todo'[k].op # "retry"
  BY <1>1, <1>2, <1>3, <1>7 DEF AnswerInv
<1>13. Types' /\ CallInv' /\ HeldInv' /\ ReplyInv'
  BY ZenonT(40), <1>1, <1>2, <1>3, <1>5, <1>9, <1>10, EnterKeeps
<1>14. AnswerInv'
  BY Zenon, <1>1, <1>5, <1>9, <1>11, <1>12, ActorEnterAnswer
<1> QED BY Zenon, <1>13, <1>14 DEF HandInv

\* Why Writer.request returns: the response is there, the context is done, or the
\* writer is closed.
Cause(c, result) ==
  \/ result = reply[c] /\ reply[c] # "none" /\ phase[c] = "wait"
  \/ result = "cancelled" /\ call[c].ctx \in cancelled
  \/ result = "closed" /\ pc = "closed"

\* What Return does to the callers' variables.
LEMMA ReturnFacts ==
  ASSUME Types, NEW c \in Callers, NEW result, Return(c, result), Cause(c, result)
  PROVE  /\ phase'[c] \in (IF c = Actor THEN {"idle", "closed"} ELSE {"done", "closed"})
         /\ phase'[c] = "closed" => result = "closed" /\ pc = "closed"
         /\ reply'[c] = "none" /\ made'[c] = {}
         /\ \A d \in Callers : d # c =>
              phase'[d] = phase[d] /\ call'[d] = call[d] /\ reply'[d] = reply[d] /\ made'[d] = made[d]
         /\ c # Actor => todo' = todo
         /\ c = Actor => \/ todo' = <<>>
                         \/ result = "known" /\ todo' = Tail(todo)
                         \/ result = reply[c] /\ result \notin {"failed", "cancelled", "known"} /\ phase[c] = "wait" /\ todo' = todo
         /\ c = Actor /\ result = "cancelled" => todo' = <<>>
         /\ result = "cancelled" => phase'[c] # "closed"
         /\ completed' = (completed \/ (c = Handler /\ result = "ok"))
         /\ UNCHANGED <<cancelled, pc, batch, pending, frame, prepared, forgotten, wire, retired, owner>>
<1>1. /\ phase' = [phase EXCEPT ![c] = IF result = "closed" THEN "closed" ELSE IF c = Actor THEN "idle" ELSE "done"]
      /\ call' = [call EXCEPT ![c] = NoCall] /\ reply' = [reply EXCEPT ![c] = "none"] /\ made' = [made EXCEPT ![c] = {}]
      /\ todo' = IF c # Actor THEN todo
                 ELSE IF result \in {"failed", "cancelled", "closed"} THEN <<>>
                 ELSE IF result = "known" THEN Tail(todo) ELSE todo
      /\ completed' = (completed \/ (c = Handler /\ result = "ok"))
      /\ UNCHANGED <<cancelled, pc, batch, pending, frame, prepared, forgotten, wire, retired, owner>>
  BY Zenon DEF Return, writerVars, storeVars, sessionVars
<1>2. reply[c] \in Answers \cup {"none"}
  BY DEF Types
<1>3. result = "closed" => pc = "closed"
  BY <1>2 DEF Cause, Answers
<1>4. result # "closed" /\ result # "cancelled" => result = reply[c] /\ phase[c] = "wait"
  BY Zenon DEF Cause
<1>5. /\ \A d \in Callers : d # c =>
              phase'[d] = phase[d] /\ call'[d] = call[d] /\ reply'[d] = reply[d] /\ made'[d] = made[d]
      /\ reply'[c] = "none" /\ made'[c] = {}
      /\ phase'[c] = IF result = "closed" THEN "closed" ELSE IF c = Actor THEN "idle" ELSE "done"
  BY <1>1 DEF Types
<1>6. /\ c # Actor => todo' = todo
      /\ c = Actor => \/ todo' = <<>>
                      \/ result = "known" /\ todo' = Tail(todo)
                      \/ result = reply[c] /\ result \notin {"failed", "cancelled", "known"} /\ phase[c] = "wait" /\ todo' = todo
      /\ c = Actor /\ result = "cancelled" => todo' = <<>>
  <2>1. CASE c # Actor
    BY Zenon, <1>1, <2>1
  <2>2. CASE c = Actor /\ result \in {"failed", "cancelled", "closed"}
    <3>1. todo' = <<>>
      BY Zenon, <1>1, <2>2
    <3> QED BY Zenon, <2>2, <3>1
  <2>3. CASE c = Actor /\ result \notin {"failed", "cancelled", "closed"}
    <3>1. result = reply[c] /\ phase[c] = "wait" /\ result # "failed" /\ result # "cancelled"
      BY <1>4, <2>3
    <3>2. CASE result = "known"
      BY Zenon, <1>1, <2>3, <3>1, <3>2
    <3>3. CASE result # "known"
      <4>1. todo' = todo /\ result \notin {"failed", "cancelled", "known"}
        BY ZenonT(40), <1>1, <2>3, <3>1, <3>3
      <4> QED BY Zenon, <2>3, <3>1, <4>1
    <3> QED BY Zenon, <3>2, <3>3
  <2> QED BY Zenon, <2>1, <2>2, <2>3
<1>7. /\ phase'[c] \in (IF c = Actor THEN {"idle", "closed"} ELSE {"done", "closed"})
      /\ phase'[c] = "closed" => result = "closed" /\ pc = "closed"
      /\ result = "cancelled" => phase'[c] # "closed"
  BY <1>3, <1>5
<1> QED BY Zenon, <1>1, <1>5, <1>6, <1>7

\* What is left of the reader's calls.
LEMMA TailFacts ==
  ASSUME NEW s \in Seq(Calls), s # <<>>
  PROVE  /\ Tail(s) \in Seq(Calls)
         /\ \A k \in DOMAIN Tail(s) : k + 1 \in DOMAIN s /\ Tail(s)[k] = s[k + 1] /\ k + 1 # 1
OBVIOUS

\* Leaving Writer.request: a caller that gives up leaves its request behind.
LEMMA ReturnKeeps ==
  ASSUME HandInv, NEW c \in Callers, NEW result, Return(c, result), Cause(c, result),
         phase[c] \in {"offer", "wait"}
  PROVE  HandInv'
<1>1. Types /\ CallInv /\ HeldInv /\ ReplyInv /\ AnswerInv
  BY Zenon DEF HandInv
<1>2. result = "known" /\ c = Actor => todo # <<>>
  <2>1. result = "known" => reply[c] = "known"
    BY DEF Cause
  <2> QED BY Zenon, <1>1, <2>1 DEF ReplyInv, AnswerInv
<1>3. Types'
  <2>1. /\ phase' = [phase EXCEPT ![c] = IF result = "closed" THEN "closed" ELSE IF c = Actor THEN "idle" ELSE "done"]
        /\ call' = [call EXCEPT ![c] = NoCall] /\ reply' = [reply EXCEPT ![c] = "none"] /\ made' = [made EXCEPT ![c] = {}]
        /\ UNCHANGED <<pc, batch, pending, owner>>
    BY Zenon DEF Return, writerVars, storeVars, sessionVars
  <2>2. todo' \in Seq(Calls)
    <3>1. c # Actor \/ todo' = <<>> \/ (result = "known" /\ todo' = Tail(todo)) \/ todo' = todo
      BY Zenon, <1>1, ReturnFacts
    <3>2. todo \in Seq(Calls) /\ (c # Actor => todo' = todo)
      BY Zenon, <1>1, ReturnFacts DEF Types
    <3>3. <<>> \in Seq(Calls)
      BY SMTT(30)
    <3> QED BY Zenon, <1>2, <3>1, <3>2, <3>3, TailFacts
  <2> QED BY <1>1, <2>1, <2>2, Names DEF Types
<1>4. CallInv'
  BY <1>1, ReturnFacts DEF CallInv
<1>5. HeldInv'
  <2>1. /\ phase'[c] \in (IF c = Actor THEN {"idle", "closed"} ELSE {"done", "closed"})
        /\ phase'[c] = "closed" => pc = "closed"
        /\ \A d \in Callers : d # c => phase'[d] = phase[d] /\ call'[d] = call[d] /\ reply'[d] = reply[d]
        /\ c # Actor => todo' = todo
        /\ c = Actor /\ result = "cancelled" => todo' = <<>>
        /\ UNCHANGED <<cancelled, pc, batch, pending>>
    BY ZenonT(40), <1>1, ReturnFacts
  <2>2. Submitters' = Submitters
    BY Zenon, <2>1 DEF Submitters
  <2>3. \A b : InHand(b)' <=> InHand(b)
    BY Zenon, <2>1 DEF InHand
  <2>4. ASSUME NEW b \in Calls, InHand(b), Held(b) PROVE Held(b)'
    <3>1. b.from \in Callers
      BY DEF Calls
    <3>2. CASE b.from # c
      BY Zenon, <2>1, <2>4, <3>1, <3>2 DEF Held
    <3>3. CASE b.from = c
      <4>1. phase[c] = "wait" /\ reply[c] = "none" /\ call[c].ctx = b.ctx
        BY <2>4, <3>3 DEF Held
      <4>2. pc # "closed"
        <5>1. pc = "closed" => Len(batch) = 0
          BY <1>1, BatchFacts DEF HeldInv
        <5>2. Len(batch) = 0 => DOMAIN batch = {}
          BY <1>1, BatchFacts
        <5> QED BY Zenon, <2>4, <5>1, <5>2 DEF InHand
      <4>3. result = "cancelled" /\ call[c].ctx \in cancelled
        BY Zenon, <4>1, <4>2 DEF Cause
      <4>4. c = Actor => call[c].ctx = Actor
        BY Zenon, <1>1, <4>1 DEF CallInv
      <4>5. phase'[c] = IF c = Actor THEN "idle" ELSE "done"
        BY <2>1, <4>2
      <4> QED BY ZenonT(40), <2>1, <3>3, <4>1, <4>3, <4>4, <4>5 DEF Held
    <3> QED BY Zenon, <3>2, <3>3
  <2> QED BY Zenon, <1>1, <2>1, <2>2, <2>3, <2>4 DEF HeldInv
<1>6. ReplyInv'
  <2>1. /\ phase'[c] # "wait" /\ reply'[c] = "none" /\ made'[c] = {}
        /\ \A d \in Callers : d # c =>
              phase'[d] = phase[d] /\ call'[d] = call[d] /\ reply'[d] = reply[d] /\ made'[d] = made[d]
        /\ UNCHANGED <<cancelled, pc, batch, pending, frame, prepared, wire, retired>>
    <3>1. phase'[c] \in (IF c = Actor THEN {"idle", "closed"} ELSE {"done", "closed"})
      BY Zenon, <1>1, ReturnFacts
    <3>2. phase'[c] # "wait"
      BY <3>1
    <3> QED BY Zenon, <1>1, <3>2, ReturnFacts
  <2>2. Submitters' = Submitters /\ Sent' = Sent /\ Submitters \subseteq Callers
    BY ZenonT(50), <1>1, <2>1, BatchFacts DEF Submitters, Sent
  <2>3. ASSUME NEW d \in Callers
        PROVE  /\ reply'[d] = "cancelled" => call'[d].ctx \in cancelled' \/ retired'
               /\ reply'[d] = "known" => call'[d].op = "replay"
               /\ reply'[d] = "ok" /\ call'[d].op \in MessageOps => made'[d] # {} /\ made'[d] \subseteq Sent'
               /\ reply'[d] = "none" /\ made'[d] # {} => pc' = "write" /\ d \in Submitters'
               /\ phase'[d] = "wait" /\ reply'[d] = "none" =>
                    pc' = "closed" \/ d \in Submitters' \/ (pending' # NoCall /\ pending'.from = d)
    <3>1. CASE d = c
      BY <2>1, <3>1
    <3>2. CASE d # c
      BY ZenonT(40), <1>1, <2>1, <2>2, <3>2 DEF ReplyInv
    <3> QED BY Zenon, <3>1, <3>2
  <2>4. pc' = "write" => \A d \in Submitters' : phase'[d] = "wait" =>
          made'[d] # {} /\ made'[d] \subseteq MessageIds({m \in prepared' : m.frame = frame'})
    BY Zenon, <1>1, <2>1, <2>2 DEF ReplyInv
  <2>5. pc' = "closed" => retired'
    BY Zenon, <1>1, <2>1 DEF ReplyInv
  <2> QED BY Zenon, <2>3, <2>4, <2>5 DEF ReplyInv, MessageIds
<1>7. AnswerInv'
  <2>1. /\ phase'[c] \in (IF c = Actor THEN {"idle", "closed"} ELSE {"done", "closed"})
        /\ \A d \in Callers : d # c =>
              phase'[d] = phase[d] /\ call'[d] = call[d] /\ reply'[d] = reply[d] /\ made'[d] = made[d]
        /\ c # Actor => todo' = todo
        /\ c = Actor => \/ todo' = <<>>
                        \/ result = "known" /\ todo' = Tail(todo)
                        \/ result = reply[c] /\ result \notin {"failed", "cancelled", "known"} /\ phase[c] = "wait" /\ todo' = todo
        /\ completed' = (completed \/ (c = Handler /\ result = "ok"))
        /\ UNCHANGED <<cancelled, prepared, forgotten, owner>>
    BY Zenon, <1>1, ReturnFacts
  <2>2. Responses' = Responses /\ (AllForgotten' <=> AllForgotten)
    BY Zenon, <2>1 DEF Responses, AllForgotten
  <2>3. HandlerOver => HandlerOver'
    BY Zenon, <2>1, Names DEF HandlerOver
  <2>4. c = Handler => HandlerOver'
    BY <2>1, Names DEF HandlerOver
  <2>5. c # Handler => made'[Handler] = made[Handler] /\ (HandlerOver' <=> HandlerOver)
    BY Zenon, <2>1, Names DEF HandlerOver
  <2>6. /\ \A m, n \in Responses' : m.id < n.id => Superseded(m, n)'
        /\ ~HandlerOver' /\ made'[Handler] = {} => Responses' = {}
        /\ ~HandlerOver' => \A m \in Responses' : m.kind = "result"
        /\ HandlerOver /\ Unrecorded => Unrecorded'
    <3>1. ~HandlerOver' /\ made'[Handler] = {} => Responses' = {}
      BY Zenon, <1>1, <2>2, <2>4, <2>5 DEF AnswerInv
    <3>2. ~HandlerOver' => \A m \in Responses' : m.kind = "result"
      BY Zenon, <1>1, <2>2, <2>3 DEF AnswerInv
    <3>3. CASE Unrecorded => Unrecorded'
      <4>1. \A m, n : Superseded(m, n) => Superseded(m, n)'
        BY Zenon, <2>1, <3>3 DEF Superseded
      <4> QED BY Zenon, <1>1, <2>2, <3>1, <3>2, <3>3, <4>1 DEF AnswerInv
    <3>4. CASE ~(Unrecorded => Unrecorded')
      <4>1. c = Handler /\ Handler \notin cancelled
        BY Zenon, <2>1, <3>4 DEF Unrecorded
      <4>2. owner = 1
        BY Zenon, <1>1, <4>1, Names DEF CallInv
      <4>3. ~HandlerOver
        BY <4>1, <4>2 DEF HandlerOver
      <4>4. \A m, n \in Responses : Superseded(m, n) => m.id \in forgotten
        <5>1. "result" # "interrupted"
          OBVIOUS
        <5> QED BY Zenon, <1>1, <4>3, <5>1 DEF AnswerInv, Superseded
      <4>5. \A m, n \in Responses' : m.id < n.id => Superseded(m, n)'
        BY Zenon, <1>1, <2>1, <2>2, <4>4 DEF AnswerInv, Superseded
      <4> QED BY Zenon, <3>1, <3>2, <4>3, <4>5
    <3> QED BY Zenon, <3>3, <3>4
  <2>7. CASE c # Actor
    <3>1. /\ phase'[Actor] = phase[Actor] /\ call'[Actor] = call[Actor] /\ reply'[Actor] = reply[Actor]
          /\ made'[Actor] = made[Actor] /\ todo' = todo
      BY Zenon, <2>1, <2>7, Names
    <3> QED BY Zenon, <1>1, <2>2, <2>3, <2>6, <3>1 DEF AnswerInv
  <2>8. CASE c = Actor
    <3>1. phase'[Actor] \notin {"offer", "wait"}
      BY <2>1, <2>8
    <3>2. \A k \in DOMAIN todo : Left(todo[k])
      BY Zenon, <1>1 DEF AnswerInv, Left
    <3>3. CASE todo' = <<>>
      <4>1. DOMAIN todo' = {}
        BY <3>3
      <4> QED BY Zenon, <2>6, <3>1, <4>1 DEF AnswerInv
    <3>4. CASE result = "known" /\ todo' = Tail(todo)
      <4>1. todo \in Seq(Calls) /\ todo # <<>>
        BY ZenonT(40), <1>1, <1>2, <2>8, <3>4 DEF Types
      <4>2. \A k \in DOMAIN todo' : Left(todo'[k]) /\ todo'[k].op # "retry"
        BY SMTT(30), <1>1, <3>2, <3>4, <4>1, TailFacts DEF AnswerInv
      <4> QED BY Zenon, <2>6, <3>1, <4>2 DEF AnswerInv, Left
    <3>5. CASE result = reply[c] /\ result \notin {"failed", "cancelled", "known"} /\ phase[c] = "wait" /\ todo' = todo
      <4>1. result # "none" /\ result # "closed"
        BY <1>1, <3>5 DEF Cause, Types, Answers
      <4>2. ASSUME NEW k \in DOMAIN todo, todo[k].op = "retry"
            PROVE  k = 1 /\ HandlerOver /\ AllForgotten /\ phase'[Actor] = "idle"
        <5>1. k = 1 /\ HandlerOver /\ call[Actor].op = "replay" /\ (reply[Actor] = "unknown" => AllForgotten)
          BY Zenon, <1>1, <2>8, <3>5, <4>2 DEF AnswerInv
        <5>2. reply[Actor] = "unknown"
          BY ZenonT(40), <1>1, <2>8, <3>5, <4>1, <5>1 DEF AnswerInv
        <5>3. phase'[Actor] = "idle"
          <6>1. phase'[c] = "closed" => result = "closed"
            BY Zenon, <1>1, ReturnFacts
          <6> QED BY Zenon, <2>1, <2>8, <4>1, <6>1
        <5> QED BY Zenon, <5>1, <5>2, <5>3
      <4> QED BY ZenonT(40), <2>2, <2>3, <2>6, <3>1, <3>2, <3>5, <4>2 DEF AnswerInv, Left
    <3> QED BY ZenonT(40), <2>1, <2>8, <3>3, <3>4, <3>5
  <2> QED BY Zenon, <2>7, <2>8
<1> QED BY Zenon, <1>3, <1>4, <1>5, <1>6, <1>7 DEF HandInv

\* A context that ends changes nothing else.
LEMMA CancelKeeps ==
  ASSUME HandInv, NEW ctx \in AllContexts, CancelContext(ctx)
  PROVE  HandInv'
<1>1. /\ cancelled \subseteq cancelled'
      /\ UNCHANGED <<phase, call, reply, made, todo, completed, pc, batch, pending, frame, prepared, forgotten, wire, retired, owner>>
  BY Zenon DEF CancelContext, callerVars, writerVars, storeVars, sessionVars
<1>2. Types' /\ CallInv'
  BY Zenon, <1>1 DEF HandInv, Types, CallInv
<1>3. \A b \in Calls : Held(b) => Held(b)'
  BY Zenon, <1>1 DEF Held
<1>4. Submitters' = Submitters /\ Sent' = Sent /\ \A b : InHand(b)' <=> InHand(b)
  BY Zenon, <1>1 DEF Submitters, Sent, InHand
<1>5. HeldInv'
  BY Zenon, <1>1, <1>3, <1>4 DEF HandInv, HeldInv
<1>6. ReplyInv'
  BY Zenon, <1>1, <1>4 DEF HandInv, ReplyInv
<1>7. /\ (HandlerOver => HandlerOver') /\ Responses' = Responses /\ (AllForgotten' <=> AllForgotten)
      /\ (Unrecorded => Unrecorded') /\ \A m, n : Superseded(m, n) => Superseded(m, n)'
  BY Zenon, <1>1 DEF HandlerOver, Responses, AllForgotten, Unrecorded, Superseded
<1>8. AnswerInv'
  BY Zenon, <1>1, <1>7 DEF HandInv, AnswerInv
<1> QED BY Zenon, <1>2, <1>5, <1>6, <1>8 DEF HandInv

-----------------------------------------------------------------------------
(* The writer takes requests *)

\* A caller whose request is received waits for the response; its request is held,
\* and it is none of those the writer holds already.
LEMMA ReceiveFacts ==
  ASSUME HandInv, NEW c \in Callers, Receive(c)
  PROVE  /\ phase' \in [Callers -> {"idle", "offer", "wait", "done", "closed"}] /\ phase'[c] = "wait"
         /\ \A d \in Callers : d # c => phase'[d] = phase[d]
         /\ UNCHANGED <<call, reply, made, todo, completed, cancelled, prepared, forgotten, wire, retired, owner>>
         /\ call[c] \in Calls /\ call[c].from = c /\ call[c].op # "none" /\ reply[c] = "none" /\ made[c] = {}
         /\ CallInv' /\ AnswerInv'
         /\ \A b \in Calls : Held(b) => b.from # c /\ Held(b)'
         /\ \A b \in Calls : b = call[c] => Held(b)'
<1>1. /\ phase[c] = "offer" /\ phase' = [phase EXCEPT ![c] = "wait"]
      /\ UNCHANGED <<call, reply, made, todo, completed, cancelled, prepared, forgotten, wire, retired, owner>>
  BY Zenon DEF Receive, storeVars, sessionVars
<1>2. /\ phase' \in [Callers -> {"idle", "offer", "wait", "done", "closed"}]
      /\ phase'[c] = "wait" /\ \A d \in Callers : d # c => phase'[d] = phase[d]
  BY Zenon, <1>1 DEF HandInv, Types
<1>3. call[c] \in Calls /\ call[c].from = c /\ call[c].op # "none" /\ reply[c] = "none" /\ made[c] = {}
  BY <1>1, Names DEF HandInv, Types, CallInv
<1>4. CallInv'
  <2> SUFFICES ASSUME NEW d \in Callers
               PROVE  /\ phase'[d] \in {"offer", "wait"} => Proper(d, call[d])'
                      /\ phase'[d] # "wait" => reply'[d] = "none" /\ made'[d] = {}
    BY Zenon DEF CallInv, Proper
  <2>1. CASE d = c
    BY ZenonT(40), <1>1, <1>2, <2>1 DEF HandInv, CallInv, Proper
  <2>2. CASE d # c
    BY SMTT(30), <1>1, <1>2, <2>2 DEF HandInv, CallInv, Proper
  <2> QED BY Zenon, <2>1, <2>2
<1>5. AnswerInv'
  <2>1. phase'[Handler] \in {"done", "closed"} <=> phase[Handler] \in {"done", "closed"}
    BY Zenon, <1>1, <1>2, Names
  <2>2. /\ (HandlerOver' <=> HandlerOver) /\ Responses' = Responses /\ (AllForgotten' <=> AllForgotten)
        /\ (Unrecorded' <=> Unrecorded) /\ \A m, n : Superseded(m, n)' <=> Superseded(m, n)
    BY ZenonT(40), <1>1, <2>1 DEF HandlerOver, Responses, AllForgotten, Unrecorded, Superseded
  <2>3. CASE c # Actor
    <3>1. phase'[Actor] = phase[Actor]
      BY ZenonT(40), <1>2, <2>3, Names
    <3> QED BY ZenonT(40), <1>1, <2>2, <3>1 DEF HandInv, AnswerInv
  <2>4. CASE c = Actor
    <3>1. phase'[Actor] = "wait" /\ phase[Actor] = "offer" /\ reply[Actor] = "none"
      BY ZenonT(40), <1>1, <1>2, <1>3, <2>4
    <3>2. AnswerInv
      BY ZenonT(40) DEF HandInv
    <3>3. \A k \in DOMAIN todo' : todo'[k].op = "retry" =>
             k = 1 /\ HandlerOver' /\ phase'[Actor] = "wait" /\ call'[Actor].op = "replay" /\ reply'[Actor] # "unknown"
      BY ZenonT(40), <1>1, <2>2, <3>1, <3>2 DEF AnswerInv
    <3>4. /\ call'[Actor].op = "replay" =>
               HandlerOver' /\ todo' # <<>> /\ reply'[Actor] \in {"none", "known", "unknown", "failed", "cancelled"}
          /\ call'[Actor].op = "retry" => HandlerOver' /\ (made'[Actor] = {} => AllForgotten')
          /\ call'[Actor].op = "interrupted" => HandlerOver' /\ Unrecorded'
      BY ZenonT(40), <1>1, <2>2, <3>1, <3>2 DEF AnswerInv
    <3> QED BY ZenonT(40), <1>1, <2>2, <3>2, <3>3, <3>4 DEF AnswerInv
  <2> QED BY ZenonT(40), <2>3, <2>4
<1>6. ASSUME NEW b \in Calls, Held(b) PROVE b.from # c /\ Held(b)'
  <2>1. b.from \in Callers
    BY ZenonT(40) DEF Calls
  <2>2. b.from # c
    BY <1>1, <1>6 DEF Held
  <2>3. phase'[b.from] = phase[b.from]
    BY Zenon, <1>2, <2>1, <2>2
  <2> QED BY ZenonT(40), <1>1, <1>6, <2>2, <2>3 DEF Held
<1>7. \A b \in Calls : b = call[c] => Held(b)'
  BY ZenonT(40), <1>1, <1>2, <1>3 DEF Held
<1> QED BY ZenonT(40), <1>1, <1>2, <1>3, <1>4, <1>5, <1>6, <1>7

\* Between turns nobody waits for a response but the pending caller.
LEMMA BetweenTurns ==
  ASSUME HandInv, pc = "run"
  PROVE  /\ Submitters = {} /\ DOMAIN batch = {}
         /\ \A d \in Callers : reply[d] = "none" => made[d] = {}
         /\ \A d \in Callers : phase[d] = "wait" /\ reply[d] = "none" => pending # NoCall /\ pending.from = d
<1>1. Len(batch) \in Nat /\ ~(Len(batch) > 0)
  BY BatchFacts DEF HandInv, HeldInv
<1>2. DOMAIN batch = {}
  BY SMTT(30), <1>1, BatchFacts DEF HandInv
<1>3. Submitters = {}
  BY Zenon, <1>2 DEF Submitters
<1>4. \A d \in Callers : reply[d] = "none" => made[d] = {}
  BY Zenon DEF HandInv, ReplyInv
<1>5. \A d \in Callers : phase[d] = "wait" /\ reply[d] = "none" => pending # NoCall /\ pending.from = d
  BY <1>3 DEF HandInv, ReplyInv
<1> QED BY Zenon, <1>2, <1>3, <1>4, <1>5

\* A batch of one request.
LEMMA Singleton ==
  ASSUME NEW r \in Calls, batch' = <<r>>
  PROVE  /\ batch' \in Seq(Calls) /\ Len(batch') = 1 /\ batch'[1] = r
         /\ \A k \in DOMAIN batch' : batch'[k] = r
         /\ Submitters' = {r.from}
<1>1. /\ batch' \in Seq(Calls) /\ Len(batch') = 1 /\ batch'[1] = r /\ DOMAIN batch' = {1}
  OBVIOUS
<1> QED BY Zenon, <1>1 DEF Submitters

LEMMA TakeKeeps ==
  ASSUME HandInv, NEW c \in Callers, Take(c)
  PROVE  HandInv'
<1>1. PICK r : r = call[c]
  BY Zenon
<1>2. /\ pc = "run" /\ pending = NoCall /\ Receive(c) /\ batch' = <<r>> /\ pending' = pending /\ frame' = frame
      /\ pc' = IF r.op = "push" THEN "collect" ELSE "process"
  BY Zenon, <1>1 DEF Take
<1>3. r \in Calls /\ r.from = c /\ r.op # "none"
  BY Zenon, <1>1, <1>2, ReceiveFacts
<1>4. pc' \in {"collect", "process"} /\ pc' # "closed" /\ pc' # "write" /\ (pc' = "collect" => r.op = "push")
  BY Zenon, <1>2
<1>5. Types'
  <2>1. /\ phase' \in [Callers -> {"idle", "offer", "wait", "done", "closed"}]
        /\ UNCHANGED <<call, reply, made, todo, owner>>
    BY Zenon, <1>2, ReceiveFacts
  <2>2. batch' \in Seq(Calls)
    BY Zenon, <1>2, <1>3, Singleton
  <2> QED BY Zenon, <1>2, <1>4, <2>1, <2>2 DEF HandInv, Types
<1>6. HeldInv'
  <2>1. /\ Len(batch') = 1 /\ batch'[1] = r /\ Submitters' = {c}
        /\ \A k \in DOMAIN batch' : batch'[k] = r
    BY Zenon, <1>2, <1>3, Singleton
  <2>2. \A b : InHand(b)' => b = r
    BY Zenon, <1>2, <2>1 DEF InHand
  <2>3. \A b \in Calls : b = r => Held(b)'
    BY Zenon, <1>1, <1>2, ReceiveFacts
  <2>4. Len(batch') > 0 /\ ~(Len(batch') > 1) /\ pc' \in {"collect", "process", "write"}
    BY <1>4, <2>1
  <2>5. pending' = NoCall /\ \A b \in Calls : InHand(b)' => Held(b)' /\ b.op # "none"
    BY Zenon, <1>2, <1>3, <2>2, <2>3
  <2> QED BY Zenon, <1>4, <2>1, <2>4, <2>5 DEF HeldInv
<1>7. ReplyInv'
  <2>1. Submitters' = {c}
    BY Zenon, <1>2, <1>3, Singleton
  <2>2. UNCHANGED <<call, reply, made, cancelled, wire, retired>> /\ \A d \in Callers : d # c => phase'[d] = phase[d]
    BY Zenon, <1>2, ReceiveFacts
  <2>3. \A d \in Callers : reply'[d] = "none" => made'[d] = {}
    BY Zenon, <1>2, <2>2, BetweenTurns
  <2>4. \A d \in Callers : phase'[d] = "wait" /\ reply'[d] = "none" => d \in Submitters'
    BY ZenonT(40), <1>2, <2>1, <2>2, BetweenTurns
  <2>5. Sent' = Sent
    BY Zenon, <2>2 DEF Sent
  <2>6. ReplyInv
    BY Zenon DEF HandInv
  <2> QED BY ZenonT(40), <1>4, <2>2, <2>3, <2>4, <2>5, <2>6 DEF ReplyInv
<1> QED BY Zenon, <1>2, <1>5, <1>6, <1>7, ReceiveFacts DEF HandInv

LEMMA TakePendingKeeps ==
  ASSUME HandInv, TakePending
  PROVE  HandInv'
<1>1. PICK r : r = pending
  BY Zenon
<1>2. /\ pc = "run" /\ pending # NoCall /\ batch' = <<r>> /\ pending' = NoCall
      /\ pc' = IF r.op = "push" THEN "collect" ELSE "process"
      /\ UNCHANGED <<phase, call, reply, made, todo, completed, cancelled, frame, prepared, forgotten, wire, retired, owner>>
  BY Zenon, <1>1 DEF TakePending, callerVars, storeVars, sessionVars
<1>3. r \in Calls
  BY Zenon, <1>1 DEF HandInv, Types
<1>4. pc' \in {"collect", "process"} /\ pc' # "closed" /\ pc' # "write" /\ (pc' = "collect" => r.op = "push")
  BY <1>2
<1>5. pc # "closed"
  BY <1>2
<1>6. /\ Len(batch') = 1 /\ batch'[1] = r /\ Submitters' = {r.from} /\ batch' \in Seq(Calls)
      /\ \A k \in DOMAIN batch' : batch'[k] = r
  BY ZenonT(40), <1>2, <1>3, Singleton
<1>7. Types'
  BY Zenon, <1>2, <1>4, <1>6, Names DEF HandInv, Types
<1>8. CallInv'
  BY ZenonT(40), <1>2 DEF HandInv, CallInv
<1>9. HeldInv'
  <2>1. InHand(r)
    BY Zenon, <1>1, <1>2, <1>5 DEF InHand
  <2>2. \A b : InHand(b)' => b = r
    BY Zenon, <1>2, <1>6 DEF InHand
  <2>3. \A b \in Calls : Held(b) => Held(b)'
    BY Zenon, <1>2 DEF Held
  <2>4. \A b \in Calls : InHand(b)' => Held(b)' /\ b.op # "none"
    BY Zenon, <1>3, <2>1, <2>2, <2>3 DEF HandInv, HeldInv
  <2>5. Len(batch') > 0 /\ ~(Len(batch') > 1) /\ pc' \in {"collect", "process", "write"}
    BY <1>4, <1>6
  <2> QED BY Zenon, <1>2, <1>4, <1>6, <2>4, <2>5 DEF HeldInv
<1>10. ReplyInv'
  <2>1. \A d \in Callers : reply'[d] = "none" => made'[d] = {}
    BY Zenon, <1>2, BetweenTurns
  <2>2. \A d \in Callers : phase'[d] = "wait" /\ reply'[d] = "none" => d \in Submitters'
    BY Zenon, <1>1, <1>2, <1>6, BetweenTurns
  <2>3. Sent' = Sent
    BY Zenon, <1>2 DEF Sent
  <2>4. ReplyInv
    BY Zenon DEF HandInv
  <2> QED BY ZenonT(40), <1>2, <1>4, <2>1, <2>2, <2>3, <2>4 DEF ReplyInv
<1>11. AnswerInv'
  <2>1. /\ (HandlerOver' <=> HandlerOver) /\ Responses' = Responses /\ (AllForgotten' <=> AllForgotten)
        /\ (Unrecorded' <=> Unrecorded) /\ \A m, n : Superseded(m, n)' <=> Superseded(m, n)
    BY Zenon, <1>2 DEF HandlerOver, Responses, AllForgotten, Unrecorded, Superseded
  <2> QED BY Zenon, <1>2, <2>1 DEF HandInv, AnswerInv
<1> QED BY Zenon, <1>7, <1>8, <1>9, <1>10, <1>11 DEF HandInv

\* A batch that one more request joins.
LEMMA Joined ==
  ASSUME batch \in Seq(Calls), NEW r \in Calls, batch' = Append(batch, r)
  PROVE  /\ batch' \in Seq(Calls) /\ Len(batch') = Len(batch) + 1
         /\ \A k \in DOMAIN batch' : (k \in DOMAIN batch /\ batch'[k] = batch[k]) \/ batch'[k] = r
         /\ \A k \in DOMAIN batch : k \in DOMAIN batch' /\ batch'[k] = batch[k]
         /\ Submitters' = Submitters \cup {r.from}
<1>1. /\ batch' \in Seq(Calls) /\ Len(batch') = Len(batch) + 1
      /\ \A k \in DOMAIN batch' : (k \in DOMAIN batch /\ batch'[k] = batch[k]) \/ batch'[k] = r
      /\ \A k \in DOMAIN batch : k \in DOMAIN batch' /\ batch'[k] = batch[k]
      /\ Len(batch) + 1 \in DOMAIN batch' /\ batch'[Len(batch) + 1] = r
  OBVIOUS
<1>2. PICK n : n = Len(batch) + 1
  BY Zenon
<1>3. n \in DOMAIN batch' /\ batch'[n] = r
  BY Zenon, <1>1, <1>2
<1>4. Submitters' = {batch'[k].from : k \in DOMAIN batch'}
  BY Zenon DEF Submitters
<1>5. \A x : x \in Submitters' <=> x \in Submitters \cup {r.from}
  BY ZenonT(40), <1>1, <1>3, <1>4 DEF Submitters
<1> QED BY Zenon, <1>1, <1>5

\* The writer collects: the request joins the batch or ends it.
LEMMA CollectKeeps ==
  ASSUME HandInv, NEW c \in Callers, NEW fits \in BOOLEAN, Collect(c, fits)
  PROVE  HandInv'
<1>1. PICK r : r = call[c]
  BY Zenon
<1>2. /\ pc = "collect" /\ Receive(c) /\ frame' = frame
      /\ \/ Compatible(batch[1], r) /\ batch' = Append(batch, r) /\ pc' = pc /\ pending' = pending
         \/ pending' = r /\ pc' = "process" /\ batch' = batch
  BY Zenon, <1>1 DEF Collect
<1>3. /\ r \in Calls /\ r.from = c /\ r.op # "none" /\ reply[c] = "none" /\ made[c] = {}
      /\ phase'[c] = "wait" /\ \A d \in Callers : d # c => phase'[d] = phase[d]
      /\ UNCHANGED <<call, reply, made, todo, completed, cancelled, prepared, forgotten, wire, retired, owner>>
      /\ phase' \in [Callers -> {"idle", "offer", "wait", "done", "closed"}]
      /\ \A b \in Calls : Held(b) => b.from # c /\ Held(b)'
      /\ \A b \in Calls : b = r => Held(b)'
      /\ CallInv' /\ AnswerInv'
  BY Zenon, <1>1, <1>2, ReceiveFacts
<1>4. /\ Types /\ HeldInv /\ ReplyInv /\ pending = NoCall /\ batch[1].op = "push" /\ Len(batch) \in Nat /\ Len(batch) > 0
      /\ 1 \in DOMAIN batch
  <2>1. Types /\ HeldInv /\ ReplyInv
    BY Zenon DEF HandInv
  <2>2. pending = NoCall /\ batch[1].op = "push"
    BY ZenonT(40), <1>2, <2>1 DEF HeldInv
  <2>3. Len(batch) \in Nat /\ Len(batch) > 0
    BY Zenon, <1>2, <2>1, BatchFacts DEF HeldInv
  <2>4. 1 \in DOMAIN batch
    BY SMTT(30), <2>1, <2>3, BatchFacts
  <2> QED BY Zenon, <2>1, <2>2, <2>3, <2>4
<1>5. \A d \in Callers : reply'[d] = "none" => made'[d] = {}
  BY ZenonT(40), <1>2, <1>3, <1>4 DEF ReplyInv
<1>6. \A d \in Callers : phase'[d] = "wait" /\ reply'[d] = "none" => d = c \/ d \in Submitters
  BY <1>2, <1>3, <1>4 DEF ReplyInv
<1>7. Sent' = Sent
  BY Zenon, <1>3 DEF Sent
<1>8. ASSUME pc' # "write", pc' # "closed", \A d \in Callers : phase'[d] = "wait" /\ reply'[d] = "none" =>
               d \in Submitters' \/ (pending' # NoCall /\ pending'.from = d)
      PROVE  ReplyInv'
  BY ZenonT(40), <1>3, <1>4, <1>5, <1>7, <1>8 DEF ReplyInv
<1>9. \A k \in DOMAIN batch : batch[k] \in Calls /\ InHand(batch[k])
  BY Zenon, <1>4, BatchFacts DEF InHand
<1>10. CASE Compatible(batch[1], r) /\ batch' = Append(batch, r) /\ pc' = pc /\ pending' = pending
  <2>1. /\ batch' \in Seq(Calls) /\ Len(batch') = Len(batch) + 1
        /\ \A k \in DOMAIN batch' : (k \in DOMAIN batch /\ batch'[k] = batch[k]) \/ batch'[k] = r
        /\ \A k \in DOMAIN batch : k \in DOMAIN batch' /\ batch'[k] = batch[k]
        /\ Submitters' = Submitters \cup {c}
    BY ZenonT(40), <1>3, <1>4, <1>10, Joined DEF Types
  <2>2. r.op = "push" /\ r.ctx = batch[1].ctx /\ batch'[1] = batch[1]
    BY ZenonT(40), <1>4, <1>10, <2>1 DEF Compatible
  <2>3. Types'
    BY ZenonT(40), <1>3, <1>4, <1>10, <2>1 DEF Types
  <2>4. \A k \in DOMAIN batch : batch[k].op = "push" /\ batch[k].ctx = batch[1].ctx
    <3>1. CASE Len(batch) > 1
      BY Zenon, <1>4, <3>1 DEF HeldInv
    <3>2. CASE ~(Len(batch) > 1)
      <4>1. \A k \in DOMAIN batch : k = 1
        BY SMTT(30), <1>4, <3>2, BatchFacts
      <4> QED BY ZenonT(40), <1>4, <4>1
    <3> QED BY Zenon, <3>1, <3>2
  <2>5. \A k \in DOMAIN batch' : batch'[k].op = "push" /\ batch'[k].ctx = batch'[1].ctx
    BY Zenon, <2>1, <2>2, <2>4
  <2>6. \A b : InHand(b)' => InHand(b) \/ b = r
    BY Zenon, <1>10, <2>1 DEF InHand
  <2>7. \A b \in Calls : InHand(b)' => Held(b)' /\ b.op # "none"
    BY ZenonT(40), <1>3, <1>4, <2>6 DEF HeldInv
  <2>8. pc' = "collect" /\ pc' # "write" /\ pc' # "closed" /\ pc' \in {"collect", "process", "write"} /\ Len(batch') > 0
    BY SMTT(30), <1>2, <1>4, <1>10, <2>1
  <2>9. HeldInv'
    BY ZenonT(40), <1>4, <1>10, <2>2, <2>5, <2>7, <2>8 DEF HeldInv
  <2>10. ReplyInv'
    BY ZenonT(40), <1>6, <1>8, <2>1, <2>8
  <2> QED BY Zenon, <1>3, <2>3, <2>9, <2>10 DEF HandInv
<1>11. CASE pending' = r /\ pc' = "process" /\ batch' = batch
  <2>1. Types'
    BY Zenon, <1>3, <1>4, <1>11 DEF Types
  <2>2. r # NoCall /\ Submitters' = Submitters
    <3>1. Submitters' = Submitters
      BY Zenon, <1>11 DEF Submitters
    <3>2. r # NoCall
      BY Zenon, <1>3, Names
    <3> QED BY Zenon, <3>1, <3>2
  <2>3. c \notin Submitters
    BY Zenon, <1>3, <1>4, <1>9 DEF HeldInv, Submitters
  <2>4. \A b : InHand(b)' => InHand(b) \/ b = r
    BY ZenonT(40), <1>11 DEF InHand
  <2>5. \A b \in Calls : InHand(b)' => Held(b)' /\ b.op # "none"
    BY Zenon, <1>3, <1>4, <2>4 DEF HeldInv
  <2>6. pc' # "collect" /\ pc' # "write" /\ pc' # "closed" /\ pc' \in {"collect", "process", "write"} /\ Len(batch') > 0
    BY <1>4, <1>11
  <2>7. /\ Len(batch') > 1 => \A k \in DOMAIN batch' : batch'[k].op = "push" /\ batch'[k].ctx = batch'[1].ctx
        /\ pending'.from \notin Submitters'
    BY ZenonT(40), <1>3, <1>4, <1>11, <2>2, <2>3 DEF HeldInv
  <2>8. HeldInv'
    BY Zenon, <2>5, <2>6, <2>7 DEF HeldInv
  <2>9. ReplyInv'
    BY ZenonT(40), <1>3, <1>6, <1>8, <1>11, <2>2, <2>6
  <2> QED BY Zenon, <1>3, <2>1, <2>8, <2>9 DEF HandInv
<1> QED BY Zenon, <1>2, <1>10, <1>11

-----------------------------------------------------------------------------
(* The writer responds *)

\* Whoever in the batch still waits asked for what the batch is about, in its
\* context.
LEMMA WaitingFacts ==
  ASSUME HandInv, NEW c \in Callers, Waiting(c)
  PROVE  phase[c] = "wait" /\ reply[c] = "none" /\ call[c].op = batch[1].op /\ call[c].ctx = batch[1].ctx
<1>1. Types /\ HeldInv
  BY Zenon DEF HandInv
<1>2. PICK k \in DOMAIN batch : batch[k].from = c
  BY Zenon DEF Waiting, Submitters
<1>3. PICK b \in Calls : b = batch[k]
  BY Zenon, <1>1, BatchFacts
<1>4. InHand(b)
  BY Zenon, <1>3 DEF InHand
<1>5. Held(b) /\ phase[c] = "wait" /\ b.from = c
  BY ZenonT(40), <1>1, <1>2, <1>3, <1>4 DEF HeldInv, Waiting
<1>6. reply[c] = "none" /\ call[c].op = b.op /\ call[c].ctx = b.ctx
  BY <1>5 DEF Held
<1>7. b.op = batch[1].op /\ b.ctx = batch[1].ctx
  <2>1. CASE k = 1
    BY Zenon, <1>3, <2>1
  <2>2. CASE k # 1
    <3>1. Len(batch) > 1 /\ 1 \in DOMAIN batch
      BY SMTT(30), <1>1, <2>2, BatchFacts
    <3> QED BY Zenon, <1>1, <1>3, <3>1 DEF HeldInv
  <2> QED BY Zenon, <2>1, <2>2
<1> QED BY Zenon, <1>5, <1>6, <1>7

\* What a response may be: a cancellation when the batch's context is done or the
\* lease is retired, success
\* for messages that were written, and to a replay what the store says.
Fitting(answer) ==
  /\ answer = "cancelled" => Done \/ retired
  /\ answer = "known" => Op = "replay"
  /\ Op = "replay" => answer \in {"known", "unknown", "failed", "cancelled"} /\ (answer = "unknown" => AllForgotten)

LEMMA RespondKeeps ==
  ASSUME HandInv, NEW answer \in Answers, NEW fatal \in BOOLEAN, Respond(answer, fatal), Fitting(answer),
         pc \in {"collect", "process", "write"},
         answer = "ok" => Op \notin MessageOps \/ (pc = "write" /\ {m \in prepared : m.frame = frame} \subseteq wire'),
         UNCHANGED <<AroundProcess, made, prepared, forgotten>>, wire \subseteq wire'
  PROVE  HandInv'
<1>1. /\ \A c \in Callers : reply'[c] = IF Waiting(c) THEN answer ELSE reply[c]
      /\ batch' = <<>> /\ (pc' = "run" \/ pc' = "stop")
      /\ UNCHANGED <<phase, call, made, todo, completed, cancelled, pending, prepared, forgotten, retired, owner>>
  BY Zenon DEF Respond, Finish, AroundProcess
<1>2. Types /\ CallInv /\ HeldInv /\ ReplyInv /\ AnswerInv
  BY Zenon DEF HandInv
<1>3. pc # "closed" /\ answer # "none"
  BY DEF Answers
<1>4. \A c \in Callers : Waiting(c) =>
        phase[c] = "wait" /\ reply[c] = "none" /\ call[c].op = Op /\ call[c].ctx = batch[1].ctx /\ reply'[c] = answer
  BY ZenonT(40), <1>1, WaitingFacts DEF Op
<1>5. Types'
  <2>1. reply' = [c \in Callers |-> IF Waiting(c) THEN answer ELSE reply[c]]
    BY Zenon DEF Respond
  <2>2. reply' \in [Callers -> Answers \cup {"none"}]
    BY ZenonT(40), <1>2, <2>1 DEF Types
  <2> QED BY SMTT(30), <1>1, <1>2, <2>2 DEF Types
<1>6. CallInv'
  <2>1. \A c \in Callers : phase[c] # "wait" => reply'[c] = reply[c]
    BY Zenon, <1>1, <1>4
  <2> QED BY <1>1, <1>2, <2>1 DEF CallInv
<1>7. DOMAIN batch' = {} /\ ~(Len(batch') > 0) /\ ~(Len(batch') > 1) /\ Submitters' = {}
  <2>1. DOMAIN batch' = {} /\ Len(batch') = 0
    BY <1>1
  <2>2. ~(Len(batch') > 0) /\ ~(Len(batch') > 1)
    BY SMTT(30), <2>1
  <2> QED BY ZenonT(40), <2>1, <2>2 DEF Submitters
<1>8. pc' \notin {"collect", "process", "write"} /\ pc' # "collect" /\ pc' # "write" /\ pc' # "closed"
  BY <1>1
<1>9. HeldInv'
  <2>1. \A b : InHand(b)' => InHand(b) /\ b = pending /\ b # NoCall
    BY ZenonT(40), <1>1, <1>3, <1>7 DEF InHand
  <2>2. ASSUME NEW b \in Calls, InHand(b)' PROVE Held(b)' /\ b.op # "none"
    <3>1. InHand(b) /\ b = pending /\ b # NoCall
      BY Zenon, <2>1, <2>2
    <3>2. Held(b) /\ b.op # "none" /\ b.from \notin Submitters
      BY Zenon, <1>2, <3>1 DEF HeldInv
    <3>3. b.from \in Callers
      BY DEF Calls
    <3>4. reply'[b.from] = reply[b.from]
      BY ZenonT(40), <1>1, <3>2, <3>3 DEF Waiting
    <3> QED BY Zenon, <1>1, <3>2, <3>4 DEF Held
  <2> QED BY Zenon, <1>7, <1>8, <2>2 DEF HeldInv
<1>10. ReplyInv'
  <2>1. Sent \subseteq Sent'
    BY DEF Sent, MessageIds
  <2>2. ASSUME NEW c \in Callers, Waiting(c)
        PROVE  /\ reply'[c] = "cancelled" => call'[c].ctx \in cancelled' \/ retired'
               /\ reply'[c] = "known" => call'[c].op = "replay"
               /\ reply'[c] = "ok" /\ call'[c].op \in MessageOps => made'[c] # {} /\ made'[c] \subseteq Sent'
               /\ reply'[c] # "none"
    <3>1. reply'[c] = answer /\ call'[c].op = Op /\ call'[c].ctx = batch[1].ctx /\ made'[c] = made[c]
      BY Zenon, <1>1, <1>4, <2>2
    <3>2. answer = "cancelled" => call'[c].ctx \in cancelled' \/ retired'
      BY Zenon, <1>1, <3>1 DEF Fitting, Done
    <3>3. ASSUME answer = "ok", Op \in MessageOps PROVE made[c] # {} /\ made[c] \subseteq Sent'
      <4>1. pc = "write" /\ {m \in prepared : m.frame = frame} \subseteq wire'
        BY Zenon, <3>3
      <4>2. made[c] # {} /\ made[c] \subseteq MessageIds({m \in prepared : m.frame = frame})
        BY ZenonT(40), <1>2, <2>2, <4>1 DEF ReplyInv, Waiting
      <4>3. MessageIds({m \in prepared : m.frame = frame}) \subseteq Sent'
        BY Zenon, <4>1 DEF Sent, MessageIds
      <4> QED BY Zenon, <4>2, <4>3
    <3> QED BY Zenon, <1>3, <3>1, <3>2, <3>3 DEF Fitting
  <2>3. ASSUME NEW c \in Callers, ~Waiting(c)
        PROVE  /\ reply'[c] = "cancelled" => call'[c].ctx \in cancelled' \/ retired'
               /\ reply'[c] = "known" => call'[c].op = "replay"
               /\ reply'[c] = "ok" /\ call'[c].op \in MessageOps => made'[c] # {} /\ made'[c] \subseteq Sent'
               /\ reply'[c] = "none" => made'[c] = {}
               /\ phase'[c] = "wait" /\ reply'[c] = "none" => pending' # NoCall /\ pending'.from = c
    <3>1. reply'[c] = reply[c] /\ call'[c] = call[c] /\ made'[c] = made[c] /\ phase'[c] = phase[c]
      BY Zenon, <1>1, <2>3
    <3>2. reply[c] = "none" => made[c] = {}
      BY Zenon, <1>2, <2>3 DEF ReplyInv, CallInv, Waiting
    <3>3. phase[c] = "wait" /\ reply[c] = "none" => pending # NoCall /\ pending.from = c
      BY Zenon, <1>2, <1>3, <2>3 DEF ReplyInv, Waiting
    <3>4. /\ reply[c] = "cancelled" => call[c].ctx \in cancelled \/ retired
          /\ reply[c] = "known" => call[c].op = "replay"
          /\ reply[c] = "ok" /\ call[c].op \in MessageOps => made[c] # {} /\ made[c] \subseteq Sent'
      BY Zenon, <1>2, <2>1 DEF ReplyInv
    <3> QED BY ZenonT(40), <1>1, <3>1, <3>2, <3>3, <3>4
  <2> QED BY ZenonT(40), <1>8, <2>2, <2>3 DEF ReplyInv
<1>11. AnswerInv'
  <2>1. /\ (HandlerOver' <=> HandlerOver) /\ Responses' = Responses /\ (AllForgotten' <=> AllForgotten)
        /\ (Unrecorded' <=> Unrecorded) /\ \A m, n : Superseded(m, n)' <=> Superseded(m, n)
    BY Zenon, <1>1 DEF HandlerOver, Responses, AllForgotten, Unrecorded, Superseded
  <2>2. Actor \in Callers
    BY Zenon, Names
  <2>3. call[Actor].op = "replay" =>
          /\ reply[Actor] \in {"none", "known", "unknown", "failed", "cancelled"} =>
               reply'[Actor] \in {"none", "known", "unknown", "failed", "cancelled"}
          /\ (reply[Actor] = "unknown" => AllForgotten) => (reply'[Actor] = "unknown" => AllForgotten)
    <3>1. CASE Waiting(Actor)
      <4>1. reply'[Actor] = answer /\ call[Actor].op = Op
        BY Zenon, <1>4, <2>2, <3>1
      <4> QED BY <4>1 DEF Fitting
    <3>2. CASE ~Waiting(Actor)
      BY Zenon, <1>1, <2>2, <3>2
    <3> QED BY ZenonT(40), <3>1, <3>2
  <2> QED BY ZenonT(40), <1>1, <1>2, <2>1, <2>3 DEF AnswerInv
<1> QED BY ZenonT(40), <1>5, <1>6, <1>9, <1>10, <1>11 DEF HandInv

\* Commands make no messages.
LEMMA CommandOps == \A op \in {"ack", "close", "resend", "replay"} : op \notin MessageOps
BY DEF MessageOps, ResponseKinds

\* The answers to commands.
LEMMA CommandKeeps ==
  ASSUME HandInv, ProcessCancelled \/ Acknowledge \/ Inspect \/ ProcessClose
  PROVE  HandInv'
<1>1. CASE ProcessCancelled
  <2>1. /\ pc \in {"collect", "process"} /\ Done /\ Respond("cancelled", FALSE)
        /\ UNCHANGED <<AroundProcess, made, prepared, forgotten, wire>>
    BY Zenon, <1>1 DEF ProcessCancelled, Processing, storeVars
  <2>2. "cancelled" \in Answers /\ FALSE \in BOOLEAN /\ pc \in {"collect", "process", "write"} /\ Fitting("cancelled")
    BY <2>1 DEF Answers, Fitting
  <2> QED BY Zenon, <2>1, <2>2, RespondKeeps
<1>2. CASE Acknowledge
  <2>1. /\ pc \in {"collect", "process"} /\ Op \in {"ack"} /\ Respond("ok", FALSE)
        /\ UNCHANGED <<AroundProcess, made, prepared, forgotten, wire>>
    BY Zenon, <1>2 DEF Acknowledge, Processing
  <2>2. /\ "ok" \in Answers /\ FALSE \in BOOLEAN /\ pc \in {"collect", "process", "write"} /\ Fitting("ok")
        /\ Op \notin MessageOps
    BY <2>1, CommandOps DEF Answers, Fitting
  <2> QED BY Zenon, <2>1, <2>2, RespondKeeps
<1>3. CASE Inspect
  <2>1. PICK answer : answer = IF \A i \in batch[1].ids : Resendable(i) THEN "eligible" ELSE "ineligible"
    BY Zenon
  <2>2. /\ pc \in {"collect", "process"} /\ Op \in {"inspect"} /\ Respond(answer, FALSE)
        /\ UNCHANGED <<AroundProcess, made, prepared, forgotten, wire>>
    BY Zenon, <1>3, <2>1 DEF Inspect, Processing, storeVars
  <2>3. answer = "eligible" \/ answer = "ineligible"
    BY Zenon, <2>1
  <2>4. /\ answer \in Answers /\ FALSE \in BOOLEAN /\ pc \in {"collect", "process", "write"} /\ Fitting(answer)
        /\ answer # "ok"
    BY <2>2, <2>3 DEF Answers, Fitting
  <2> QED BY Zenon, <2>2, <2>4, RespondKeeps
<1>4. CASE ProcessClose
  <2>1. /\ pc \in {"collect", "process"} /\ Op \in {"close"} /\ Respond("ok", TRUE)
        /\ UNCHANGED <<AroundProcess, made, prepared, forgotten, wire>>
    BY Zenon, <1>4 DEF ProcessClose, Processing, storeVars
  <2>2. /\ "ok" \in Answers /\ TRUE \in BOOLEAN /\ pc \in {"collect", "process", "write"} /\ Fitting("ok")
        /\ Op \notin MessageOps
    BY Zenon, <2>1, CommandOps DEF Answers, Fitting
  <2> QED BY ZenonT(40), <2>1, <2>2, RespondKeeps
<1> QED BY Zenon, <1>1, <1>2, <1>3, <1>4

\* A failure is a cancellation only when the context is done or the lease retired.
LEMMA FailureFits ==
  ASSUME NEW error \in Failures
  PROVE  error \in Answers /\ error # "ok" /\ Fitting(error)
<1>1. error \in Errors /\ (error = "cancelled" => Done \/ retired)
  <2>1. CASE Done \/ retired
    BY Zenon, <2>1 DEF Failures
  <2>2. CASE ~(Done \/ retired)
    <3>1. error = "failed"
      BY Zenon, <2>2 DEF Failures
    <3> QED BY <3>1 DEF Errors
  <2> QED BY Zenon, <2>1, <2>2
<1>2. error = "failed" \/ error = "cancelled"
  BY Zenon, <1>1 DEF Errors
<1>3. error \in Answers /\ error # "ok" /\ error # "known" /\ error # "unknown"
      /\ error \in {"known", "unknown", "failed", "cancelled"}
  BY <1>2 DEF Answers
<1> QED BY Zenon, <1>1, <1>3 DEF Fitting

LEMMA FailFacts ==
  ASSUME Fail
  PROVE  \E error \in Answers : error # "ok" /\ Fitting(error) /\ Respond(error, TRUE)
BY Zenon, FailureFits DEF Fail

LEMMA ReplayResponseKeeps ==
  ASSUME HandInv, StoreInv, NEW ok \in BOOLEAN, NEW arrives \in BOOLEAN, ReplayResponse(ok, arrives)
  PROVE  HandInv'
<1>1. /\ pc \in {"collect", "process"} /\ Op \in {"replay"}
      /\ \/ LookupResponse = {} /\ Respond("unknown", FALSE) /\ wire' = wire
         \/ Respond("known", FALSE) /\ wire \subseteq wire'
         \/ Fail /\ wire \subseteq wire'
      /\ UNCHANGED <<AroundProcess, made, prepared, forgotten>>
  BY Zenon DEF ReplayResponse, Processing, WriteFrame
<1>2. pc \in {"collect", "process", "write"} /\ TRUE \in BOOLEAN /\ FALSE \in BOOLEAN
  BY <1>1
<1>3. CASE LookupResponse = {} /\ Respond("unknown", FALSE) /\ wire' = wire
  <2>1. AllForgotten
    BY Zenon, <1>3 DEF LookupResponse, AllForgotten, Responses, StoreInv
  <2>2. "unknown" \in Answers /\ "unknown" # "ok" /\ Fitting("unknown")
    BY <2>1 DEF Answers, Fitting
  <2>3. wire \subseteq wire'
    BY Zenon, <1>3
  <2> QED BY ZenonT(40), <1>1, <1>2, <1>3, <2>2, <2>3, RespondKeeps
<1>4. CASE Respond("known", FALSE) /\ wire \subseteq wire'
  <2>1. "known" \in Answers /\ "known" # "ok" /\ Fitting("known")
    BY <1>1 DEF Answers, Fitting
  <2> QED BY ZenonT(40), <1>1, <1>2, <1>4, <2>1, RespondKeeps
<1>5. CASE Fail /\ wire \subseteq wire'
  <2>1. PICK answer \in Answers : answer # "ok" /\ Fitting(answer) /\ Respond(answer, TRUE)
    BY Zenon, <1>5, FailFacts
  <2> QED BY ZenonT(40), <1>1, <1>2, <1>5, <2>1, RespondKeeps
<1> QED BY ZenonT(40), <1>1, <1>3, <1>4, <1>5

\* A resend that goes on with the next message.
LEMMA ResendGoesOn ==
  ASSUME HandInv, pc \in {"collect", "process"}, Op = "resend", NEW i,
         batch' = <<[batch[1] EXCEPT !.ids = @ \ {i}]>>, pc' = pc, reply' = reply, frame' = frame,
         UNCHANGED <<AroundProcess, made, prepared, forgotten>>, wire \subseteq wire'
  PROVE  HandInv'
<1>1. Types /\ CallInv /\ HeldInv /\ ReplyInv /\ AnswerInv
  BY Zenon DEF HandInv
<1>2. /\ UNCHANGED <<phase, call, made, todo, completed, cancelled, pending, prepared, forgotten, retired, owner>>
      /\ pc # "collect" /\ pc # "write" /\ pc # "closed" /\ pc \in {"collect", "process", "write"}
  <2>1. UNCHANGED <<phase, call, made, todo, completed, cancelled, pending, prepared, forgotten, retired, owner>>
    BY Zenon DEF AroundProcess
  <2>2. pc # "collect"
    BY <1>1 DEF HeldInv, Op
  <2> QED BY <2>1, <2>2
<1>3. Len(batch) \in Nat /\ Len(batch) > 0 /\ 1 \in DOMAIN batch /\ batch[1] \in Calls
  <2>1. Len(batch) \in Nat /\ Len(batch) > 0
    BY Zenon, <1>1, <1>2, BatchFacts DEF HeldInv
  <2> QED BY SMTT(30), <1>1, <2>1, BatchFacts
<1>4. DOMAIN batch = {1}
  <2>1. ~(Len(batch) > 1)
    BY <1>1, <1>3 DEF HeldInv, Op
  <2> QED BY SMTT(30), <1>1, <1>3, <2>1, BatchFacts
<1>5. PICK q \in Calls : q = batch[1]
  BY Zenon, <1>3
<1>6. PICK r : r = [q EXCEPT !.ids = @ \ {i}]
  BY Zenon
<1>7. r \in Calls /\ r.from = q.from /\ r.op = q.op /\ r.ctx = q.ctx
  BY <1>5, <1>6 DEF Calls
<1>8. batch' = <<r>>
  BY Zenon, <1>5, <1>6
<1>9. /\ Len(batch') = 1 /\ batch'[1] = r /\ Submitters' = {r.from} /\ batch' \in Seq(Calls)
      /\ \A k \in DOMAIN batch' : batch'[k] = r
  BY Zenon, <1>7, <1>8, Singleton
<1>10. Submitters' = Submitters
  <2>1. \A x : x \in Submitters <=> x = q.from
    BY Zenon, <1>4, <1>5 DEF Submitters
  <2> QED BY Zenon, <1>7, <1>9, <2>1
<1>11. Types' /\ CallInv'
  <2>1. Types'
    BY Zenon, <1>1, <1>2, <1>9 DEF Types
  <2>2. CallInv'
    BY ZenonT(40), <1>1, <1>2 DEF CallInv
  <2> QED BY Zenon, <2>1, <2>2
<1>12. HeldInv'
  <2>1. Held(q) /\ q.op # "none"
    BY Zenon, <1>1, <1>4, <1>5 DEF HeldInv, InHand
  <2>2. \A b \in Calls : b = r => Held(b)' /\ b.op # "none"
    BY Zenon, <1>2, <1>7, <2>1 DEF Held
  <2>3. \A b \in Calls : Held(b) => Held(b)'
    BY Zenon, <1>2 DEF Held
  <2>4. \A b : InHand(b)' => b = r \/ InHand(b)
    BY Zenon, <1>2, <1>9 DEF InHand
  <2>5. \A b \in Calls : InHand(b)' => Held(b)' /\ b.op # "none"
    BY ZenonT(40), <1>1, <2>2, <2>3, <2>4 DEF HeldInv
  <2>6. Len(batch') > 0 /\ ~(Len(batch') > 1)
    BY <1>9
  <2>7. pending' # NoCall => pending'.from \notin Submitters'
    BY Zenon, <1>1, <1>2, <1>10 DEF HeldInv
  <2> QED BY Zenon, <1>2, <2>5, <2>6, <2>7 DEF HeldInv
<1>13. ReplyInv'
  <2>1. Sent \subseteq Sent'
    BY Zenon DEF Sent, MessageIds
  <2> QED BY Zenon, <1>1, <1>2, <1>10, <2>1 DEF ReplyInv
<1>14. AnswerInv'
  <2>1. /\ (HandlerOver' <=> HandlerOver) /\ Responses' = Responses /\ (AllForgotten' <=> AllForgotten)
        /\ (Unrecorded' <=> Unrecorded) /\ \A m, n : Superseded(m, n)' <=> Superseded(m, n)
    BY Zenon, <1>2 DEF HandlerOver, Responses, AllForgotten, Unrecorded, Superseded
  <2> QED BY Zenon, <1>1, <1>2, <2>1 DEF AnswerInv
<1> QED BY ZenonT(40), <1>11, <1>12, <1>13, <1>14 DEF HandInv

LEMMA ResendOneKeeps ==
  ASSUME HandInv, NEW i, NEW ok \in BOOLEAN, NEW arrives \in BOOLEAN, ResendOne(i, ok, arrives)
  PROVE  HandInv'
<1>1. /\ pc \in {"collect", "process"} /\ Op \in {"resend"}
      /\ \/ Fail \/ Respond("ok", FALSE) \/ Respond("failed", TRUE)
         \/ batch' = <<[batch[1] EXCEPT !.ids = @ \ {i}]>> /\ pc' = pc /\ reply' = reply /\ frame' = frame
      /\ wire \subseteq wire'
      /\ UNCHANGED <<AroundProcess, made, prepared, forgotten>>
  BY Zenon DEF ResendOne, Processing, WriteFrame
<1>2. pc \in {"collect", "process", "write"} /\ TRUE \in BOOLEAN /\ FALSE \in BOOLEAN /\ Op = "resend" /\ Op \notin MessageOps
  BY <1>1, CommandOps
<1>3. CASE Fail
  <2>1. PICK answer \in Answers : answer # "ok" /\ Fitting(answer) /\ Respond(answer, TRUE)
    BY Zenon, <1>3, FailFacts
  <2> QED BY Zenon, <1>1, <1>2, <2>1, RespondKeeps
<1>4. CASE Respond("ok", FALSE)
  <2>1. "ok" \in Answers /\ Fitting("ok")
    BY <1>2 DEF Answers, Fitting
  <2> QED BY ZenonT(40), <1>1, <1>2, <1>4, <2>1, RespondKeeps
<1>5. CASE Respond("failed", TRUE)
  <2>1. "failed" \in Answers /\ "failed" # "ok" /\ Fitting("failed")
    BY <1>2 DEF Answers, Fitting
  <2> QED BY ZenonT(40), <1>1, <1>2, <1>5, <2>1, RespondKeeps
<1>6. CASE batch' = <<[batch[1] EXCEPT !.ids = @ \ {i}]>> /\ pc' = pc /\ reply' = reply /\ frame' = frame
  BY Zenon, <1>1, <1>2, <1>6, ResendGoesOn
<1> QED BY Zenon, <1>1, <1>3, <1>4, <1>5, <1>6

\* A save that fails, and the write of a prepared frame.
LEMMA FrameKeeps ==
  ASSUME HandInv, \/ \E saved \in BOOLEAN : SaveFails(saved)
                  \/ \E ok, arrives \in BOOLEAN : Write(ok, arrives)
  PROVE  HandInv'
<1>1. TRUE \in BOOLEAN /\ FALSE \in BOOLEAN
  OBVIOUS
<1>2. ASSUME NEW saved \in BOOLEAN, SaveFails(saved) PROVE HandInv'
  <2>1. /\ pc \in {"collect", "process"} /\ Fail
        /\ UNCHANGED <<AroundProcess, made, prepared, forgotten, wire>>
    BY Zenon, <1>2 DEF SaveFails, Processing
  <2>2. pc \in {"collect", "process", "write"} /\ wire \subseteq wire'
    BY <2>1
  <2>3. PICK answer \in Answers : answer # "ok" /\ Fitting(answer) /\ Respond(answer, TRUE)
    BY Zenon, <2>1, FailFacts
  <2> QED BY ZenonT(40), <1>1, <2>1, <2>2, <2>3, RespondKeeps
<1>3. ASSUME NEW ok \in BOOLEAN, NEW arrives \in BOOLEAN, Write(ok, arrives) PROVE HandInv'
  <2>1. /\ pc = "write" /\ WriteFrame(frame, ok, arrives)
        /\ (ok /\ Respond("ok", FALSE)) \/ Fail
        /\ UNCHANGED <<AroundProcess, made, prepared, forgotten>>
    BY Zenon, <1>3 DEF Write
  <2>2. pc \in {"collect", "process", "write"} /\ wire \subseteq wire'
    BY <2>1 DEF WriteFrame
  <2>3. CASE ok /\ Respond("ok", FALSE)
    <3>1. {m \in prepared : m.frame = frame} \subseteq wire'
      BY ZenonT(40), <2>1, <2>3 DEF WriteFrame
    <3>2. Op # "replay"
      BY Zenon, <2>1, CommandOps DEF HandInv, HeldInv, Op
    <3>3. "ok" \in Answers /\ Fitting("ok")
      BY <3>2 DEF Answers, Fitting
    <3> QED BY ZenonT(40), <1>1, <2>1, <2>2, <2>3, <3>1, <3>3, RespondKeeps
  <2>4. CASE Fail
    <3>1. PICK answer \in Answers : answer # "ok" /\ Fitting(answer) /\ Respond(answer, TRUE)
      BY Zenon, <2>4, FailFacts
    <3> QED BY ZenonT(40), <1>1, <2>1, <2>2, <3>1, RespondKeeps
  <2> QED BY Zenon, <2>1, <2>3, <2>4
<1> QED BY Zenon, <1>2, <1>3

-----------------------------------------------------------------------------
(* The end of a turn, of the writer and of the session *)

LEMMA StopKeeps ==
  ASSUME HandInv, Stop
  PROVE  HandInv'
<1>1. /\ pc = "stop" \/ pc = "run"
      /\ pc' = "closed"
      /\ retired'
      /\ UNCHANGED <<phase, call, reply, made, todo, completed, cancelled, batch, pending, frame, prepared, forgotten, wire, owner>>
  BY Zenon DEF Stop, callerVars, storeVars
<1>2. Types /\ CallInv /\ HeldInv /\ ReplyInv /\ AnswerInv
  BY Zenon DEF HandInv
<1>3. ~(Len(batch) > 0) /\ DOMAIN batch = {}
  <2>1. ~(Len(batch) > 0)
    BY <1>1, <1>2 DEF HeldInv
  <2> QED BY SMTT(30), <1>2, <2>1, BatchFacts
<1>4. Types' /\ CallInv'
  BY Zenon, <1>1, <1>2 DEF Types, CallInv
<1>5. Submitters' = Submitters /\ Sent' = Sent
  BY Zenon, <1>1 DEF Submitters, Sent
<1>6. HeldInv'
  <2>1. \A b : ~InHand(b)'
    BY Zenon, <1>1, <1>3 DEF InHand
  <2>2. pc' \notin {"collect", "process", "write"} /\ ~(Len(batch') > 0)
    BY Zenon, <1>1, <1>3
  <2>3. /\ Len(batch') > 1 => \A k \in DOMAIN batch' : batch'[k].op = "push" /\ batch'[k].ctx = batch'[1].ctx
        /\ pending' # NoCall => pending'.from \notin Submitters'
    BY Zenon, <1>1, <1>2, <1>5 DEF HeldInv
  <2> QED BY Zenon, <2>1, <2>2, <2>3 DEF HeldInv
<1>7. ReplyInv'
  <2>1. pc # "write" /\ pc' # "write"
    BY <1>1
  <2> QED BY Zenon, <1>1, <1>2, <1>5, <2>1 DEF ReplyInv
<1>8. AnswerInv'
  <2>1. /\ (HandlerOver' <=> HandlerOver) /\ Responses' = Responses /\ (AllForgotten' <=> AllForgotten)
        /\ (Unrecorded' <=> Unrecorded) /\ \A m, n : Superseded(m, n)' <=> Superseded(m, n)
    BY Zenon, <1>1 DEF HandlerOver, Responses, AllForgotten, Unrecorded, Superseded
  <2> QED BY Zenon, <1>1, <1>2, <2>1 DEF AnswerInv
<1> QED BY Zenon, <1>4, <1>6, <1>7, <1>8 DEF HandInv

\* The lease ends, messages expire, the ledger forgets: what the writer holds stays
\* the same, and what was forgotten stays forgotten.
LEMMA QuietKeeps ==
  ASSUME HandInv, forgotten \subseteq forgotten', retired => retired', completed' => completed,
         UNCHANGED <<phase, call, reply, made, todo, cancelled, pc, batch, pending, frame, prepared, wire, owner>>
  PROVE  HandInv'
<1>1. Types /\ CallInv /\ HeldInv /\ ReplyInv /\ AnswerInv
  BY Zenon DEF HandInv
<1>2. Types' /\ CallInv'
  BY Zenon, <1>1 DEF Types, CallInv
<1>3. Submitters' = Submitters /\ Sent' = Sent
  BY Zenon DEF Submitters, Sent
<1>4. (\A b : InHand(b)' <=> InHand(b)) /\ (\A b \in Calls : Held(b) => Held(b)')
  BY Zenon DEF InHand, Held
<1>5. HeldInv'
  BY Zenon, <1>1, <1>3, <1>4 DEF HeldInv
<1>6. ReplyInv'
  BY Zenon, <1>1, <1>3 DEF ReplyInv
<1>7. /\ (HandlerOver' <=> HandlerOver) /\ Responses' = Responses /\ (AllForgotten => AllForgotten')
      /\ (Unrecorded => Unrecorded') /\ \A m, n : Superseded(m, n) => Superseded(m, n)'
  BY Zenon DEF HandlerOver, Responses, AllForgotten, Unrecorded, Superseded
<1>8. AnswerInv'
  BY ZenonT(40), <1>1, <1>7 DEF AnswerInv
<1> QED BY Zenon, <1>2, <1>5, <1>6, <1>8 DEF HandInv

\* The next owner finds no call to the old writer, and no handler of its own.
LEMMA NextOwnerKeeps ==
  ASSUME HandInv, NextOwner
  PROVE  HandInv'
<1>1. /\ pc = "closed" /\ \A c \in Callers : phase[c] \notin {"offer", "wait"}
      /\ phase' = [phase EXCEPT ![Actor] = "idle"] /\ pc' = "run" /\ pending' = NoCall /\ todo' = <<>> /\ owner' = owner + 1
      /\ cancelled' = cancelled \ {Actor}
      /\ UNCHANGED <<call, reply, made, completed, batch, frame, prepared, forgotten, wire>>
  BY ZenonT(40) DEF NextOwner, storeVars
<1>2. Types /\ CallInv /\ HeldInv /\ ReplyInv /\ AnswerInv
  BY Zenon DEF HandInv
<1>3. Types'
  BY SMTT(30), <1>1, <1>2, Names DEF Types
<1>4. \A c \in Callers : phase'[c] # "offer" /\ phase'[c] # "wait" /\ reply'[c] = "none" /\ made'[c] = {}
  <2>1. \A c \in Callers : phase[c] # "offer" /\ phase[c] # "wait"
    BY <1>1
  <2>2. \A c \in Callers : reply'[c] = "none" /\ made'[c] = {}
    BY Zenon, <1>1, <1>2, <2>1 DEF CallInv
  <2>3. \A c \in Callers : phase'[c] # "offer" /\ phase'[c] # "wait"
    BY ZenonT(40), <1>1, <1>2, <2>1 DEF Types
  <2> QED BY Zenon, <2>2, <2>3
<1>5. CallInv'
  BY <1>4 DEF CallInv
<1>6. DOMAIN batch' = {} /\ ~(Len(batch') > 0) /\ ~(Len(batch') > 1) /\ Submitters' = {}
  <2>1. Len(batch) \in Nat /\ ~(Len(batch) > 0)
    BY Zenon, <1>1, <1>2, BatchFacts DEF HeldInv
  <2>2. ~(Len(batch) > 1)
    BY <2>1
  <2>3. DOMAIN batch = {}
    BY SMTT(30), <1>2, <2>1, BatchFacts
  <2> QED BY ZenonT(40), <1>1, <2>1, <2>2, <2>3 DEF Submitters
<1>7. pc' \notin {"collect", "process", "write"} /\ pc' # "collect" /\ pc' # "write" /\ pc' # "closed"
  BY <1>1
<1>8. HeldInv'
  <2>1. \A b : ~InHand(b)'
    BY ZenonT(40), <1>1, <1>6 DEF InHand
  <2> QED BY Zenon, <1>1, <1>6, <1>7, <2>1 DEF HeldInv
<1>9. ReplyInv'
  BY <1>4, <1>7 DEF ReplyInv
<1>10. AnswerInv'
  <2>1. HandlerOver'
    BY SMTT(30), <1>1, <1>2 DEF HandlerOver, Types
  <2>2. phase'[Actor] \notin {"offer", "wait"}
    BY Zenon, <1>4, Names
  <2>3. DOMAIN todo' = {}
    BY <1>1
  <2>4. \A m, n \in Responses' : m.id < n.id => Superseded(m, n)'
    <3>1. Unrecorded => Unrecorded'
      BY Zenon, <1>1, Names DEF Unrecorded
    <3>2. Responses' = Responses /\ \A m, n : Superseded(m, n) => Superseded(m, n)'
      BY Zenon, <1>1, <3>1 DEF Responses, Superseded
    <3> QED BY Zenon, <1>2, <3>2 DEF AnswerInv
  <2> QED BY ZenonT(40), <2>1, <2>2, <2>3, <2>4 DEF AnswerInv
<1> QED BY Zenon, <1>3, <1>5, <1>8, <1>9, <1>10 DEF HandInv

-----------------------------------------------------------------------------
(* A frame is prepared and saved *)

\* The batch is about messages and is processed.
Preparing == pc \in {"collect", "process"} /\ Op \in MessageOps

\* What a frame consists of: only its first message can be a response.
LEMMA ItemsFacts ==
  ASSUME Types, HeldInv, Preparing
  PROVE  /\ Len(Items) \in Nat \ {0} /\ Places \in Nat \ {0} /\ Len(Items) <= Places
         /\ Op \notin {"result", "interrupted"} => Len(Items) = Len(batch)
         /\ \A k \in 1..Places : Kind(k) \in Ops /\ (Kind(k) \in ResponseKinds => k = 1 /\ Kind(k) = Op)
<1>1. Len(batch) \in Nat \ {0} /\ DOMAIN batch = 1..Len(batch) /\ \A k \in DOMAIN batch : batch[k] \in Calls
  BY BatchFacts DEF Preparing, HeldInv
<1>2. CASE Op \in {"result", "interrupted"}
  <2>1. Items = <<Op, "ack">>
    BY Zenon, <1>2 DEF Items
  <2>2. Len(Items) = 2 /\ Items[1] = Op /\ Items[2] = "ack"
    BY <2>1
  <2>3. Places = 3
    BY <2>2 DEF Places
  <2>4. \A k \in 1..Places : (k = 1 /\ Kind(k) = Op) \/ (k = 2 /\ Kind(k) = "ack") \/ (k = 3 /\ Kind(k) = "notice")
    BY <2>2, <2>3 DEF Kind
  <2>5. Op \in Ops /\ "ack" \in Ops \ ResponseKinds /\ "notice" \in Ops \ ResponseKinds
    BY <1>2 DEF Ops, ResponseKinds
  <2>6. \A k \in 1..Places : Kind(k) \in Ops /\ (Kind(k) \in ResponseKinds => k = 1 /\ Kind(k) = Op)
    BY Zenon, <2>4, <2>5
  <2>7. Len(Items) \in Nat \ {0} /\ Places \in Nat \ {0} /\ Len(Items) <= Places
    BY SMTT(30), <2>2, <2>3
  <2> QED BY Zenon, <1>2, <2>6, <2>7
<1>3. CASE Op \notin {"result", "interrupted"}
  <2>1. Items = [k \in 1..Len(batch) |-> batch[k].op]
    BY Zenon, <1>3 DEF Items
  <2>2. Len(Items) = Len(batch) /\ \A k \in 1..Len(batch) : Items[k] = batch[k].op
    BY SMTT(30), <1>1, <2>1
  <2>3. Places \in Nat \ {0} /\ Len(Items) <= Places
    BY <1>1, <2>2 DEF Places
  <2>4. ASSUME NEW k \in 1..Places
        PROVE  Kind(k) \in Ops /\ (Kind(k) \in ResponseKinds => k = 1 /\ Kind(k) = Op)
    <3>1. CASE k <= Len(Items)
      <4>1. k \in DOMAIN batch /\ Kind(k) = batch[k].op /\ batch[k] \in Calls
        BY SMTT(30), <1>1, <2>2, <2>3, <3>1 DEF Kind
      <4>2. Kind(k) \in Ops
        BY <4>1 DEF Calls
      <4>3. CASE Len(batch) > 1
        <5>1. Kind(k) = "push"
          BY Zenon, <4>1, <4>3 DEF HeldInv
        <5> QED BY <4>2, <5>1 DEF ResponseKinds
      <4>4. CASE ~(Len(batch) > 1)
        <5>1. k = 1
          BY SMTT(30), <1>1, <4>1, <4>4
        <5> QED BY Zenon, <4>1, <4>2, <5>1 DEF Op
      <4> QED BY Zenon, <4>3, <4>4
    <3>2. CASE ~(k <= Len(Items))
      <4>1. Kind(k) = "notice"
        BY Zenon, <3>2 DEF Kind
      <4> QED BY <4>1 DEF Ops, ResponseKinds
    <3> QED BY Zenon, <3>1, <3>2
  <2> QED BY Zenon, <1>1, <2>2, <2>3, <2>4
<1> QED BY ZenonT(40), <1>2, <1>3

\* The messages of the frame, and those made for a caller that waits.
LEMMA FrameFacts ==
  ASSUME HandInv, Preparing, nextId \in Nat \ {0}
  PROVE  /\ \A m \in NewFrame : m.id >= nextId /\ m.frame = nextId
         /\ \A m \in NewFrame : m.request = Request => Op \in ResponseKinds /\ m.id = nextId /\ m.kind = Op
         /\ \A c \in Callers : ~Waiting(c) => MadeFor(c) = made[c]
         /\ \A c \in Callers : Waiting(c) =>
              MadeFor(c) # {} /\ MadeFor(c) \subseteq Nat /\ MadeFor(c) \subseteq MessageIds(NewFrame)
<1>1. Types /\ HeldInv
  BY Zenon DEF HandInv
<1>2. PICK n : n = Len(Items)
  BY Zenon
<1>3. /\ n \in Nat \ {0} /\ Places \in Nat \ {0} /\ n <= Places /\ (Op \notin {"result", "interrupted"} => n = Len(batch))
      /\ \A k \in 1..Places : Kind(k) \in ResponseKinds => k = 1 /\ Kind(k) = Op
  BY Zenon, <1>1, <1>2, ItemsFacts
<1>4. ASSUME NEW m \in NewFrame
      PROVE  /\ m.id >= nextId /\ m.frame = nextId
             /\ m.request = Request => Op \in ResponseKinds /\ m.id = nextId /\ m.kind = Op
  <2>1. PICK k \in 1..Places : m = Message(k)
    BY Zenon DEF NewFrame
  <2>2. k \in Nat \ {0}
    BY SMTT(30), <1>3
  <2>3. /\ m.id = nextId + k - 1 /\ m.frame = nextId /\ m.kind = Kind(k)
        /\ m.request = IF Kind(k) \in ResponseKinds THEN Request ELSE None
    BY <2>1 DEF Message
  <2>4. m.id >= nextId /\ (k = 1 => m.id = nextId)
    BY <2>2, <2>3
  <2>5. m.request = Request => Kind(k) \in ResponseKinds
    BY Zenon, <2>3, WriterAssumption
  <2> QED BY ZenonT(40), <1>3, <2>3, <2>4, <2>5
<1>5. \A k \in 1..n : nextId + k - 1 \in MessageIds(NewFrame) /\ nextId + k - 1 \in Nat
  <2>1. \A k \in 1..n : k \in 1..Places /\ nextId + k - 1 \in Nat
    BY SMTT(30), <1>3
  <2>2. \A k \in 1..Places : Message(k) \in NewFrame /\ Message(k).id = nextId + k - 1
    BY DEF NewFrame, Message
  <2> QED BY Zenon, <2>1, <2>2 DEF MessageIds
<1>6. ASSUME NEW c \in Callers, Waiting(c)
      PROVE  MadeFor(c) # {} /\ \A i \in MadeFor(c) : \E k \in 1..n : i = nextId + k - 1
  <2>1. CASE Op = "push"
    <3>1. MadeFor(c) = {nextId + k - 1 : k \in {k \in DOMAIN batch : batch[k].from = c}}
      BY Zenon, <1>6, <2>1 DEF MadeFor
    <3>2. DOMAIN batch = 1..n
      <4>1. Op \notin {"result", "interrupted"}
        BY <2>1
      <4> QED BY ZenonT(40), <1>1, <1>3, <4>1, BatchFacts
    <3>3. PICK j \in DOMAIN batch : batch[j].from = c
      BY Zenon, <1>6 DEF Waiting, Submitters
    <3>4. nextId + j - 1 \in MadeFor(c)
      BY Zenon, <3>1, <3>3
    <3>5. \A i \in MadeFor(c) : \E k \in DOMAIN batch : i = nextId + k - 1
      BY Zenon, <3>1
    <3> QED BY Zenon, <3>2, <3>4, <3>5
  <2>2. CASE Op # "push"
    <3>1. MadeFor(c) = nextId..(nextId + n - 1)
      BY Zenon, <1>2, <1>6, <2>2 DEF MadeFor
    <3>2. nextId \in MadeFor(c)
      BY SMTT(30), <1>3, <3>1
    <3>3. ASSUME NEW i \in MadeFor(c) PROVE \E k \in 1..n : i = nextId + k - 1
      <4>1. i \in Nat /\ i >= nextId /\ i <= nextId + n - 1
        BY SMTT(30), <1>3, <3>1
      <4>2. i - nextId + 1 \in 1..n /\ i = nextId + (i - nextId + 1) - 1
        BY <1>3, <4>1
      <4> QED BY <4>2
    <3> QED BY Zenon, <3>2, <3>3
  <2> QED BY Zenon, <2>1, <2>2
<1>7. ASSUME NEW c \in Callers, Waiting(c)
      PROVE  MadeFor(c) # {} /\ MadeFor(c) \subseteq Nat /\ MadeFor(c) \subseteq MessageIds(NewFrame)
  BY ZenonT(40), <1>5, <1>6, <1>7
<1>8. \A c \in Callers : ~Waiting(c) => MadeFor(c) = made[c]
  BY Zenon DEF MadeFor
<1> QED BY ZenonT(40), <1>4, <1>7, <1>8

\* A response is prepared by the handler, when there is none, or for the reader,
\* when all earlier ones are forgotten or the ledger has none.
LEMMA ResponseIsDue ==
  ASSUME HandInv, Preparing, ~Done, Op \in ResponseKinds
  PROVE  \/ Op = "result" /\ Waiting(Handler) /\ ~HandlerOver /\ Responses = {}
         \/ /\ Op = "retry" /\ Waiting(Actor) /\ HandlerOver /\ AllForgotten
            /\ phase[Actor] = "wait" /\ call[Actor].op = "retry"
         \/ /\ Op = "interrupted" /\ HandlerOver /\ Unrecorded
            /\ phase[Actor] = "wait" /\ call[Actor].op = "interrupted"
<1>1. Types /\ CallInv /\ HeldInv /\ ReplyInv /\ AnswerInv
  BY Zenon DEF HandInv
<1>2. 1 \in DOMAIN batch
  <2>1. Len(batch) \in Nat /\ Len(batch) > 0
    BY <1>1, BatchFacts DEF Preparing, HeldInv
  <2> QED BY SMTT(30), <1>1, <2>1, BatchFacts
<1>3. PICK b \in Calls : b = batch[1]
  BY Zenon, <1>1, <1>2, BatchFacts
<1>4. PICK c \in Callers : c = b.from
  BY DEF Calls
<1>5. Held(b) /\ b.ctx \notin cancelled /\ b.op = Op
  BY Zenon, <1>1, <1>2, <1>3 DEF HeldInv, InHand, Done, Op
<1>6. phase[c] = "wait" /\ reply[c] = "none" /\ call[c].op = Op /\ call[c].ctx \notin cancelled
  BY Zenon, <1>4, <1>5 DEF Held
<1>7. Waiting(c)
  BY ZenonT(40), <1>2, <1>3, <1>4, <1>6 DEF Waiting, Submitters
<1>8. made[c] = {}
  BY <1>1, <1>6 DEF ReplyInv, Preparing
<1>9. CASE Op = "result"
  <2>1. c = Handler /\ call[c].ctx = Handler /\ owner = 1
    BY ZenonT(40), <1>1, <1>6, <1>9, Names DEF CallInv
  <2>2. ~HandlerOver
    BY SMTT(30), <1>6, <2>1 DEF HandlerOver
  <2> QED BY ZenonT(40), <1>1, <1>7, <1>8, <1>9, <2>1, <2>2 DEF AnswerInv
<1>10. CASE Op = "retry"
  <2>1. c = Actor
    BY Zenon, <1>1, <1>6, <1>10, Names DEF CallInv
  <2> QED BY ZenonT(40), <1>1, <1>6, <1>7, <1>8, <1>10, <2>1 DEF AnswerInv
<1>11. CASE Op = "interrupted"
  <2>1. c = Actor
    BY Zenon, <1>1, <1>6, <1>11, Names DEF CallInv
  <2>2. phase[Actor] = "wait" /\ call[Actor].op = "interrupted"
    BY Zenon, <1>6, <1>11, <2>1
  <2> QED BY Zenon, <1>1, <1>11, <2>2 DEF AnswerInv
<1> QED BY Zenon, <1>9, <1>10, <1>11 DEF ResponseKinds

\* Retaining a frame keeps callers and writer in step.
LEMMA SaveKeeps ==
  ASSUME HandInv, StoreInv, Save
  PROVE  HandInv'
<1>1. /\ Preparing /\ ~Done /\ pc' = "write" /\ frame' = nextId /\ prepared' = prepared \cup NewFrame
      /\ made' = [c \in Callers |-> MadeFor(c)] /\ forgotten \subseteq forgotten'
      /\ UNCHANGED <<phase, call, reply, todo, completed, cancelled, pending, retired, owner, batch, wire>>
  <2>1. /\ Processing(MessageOps) /\ ~Done /\ pc' = "write" /\ Prepare(NewFrame) /\ Put(NewFrame)
        /\ UNCHANGED <<phase, call, reply, todo, completed, cancelled, pending, retired, owner, batch, wire>>
    BY Zenon DEF Save, Retain, AroundProcess
  <2>2. forgotten \subseteq forgotten'
    BY Zenon, <2>1 DEF Put
  <2> QED BY Zenon, <2>1, <2>2 DEF Processing, Preparing, Prepare
<1>2. Types /\ CallInv /\ HeldInv /\ ReplyInv /\ AnswerInv /\ nextId \in Nat \ {0}
  BY Zenon DEF HandInv, StoreInv
<1>3. /\ \A m \in NewFrame : m.id >= nextId /\ m.frame = nextId
      /\ \A m \in NewFrame : m.request = Request => Op \in ResponseKinds /\ m.id = nextId /\ m.kind = Op
  BY Zenon, <1>1, <1>2, FrameFacts
<1>4. /\ \A c \in Callers : ~Waiting(c) => made'[c] = made[c]
      /\ \A c \in Callers : Waiting(c) =>
           made'[c] # {} /\ made'[c] \subseteq Nat /\ made'[c] \subseteq MessageIds(NewFrame)
  BY Zenon, <1>1, <1>2, FrameFacts
<1>5. \A c \in Callers : Waiting(c) => phase[c] = "wait" /\ reply[c] = "none" /\ call[c].op = Op
  BY Zenon, WaitingFacts DEF Op
<1>6. pc # "write" /\ pc # "closed" /\ pc \in {"collect", "process", "write"} /\ pc' # "collect" /\ pc' # "closed"
  BY Zenon, <1>1 DEF Preparing
<1>7. Types'
  <2>1. \A c \in Callers : made'[c] \in SUBSET Nat
    BY <1>2, <1>4 DEF Types
  <2>2. made' \in [Callers -> SUBSET Nat]
    <3>1. made' = [c \in Callers |-> made'[c]]
      BY Zenon, <1>1
    <3> QED BY Zenon, <2>1, <3>1
  <2> QED BY ZenonT(40), <1>1, <1>2, <2>2 DEF Types
<1>8. CallInv'
  <2>1. \A c \in Callers : phase[c] # "wait" => made'[c] = made[c]
    BY Zenon, <1>4, <1>5
  <2> QED BY ZenonT(40), <1>1, <1>2, <2>1 DEF CallInv
<1>9. Submitters' = Submitters /\ Sent' = Sent /\ Submitters \subseteq Callers
  BY ZenonT(40), <1>1, <1>2, BatchFacts DEF Submitters, Sent
<1>10. HeldInv'
  <2>1. \A b : InHand(b)' <=> InHand(b)
    BY Zenon, <1>1, <1>6 DEF InHand
  <2>2. \A b \in Calls : Held(b) => Held(b)'
    BY Zenon, <1>1 DEF Held
  <2>3. \A b \in Calls : InHand(b)' => Held(b)' /\ b.op # "none"
    BY Zenon, <1>2, <2>1, <2>2 DEF HeldInv
  <2>4. /\ Len(batch') > 0 /\ batch'[1].op \in MessageOps /\ pc' \in {"collect", "process", "write"}
        /\ Len(batch') > 1 => \A k \in DOMAIN batch' : batch'[k].op = "push" /\ batch'[k].ctx = batch'[1].ctx
        /\ pending' # NoCall => pending'.from \notin Submitters'
    BY Zenon, <1>1, <1>2, <1>6, <1>9 DEF HeldInv, Preparing, Op
  <2> QED BY Zenon, <1>6, <2>3, <2>4 DEF HeldInv
<1>11. ReplyInv'
  <2>1. ASSUME NEW c \in Callers
        PROVE  /\ reply'[c] = "cancelled" => call'[c].ctx \in cancelled' \/ retired'
               /\ reply'[c] = "known" => call'[c].op = "replay"
               /\ reply'[c] = "ok" /\ call'[c].op \in MessageOps => made'[c] # {} /\ made'[c] \subseteq Sent'
               /\ reply'[c] = "none" /\ made'[c] # {} => c \in Submitters'
               /\ phase'[c] = "wait" /\ reply'[c] = "none" =>
                    pc' = "closed" \/ c \in Submitters' \/ (pending' # NoCall /\ pending'.from = c)
    <3>1. CASE Waiting(c)
      <4>1. reply'[c] = "none" /\ c \in Submitters'
        BY Zenon, <1>1, <1>5, <1>9, <3>1 DEF Waiting
      <4> QED BY <4>1
    <3>2. CASE ~Waiting(c)
      <4>1. made'[c] = made[c] /\ reply'[c] = reply[c] /\ call'[c] = call[c] /\ phase'[c] = phase[c]
        BY Zenon, <1>1, <1>4, <3>2
      <4> QED BY ZenonT(40), <1>1, <1>2, <1>6, <1>9, <4>1 DEF ReplyInv
    <3> QED BY ZenonT(40), <3>1, <3>2
  <2>2. NewFrame \subseteq {m \in prepared' : m.frame = frame'}
    BY Zenon, <1>1, <1>3
  <2>3. MessageIds(NewFrame) \subseteq MessageIds({m \in prepared' : m.frame = frame'})
    BY Zenon, <2>2 DEF MessageIds
  <2>4. ASSUME NEW c \in Submitters', phase'[c] = "wait"
        PROVE  made'[c] # {} /\ made'[c] \subseteq MessageIds({m \in prepared' : m.frame = frame'})
    <3>1. c \in Callers /\ Waiting(c)
      BY Zenon, <1>1, <1>9, <2>4 DEF Waiting
    <3> QED BY ZenonT(40), <1>4, <2>3, <3>1
  <2> QED BY Zenon, <1>1, <1>6, <2>1, <2>4 DEF ReplyInv, MessageIds
<1>12. AnswerInv'
  <2>1. /\ (HandlerOver' <=> HandlerOver) /\ Responses \subseteq Responses' /\ Responses' \subseteq Responses \cup NewFrame
        /\ (Unrecorded' <=> Unrecorded) /\ \A m, n : Superseded(m, n) => Superseded(m, n)'
    BY Zenon, <1>1 DEF HandlerOver, Responses, Unrecorded, Superseded
  <2>2. Handler \in Callers /\ Actor \in Callers
    BY Zenon, Names
  <2>3. CASE Op \notin ResponseKinds
    <3>1. Responses' = Responses
      BY Zenon, <1>3, <2>1, <2>3 DEF Responses
    <3>2. AllForgotten => AllForgotten'
      BY Zenon, <1>1, <3>1 DEF AllForgotten
    <3>3. \A c \in Callers : made'[c] = {} => made[c] = {}
      BY Zenon, <1>2, <1>4, <1>5 DEF ReplyInv, Waiting
    <3> QED BY ZenonT(40), <1>1, <1>2, <2>1, <2>2, <3>1, <3>2, <3>3 DEF AnswerInv
  <2>4. CASE Op = "result" /\ Waiting(Handler) /\ ~HandlerOver /\ Responses = {}
    <3>1. \A m \in Responses' : m.id = nextId /\ m.kind = "result"
      BY Zenon, <1>3, <2>1, <2>4 DEF Responses
    <3>2. \A m, n \in Responses' : ~(m.id < n.id)
      BY <1>2, <3>1
    <3>3. made'[Handler] # {}
      BY Zenon, <1>4, <2>2, <2>4
    <3> QED BY ZenonT(40), <1>1, <1>2, <2>1, <2>4, <3>1, <3>2, <3>3 DEF AnswerInv
  <2>5. \A m, n \in Responses' : m.id < n.id => m \in Responses
    <3> SUFFICES ASSUME NEW m \in Responses', NEW n \in Responses', m.id < n.id, m \notin Responses PROVE FALSE
      BY Zenon
    <3>1. m.id = nextId
      BY ZenonT(40), <1>3, <2>1 DEF Responses
    <3>2. n \in Responses => n.id \in Nat /\ n.id < nextId
      BY DEF StoreInv, Responses, Messages
    <3>3. n \notin Responses => n.id = nextId
      BY Zenon, <1>3, <2>1 DEF Responses
    <3> QED BY SMTT(30), <1>2, <3>1, <3>2, <3>3
  <2>6. CASE /\ Op = "retry" /\ Waiting(Actor) /\ HandlerOver /\ AllForgotten
             /\ phase[Actor] = "wait" /\ call[Actor].op = "retry"
    <3>1. \A m, n \in Responses' : m.id < n.id => Superseded(m, n)'
      BY Zenon, <1>1, <2>5, <2>6 DEF AllForgotten, Superseded
    <3>2. made'[Actor] # {}
      BY ZenonT(40), <1>4, <2>2, <2>6
    <3>3. \A k \in DOMAIN todo : todo[k].op # "retry"
      BY <1>2, <2>6 DEF AnswerInv
    <3>4. \A k \in DOMAIN todo : Left(todo[k])
      BY ZenonT(40), <1>2 DEF AnswerInv
    <3>5. call'[Actor].op # "replay" /\ call'[Actor].op # "interrupted"
      BY <1>1, <2>6
    <3> QED BY ZenonT(40), <1>1, <2>1, <2>6, <3>1, <3>2, <3>3, <3>4, <3>5 DEF AnswerInv
  <2>7. CASE /\ Op = "interrupted" /\ HandlerOver /\ Unrecorded
             /\ phase[Actor] = "wait" /\ call[Actor].op = "interrupted"
    <3>1. ASSUME NEW m \in Responses', NEW n \in Responses', m.id < n.id PROVE Superseded(m, n)'
      <4>1. m \in Responses
        BY Zenon, <2>5, <3>1
      <4>2. CASE n \in Responses
        BY ZenonT(40), <1>2, <2>1, <3>1, <4>1, <4>2 DEF AnswerInv
      <4>3. CASE n \notin Responses
        <5>1. n.kind = "interrupted"
          BY ZenonT(40), <1>3, <2>1, <2>7, <4>3 DEF Responses
        <5> QED BY Zenon, <2>1, <2>7, <5>1 DEF Superseded
      <4> QED BY Zenon, <4>2, <4>3
    <3>2. \A k \in DOMAIN todo : todo[k].op # "retry"
      BY Zenon, <1>2, <2>7 DEF AnswerInv
    <3>3. \A k \in DOMAIN todo : Left(todo[k])
      BY Zenon, <1>2 DEF AnswerInv
    <3>4. call'[Actor].op # "replay" /\ call'[Actor].op # "retry"
      BY Zenon, <1>1, <2>7
    <3> QED BY ZenonT(40), <1>1, <2>1, <2>7, <3>1, <3>2, <3>3, <3>4 DEF AnswerInv
  <2> QED BY ZenonT(40), <1>1, <2>3, <2>4, <2>6, <2>7, ResponseIsDue
<1> QED BY ZenonT(40), <1>7, <1>8, <1>10, <1>11, <1>12 DEF HandInv


-----------------------------------------------------------------------------
(* Numbers, ids and the store *)

\* A set that misses an element of another one has fewer elements.
LEMMA Fewer ==
  ASSUME NEW S, IsFiniteSet(S), NEW T, T \subseteq S, NEW x \in S, x \notin T
  PROVE  Cardinality(T) \in Nat /\ Cardinality(S) \in Nat /\ Cardinality(T) < Cardinality(S)
<1>1. IsFiniteSet(T) /\ T \cup {x} \subseteq S
  BY Zenon, FS_Subset
<1>2. /\ IsFiniteSet(T \cup {x}) /\ Cardinality(T \cup {x}) = Cardinality(T) + 1
      /\ Cardinality(T) \in Nat /\ Cardinality(S) \in Nat
  BY Zenon, <1>1, FS_AddElement, FS_CardinalityType
<1>3. Cardinality(T \cup {x}) <= Cardinality(S)
  BY Zenon, <1>1, FS_Subset
<1> QED BY <1>2, <1>3

\* nextSequenceNo counts: a content-related message moves the numbers after it on.
LEMMA ContentFacts ==
  ASSUME NEW k \in Nat
  PROVE  /\ ContentBefore(k) \in Nat
         /\ \A j \in 1..(k - 1) : ContentRelated(Kind(j)) => ContentBefore(j) < ContentBefore(k)
<1> DEFINE C(n) == {j \in 1..(n - 1) : ContentRelated(Kind(j))}
<1>1. \A n \in Nat : n - 1 \in Int
  OBVIOUS
<1>2. IsFiniteSet(C(k)) /\ ContentBefore(k) = Cardinality(C(k))
  <2>1. IsFiniteSet(1..(k - 1)) /\ C(k) \subseteq 1..(k - 1)
    BY FS_Interval, <1>1
  <2> QED BY Zenon, <2>1, FS_Subset DEF ContentBefore
<1>3. ASSUME NEW j \in 1..(k - 1), ContentRelated(Kind(j)) PROVE ContentBefore(j) < ContentBefore(k)
  <2>1. \A i \in 1..(j - 1) : i \in 1..(k - 1)
    OBVIOUS
  <2>2. j \notin 1..(j - 1)
    OBVIOUS
  <2>3. C(j) \subseteq C(k) /\ j \in C(k) /\ j \notin C(j)
    BY Zenon, <1>3, <2>1, <2>2
  <2>4. Cardinality(C(j)) < Cardinality(C(k))
    BY Zenon, <1>2, <2>3, Fewer
  <2> QED BY Zenon, <2>4 DEF ContentBefore
<1>4. ContentBefore(k) \in Nat
  BY Zenon, <1>2, FS_CardinalityType
<1> QED BY Zenon, <1>3, <1>4

\* Content numbers are odd, the others even.
LEMMA Parity ==
  ASSUME NEW a \in Nat
  PROVE  (2 * a + 1) % 2 = 1 /\ (2 * a) % 2 = 0
OBVIOUS

\* The messages of a frame have fresh ids, and odd numbers between the stored one
\* and the one saved for the next frame, each of them once.
LEMMA Numbering ==
  ASSUME Types, HeldInv, nextSeq \in Nat, nextId \in Nat \ {0}, Preparing
  PROVE  /\ NewFrame \subseteq Messages /\ IsFiniteSet(NewFrame)
         /\ Places \in Nat \ {0} /\ NewSeq \in Nat /\ NewSeq >= nextSeq
         /\ \A m \in NewFrame : m.id >= nextId /\ m.id < nextId + Places
         /\ \A m \in NewFrame : m.seq % 2 = 1 => m.seq > 2 * nextSeq /\ m.seq < 2 * NewSeq
         /\ \A m, n \in NewFrame : m.id = n.id \/ (m.seq % 2 = 1 /\ m.seq = n.seq) => m = n
<1>1. Places \in Nat \ {0} /\ \A k \in 1..Places : Kind(k) \in Ops
  BY Zenon, ItemsFacts
<1>2. ASSUME NEW k \in 1..Places
      PROVE  /\ k \in Nat \ {0} /\ k <= Places /\ ContentBefore(k) \in Nat
             /\ SequenceNo(k) \in Nat
             /\ SequenceNo(k) % 2 = 1 => ContentRelated(Kind(k)) /\ SequenceNo(k) = 2 * (nextSeq + ContentBefore(k)) + 1
  <2>1. k \in Nat \ {0} /\ k <= Places
    BY <1>1
  <2>2. PICK a : a = nextSeq + ContentBefore(k)
    BY Zenon
  <2>3. ContentBefore(k) \in Nat
    BY <2>1, ContentFacts
  <2>4. a \in Nat /\ 2 * a \in Nat /\ 2 * a + 1 \in Nat
    BY <2>2, <2>3
  <2>5. SequenceNo(k) = IF ContentRelated(Kind(k)) THEN 2 * a + 1 ELSE 2 * a
    BY Zenon, <2>2 DEF SequenceNo
  <2>6. (2 * a) % 2 = 0 /\ 0 # 1
    BY <2>4, Parity
  <2>7. SequenceNo(k) \in Nat /\ (SequenceNo(k) % 2 = 1 => ContentRelated(Kind(k)))
    BY ZenonT(40), <2>4, <2>5, <2>6
  <2> QED BY ZenonT(40), <2>1, <2>2, <2>3, <2>5, <2>7
<1>3. \A k \in 1..Places : /\ Message(k).id = nextId + k - 1 /\ Message(k).seq = SequenceNo(k)
                           /\ Message(k).id \in Nat /\ Message(k).id >= nextId /\ Message(k).id < nextId + Places
                           /\ Message(k) \in Messages
  <2> SUFFICES ASSUME NEW k \in 1..Places
               PROVE  /\ Message(k).id = nextId + k - 1 /\ Message(k).seq = SequenceNo(k)
                      /\ Message(k).id \in Nat /\ Message(k).id >= nextId /\ Message(k).id < nextId + Places
                      /\ Message(k) \in Messages
    OBVIOUS
  <2>1. nextId + k - 1 \in Nat /\ nextId + k - 1 >= nextId /\ nextId + k - 1 < nextId + Places
    BY <1>1
  <2>2. SequenceNo(k) \in Nat /\ Kind(k) \in Ops
    BY ZenonT(40), <1>1, <1>2
  <2>3. Message(k) \in Messages
    BY Zenon, <2>1, <2>2 DEF Message, Messages
  <2> QED BY ZenonT(40), <2>1, <2>3 DEF Message
<1>4. ASSUME NEW j \in 1..Places, NEW k \in 1..Places, j < k, SequenceNo(j) % 2 = 1, SequenceNo(k) % 2 = 1
      PROVE  SequenceNo(j) # SequenceNo(k)
  <2>1. j \in 1..(k - 1)
    BY <1>2, <1>4
  <2>2. ContentBefore(j) < ContentBefore(k)
    BY Zenon, <1>2, <1>4, <2>1, ContentFacts
  <2>3. /\ ContentBefore(j) \in Nat /\ SequenceNo(j) = 2 * (nextSeq + ContentBefore(j)) + 1
        /\ ContentBefore(k) \in Nat /\ SequenceNo(k) = 2 * (nextSeq + ContentBefore(k)) + 1
    BY Zenon, <1>2, <1>4
  <2> QED BY SMTT(30), <2>2, <2>3
<1>5. ContentBefore(Places + 1) \in Nat
  BY <1>1, ContentFacts
<1>6. NewSeq \in Nat /\ NewSeq >= nextSeq
  BY SMTT(30), <1>5 DEF NewSeq
<1>7. ASSUME NEW k \in 1..Places, SequenceNo(k) % 2 = 1 PROVE SequenceNo(k) > 2 * nextSeq /\ SequenceNo(k) < 2 * NewSeq
  <2>1. k \in 1..((Places + 1) - 1) /\ Places + 1 \in Nat
    BY <1>1
  <2>2. ContentBefore(k) < ContentBefore(Places + 1)
    BY Zenon, <1>2, <1>7, <2>1, ContentFacts
  <2>3. ContentBefore(k) \in Nat /\ SequenceNo(k) = 2 * (nextSeq + ContentBefore(k)) + 1
    BY Zenon, <1>2, <1>7
  <2> QED BY SMTT(30), <1>5, <2>2, <2>3 DEF NewSeq
<1>8. IsFiniteSet(NewFrame)
  <2> DEFINE f == [k \in 1..Places |-> Message(k)]
  <2>1. f \in [1..Places -> NewFrame] /\ \A m \in NewFrame : \E k \in 1..Places : f[k] = m
    BY Zenon DEF NewFrame
  <2>2. f \in Surjection(1..Places, NewFrame)
    BY Zenon, <2>1 DEF Surjection
  <2>3. IsFiniteSet(1..Places)
    BY SMTT(30), <1>1, FS_Interval
  <2> QED BY Zenon, <2>2, <2>3, FS_Surjection
<1>9. ASSUME NEW m \in NewFrame, NEW n \in NewFrame, m.id = n.id \/ (m.seq % 2 = 1 /\ m.seq = n.seq)
      PROVE  m = n
  <2>1. PICK j \in 1..Places : m = Message(j)
    BY Zenon DEF NewFrame
  <2>2. PICK k \in 1..Places : n = Message(k)
    BY Zenon DEF NewFrame
  <2>3. /\ m.id = nextId + j - 1 /\ n.id = nextId + k - 1 /\ m.seq = SequenceNo(j) /\ n.seq = SequenceNo(k)
    BY Zenon, <1>3, <2>1, <2>2
  <2>4. j \in Nat /\ k \in Nat
    BY <1>1
  <2>5. ~(j < k) /\ ~(k < j)
    <3>1. CASE m.id = n.id
      BY SMTT(30), <2>3, <2>4, <3>1
    <3>2. CASE m.seq % 2 = 1 /\ m.seq = n.seq
      BY ZenonT(40), <1>4, <2>3, <3>2
    <3> QED BY ZenonT(40), <1>9, <3>1, <3>2
  <2>6. j = k
    BY <2>4, <2>5
  <2> QED BY Zenon, <2>1, <2>2, <2>6
<1>10. ASSUME NEW m \in NewFrame
       PROVE  /\ m \in Messages /\ m.id >= nextId /\ m.id < nextId + Places
              /\ m.seq % 2 = 1 => m.seq > 2 * nextSeq /\ m.seq < 2 * NewSeq
  <2>1. PICK k \in 1..Places : m = Message(k)
    BY Zenon DEF NewFrame
  <2> QED BY Zenon, <1>3, <1>7, <2>1
<1> QED BY ZenonT(40), <1>1, <1>6, <1>8, <1>9, <1>10

\* Every message that Latest keeps has its own number of later ones below Capacity.
LEMMA LatestBounded ==
  ASSUME NEW S, IsFiniteSet(S), \A m \in S : m.id \in Nat, \A m, n \in S : m.id = n.id => m = n
  PROVE  Cardinality(Latest(S)) <= Capacity
<1> DEFINE L == Latest(S)
           Later(m) == {n \in S : n.id > m.id}
           f == [m \in L |-> Cardinality(Later(m))]
<1>1. L \subseteq S /\ \A m \in L : Cardinality(Later(m)) < Capacity
  BY Zenon DEF Latest
<1>2. \A m \in S : IsFiniteSet(Later(m)) /\ Cardinality(Later(m)) \in Nat
  BY Zenon, FS_Subset, FS_CardinalityType
<1>3. f \in [L -> 0..(Capacity - 1)]
  <2>1. \A m \in L : Cardinality(Later(m)) \in 0..(Capacity - 1)
    <3> SUFFICES ASSUME NEW m \in L PROVE Cardinality(Later(m)) \in 0..(Capacity - 1)
      OBVIOUS
    <3>1. Cardinality(Later(m)) \in Nat /\ Cardinality(Later(m)) < Capacity
      BY Zenon, <1>1, <1>2
    <3> HIDE DEF Later
    <3> QED BY SMTT(30), <3>1, WriterAssumption
  <2> QED BY Zenon, <2>1
<1>4. ASSUME NEW m \in L, NEW n \in L, m.id < n.id PROVE f[m] # f[n]
  <2>1. m \in S /\ n \in S /\ m.id \in Nat /\ n.id \in Nat
    BY Zenon, <1>1
  <2>2. \A p \in Later(n) : p \in Later(m)
    <3> SUFFICES ASSUME NEW p \in S, p.id > n.id PROVE p.id > m.id
      BY Zenon
    <3> QED BY <1>4, <2>1
  <2>3. n \in Later(m) /\ n \notin Later(n)
    BY <1>4, <2>1
  <2>4. /\ Cardinality(Later(n)) \in Nat /\ Cardinality(Later(m)) \in Nat
        /\ Cardinality(Later(n)) < Cardinality(Later(m))
    <3>1. IsFiniteSet(Later(m)) /\ Later(n) \subseteq Later(m)
      BY Zenon, <1>2, <2>1, <2>2
    <3> HIDE DEF Later
    <3> QED BY Zenon, <2>3, <3>1, Fewer
  <2>5. f[m] = Cardinality(Later(m)) /\ f[n] = Cardinality(Later(n))
    BY Zenon
  <2> HIDE DEF f, Later
  <2> QED BY <2>4, <2>5
<1>5. \A m, n \in L : f[m] = f[n] => m = n
  <2> SUFFICES ASSUME NEW m \in L, NEW n \in L, f[m] = f[n] PROVE m = n
    BY Zenon
  <2>1. m \in S /\ n \in S
    BY Zenon, <1>1
  <2>2. ~(m.id < n.id) /\ ~(n.id < m.id)
    BY Zenon, <1>4
  <2>3. m.id \in Nat /\ n.id \in Nat
    BY Zenon, <2>1
  <2>4. m.id = n.id
    BY <2>2, <2>3
  <2> QED BY Zenon, <2>1, <2>4
<1>6. f \in Injection(L, 0..(Capacity - 1))
  <2>1. DOMAIN f = L
    BY ZenonT(40)
  <2> HIDE DEF f, L
  <2> QED BY Zenon, <1>3, <1>5, <2>1 DEF Injection, IsInjective
<1>7. IsFiniteSet(0..(Capacity - 1)) /\ Cardinality(0..(Capacity - 1)) = Capacity
  BY SMTT(30), FS_Interval, WriterAssumption
<1>8. Cardinality(L) <= Cardinality(0..(Capacity - 1))
  <2> HIDE DEF f, L
  <2> QED BY ZenonT(40), <1>6, <1>7, FS_Injection DEF ExistsInjection
<1> QED BY Zenon, <1>7, <1>8

\* Steps that prepare nothing: the store may forget, the numbers may move on.
LEMMA StoreGoesOn ==
  ASSUME StoreInv, nextId' = nextId, prepared' = prepared, nextSeq' \in Nat, nextSeq' >= nextSeq,
         wire' \subseteq prepared, forgotten \subseteq forgotten', retained' \subseteq retained,
         \A m \in retained : m \in retained' \/ m.id \in forgotten'
  PROVE  StoreInv'
<1>1. /\ nextSeq \in Nat /\ nextId \in Nat \ {0} /\ prepared \subseteq Messages /\ IsFiniteSet(prepared)
      /\ retained \subseteq prepared /\ Cardinality(retained) <= Capacity
  BY Zenon DEF StoreInv
<1>2. IsFiniteSet(retained)
  BY Zenon, <1>1, FS_Subset
<1>3. /\ Cardinality(retained') <= Cardinality(retained) /\ Cardinality(retained') \in Nat
      /\ Cardinality(retained) \in Nat
  BY ZenonT(40), <1>2, FS_Subset, FS_CardinalityType
<1>4. Cardinality(retained') <= Capacity
  BY SMTT(30), <1>1, <1>3, WriterAssumption
<1>5. \A m \in prepared : m.seq \in Nat
  BY <1>1 DEF Messages
<1>6. \A m \in prepared : m.seq % 2 = 1 => m.seq < 2 * nextSeq'
  <2> SUFFICES ASSUME NEW m \in prepared, m.seq % 2 = 1 PROVE m.seq < 2 * nextSeq'
    BY Zenon
  <2>1. m.seq < 2 * nextSeq /\ m.seq \in Nat
    BY Zenon, <1>5 DEF StoreInv
  <2> QED BY <1>1, <2>1
<1>7. \A m \in prepared : m.id < nextId /\ (m \in retained' \/ m.id \in forgotten')
  BY Zenon DEF StoreInv
<1>8. \A m, n \in prepared : m.id = n.id \/ (m.seq % 2 = 1 /\ m.seq = n.seq) => m = n
  BY Zenon DEF StoreInv
<1>9. retained' \subseteq prepared
  BY Zenon, <1>1
<1> QED BY ZenonT(40), <1>1, <1>4, <1>6, <1>7, <1>8, <1>9 DEF StoreInv

\* A frame is saved: its messages displace the oldest ones.
LEMMA SaveStore ==
  ASSUME HandInv, StoreInv, Save
  PROVE  StoreInv'
<1>1. PICK F : F = NewFrame
  BY Zenon
<1>2. PICK R : R = retained \cup F
  BY Zenon
<1>3. /\ Preparing /\ prepared' = prepared \cup F /\ nextId' = nextId + Places /\ nextSeq' = NewSeq /\ wire' = wire
      /\ retained' = Latest(R) /\ forgotten' = forgotten \cup MessageIds(R \ Latest(R))
  BY Zenon, <1>1, <1>2 DEF Save, Processing, Preparing, Prepare, Retain, Put
<1>4. /\ nextSeq \in Nat /\ nextId \in Nat \ {0} /\ prepared \subseteq Messages /\ IsFiniteSet(prepared)
      /\ retained \subseteq prepared /\ wire \subseteq prepared
  BY Zenon DEF StoreInv
<1>5. /\ F \subseteq Messages /\ IsFiniteSet(F)
      /\ Places \in Nat \ {0} /\ NewSeq \in Nat /\ NewSeq >= nextSeq
      /\ \A m \in F : m.id >= nextId /\ m.id < nextId + Places
      /\ \A m \in F : m.seq % 2 = 1 => m.seq > 2 * nextSeq /\ m.seq < 2 * NewSeq
      /\ \A m, n \in F : m.id = n.id \/ (m.seq % 2 = 1 /\ m.seq = n.seq) => m = n
  BY ZenonT(40), <1>1, <1>3, <1>4, Numbering DEF HandInv
<1>6. \A m \in Messages : m.id \in Nat /\ m.seq \in Nat
  BY DEF Messages
<1>7. ASSUME NEW m \in prepared, NEW n \in F
      PROVE  m.id # n.id /\ ~(m.seq % 2 = 1 /\ m.seq = n.seq)
  <2>1. m.id \in Nat /\ n.id \in Nat /\ m.seq \in Nat /\ n.seq \in Nat
    BY ZenonT(40), <1>4, <1>5, <1>6
  <2>2. m.id < nextId /\ n.id >= nextId
    BY Zenon, <1>5 DEF StoreInv
  <2>3. m.seq % 2 = 1 => m.seq < 2 * nextSeq
    BY Zenon DEF StoreInv
  <2>4. n.seq % 2 = 1 => n.seq > 2 * nextSeq
    BY Zenon, <1>5
  <2> QED BY SMTT(30), <1>4, <2>1, <2>2, <2>3, <2>4
<1>8. \A m, n \in prepared' : m.id = n.id \/ (m.seq % 2 = 1 /\ m.seq = n.seq) => m = n
  <2>1. \A m, n \in prepared : m.id = n.id \/ (m.seq % 2 = 1 /\ m.seq = n.seq) => m = n
    BY Zenon DEF StoreInv
  <2> SUFFICES ASSUME NEW m \in prepared \cup F, NEW n \in prepared \cup F,
                      m.id = n.id \/ (m.seq % 2 = 1 /\ m.seq = n.seq)
               PROVE  m = n
    BY Zenon, <1>3
  <2>2. CASE m \in prepared /\ n \in prepared
    BY ZenonT(40), <2>1, <2>2
  <2>3. CASE m \in F /\ n \in F
    BY ZenonT(40), <1>5, <2>3
  <2>4. CASE m \in prepared /\ n \in F
    BY Zenon, <1>7, <2>4
  <2>5. CASE m \in F /\ n \in prepared
    <3>1. n.id # m.id /\ ~(n.seq % 2 = 1 /\ n.seq = m.seq)
      BY Zenon, <1>7, <2>5
    <3> QED BY Zenon, <3>1
  <2> QED BY ZenonT(40), <2>2, <2>3, <2>4, <2>5
<1>9. ASSUME NEW m \in prepared'
      PROVE  m.id < nextId' /\ (m.seq % 2 = 1 => m.seq < 2 * nextSeq')
  <2>1. CASE m \in prepared
    <3>1. m.id < nextId /\ (m.seq % 2 = 1 => m.seq < 2 * nextSeq) /\ m.id \in Nat /\ m.seq \in Nat
      BY Zenon, <1>4, <1>6, <2>1 DEF StoreInv
    <3> QED BY SMTT(30), <1>3, <1>4, <1>5, <3>1
  <2>2. CASE m \in F
    BY Zenon, <1>3, <1>5, <2>2
  <2> QED BY ZenonT(40), <1>3, <1>9, <2>1, <2>2
<1>10. R \subseteq prepared' /\ prepared' \subseteq Messages /\ IsFiniteSet(prepared') /\ IsFiniteSet(R)
  <2>1. R \subseteq prepared' /\ prepared' \subseteq Messages
    BY ZenonT(40), <1>2, <1>3, <1>4, <1>5
  <2>2. IsFiniteSet(prepared')
    BY ZenonT(40), <1>3, <1>4, <1>5, FS_Union
  <2> QED BY Zenon, <2>1, <2>2, FS_Subset
<1>11. Cardinality(retained') <= Capacity
  <2>1. \A m \in R : m.id \in Nat
    BY Zenon, <1>6, <1>10
  <2>2. \A m, n \in R : m.id = n.id => m = n
    BY Zenon, <1>8, <1>10
  <2> QED BY ZenonT(40), <1>3, <1>10, <2>1, <2>2, LatestBounded
<1>12. ASSUME NEW m \in prepared' PROVE m \in retained' \/ m.id \in forgotten'
  <2>1. m \in R \/ m.id \in forgotten
    BY ZenonT(40), <1>2, <1>3, <1>12 DEF StoreInv
  <2>2. m \in R => m \in retained' \/ m.id \in MessageIds(R \ Latest(R))
    BY Zenon, <1>3 DEF MessageIds
  <2> QED BY Zenon, <1>3, <2>1, <2>2
<1>13. retained' \subseteq prepared' /\ wire' \subseteq prepared'
  BY ZenonT(40), <1>3, <1>4, <1>10 DEF Latest
<1>14. nextSeq' \in Nat /\ nextId' \in Nat \ {0}
  BY SMTT(30), <1>3, <1>4, <1>5
<1> QED BY ZenonT(40), <1>8, <1>9, <1>10, <1>11, <1>12, <1>13, <1>14 DEF StoreInv

\* Calls, and everything that is not about messages, leave the store alone.
LEMMA StoreUnchanged ==
  ASSUME StoreInv, UNCHANGED storeVars
  PROVE  StoreInv'
<1>1. /\ nextSeq' = nextSeq /\ nextId' = nextId /\ prepared' = prepared /\ retained' = retained
      /\ forgotten' = forgotten /\ wire' = wire
  BY Zenon DEF storeVars
<1> QED BY Zenon, <1>1 DEF StoreInv

\* No caller touches the store.
LEMMA CallersStore ==
  ASSUME \/ \E p \in Pushers, ctx \in Contexts : Push(p, ctx)
         \/ Answer \/ AckMessage \/ ResendMessage \/ ReplayRequest \/ ReplayAlone \/ CloseSession \/ ActorCall
         \/ \E c \in Callers : Received(c) \/ Ended(c) \/ GiveUp(c)
         \/ \E ctx \in AllContexts : CancelContext(ctx)
  PROVE  UNCHANGED storeVars
<1>1. \A c, r : Enter(c, r) => UNCHANGED storeVars
  BY Zenon DEF Enter, storeVars
<1>2. \A calls : Handle(calls) => UNCHANGED storeVars
  BY Zenon, <1>1 DEF Handle
<1>3. \A c, r : Return(c, r) => UNCHANGED storeVars
  BY Zenon DEF Return
<1>4. \A c : Receive(c) => UNCHANGED storeVars
  BY Zenon DEF Receive
<1>5. CASE \E p \in Pushers, ctx \in Contexts : Push(p, ctx)
  BY Zenon, <1>1, <1>5 DEF Push
<1>6. CASE Answer \/ ActorCall
  BY Zenon, <1>1, <1>6 DEF Answer, ActorCall
<1>7. CASE AckMessage \/ ResendMessage \/ ReplayRequest \/ ReplayAlone \/ CloseSession
  BY Zenon, <1>2, <1>7 DEF AckMessage, ResendMessage, ReplayRequest, ReplayAlone, CloseSession
<1>8. CASE \E c \in Callers : Received(c)
  BY Zenon, <1>4, <1>8 DEF Received, Take, Collect
<1>9. CASE \E c \in Callers : Ended(c) \/ GiveUp(c)
  BY Zenon, <1>3, <1>9 DEF Ended, GetReply, SeeClosed, GiveUp
<1>10. CASE \E ctx \in AllContexts : CancelContext(ctx)
  BY Zenon, <1>10 DEF CancelContext
<1> QED BY ZenonT(40), <1>5, <1>6, <1>7, <1>8, <1>9, <1>10

\* What is written was prepared; what expires is forgotten.
LEMMA WriterStore ==
  ASSUME HandInv, StoreInv, WriterStep \/ LeaseEnds \/ NextOwner \/ Expire \/ LedgerForgets
  PROVE  StoreInv'
<1>0. nextSeq \in Nat /\ wire \subseteq prepared
  BY Zenon DEF StoreInv
<1>1. nextSeq >= nextSeq
  BY <1>0
<1>2. CASE TakePending \/ ProcessCancelled \/ Inspect \/ ProcessClose \/ Stop \/ LeaseEnds \/ NextOwner \/ LedgerForgets
  <2>1. UNCHANGED storeVars
    BY Zenon, <1>2 DEF TakePending, ProcessCancelled, Inspect, ProcessClose, Stop, LeaseEnds, NextOwner, LedgerForgets
  <2> QED BY Zenon, <2>1, StoreUnchanged
<1>3. CASE Acknowledge
  <2>1. /\ nextSeq' = nextSeq /\ nextId' = nextId /\ prepared' = prepared /\ retained' = retained
        /\ forgotten' = forgotten /\ wire' = wire
    BY Zenon, <1>3 DEF Acknowledge
  <2> QED BY Zenon, <2>1 DEF StoreInv
<1>4. CASE Save
  BY Zenon, <1>4, SaveStore
<1>5. ASSUME NEW saved \in BOOLEAN, SaveFails(saved) PROVE StoreInv'
  <2>1. /\ Preparing /\ nextSeq' = IF saved THEN NewSeq ELSE nextSeq
        /\ nextId' = nextId /\ prepared' = prepared /\ retained' = retained
        /\ forgotten' = forgotten /\ wire' = wire
    BY Zenon, <1>5 DEF SaveFails, Processing, Preparing
  <2>2. NewSeq \in Nat /\ NewSeq >= nextSeq
    BY Zenon, <2>1, Numbering DEF HandInv, StoreInv
  <2>3. nextSeq' \in Nat /\ nextSeq' >= nextSeq
    BY ZenonT(40), <1>0, <1>1, <2>1, <2>2
  <2> QED BY ZenonT(40), <1>0, <2>1, <2>3, StoreGoesOn
<1>6. ASSUME nextSeq' = nextSeq, nextId' = nextId, prepared' = prepared, retained' = retained,
             forgotten' = forgotten, wire' \subseteq prepared
      PROVE  StoreInv'
  BY ZenonT(40), <1>0, <1>1, <1>6, StoreGoesOn
<1>7. \A f, ok, arrives : WriteFrame(f, ok, arrives) => wire' \subseteq prepared
  BY Zenon, <1>0 DEF WriteFrame
<1>8. ASSUME NEW ok \in BOOLEAN, NEW arrives \in BOOLEAN,
             ReplayResponse(ok, arrives) \/ Write(ok, arrives) \/ \E i \in 1..(nextId - 1) : ResendOne(i, ok, arrives)
      PROVE  StoreInv'
  <2>1. CASE ReplayResponse(ok, arrives)
    <3>1. wire' \subseteq prepared
      BY Zenon, <1>0, <1>7, <2>1 DEF ReplayResponse
    <3> QED BY Zenon, <1>6, <2>1, <3>1 DEF ReplayResponse
  <2>2. CASE Write(ok, arrives)
    BY ZenonT(40), <1>6, <1>7, <2>2 DEF Write
  <2>3. ASSUME NEW i, ResendOne(i, ok, arrives) PROVE StoreInv'
    <3>1. wire' \subseteq prepared
      BY ZenonT(40), <1>0, <1>7, <2>3 DEF ResendOne
    <3> QED BY ZenonT(40), <1>6, <2>3, <3>1 DEF ResendOne
  <2> QED BY ZenonT(40), <1>8, <2>1, <2>2, <2>3
<1>9. CASE Expire
  <2>1. PICK old : old = {m \in retained : m.frame = Oldest(retained).frame}
    BY Zenon
  <2>2. /\ nextSeq' = nextSeq /\ nextId' = nextId /\ prepared' = prepared /\ wire' = wire
        /\ retained' = retained \ old /\ forgotten' = forgotten \cup MessageIds(old)
    BY Zenon, <1>9, <2>1 DEF Expire
  <2>3. /\ forgotten \subseteq forgotten' /\ retained' \subseteq retained
        /\ \A m \in retained : m \in retained' \/ m.id \in forgotten'
    BY Zenon, <2>2 DEF MessageIds
  <2> QED BY ZenonT(40), <1>0, <1>1, <2>2, <2>3, StoreGoesOn
<1> QED BY ZenonT(40), <1>2, <1>3, <1>4, <1>5, <1>8, <1>9 DEF WriterStep, ProcessStep

-----------------------------------------------------------------------------
(* The inductive invariant *)

\* The session starts with an idle writer and an empty store.
LEMMA InitWriter == Init => WriterInv
<1> SUFFICES ASSUME Init PROVE WriterInv
  OBVIOUS
<1>1. /\ phase = [c \in Callers |-> "idle"] /\ call = [c \in Callers |-> NoCall]
      /\ reply = [c \in Callers |-> "none"] /\ made = [c \in Callers |-> {}]
      /\ todo = <<>> /\ cancelled = {} /\ pc = "run" /\ batch = <<>> /\ pending = NoCall
      /\ nextSeq = 0 /\ nextId = 1 /\ prepared = {} /\ retained = {} /\ wire = {} /\ owner = 1
  BY Zenon DEF Init
<1>2. batch \in Seq(Calls) /\ Len(batch) = 0 /\ DOMAIN batch = {} /\ todo \in Seq(Calls) /\ DOMAIN todo = {}
  BY <1>1
<1>3. \A c \in Callers : phase[c] = "idle" /\ call[c] = NoCall /\ reply[c] = "none" /\ made[c] = {}
  BY ZenonT(40), <1>1
<1>4. Types
  BY SMTT(30), <1>1, <1>2, Names DEF Types
<1>5. CallInv
  BY <1>3 DEF CallInv
<1>6. Submitters = {} /\ \A b : ~InHand(b)
  BY ZenonT(40), <1>1, <1>2 DEF Submitters, InHand
<1>7. HeldInv
  BY SMTT(30), <1>1, <1>2, <1>6 DEF HeldInv
<1>8. ReplyInv
  BY Zenon, <1>1, <1>3 DEF ReplyInv
<1>9. IsFiniteSet({}) /\ Cardinality({}) = 0
  BY ZenonT(40), FS_EmptySet
<1>10. StoreInv
  BY SMTT(30), <1>1, <1>9, WriterAssumption DEF StoreInv
<1>11. AnswerInv
  BY ZenonT(40), <1>1, <1>2, <1>3, Names DEF AnswerInv, Responses
<1> QED BY ZenonT(40), <1>4, <1>5, <1>7, <1>8, <1>10, <1>11 DEF WriterInv

\* The callers' steps keep what is known of requests, responses and answers.
LEMMA CallersKeep ==
  ASSUME HandInv, StoreInv,
         \/ \E p \in Pushers, ctx \in Contexts : Push(p, ctx)
         \/ Answer \/ AckMessage \/ ResendMessage \/ ReplayRequest \/ ReplayAlone \/ CloseSession \/ ActorCall
         \/ \E c \in Callers : Received(c) \/ Ended(c) \/ GiveUp(c)
         \/ \E ctx \in AllContexts : CancelContext(ctx)
  PROVE  HandInv'
<1>1. CASE \E p \in Pushers, ctx \in Contexts : Push(p, ctx)
  BY Zenon, <1>1, PushKeeps
<1>2. CASE Answer
  BY Zenon, <1>2, AnswerKeeps
<1>3. CASE AckMessage \/ CloseSession
  BY Zenon, <1>3, ControlKeeps
<1>4. CASE ResendMessage
  BY Zenon, <1>4, ResendKeeps
<1>5. CASE ReplayRequest \/ ReplayAlone
  BY ZenonT(40), <1>5, ReplayRequestKeeps, ReplayAloneKeeps
<1>6. CASE ActorCall
  BY Zenon, <1>6, ActorCallKeeps
<1>7. CASE \E c \in Callers : Received(c)
  BY ZenonT(40), <1>7, TakeKeeps, CollectKeeps DEF Received
<1>8. ASSUME NEW c \in Callers, Ended(c) \/ GiveUp(c) PROVE HandInv'
  <2>1. CASE GetReply(c)
    <3>1. phase[c] = "wait" /\ reply[c] # "none" /\ Return(c, reply[c])
      BY Zenon, <2>1 DEF GetReply
    <3>2. PICK result : result = reply[c]
      BY Zenon
    <3>3. Return(c, result) /\ Cause(c, result)
      BY ZenonT(40), <3>1, <3>2 DEF Cause
    <3>4. phase[c] \in {"offer", "wait"}
      BY Zenon, <3>1
    <3> QED BY Zenon, <3>3, <3>4, ReturnKeeps
  <2>2. CASE GiveUp(c)
    <3>1. phase[c] \in {"offer", "wait"} /\ Return(c, "cancelled") /\ Cause(c, "cancelled")
      BY Zenon, <2>2 DEF GiveUp, Cause
    <3> QED BY Zenon, <3>1, ReturnKeeps
  <2>3. CASE SeeClosed(c)
    <3>1. phase[c] \in {"offer", "wait"} /\ Return(c, "closed") /\ Cause(c, "closed")
      BY Zenon, <2>3 DEF SeeClosed, Cause
    <3> QED BY Zenon, <3>1, ReturnKeeps
  <2> QED BY ZenonT(40), <1>8, <2>1, <2>2, <2>3 DEF Ended
<1>9. CASE \E ctx \in AllContexts : CancelContext(ctx)
  BY Zenon, <1>9, CancelKeeps
<1> QED BY ZenonT(40), <1>1, <1>2, <1>3, <1>4, <1>5, <1>6, <1>7, <1>8, <1>9

\* So do the writer's, and the end of the lease, of the session and of messages.
LEMMA WriterKeeps ==
  ASSUME HandInv, StoreInv, WriterStep \/ LeaseEnds \/ NextOwner \/ Expire \/ LedgerForgets
  PROVE  HandInv'
<1>1. CASE TakePending
  BY Zenon, <1>1, TakePendingKeeps
<1>2. CASE ProcessCancelled \/ Acknowledge \/ Inspect \/ ProcessClose
  BY Zenon, <1>2, CommandKeeps
<1>3. CASE Save
  BY Zenon, <1>3, SaveKeeps
<1>4. CASE \E saved \in BOOLEAN : SaveFails(saved)
  BY Zenon, <1>4, FrameKeeps
<1>5. ASSUME NEW ok \in BOOLEAN, NEW arrives \in BOOLEAN,
             ReplayResponse(ok, arrives) \/ Write(ok, arrives) \/ \E i \in 1..(nextId - 1) : ResendOne(i, ok, arrives)
      PROVE  HandInv'
  BY ZenonT(40), <1>5, ReplayResponseKeeps, FrameKeeps, ResendOneKeeps
<1>6. CASE Stop
  BY Zenon, <1>6, StopKeeps
<1>7. CASE LeaseEnds \/ Expire \/ LedgerForgets
  <2>1. /\ forgotten \subseteq forgotten'
        /\ UNCHANGED <<phase, call, reply, made, todo, cancelled, pc, batch, pending, frame, prepared, wire, owner>>
    BY Zenon, <1>7 DEF LeaseEnds, Expire, LedgerForgets, callerVars, writerVars, storeVars, sessionVars
  <2>2. retired' = TRUE \/ retired' = retired
    BY Zenon, <1>7 DEF LeaseEnds, Expire, LedgerForgets, sessionVars
  <2>3. completed' = FALSE \/ completed' = completed
    BY Zenon, <1>7 DEF LeaseEnds, Expire, LedgerForgets, callerVars
  <2>4. (retired => retired') /\ (completed' => completed)
    BY <2>2, <2>3
  <2> QED BY ZenonT(40), <2>1, <2>4, QuietKeeps
<1>8. CASE NextOwner
  BY Zenon, <1>8, NextOwnerKeeps
<1> QED BY ZenonT(40), <1>1, <1>2, <1>3, <1>4, <1>5, <1>6, <1>7, <1>8 DEF WriterStep, ProcessStep

\* Every step keeps the inductive invariant.
LEMMA WriterInvStep == WriterInv /\ [Next]_vars => WriterInv'
<1> SUFFICES ASSUME WriterInv, [Next]_vars PROVE WriterInv'
  OBVIOUS
<1>1. HandInv /\ StoreInv
  BY Zenon DEF WriterInv, HandInv
<1>2. HandInv' /\ StoreInv' => WriterInv'
  BY Zenon DEF WriterInv, HandInv
<1>3. CASE \/ \E p \in Pushers, ctx \in Contexts : Push(p, ctx)
           \/ Answer \/ AckMessage \/ ResendMessage \/ ReplayRequest \/ ReplayAlone \/ CloseSession \/ ActorCall
           \/ \E c \in Callers : Received(c) \/ Ended(c) \/ GiveUp(c)
           \/ \E ctx \in AllContexts : CancelContext(ctx)
  BY ZenonT(40), <1>1, <1>2, <1>3, CallersKeep, CallersStore, StoreUnchanged
<1>4. CASE WriterStep \/ LeaseEnds \/ NextOwner \/ Expire \/ LedgerForgets
  BY ZenonT(40), <1>1, <1>2, <1>4, WriterKeeps, WriterStore
<1>5. CASE UNCHANGED vars
  <2>1. /\ forgotten \subseteq forgotten' /\ (retired => retired') /\ (completed' => completed)
        /\ UNCHANGED <<phase, call, reply, made, todo, cancelled, pc, batch, pending, frame, prepared, wire, owner>>
        /\ UNCHANGED storeVars
    BY Zenon, <1>5 DEF vars, callerVars, writerVars, storeVars, sessionVars
  <2> QED BY ZenonT(40), <1>1, <1>2, <2>1, QuietKeeps, StoreUnchanged
<1> QED BY Zenon, <1>3, <1>4, <1>5 DEF Next

-----------------------------------------------------------------------------
(* What the writer promises *)

\* Every reachable state of the writer satisfies the inductive invariant.
THEOREM WriterInvariant == Spec => []WriterInv
BY InitWriter, WriterInvStep, PTL DEF Spec

\* Writer.request answers a caller whose context is alive with a cancellation only
\* when the lease is retired: the cancellation of somebody else's push can be the
\* cause of the closed writer, and reaches nobody before the session is over.
THEOREM CancellationsAreOwnOrFinal == Spec => []CancellationIsOwnOrFinal
<1>1. WriterInv => CancellationIsOwnOrFinal
  <2> SUFFICES ASSUME WriterInv, NEW c \in Callers, Response(c) = "cancelled"
               PROVE  call[c].ctx \in cancelled \/ retired
    BY Zenon DEF CancellationIsOwnOrFinal
  <2>1. reply[c] = "cancelled" \/ pc = "closed"
    BY Zenon DEF Response
  <2> QED BY Zenon, <2>1 DEF WriterInv, ReplyInv
<1> QED BY <1>1, WriterInvariant, PTL

\* No sequence number of a content-related message reaches the client twice,
\* whatever saves and writes fail and however many owners the session has.
THEOREM NumbersAreUnique == Spec => []SequenceUnique
<1>1. WriterInv => SequenceUnique
  BY Zenon DEF WriterInv, StoreInv, SequenceUnique
<1> QED BY <1>1, WriterInvariant, PTL

\* What reached the client is in the store until the store forgets it, and the
\* store never exceeds its capacity.
THEOREM WrittenIsRetained == Spec => []WireIsRetained
<1>1. WriterInv => WireIsRetained
  BY ZenonT(40) DEF WriterInv, StoreInv, WireIsRetained, Sent, Retained, MessageIds
<1> QED BY <1>1, WriterInvariant, PTL

\* A request that comes again in a container gets the retained answer and no second
\* one; one that comes again alone gets the error after the handler's answer only if
\* the ledger does not have that answer or the request was dropped.
THEOREM RequestsHaveOneAnswer == Spec => []OneAnswer
<1>1. WriterInv => OneAnswer
  <2>1. WriterInv => wire \subseteq prepared /\ \A m, n \in Responses : m.id < n.id => Superseded(m, n)
    BY Zenon DEF WriterInv, StoreInv, AnswerInv
  <2> QED BY Zenon, <2>1 DEF OneAnswer, Responses, Superseded, Unrecorded
<1> QED BY <1>1, WriterInvariant, PTL

\* A request the writer has received is in its hands, answered, or its caller sees
\* the writer closed.
THEOREM NobodyIsStranded == Spec => []NobodyStranded
<1>1. WriterInv => NobodyStranded
  BY Zenon DEF WriterInv, ReplyInv, NobodyStranded
<1> QED BY <1>1, WriterInvariant, PTL

\* A caller is told that the writer is closed by SeeClosed alone, so without a
\* response and at a closed writer.
LEMMA OnlySeeClosed ==
  ASSUME WriterInv, [Next]_vars, NEW c \in Callers, phase[c] = "wait", phase'[c] = "closed"
  PROVE  pc = "closed" /\ reply[c] = "none"
<1>1. Types
  BY Zenon DEF WriterInv
<1>2. \A d, r : Enter(d, r) => phase' = [phase EXCEPT ![d] = "offer"]
  BY Zenon DEF Enter
<1>3. \A d, r : ~Enter(d, r)
  <2> SUFFICES ASSUME NEW d, phase' = [phase EXCEPT ![d] = "offer"] PROVE FALSE
    BY Zenon, <1>2
  <2> QED BY <1>1 DEF Types
<1>4. \A d : ~Receive(d)
  <2> SUFFICES ASSUME NEW d, phase' = [phase EXCEPT ![d] = "wait"] PROVE FALSE
    BY Zenon DEF Receive
  <2> QED BY <1>1 DEF Types
<1>5. \A d, r : Return(d, r) => r = "closed" /\ d = c
  <2> SUFFICES ASSUME NEW d, NEW r,
                      phase' = [phase EXCEPT ![d] = IF r = "closed" THEN "closed" ELSE IF d = Actor THEN "idle" ELSE "done"]
               PROVE  r = "closed" /\ d = c
    BY Zenon DEF Return
  <2> QED BY <1>1 DEF Types
<1>6. phase' # phase
  BY Zenon
<1>7. \A r : ~Handle(r)
  BY Zenon, <1>3 DEF Handle
<1>8. ~NextOwner
  BY Zenon DEF NextOwner
<1>9. ~(\/ \E p \in Pushers, ctx \in Contexts : Push(p, ctx)
        \/ Answer \/ AckMessage \/ ResendMessage \/ ReplayRequest \/ ReplayAlone \/ CloseSession \/ ActorCall)
  BY Zenon, <1>3, <1>7 DEF Push, Answer, AckMessage, ResendMessage, ReplayRequest, ReplayAlone, CloseSession, ActorCall
<1>10. \A d : ~Received(d)
  BY Zenon, <1>4 DEF Received, Take, Collect
<1>11. ~(LeaseEnds \/ Expire \/ LedgerForgets \/ UNCHANGED vars \/ \E ctx \in AllContexts : CancelContext(ctx))
  BY Zenon, <1>6 DEF LeaseEnds, Expire, LedgerForgets, CancelContext, vars, callerVars
<1>12. ~(TakePending \/ Stop \/ ProcessCancelled \/ Acknowledge \/ Inspect \/ ProcessClose \/ Save)
  BY Zenon, <1>6 DEF TakePending, Stop, ProcessCancelled, Acknowledge, Inspect, ProcessClose, Save, AroundProcess, callerVars
<1>13. /\ \A saved : ~SaveFails(saved)
       /\ \A ok, arrives : ~(ReplayResponse(ok, arrives) \/ Write(ok, arrives) \/ \E i \in 1..(nextId - 1) : ResendOne(i, ok, arrives))
  BY ZenonT(40), <1>6 DEF SaveFails, ReplayResponse, Write, ResendOne, AroundProcess
<1>14. ~WriterStep
  BY Zenon, <1>12, <1>13 DEF WriterStep, ProcessStep
<1>15. PICK d \in Callers : Ended(d) \/ GiveUp(d)
  BY ZenonT(40), <1>8, <1>9, <1>10, <1>11, <1>14 DEF Next
<1>16. ~GiveUp(d)
  <2>1. "cancelled" # "closed"
    OBVIOUS
  <2> QED BY ZenonT(40), <1>5, <2>1 DEF GiveUp
<1>17. ~GetReply(d)
  <2>1. reply[d] # "closed"
    BY Zenon, <1>1 DEF Types, Answers
  <2> QED BY Zenon, <1>5, <2>1 DEF GetReply
<1>18. SeeClosed(d)
  BY ZenonT(40), <1>15, <1>16, <1>17 DEF Ended
<1>19. d = c /\ pc = "closed" /\ reply[d] = "none"
  <2>1. pc = "closed" /\ reply[d] = "none" /\ Return(d, "closed")
    BY ZenonT(40), <1>18 DEF SeeClosed
  <2>2. d = c
    BY <1>5, <2>1
  <2> QED BY Zenon, <2>1, <2>2
<1> QED BY <1>19

\* What Submit returns is true: success means written, and a caller that sees the
\* writer closed had nothing numbered or written.
THEOREM OutcomesAreTrue == Spec => OutcomeTruth
<1>1. WriterInv /\ [Next]_vars =>
        [\A c \in Callers : phase[c] = "wait" /\ phase'[c] # "wait" =>
           /\ reply[c] = "ok" /\ call[c].op \in MessageOps => made[c] # {} /\ made[c] \subseteq Sent
           /\ phase'[c] = "closed" => made[c] = {}]_vars
  <2> SUFFICES ASSUME WriterInv, [Next]_vars, NEW c \in Callers, phase[c] = "wait", phase'[c] # "wait"
               PROVE  /\ reply[c] = "ok" /\ call[c].op \in MessageOps => made[c] # {} /\ made[c] \subseteq Sent
                      /\ phase'[c] = "closed" => made[c] = {}
    BY Zenon
  <2>1. reply[c] = "ok" /\ call[c].op \in MessageOps => made[c] # {} /\ made[c] \subseteq Sent
    BY Zenon DEF WriterInv, ReplyInv
  <2>2. ASSUME phase'[c] = "closed" PROVE made[c] = {}
    <3>1. pc = "closed" /\ reply[c] = "none"
      BY ZenonT(40), <2>2, OnlySeeClosed
    <3>2. pc # "write"
      BY <3>1
    <3> QED BY Zenon, <3>1, <3>2 DEF WriterInv, ReplyInv
  <2> QED BY Zenon, <2>1, <2>2
<1> QED BY <1>1, WriterInvariant, PTL DEF OutcomeTruth, Spec
=============================================================================
