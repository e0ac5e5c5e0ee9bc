--------------------------- MODULE SessionSnapshot ---------------------------
(***************************************************************************)
(* How one live connectionSession uses its lease's session.Snapshot        *)
(* (internal/runtime/connection_session.go, writer.go, inbound.go).        *)
(*                                                                         *)
(* Three parties change the snapshot by the same pattern: lease.Snapshot() *)
(* returns a copy, the copy is changed, lease.Save(copy) replaces the whole*)
(* snapshot.  They are the connection's reader (replay state of an inbound *)
(* message), the session writer (outbound sequence number of a frame) and  *)
(* whoever holds outcomeMu (session mutations).  Snapshot and Save are     *)
(* atomic; what happens between them is the subject of this module.        *)
(*                                                                         *)
(* The lease stays active (SessionLease models its loss), inbound messages *)
(* are standalone application requests, and a second message with the id   *)
(* of a running request ends the connection as beginBatch demands.         *)
(***************************************************************************)
EXTENDS Naturals, Sequences, FiniteSets

CONSTANTS Requests,   \* client message ids of application requests
          Binders,    \* the requests whose outcome binds a user
          Reader, Pusher, Writer, Nobody,
          Window,     \* bound: client messages without an answer at a time
          MaxSends,   \* bound: how often the client sends one message
          MaxPushes   \* bound: unsolicited pushes

\* Reader, pusher, writer and the requests' handlers are goroutines of their own.
ASSUME SnapshotAssumption ==
  /\ Window \in Nat /\ MaxSends \in Nat /\ MaxPushes \in Nat
  /\ Binders \subseteq Requests
  /\ Reader # Pusher /\ Reader # Writer /\ Pusher # Writer
  /\ {Reader, Pusher, Writer} \cap Requests = {}

VARIABLES
  shared,     \* the lease's snapshot, equal to the stored one
  copy,       \* the copy a thread took and has not saved yet
  place,      \* where each thread is
  outcomeMu,  \* holder of outcomeMu
  inbox,      \* client messages on their way to the reader
  message,    \* the message the reader is handling
  serving,    \* the thread whose intent the writer is processing
  active,     \* ActiveRequestRegistry.active
  acceptsPush,
  exposed,    \* binders whose binding Presence.Update has published
  ended,      \* the connection failed
  sent,       \* how often the client sent each message
  awaited,    \* client messages without an answer
  lockstep,   \* so far nobody pushed and the client waited for every answer
  pushed,     \* pushes so far
  executed,   \* how often the handler of each request was started
  wire        \* content sequence numbers of the frames written

clientVars == <<sent, awaited, lockstep>>
sessionVars == <<active, acceptsPush, exposed, ended>>
allVars == <<shared, copy, place, outcomeMu, inbox, message, serving, sessionVars,
             clientVars, pushed, executed, wire>>

Threads == Requests \cup {Reader, Pusher}
SnapshotRecords ==
  [accepted : SUBSET Requests,    \* RecentClientMsgIDs
   sequence : Nat,                \* ServerSeqNo
   created : BOOLEAN,             \* NewSessionCreated
   subscribed : BOOLEAN,          \* PushSubscription
   bound : SUBSET Binders]        \* binders applied to UserID
Fresh == [accepted |-> {}, sequence |-> 0, created |-> FALSE, subscribed |-> FALSE, bound |-> {}]

\* Steps at which a thread waits for the writer to process its intent.
Submitting == {"reject", "announce", "answer", "push"}

SnapshotTypeOK ==
  /\ shared \in SnapshotRecords
  /\ copy \in [Threads \cup {Writer} -> SnapshotRecords]
  /\ place \in [Threads \cup {Writer} -> {"idle", "validate", "accept", "create", "created", "route",
                "subscribe", "dispatch", "handler", "outcome", "bind", "expose", "end",
                "prepare", "save", "write"} \cup Submitting]
  /\ outcomeMu \in Requests \cup {Reader, Nobody}
  /\ inbox \in Seq(Requests) /\ Len(inbox) <= Window
  /\ message \in Requests \cup {Nobody}
  /\ serving \in Threads \cup {Nobody}
  /\ active \subseteq Requests
  /\ acceptsPush \in BOOLEAN /\ ended \in BOOLEAN
  /\ exposed \subseteq Binders
  /\ sent \in [Requests -> 0..MaxSends] /\ awaited \in 0..Window /\ pushed \in 0..MaxPushes
  /\ lockstep \in BOOLEAN
  /\ executed \in [Requests -> Nat]
  /\ wire \in Seq(Nat)

SessionInit ==
  /\ shared = Fresh
  /\ copy = [t \in Threads \cup {Writer} |-> Fresh]
  /\ place = [t \in Threads \cup {Writer} |-> "idle"]
  /\ outcomeMu = Nobody
  /\ inbox = <<>> /\ message = Nobody /\ serving = Nobody
  /\ active = {} /\ acceptsPush = FALSE /\ exposed = {} /\ ended = FALSE
  /\ sent = [m \in Requests |-> 0] /\ awaited = 0 /\ pushed = 0 /\ lockstep = TRUE
  /\ executed = [m \in Requests |-> 0]
  /\ wire = <<>>

Goto(t, from, to) == ~ended /\ place[t] = from /\ place' = [place EXCEPT ![t] = to]

\* lease.Snapshot(): a copy of the whole snapshot.
TakeSnapshot(t) == copy' = [copy EXCEPT ![t] = shared]

\* lease.Save(): the copy becomes the snapshot.  The copy is of no use afterwards.
SaveSnapshot(t, next) == shared' = next /\ copy' = [copy EXCEPT ![t] = Fresh]

\* The client sends a request, or sends it again.
ClientSend(m) ==
  /\ ~ended
  /\ sent[m] < MaxSends /\ awaited < Window
  /\ inbox' = Append(inbox, m)
  /\ sent' = [sent EXCEPT ![m] = @ + 1]
  /\ awaited' = awaited + 1
  /\ lockstep' = (lockstep /\ awaited = 0)
  /\ UNCHANGED <<shared, copy, place, outcomeMu, message, serving, sessionVars, pushed, executed, wire>>

(***************************************************************************)
(* The reader: handleEncrypted and routeMessage                            *)
(***************************************************************************)

Receive ==
  /\ Goto(Reader, "idle", "validate")
  /\ inbox # <<>>
  /\ message' = Head(inbox) /\ inbox' = Tail(inbox)
  /\ TakeSnapshot(Reader)
  /\ UNCHANGED <<shared, outcomeMu, serving, sessionVars, clientVars, pushed, executed, wire>>

\* A replay is answered with bad_msg_notification: its request is running or
\* its response is recorded, so it is not a request lost by a restart.
Reject ==
  /\ Goto(Reader, "validate", "reject")
  /\ message \in copy[Reader].accepted
  /\ UNCHANGED <<shared, copy, outcomeMu, inbox, message, serving, sessionVars, clientVars, pushed, executed, wire>>

\* Mutant: the replay window is not consulted.
ReserveAnything ==
  /\ Goto(Reader, "validate", "accept")
  /\ IF message \in active THEN ended' = TRUE /\ UNCHANGED active
                           ELSE active' = active \cup {message} /\ UNCHANGED ended
  /\ UNCHANGED <<shared, copy, outcomeMu, inbox, message, serving, acceptsPush, exposed, clientVars, pushed, executed, wire>>

\* Validation passes and beginRequests reserves the request.
Reserve ==
  /\ Goto(Reader, "validate", "accept")
  /\ message \notin copy[Reader].accepted
  /\ IF message \in active THEN ended' = TRUE /\ UNCHANGED active
                           ELSE active' = active \cup {message} /\ UNCHANGED ended
  /\ UNCHANGED <<shared, copy, outcomeMu, inbox, message, serving, acceptsPush, exposed, clientVars, pushed, executed, wire>>

Accept ==
  /\ Goto(Reader, "accept", "create")
  /\ SaveSnapshot(Reader, [copy[Reader] EXCEPT !.accepted = @ \cup {message}])
  /\ UNCHANGED <<outcomeMu, inbox, message, serving, sessionVars, clientVars, pushed, executed, wire>>

\* ensureNewSessionCreated, under outcomeMu
Create ==
  /\ outcomeMu = Nobody
  /\ IF shared.created
     THEN Goto(Reader, "create", "route") /\ UNCHANGED <<copy, outcomeMu>>
     ELSE Goto(Reader, "create", "created") /\ TakeSnapshot(Reader) /\ outcomeMu' = Reader
  /\ UNCHANGED <<shared, inbox, message, serving, sessionVars, clientVars, pushed, executed, wire>>

CreateSave ==
  /\ Goto(Reader, "created", "announce")
  /\ SaveSnapshot(Reader, [copy[Reader] EXCEPT !.created = TRUE])
  /\ UNCHANGED <<outcomeMu, inbox, message, serving, sessionVars, clientVars, pushed, executed, wire>>

\* subscribeForPush, under outcomeMu
Subscribe ==
  /\ outcomeMu = Nobody
  /\ IF acceptsPush
     THEN Goto(Reader, "route", "dispatch") /\ UNCHANGED <<copy, outcomeMu>>
     ELSE Goto(Reader, "route", "subscribe") /\ TakeSnapshot(Reader) /\ outcomeMu' = Reader
  /\ UNCHANGED <<shared, inbox, message, serving, sessionVars, clientVars, pushed, executed, wire>>

\* applyMutationsLocked: save the mutated copy, then publish it.
MutationSave(t, from, next) ==
  /\ Goto(t, from, "expose")
  /\ shared' = next /\ copy' = [copy EXCEPT ![t] = next]
  /\ UNCHANGED <<outcomeMu, inbox, message, serving, sessionVars, clientVars, pushed, executed, wire>>

SubscribeSave == MutationSave(Reader, "subscribe", [copy[Reader] EXCEPT !.subscribed = TRUE])

\* Presence.Update publishes the saved copy.  The reader unlocks outcomeMu here,
\* a handler after its answer.
Expose(t) ==
  /\ Goto(t, "expose", IF t = Reader THEN "dispatch" ELSE "answer")
  /\ acceptsPush' = copy[t].subscribed
  /\ exposed' = copy[t].bound
  /\ copy' = [copy EXCEPT ![t] = Fresh]
  /\ outcomeMu' = IF t = Reader THEN Nobody ELSE outcomeMu
  /\ UNCHANGED <<shared, inbox, message, serving, active, ended, clientVars, pushed, executed, wire>>

\* The handler's goroutine starts and the reader goes on to the next message.
Dispatch ==
  /\ ~ended /\ place[Reader] = "dispatch"
  /\ place' = [place EXCEPT ![Reader] = "idle", ![message] = "handler"]
  /\ executed' = [executed EXCEPT ![message] = @ + 1]
  /\ message' = Nobody
  /\ UNCHANGED <<shared, copy, outcomeMu, inbox, serving, sessionVars, clientVars, pushed, wire>>

(***************************************************************************)
(* A request's goroutine: applyOutcome, under outcomeMu                    *)
(***************************************************************************)

\* The handler returns; a binder's outcome carries a mutation.
Outcome(m) ==
  /\ outcomeMu = Nobody
  /\ IF m \in Binders THEN Goto(m, "handler", "bind") /\ TakeSnapshot(m)
                      ELSE Goto(m, "handler", "answer") /\ UNCHANGED copy
  /\ outcomeMu' = m
  /\ UNCHANGED <<shared, inbox, message, serving, sessionVars, clientVars, pushed, executed, wire>>

\* Mutant: the binding is exposed and not saved.
BindSaveSkipped(m) ==
  /\ Goto(m, "bind", "expose")
  /\ copy' = [copy EXCEPT ![m].bound = @ \cup {m}]
  /\ UNCHANGED <<shared, outcomeMu, inbox, message, serving, sessionVars, clientVars, pushed, executed, wire>>

BindSave(m) == MutationSave(m, "bind", [copy[m] EXCEPT !.bound = @ \cup {m}])

Complete(m) ==
  /\ Goto(m, "end", "idle")
  /\ active' = active \ {m}
  /\ UNCHANGED <<shared, copy, outcomeMu, inbox, message, serving, acceptsPush, exposed, ended, clientVars, pushed, executed, wire>>

\* A push to the bound user reaches the session's sender.
PushStart ==
  /\ Goto(Pusher, "idle", "push")
  /\ acceptsPush /\ exposed # {}
  /\ pushed < MaxPushes
  /\ pushed' = pushed + 1
  /\ lockstep' = FALSE
  /\ UNCHANGED <<shared, copy, outcomeMu, inbox, message, serving, sessionVars, sent, awaited, executed, wire>>

(***************************************************************************)
(* The session writer: process and prepare                                 *)
(***************************************************************************)

\* Answers and pushes are content-related, notifications are not.
ContentRelated(t) == place[t] \in {"answer", "push"}

WriterTake(t) ==
  /\ Goto(Writer, "idle", "save")
  /\ place[t] \in Submitting
  /\ serving' = t
  /\ TakeSnapshot(Writer)
  /\ UNCHANGED <<shared, outcomeMu, inbox, message, sessionVars, clientVars, pushed, executed, wire>>

\* Mutant: the frame is written with a number that was not saved.
WriterSaveNothing ==
  /\ Goto(Writer, "save", "write")
  /\ UNCHANGED <<shared, copy, outcomeMu, inbox, message, serving, sessionVars, clientVars, pushed, executed, wire>>

\* nextSequenceNo on the copy, and lease.Save.
WriterSave ==
  /\ Goto(Writer, "save", "write")
  /\ shared' = [copy[Writer] EXCEPT !.sequence = IF ContentRelated(serving) THEN @ + 1 ELSE @]
  /\ UNCHANGED <<copy, outcomeMu, inbox, message, serving, sessionVars, clientVars, pushed, executed, wire>>

\* Where a thread goes on when Submit returns.
After(step) == CASE step = "reject"   -> "idle"
                 [] step = "announce" -> "route"
                 [] step = "answer"   -> "end"
                 [] step = "push"     -> "idle"

\* Frames that settle a client message; new_session_created and pushes do not.
Answers == {"reject", "answer"}

\* Mutant: outcomeMu is not released when Submit returns.
WriterWriteLocked ==
  /\ ~ended /\ place[Writer] = "write"
  /\ wire' = IF ContentRelated(serving) THEN Append(wire, 2 * copy[Writer].sequence + 1) ELSE wire
  /\ place' = [place EXCEPT ![Writer] = "idle", ![serving] = After(place[serving])]
  /\ copy' = [copy EXCEPT ![Writer] = Fresh]
  /\ awaited' = IF place[serving] \in Answers THEN awaited - 1 ELSE awaited
  /\ serving' = Nobody
  /\ UNCHANGED <<shared, outcomeMu, inbox, message, sessionVars, sent, lockstep, pushed, executed>>

\* The frame is written and Submit returns; its caller unlocks outcomeMu.
WriterWrite ==
  /\ ~ended /\ place[Writer] = "write"
  /\ wire' = IF ContentRelated(serving) THEN Append(wire, 2 * copy[Writer].sequence + 1) ELSE wire
  /\ place' = [place EXCEPT ![Writer] = "idle", ![serving] = After(place[serving])]
  /\ copy' = [copy EXCEPT ![Writer] = Fresh]
  /\ awaited' = IF place[serving] \in Answers THEN awaited - 1 ELSE awaited
  /\ outcomeMu' = IF outcomeMu = serving THEN Nobody ELSE outcomeMu
  /\ serving' = Nobody
  /\ UNCHANGED <<shared, inbox, message, sessionVars, sent, lockstep, pushed, executed>>

ReaderStep == Receive \/ Reject \/ Reserve \/ Accept \/ Create \/ CreateSave \/ Subscribe
              \/ SubscribeSave \/ Expose(Reader) \/ Dispatch
RequestStep(m) == Outcome(m) \/ BindSave(m) \/ Expose(m) \/ Complete(m)
WriterStep == WriterSave \/ WriterWrite \/ \E t \in Threads : WriterTake(t)

SessionNext ==
  \/ \E m \in Requests : ClientSend(m) \/ RequestStep(m)
  \/ ReaderStep \/ PushStart \/ WriterStep

SessionSpec == SessionInit /\ [][SessionNext]_allVars

\* Goroutines run on, handlers return, and outcomeMu and the writer reach every
\* waiter (sync.Mutex starvation mode, FIFO channel senders).  The client and
\* publishers may stop.
SessionFairSpec ==
  /\ SessionSpec
  /\ SF_allVars(ReaderStep)
  /\ \A m \in Requests : SF_allVars(RequestStep(m))
  /\ WF_allVars(WriterSave \/ WriterWrite)
  /\ \A t \in Threads : SF_allVars(WriterTake(t))

(***************************************************************************)
(* Properties                                                              *)
(***************************************************************************)

\* The handler of a client message is started at most once, however often the
\* client sends the message: recoverInterruptedApplicationReplay calls it
\* "at-most-once handler execution" (connection_session.go:282-283).
AtMostOnce == \A m \in Requests : executed[m] <= 1

\* A client that waits for every answer before it sends again, and to whom nobody
\* pushes, loses no update to the copies of the snapshot, though the handler's
\* goroutine still ends behind its answer: its handlers run at most once, an
\* exposed binding is and stays persisted ("Named protocol mutations are
\* persisted before the changed binding is exposed", docs/architecture.md:174),
\* and no two content-related messages carry the same sequence number.
LockstepIsSafe ==
  lockstep =>
    /\ AtMostOnce
    /\ exposed \subseteq shared.bound
    /\ \A i, j \in DOMAIN wire : wire[i] = wire[j] => i = j

\* Every client message is answered unless the connection fails: the reader, the
\* holder of outcomeMu and the writer never wait for one another in a circle.
MessagesAnswered == []<>(awaited = 0 \/ ended)
=============================================================================
