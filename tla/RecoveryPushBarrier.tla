------------------------ MODULE RecoveryPushBarrier ------------------------
(***************************************************************************)
(* recoveryPushBarrier (internal/runtime/recovery_push_barrier.go): while  *)
(* a protected request runs, from begin until its reply is written, pushes *)
(* to the same session are held in a bounded FIFO.                         *)
(*                                                                         *)
(* Publishers call push; protected requests call begin, dispatch, and then *)
(* finish or cancel; the session's shutdown calls close once the lease is  *)
(* retired.  mu guards critical sections that call nothing, so each is one *)
(* step; orderMu is held over the calls into the session writer and is a   *)
(* lock of the model.  A writer of an RWMutex that waits for the readers   *)
(* already keeps new readers out, so orderMu names the goroutine that      *)
(* holds or waits for the exclusive lock.                                  *)
(***************************************************************************)
EXTENDS Naturals, Sequences, FiniteSets

CONSTANTS Publishers,   \* goroutines that push
          Requests,     \* protected requests, each handled once
          Shutdown,     \* the session's shutdown goroutine
          Nobody,       \* orderMu is free
          MaxPushes,    \* bound: how often each publisher pushes
          Sizes,        \* the body sizes each publisher pushes
          MaxCount,     \* RecoveryPushBarrierCount
          MaxBytes      \* RecoveryPushBarrierBytes

\* A push is named by its publisher and a number.
Ids == UNION {{p} \X (1..MaxPushes[p]) : p \in Publishers}

ASSUME BarrierAssumption ==
  /\ MaxPushes \in [Publishers -> Nat] /\ MaxCount \in Nat /\ MaxBytes \in Nat
  /\ Sizes \in [Publishers -> SUBSET Nat]
  /\ Nobody \notin Requests \cup {Shutdown}
  /\ Shutdown \notin Requests
  /\ Publishers \cap (Requests \cup {Shutdown}) = {}
  /\ Ids \cap Requests = {}

VARIABLES
  orderMu,      \* holder of (or next in line for) the exclusive lock
  readers,      \* publishers that hold the shared lock
  active,       \* protected requests begun and not settled
  draining, closed,
  queue,        \* accepted pushes not yet handed to the writer
  queuedBytes,
  retired,      \* the lease is retired: the writer stops, shutdown begins
  pc,           \* where each publisher, request and the shutdown goroutine is
  push,         \* the push a publisher is making
  hand,         \* the push the draining request took from the queue
  wire,         \* what the session writer accepted, in order
  returned,     \* pushes whose call returned success
  before        \* per push: the pushes that had returned before it started

stateVars == <<active, draining, closed, queue, queuedBytes>>
historyVars == <<wire, returned, before>>
vars == <<orderMu, readers, stateVars, retired, pc, push, hand, historyVars>>

Pushes == [id : Ids, size : Nat]
Threads == Publishers \cup Requests \cup {Shutdown}

TypeOK ==
  /\ orderMu \in Requests \cup {Shutdown, Nobody}
  /\ readers \subseteq Publishers
  /\ active \in 0..Cardinality(Requests)
  /\ draining \in BOOLEAN /\ closed \in BOOLEAN /\ retired \in BOOLEAN
  /\ queue \in Seq(Pushes)
  /\ queuedBytes \in Nat
  /\ pc \in [Threads -> {"idle", "direct", "submit", "begin", "dispatch", "finish", "reply",
                          "replied", "failed", "drain", "hand", "abort", "close", "done"}]
  /\ push \in [Publishers -> [n : Nat, size : Nat]]
  /\ hand \in Seq(Pushes)
  /\ wire \in Seq(Ids \cup Requests)
  /\ returned \subseteq Ids
  /\ before \in [Ids -> SUBSET Ids]

Init ==
  /\ orderMu = Nobody /\ readers = {}
  /\ active = 0 /\ draining = FALSE /\ closed = FALSE
  /\ queue = <<>> /\ queuedBytes = 0
  /\ retired = FALSE
  /\ pc = [t \in Threads |-> "idle"]
  /\ push = [p \in Publishers |-> [n |-> 0, size |-> 0]]
  /\ hand = <<>>
  /\ wire = <<>> /\ returned = {} /\ before = [i \in Ids |-> {}]

Mine(p) == [id |-> <<p, push[p].n>>, size |-> push[p].size]
Goto(t, step) == pc' = [pc EXCEPT ![t] = step]

\* Pushes are held back while a protected request runs or the queue drains.
Gated == active # 0 \/ draining

\* closeLocked drops what is queued; the session is retired with the cause.
CloseLocked ==
  /\ closed' = TRUE
  /\ queue' = <<>>
  /\ queuedBytes' = 0

(***************************************************************************)
(* push                                                                    *)
(***************************************************************************)

\* Mutant: the entry limit is off by one.
HoldOneMore(m) ==
  IF Len(queue) > MaxCount \/ m.size > MaxBytes - queuedBytes
  THEN CloseLocked /\ retired' = TRUE /\ UNCHANGED returned
  ELSE /\ queue' = Append(queue, m)
       /\ queuedBytes' = queuedBytes + m.size
       /\ returned' = returned \cup {m.id}
       /\ UNCHANGED <<closed, retired>>

\* enqueueLocked and retireOverflow: hold the push m, or give the session up
\* when the queue is at its limit of entries or bytes.
Hold(m) ==
  IF Len(queue) >= MaxCount \/ m.size > MaxBytes - queuedBytes
  THEN CloseLocked /\ retired' = TRUE /\ UNCHANGED returned
  ELSE /\ queue' = Append(queue, m)
       /\ queuedBytes' = queuedBytes + m.size
       /\ returned' = returned \cup {m.id}
       /\ UNCHANGED <<closed, retired>>

\* push up to the first unlock of mu: refused, held, or on to the direct path.
PushCall(p, size) ==
  /\ pc[p] = "idle"
  /\ push[p].n < MaxPushes[p]
  /\ push' = [push EXCEPT ![p] = [n |-> @.n + 1, size |-> size]]
  /\ before' = [before EXCEPT ![<<p, push[p].n + 1>>] = returned]
  /\ \/ closed /\ UNCHANGED <<pc, closed, retired, queue, queuedBytes, returned>>
     \/ ~closed /\ Gated /\ Hold([id |-> <<p, push[p].n + 1>>, size |-> size]) /\ UNCHANGED pc
     \/ ~closed /\ ~Gated /\ Goto(p, "direct") /\ UNCHANGED <<closed, retired, queue, queuedBytes, returned>>
  /\ UNCHANGED <<orderMu, readers, active, draining, hand, wire>>

\* Mutant: no second look after the shared lock is taken.
PushDirectUnchecked(p) ==
  /\ pc[p] = "direct"
  /\ orderMu = Nobody
  /\ readers' = readers \cup {p}
  /\ Goto(p, "submit")
  /\ UNCHANGED <<orderMu, stateVars, retired, push, hand, historyVars>>

\* The second look, under the shared lock.
PushDirect(p) ==
  /\ pc[p] = "direct"
  /\ orderMu = Nobody
  /\ \/ /\ closed /\ Goto(p, "idle")
        /\ UNCHANGED <<readers, closed, retired, queue, queuedBytes, returned>>
     \/ /\ ~closed /\ Gated /\ Hold(Mine(p)) /\ Goto(p, "idle")
        /\ UNCHANGED readers
     \/ /\ ~closed /\ ~Gated /\ readers' = readers \cup {p} /\ Goto(p, "submit")
        /\ UNCHANGED <<closed, retired, queue, queuedBytes, returned>>
  /\ UNCHANGED <<orderMu, active, draining, push, hand, wire, before>>

\* submit and RUnlock.  The writer may have written a push whose caller gave up.
PushSubmit(p, written, ok) ==
  /\ pc[p] = "submit"
  /\ ok => written
  /\ wire' = IF written THEN Append(wire, Mine(p).id) ELSE wire
  /\ returned' = IF ok THEN returned \cup {Mine(p).id} ELSE returned
  /\ readers' = readers \ {p}
  /\ Goto(p, "idle")
  /\ UNCHANGED <<orderMu, stateVars, retired, push, hand, before>>

(***************************************************************************)
(* begin, finish, cancel, close                                            *)
(***************************************************************************)

\* Ask for the exclusive lock on the way to step to.
OrderLock(t, from, to) ==
  /\ pc[t] = from
  /\ orderMu = Nobody
  /\ orderMu' = t
  /\ Goto(t, to)
  /\ UNCHANGED <<readers, stateVars, retired, push, hand, historyVars>>

\* The lock is granted when the last reader has left.
OrderHeld(t, step) == pc[t] = step /\ orderMu = t /\ readers = {}

BeginLock(r) == OrderLock(r, "idle", "begin")

Begin(r) ==
  /\ OrderHeld(r, "begin")
  /\ active' = IF closed THEN active ELSE active + 1
  /\ orderMu' = Nobody
  /\ Goto(r, "dispatch")
  /\ UNCHANGED <<readers, draining, closed, queue, queuedBytes, retired, push, hand, historyVars>>

\* The handler returned an outcome: finish.  It failed or was cancelled: cancel.
FinishLock(r) == OrderLock(r, "dispatch", "finish")
AbortLock(r) == OrderLock(r, "dispatch", "abort")

\* finish up to the call of submitReply; a closed barrier writes no reply.
Finish(r) ==
  /\ OrderHeld(r, "finish")
  /\ IF closed THEN orderMu' = Nobody /\ Goto(r, "done")
               ELSE Goto(r, "reply") /\ UNCHANGED orderMu
  /\ UNCHANGED <<readers, stateVars, retired, push, hand, historyVars>>

\* submitReply, which may fail before or after the writer took the reply.
SubmitReply(r, written, ok) ==
  /\ pc[r] = "reply"
  /\ ok => written
  /\ wire' = IF written THEN Append(wire, r) ELSE wire
  /\ Goto(r, IF ok THEN "replied" ELSE "failed")
  /\ UNCHANGED <<orderMu, readers, stateVars, retired, push, hand, returned, before>>

\* Mutant: the error path forgets to unlock orderMu.
ReplyFailedLocked(r) ==
  /\ pc[r] = "failed"
  /\ CloseLocked
  /\ retired' = TRUE
  /\ Goto(r, "done")
  /\ UNCHANGED <<orderMu, readers, active, draining, push, hand, historyVars>>

ReplyFailed(r) ==
  /\ pc[r] = "failed"
  /\ CloseLocked
  /\ retired' = TRUE
  /\ orderMu' = Nobody
  /\ Goto(r, "done")
  /\ UNCHANGED <<readers, active, draining, push, hand, historyVars>>

\* Mutant: the last request leaves without draining.
SettleWithoutDrain(r) ==
  /\ pc[r] = "replied"
  /\ active' = IF closed \/ active = 0 THEN active ELSE active - 1
  /\ orderMu' = Nobody
  /\ Goto(r, "done")
  /\ UNCHANGED <<readers, draining, closed, queue, queuedBytes, retired, push, hand, historyVars>>

\* The rest of finish: release the request, and drain if it was the last.
Settle(r) ==
  /\ pc[r] = "replied"
  /\ active' = IF closed \/ active = 0 THEN active ELSE active - 1
  /\ IF ~closed /\ active' = 0 /\ queue # <<>>
     THEN draining' = TRUE /\ Goto(r, "drain") /\ UNCHANGED orderMu
     ELSE orderMu' = Nobody /\ Goto(r, "done") /\ UNCHANGED draining
  /\ UNCHANGED <<readers, closed, queue, queuedBytes, retired, push, hand, historyVars>>

\* drainLocked, one turn of the loop up to the submit: stop, or take a push.
DrainTakeWith(r, taken, rest) ==
  /\ pc[r] = "drain"
  /\ IF closed \/ active # 0 \/ queue = <<>>
     THEN /\ draining' = FALSE
          /\ orderMu' = Nobody
          /\ Goto(r, "done")
          /\ retired' = (retired \/ closed)
          /\ UNCHANGED <<queue, queuedBytes, hand>>
     ELSE /\ hand' = <<taken>>
          /\ queue' = rest
          /\ queuedBytes' = queuedBytes - taken.size
          /\ Goto(r, "hand")
          /\ UNCHANGED <<orderMu, draining, retired>>
  /\ UNCHANGED <<readers, active, closed, push, historyVars>>

\* Mutant: the newest push is taken first.
DrainTakeNewest(r) == DrainTakeWith(r, queue[Len(queue)], SubSeq(queue, 1, Len(queue) - 1))

\* The oldest push leaves the queue first.
DrainTake(r) == DrainTakeWith(r, Head(queue), Tail(queue))

DrainSubmit(r) ==
  /\ pc[r] = "hand"
  /\ wire' = Append(wire, Head(hand).id)
  /\ hand' = <<>>
  /\ Goto(r, "drain")
  /\ UNCHANGED <<orderMu, readers, stateVars, retired, push, returned, before>>

\* Mutant: a failed drain goes on with the next push.
DrainFailsIgnored(r, written) ==
  /\ pc[r] = "hand"
  /\ wire' = IF written THEN Append(wire, Head(hand).id) ELSE wire
  /\ hand' = <<>>
  /\ Goto(r, "drain")
  /\ UNCHANGED <<orderMu, readers, stateVars, retired, push, returned, before>>

\* The submit of a drained push fails, before or after the writer took the push:
\* draining stays set on the closed barrier.
DrainFails(r, written) ==
  /\ pc[r] = "hand"
  /\ wire' = IF written THEN Append(wire, Head(hand).id) ELSE wire
  /\ CloseLocked
  /\ retired' = TRUE
  /\ hand' = <<>>
  /\ orderMu' = Nobody
  /\ Goto(r, "done")
  /\ UNCHANGED <<readers, active, draining, push, returned, before>>

\* abort: the request ended without a written reply.
Abort(r) ==
  /\ OrderHeld(r, "abort")
  /\ IF closed THEN UNCHANGED <<closed, queue, queuedBytes, retired>>
               ELSE CloseLocked /\ retired' = TRUE
  /\ orderMu' = Nobody
  /\ Goto(r, "done")
  /\ UNCHANGED <<readers, active, draining, push, hand, historyVars>>

\* The lease ends for a reason of its own (takeover, connection gone).
LeaseEnds ==
  /\ ~retired
  /\ retired' = TRUE
  /\ UNCHANGED <<orderMu, readers, stateVars, pc, push, hand, historyVars>>

CloseLock == retired /\ OrderLock(Shutdown, "idle", "close")

Close ==
  /\ OrderHeld(Shutdown, "close")
  /\ CloseLocked
  /\ orderMu' = Nobody
  /\ Goto(Shutdown, "done")
  /\ UNCHANGED <<readers, active, draining, retired, push, hand, historyVars>>

PushStep(p) == PushDirect(p) \/ \E written, ok \in BOOLEAN : PushSubmit(p, written, ok)

RequestStep(r) ==
  \/ Begin(r) \/ FinishLock(r) \/ AbortLock(r) \/ Finish(r)
  \/ \E written, ok \in BOOLEAN : SubmitReply(r, written, ok)
  \/ ReplyFailed(r) \/ Settle(r) \/ DrainTake(r) \/ DrainSubmit(r) \/ Abort(r)
  \/ \E written \in BOOLEAN : DrainFails(r, written)

Next ==
  \/ \E p \in Publishers : PushStep(p) \/ \E size \in Sizes[p] : PushCall(p, size)
  \/ \E r \in Requests : BeginLock(r) \/ RequestStep(r)
  \/ LeaseEnds \/ CloseLock \/ Close

Spec == Init /\ [][Next]_vars

\* Goroutines run on, handlers return, and a lock is granted in the end.  No
\* publisher has to push, no request has to arrive, no lease has to end.
FairSpec ==
  /\ Spec
  /\ \A p \in Publishers : WF_vars(PushStep(p))
  /\ \A r \in Requests : WF_vars(RequestStep(r))
  /\ WF_vars(CloseLock) /\ WF_vars(Close)

(***************************************************************************)
(* Properties                                                              *)
(***************************************************************************)

Protected(r) == pc[r] \in {"dispatch", "finish", "reply"}
Queued == {queue[i].id : i \in DOMAIN queue}
Handed == {hand[i].id : i \in DOMAIN hand}
Written == {wire[i] : i \in DOMAIN wire}

\* No push reaches the writer between the begin of a protected request and the
\* write of its reply, whichever of its two checks a concurrent push passed
\* before begin took the lock.
ProtectedSilence ==
  [][wire' # wire /\ wire'[Len(wire')] \in Ids => \A r \in Requests : ~Protected(r)]_vars

\* A push is never written twice, and never before, or instead of, one that had
\* been accepted when it started: held, drained and direct pushes keep one order.
NoOvertaking ==
  \A j \in DOMAIN wire : wire[j] \in Ids =>
    LET earlier == {wire[i] : i \in 1..(j - 1)} IN
    wire[j] \notin earlier /\ before[wire[j]] \subseteq earlier

\* An accepted push is written, held, or in the hands of the drain, until the
\* barrier is closed and the session retired.
AcceptedNotLost == ~closed => returned \subseteq Written \cup Queued \cup Handed

\* Every byte of every queued push, counted once.
HeldBytes == UNION {{queue[i].id} \X (1..queue[i].size) : i \in DOMAIN queue}

\* The queue keeps its limits, and the byte count is the size of what is queued
\* through appends, drains and closes.
QueueWithinLimits ==
  /\ Len(queue) <= MaxCount /\ queuedBytes <= MaxBytes
  /\ queuedBytes = Cardinality(HeldBytes)

\* Held pushes leave the queue, written or dropped with the session: a push held
\* behind the last protected request is never stranded.
HeldPushesLeave == []<>(queue = <<>>)

\* Every call ends: no publisher, request or shutdown waits for ever for orderMu.
CallsEnd ==
  /\ \A p \in Publishers : []<>(pc[p] = "idle")
  /\ \A r \in Requests : []<>(pc[r] \in {"idle", "done"})
  /\ []<>(retired => pc[Shutdown] = "done")
=============================================================================
