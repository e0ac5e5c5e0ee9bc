---------------------------- MODULE SessionLease ----------------------------
(***************************************************************************)
(* LocalCoordinator and localLease (session/coordinator.go) over the       *)
(* MemoryStore (session/store.go), for ONE session key: keys share only    *)
(* coordinator.mu, whose critical sections never wait for one another.     *)
(*                                                                         *)
(* Connections call Acquire; the goroutines of the session that got the    *)
(* lease (reader, writer, handlers: Workers) call Save and Delete, also    *)
(* after the lease was taken away from them.  A critical section of        *)
(* coordinator.mu or of opMu that calls nothing blocking is one step; Save *)
(* and Delete hold opMu over several steps because they call the store.    *)
(* A lease is named by its generation.                                     *)
(***************************************************************************)
EXTENDS Naturals

CONSTANTS Connections,    \* physical connections, each with its own context
          Workers,        \* goroutines that use a lease after Acquire
          Values,         \* snapshots that Save may write
          Initial,        \* the initial snapshot passed to Acquire
          Absent,         \* the store holds no snapshot for the key
          Free,           \* opMu is not held
          MaxGeneration   \* the largest generation (math.MaxInt64 in the code)

ASSUME ConstantsAssumption ==
  /\ MaxGeneration \in Nat \ {0}
  /\ Initial \notin Values
  /\ Absent \notin Values \cup {Initial}
  /\ Free \notin Workers

VARIABLES
  generations,  \* coordinator.generations[key]
  current,      \* coordinator.leases[key], 0 for nil
  store,        \* the MemoryStore's snapshot of the key
  cancelled,    \* connections whose context is cancelled
  pc,           \* where each connection is in Acquire
  own,          \* the generation a connection registered last
  previous,     \* the lease a connection found in its way
  loaded,       \* the snapshot LoadOrCreate returned to the connection
  state,        \* of a lease: "none", "loading", "ready" or "deleted"
  cause,        \* context.Cause of a lease, "none" while it is live
  release,      \* progress of a lease's Release
  opMu,         \* holder of a lease's opMu
  snapshot,     \* localLease.snapshot
  job           \* of a worker: its step, its lease, the value it saves

coordinatorVars == <<generations, current>>
acquireVars == <<pc, own, previous, loaded>>
leaseVars == <<state, cause, release, opMu, snapshot>>
vars == <<coordinatorVars, store, cancelled, acquireVars, leaseVars, job>>

Generations == 1..MaxGeneration
Snapshots == Values \cup {Initial}
Jobs == [step : {"idle", "saving", "saved", "deleting", "erased"},
         gen : 0..MaxGeneration, val : Snapshots]
Idle == [step |-> "idle", gen |-> 0, val |-> Initial]

TypeOK ==
  /\ generations \in 0..MaxGeneration
  /\ current \in 0..MaxGeneration
  /\ store \in Snapshots \cup {Absent}
  /\ cancelled \in SUBSET Connections
  /\ pc \in [Connections -> {"idle", "lookup", "retire", "wait", "load", "check", "install", "undo"}]
  /\ own \in [Connections -> 0..MaxGeneration]
  /\ previous \in [Connections -> 0..MaxGeneration]
  /\ loaded \in [Connections -> Snapshots \cup {Absent}]
  /\ state \in [Generations -> {"none", "loading", "ready", "deleted"}]
  /\ cause \in [Generations -> {"none", "lost", "released", "retired", "context"}]
  /\ release \in [Generations -> {"none", "marked", "removed", "closed"}]
  /\ opMu \in [Generations -> Workers \cup {Free}]
  /\ snapshot \in [Generations -> Snapshots \cup {Absent}]
  /\ job \in [Workers -> Jobs]

Init ==
  /\ generations = 0 /\ current = 0
  /\ store \in Snapshots \cup {Absent}
  /\ cancelled = {}
  /\ pc = [c \in Connections |-> "idle"]
  /\ own = [c \in Connections |-> 0]
  /\ previous = [c \in Connections |-> 0]
  /\ loaded = [c \in Connections |-> Absent]
  /\ state = [g \in Generations |-> "none"]
  /\ cause = [g \in Generations |-> "none"]
  /\ release = [g \in Generations |-> "none"]
  /\ opMu = [g \in Generations |-> Free]
  /\ snapshot = [g \in Generations |-> Absent]
  /\ job = [w \in Workers |-> Idle]

\* context.CancelCauseFunc: only the first cause is kept.
Cancel(g, why) == IF cause[g] = "none" THEN [cause EXCEPT ![g] = why] ELSE cause

\* A step of Acquire that only moves on.
Move(c, from, to) ==
  /\ pc[c] = from
  /\ pc' = [pc EXCEPT ![c] = to]
  /\ UNCHANGED <<coordinatorVars, store, cancelled, own, previous, loaded, leaseVars, job>>

\* Mutant: ownership is not checked again under opMu.
EnsureActiveReadyOnly(g) == state[g] = "ready"

\* ensureActiveLocked
EnsureActive(g) == /\ state[g] = "ready"
                   /\ release[g] = "none"
                   /\ cause[g] = "none"
                   /\ current = g

(***************************************************************************)
(* Acquire                                                                 *)
(***************************************************************************)

\* A connection asks for the key: sessionFor calls Acquire only when it has no
\* session of that key any more and did not lose one to another connection.
AcquireCall(c) ==
  /\ Move(c, "idle", "lookup")
  /\ c \notin cancelled
  /\ own[c] # 0 => release[own[c]] = "closed" /\ cause[own[c]] # "lost"

\* The context check at the head of the loop.
AcquireCancelled(c) ==
  /\ Move(c, "lookup", "idle")
  /\ c \in cancelled

\* generation <= generations[key] after the addition wrapped around.
AcquireExhausted(c) ==
  /\ Move(c, "lookup", "idle")
  /\ current = 0
  /\ generations = MaxGeneration

\* The key is free: register a lease of the next generation.  Its context
\* derives from the caller's, which may be cancelled since the check above.
Register(c) ==
  /\ pc[c] = "lookup"
  /\ current = 0
  /\ generations < MaxGeneration
  /\ LET g == generations + 1 IN
       /\ generations' = g
       /\ current' = g
       /\ own' = [own EXCEPT ![c] = g]
       /\ state' = [state EXCEPT ![g] = "loading"]
       /\ cause' = [cause EXCEPT ![g] = IF c \in cancelled THEN "context" ELSE "none"]
  /\ pc' = [pc EXCEPT ![c] = "load"]
  /\ UNCHANGED <<store, cancelled, previous, loaded, release, opMu, snapshot, job>>

\* Mutant: the lease in the way is replaced in the map, not waited for.
FindPreviousReplaced(c) ==
  /\ pc[c] = "lookup"
  /\ current # 0
  /\ current' = 0
  /\ UNCHANGED <<generations, store, cancelled, acquireVars, leaseVars, job>>

\* The key is taken: remember the lease in the way.
FindPrevious(c) ==
  /\ pc[c] = "lookup"
  /\ current # 0
  /\ previous' = [previous EXCEPT ![c] = current]
  /\ pc' = [pc EXCEPT ![c] = "retire"]
  /\ UNCHANGED <<coordinatorVars, store, cancelled, own, loaded, leaseVars, job>>

\* Mutant: the lease in the way is waited for but not retired.
RetirePreviousSkipped(c) == Move(c, "retire", "wait")

\* previous.Retire(ErrLeaseLost): waits for an operation that holds opMu.
RetirePrevious(c) ==
  /\ pc[c] = "retire"
  /\ opMu[previous[c]] = Free
  /\ cause' = Cancel(previous[c], "lost")
  /\ pc' = [pc EXCEPT ![c] = "wait"]
  /\ UNCHANGED <<coordinatorVars, store, cancelled, own, previous, loaded, state, release, opMu, snapshot, job>>

\* The select: the previous lease is done (try again) or the caller gave up.
WaitDone(c) ==
  /\ Move(c, "wait", "lookup")
  /\ release[previous[c]] = "closed"

WaitCancelled(c) ==
  /\ Move(c, "wait", "idle")
  /\ c \in cancelled

\* store.LoadOrCreate inserts the initial snapshot when there is none.
LoadOrCreate(c) ==
  /\ pc[c] = "load"
  /\ store' = IF store = Absent THEN Initial ELSE store
  /\ loaded' = [loaded EXCEPT ![c] = store']
  /\ pc' = [pc EXCEPT ![c] = "check"]
  /\ UNCHANGED <<coordinatorVars, cancelled, own, previous, leaseVars, job>>

\* ... or fails without touching the store because the context is cancelled.
LoadFails(c) ==
  /\ Move(c, "load", "undo")
  /\ c \in cancelled

\* context.Cause(leaseCtx): a lease already cancelled is released, not returned.
CheckCause(c) ==
  /\ Move(c, "check", IF cause[own[c]] = "none" THEN "install" ELSE "undo")

\* Under opMu: the lease becomes ready and Acquire returns it.
Install(c) ==
  /\ pc[c] = "install"
  /\ opMu[own[c]] = Free
  /\ snapshot' = [snapshot EXCEPT ![own[c]] = loaded[c]]
  /\ state' = [state EXCEPT ![own[c]] = "ready"]
  /\ pc' = [pc EXCEPT ![c] = "idle"]
  /\ UNCHANGED <<coordinatorVars, store, cancelled, own, previous, loaded, cause, release, opMu, job>>

\* Acquire returns its error once its own Release is through.
UndoDone(c) ==
  /\ Move(c, "undo", "idle")
  /\ release[own[c]] = "closed"

\* The connection's context ends: so does the context of a lease derived from it.
CancelContext(c) ==
  /\ c \notin cancelled
  /\ cancelled' = cancelled \cup {c}
  /\ cause' = [g \in Generations |->
                 IF own[c] = g /\ cause[g] = "none" THEN "context" ELSE cause[g]]
  /\ UNCHANGED <<coordinatorVars, store, acquireVars, state, release, opMu, snapshot, job>>

(***************************************************************************)
(* The lease: Save, Delete, Retire, Release                                *)
(***************************************************************************)

\* Mutant: the in-memory snapshot is replaced before the store accepted it.
SaveLockEager(w, g, v) ==
  /\ job[w].step = "idle"
  /\ opMu[g] = Free
  /\ EnsureActive(g)
  /\ opMu' = [opMu EXCEPT ![g] = w]
  /\ snapshot' = [snapshot EXCEPT ![g] = v]
  /\ job' = [job EXCEPT ![w] = [step |-> "saving", gen |-> g, val |-> v]]
  /\ UNCHANGED <<coordinatorVars, store, cancelled, acquireVars, state, cause, release>>

\* Save and Delete take opMu and find the lease active (otherwise they return
\* an error and change nothing).
SaveLock(w, g, v) ==
  /\ job[w].step = "idle"
  /\ opMu[g] = Free
  /\ EnsureActive(g)
  /\ opMu' = [opMu EXCEPT ![g] = w]
  /\ job' = [job EXCEPT ![w] = [step |-> "saving", gen |-> g, val |-> v]]
  /\ UNCHANGED <<coordinatorVars, store, cancelled, acquireVars, state, cause, release, snapshot>>

\* MemoryStore.Save replaces the snapshot.  Its context check may have passed
\* before the lease's context was cancelled.
SaveStore(w) ==
  /\ job[w].step = "saving"
  /\ store' = job[w].val
  /\ job' = [job EXCEPT ![w] = [step |-> "saved", gen |-> @.gen, val |-> @.val]]
  /\ UNCHANGED <<coordinatorVars, cancelled, acquireVars, leaseVars>>

\* l.snapshot = next, unlock.
SaveReturn(w) ==
  /\ job[w].step = "saved"
  /\ snapshot' = [snapshot EXCEPT ![job[w].gen] = job[w].val]
  /\ opMu' = [opMu EXCEPT ![job[w].gen] = Free]
  /\ job' = [job EXCEPT ![w] = Idle]
  /\ UNCHANGED <<coordinatorVars, store, cancelled, acquireVars, state, cause, release>>

\* The store refuses because the caller's or the lease's context is cancelled.
StoreFails(w) ==
  /\ job[w].step \in {"saving", "deleting"}
  /\ opMu' = [opMu EXCEPT ![job[w].gen] = Free]
  /\ job' = [job EXCEPT ![w] = Idle]
  /\ UNCHANGED <<coordinatorVars, store, cancelled, acquireVars, state, cause, release, snapshot>>

DeleteLock(w, g) ==
  /\ job[w].step = "idle"
  /\ opMu[g] = Free
  /\ EnsureActive(g)
  /\ opMu' = [opMu EXCEPT ![g] = w]
  /\ job' = [job EXCEPT ![w] = [step |-> "deleting", gen |-> g, val |-> Initial]]
  /\ UNCHANGED <<coordinatorVars, store, cancelled, acquireVars, state, cause, release, snapshot>>

DeleteStore(w) ==
  /\ job[w].step = "deleting"
  /\ store' = Absent
  /\ job' = [job EXCEPT ![w] = [step |-> "erased", gen |-> @.gen, val |-> @.val]]
  /\ UNCHANGED <<coordinatorVars, cancelled, acquireVars, leaseVars>>

\* Mutant: Delete leaves the lease ready.
DeleteReturnStillReady(w) ==
  /\ job[w].step = "erased"
  /\ opMu' = [opMu EXCEPT ![job[w].gen] = Free]
  /\ job' = [job EXCEPT ![w] = Idle]
  /\ UNCHANGED <<coordinatorVars, store, cancelled, acquireVars, state, cause, release, snapshot>>

\* ready = false, cancel(ErrLeaseReleased), unlock.
DeleteReturn(w) ==
  /\ job[w].step = "erased"
  /\ state' = [state EXCEPT ![job[w].gen] = "deleted"]
  /\ cause' = Cancel(job[w].gen, "released")
  /\ opMu' = [opMu EXCEPT ![job[w].gen] = Free]
  /\ job' = [job EXCEPT ![w] = Idle]
  /\ UNCHANGED <<coordinatorVars, store, cancelled, acquireVars, release, snapshot>>

\* Acquire has returned the lease, or gave it up and must release it itself.
HandedOver(g) == state[g] \in {"ready", "deleted"}
GivenUp(g) == \E c \in Connections : pc[c] = "undo" /\ own[c] = g

\* Retire by the session that owns the lease (fatal errors, shutdown).
Retire(g) ==
  /\ HandedOver(g)
  /\ opMu[g] = Free
  /\ cause[g] = "none"
  /\ cause' = Cancel(g, "retired")
  /\ UNCHANGED <<coordinatorVars, store, cancelled, acquireVars, state, release, opMu, snapshot, job>>

\* Release, once: mark under opMu, leave the map under coordinator.mu, close done.
ReleaseMark(g) ==
  /\ HandedOver(g) \/ GivenUp(g)
  /\ release[g] = "none"
  /\ opMu[g] = Free
  /\ release' = [release EXCEPT ![g] = "marked"]
  /\ cause' = Cancel(g, "released")
  /\ UNCHANGED <<coordinatorVars, store, cancelled, acquireVars, state, opMu, snapshot, job>>

ReleaseRemove(g) ==
  /\ release[g] = "marked"
  /\ current' = IF current = g THEN 0 ELSE current
  /\ release' = [release EXCEPT ![g] = "removed"]
  /\ UNCHANGED <<generations, store, cancelled, acquireVars, state, cause, opMu, snapshot, job>>

ReleaseClose(g) ==
  /\ release[g] = "removed"
  /\ release' = [release EXCEPT ![g] = "closed"]
  /\ UNCHANGED <<coordinatorVars, store, cancelled, acquireVars, state, cause, opMu, snapshot, job>>

AcquireStep(c) ==
  \/ AcquireCancelled(c) \/ AcquireExhausted(c) \/ Register(c) \/ FindPrevious(c)
  \/ RetirePrevious(c) \/ WaitDone(c) \/ WaitCancelled(c)
  \/ LoadOrCreate(c) \/ LoadFails(c) \/ CheckCause(c) \/ Install(c) \/ UndoDone(c)

WorkerStep(w) == SaveStore(w) \/ SaveReturn(w) \/ StoreFails(w) \/ DeleteStore(w) \/ DeleteReturn(w)

\* The session's shutdown goroutine releases a lease whose context is done.
ReleaseStep(g) == (cause[g] # "none" /\ ReleaseMark(g)) \/ ReleaseRemove(g) \/ ReleaseClose(g)

Next ==
  \/ \E c \in Connections : AcquireCall(c) \/ CancelContext(c) \/ AcquireStep(c)
  \/ \E w \in Workers : WorkerStep(w)
  \/ \E w \in Workers, g \in Generations : DeleteLock(w, g) \/ \E v \in Values : SaveLock(w, g, v)
  \/ \E g \in Generations : Retire(g) \/ ReleaseMark(g) \/ ReleaseRemove(g) \/ ReleaseClose(g)

Spec == Init /\ [][Next]_vars

\* Goroutines that can run do run, and sync.Mutex hands opMu to a waiter in the
\* end (its starvation mode), hence strong fairness of the steps that take it.
\* Nobody is obliged to call Acquire, Save, Delete or Retire, nor is a
\* connection obliged to end.
FairSpec ==
  /\ Spec
  /\ \A c \in Connections : WF_vars(AcquireStep(c)) /\ SF_vars(RetirePrevious(c))
  /\ \A w \in Workers : WF_vars(WorkerStep(w))
  /\ \A g \in Generations : SF_vars(ReleaseStep(g))

(***************************************************************************)
(* Properties                                                              *)
(***************************************************************************)

\* The mutable owner of the session: Save, Delete and Snapshot would succeed.
Active(g) == state[g] = "ready" /\ release[g] = "none" /\ cause[g] = "none"

\* Exclusive ownership: an active lease is the one in the coordinator's map and
\* the newest ever granted, so two connections are never owners at once, also
\* while one takes the key over from the other.
LeaseExclusive == \A g \in Generations : Active(g) => g = current /\ g = generations

\* Fencing: a Save or Delete that passed its check and is about to change the
\* store still belongs to the registered lease, whatever Retire, Release and a
\* competing Acquire did since the check.
FencedWrites ==
  \A w \in Workers : job[w].step \in {"saving", "deleting"} =>
    job[w].gen = current /\ job[w].gen = generations

\* The owner's in-memory snapshot is the durable one whenever no operation is
\* in flight: failed saves, lost ownership and takeovers never split them.
SnapshotDurable ==
  \A g \in Generations : Active(g) /\ opMu[g] = Free => snapshot[g] = store

\* A deleted session comes back only as a new one: no Save that was under way
\* when the snapshot was deleted brings the old state back.
NoResurrection == [][store = Absent => store' \in {Absent, Initial}]_vars

\* The coordinator keeps the promise of the Coordinator and Lease interfaces:
\* one owner at a time, growing generations, and only the owner changes the
\* durable snapshot.
Fenced == INSTANCE FencedSession WITH
            owner <- IF current # 0 /\ release[current] = "none" THEN current ELSE 0,
            generation <- generations,
            durable <- store
ImplementsFencedSession == Fenced!Spec

\* Takeover ends.  The owner that an Acquire found in its way releases the key and
\* closes done, so no turn of Acquire's loop waits for ever; and an Acquire returns
\* once no other connection is in Acquire any more.  While others keep coming, a
\* waiter may find a new owner each time it looks again.
TakeoverEnds ==
  \A c \in Connections :
    /\ pc[c] \in {"retire", "wait"} ~> pc[c] \notin {"retire", "wait"}
    /\ <>[](\A d \in Connections \ {c} : pc[d] = "idle") => (pc[c] # "idle" ~> pc[c] = "idle")
=============================================================================
