--------------------------- MODULE ActiveRequests ---------------------------
(***************************************************************************)
(* The requests of one connectionSession: the connection-wide admission    *)
(* counter, the ActiveRequestRegistry, the goroutine of each request with  *)
(* its wait for invokeAfter dependencies, rpc_drop_answer, and the part of *)
(* shutdown that waits for them (internal/runtime/active_requests.go and   *)
(* connection_session.go).                                                 *)
(*                                                                         *)
(* A registration is <<id, n>>: the n-th time the message id is begun.     *)
(* The registry's mutex guards sections that call nothing: one step each.  *)
(***************************************************************************)
EXTENDS Naturals, Sequences, FiniteSets

CONSTANTS Ids,        \* message ids of application requests
          Deps,       \* per id: the earlier ids of its invokeAfter wrapper
          MaxBegins,  \* bound on how often an id is begun
          MaxRegistrations,  \* bound on what is begun altogether
          Capacity,   \* ActiveRequests, of the connection and of the registry
          MaxOthers   \* bound on the requests of the connection's other sessions

ASSUME RequestsAssumption ==
  /\ IsFiniteSet(Ids)
  /\ Capacity \in Nat \ {0} /\ MaxOthers \in Nat
  /\ MaxBegins \in Nat /\ MaxRegistrations \in Nat
  /\ Deps \in [Ids -> SUBSET Ids]

VARIABLES
  inUse,       \* connectionRequestAdmission.inUse
  others,      \* slots held by the connection's other sessions
  reader,      \* what the reader does with its batch
  batch,       \* the ids of that batch that are not routed yet
  begun,       \* per id: registrations so far
  active,      \* per id: the registration in registry.active, 0 for none
  finished,    \* registrations whose activeRequest has ended
  completed,   \* registry.completed
  order,       \* registry.completedOrder
  pc,          \* where the goroutine of each registration is
  woken,       \* waiters whose captured changed channel is closed
  cancelled,   \* registrations whose context is cancelled
  outcome,     \* per registration: the result its goroutine reports
  retired,     \* the lease is retired
  shutdown,    \* progress of connectionSession.shutdown
  succeeded    \* ids with a registration that ended well

registryVars == <<active, finished, completed, order, woken>>
vars == <<inUse, others, reader, batch, begun, registryVars, pc, cancelled, outcome,
          retired, shutdown, succeeded>>

Registrations == Ids \X (1..MaxBegins)
ActiveIds == {i \in Ids : active[i] # 0}
TotalBegun == Cardinality({r \in Registrations : r[2] <= begun[r[1]]})
Latest(i) == <<i, begun[i]>>

TypeOK ==
  /\ inUse \in 0..Capacity /\ others \in 0..MaxOthers
  /\ reader \in {"idle", "admitted", "routing", "failing", "stopped"} /\ batch \subseteq Ids
  /\ begun \in [Ids -> 0..MaxBegins] /\ active \in [Ids -> 0..MaxBegins]
  /\ finished \subseteq Registrations
  /\ completed \in [Ids -> {"unknown", "ok", "failed"}] /\ order \in Seq(Ids)
  /\ pc \in [Registrations -> {"none", "reserved", "look", "select", "refuse", "running",
                               "complete", "release", "gone"}]
  /\ woken \subseteq Registrations /\ cancelled \subseteq Registrations
  /\ outcome \in [Registrations -> BOOLEAN]
  /\ retired \in BOOLEAN
  /\ shutdown \in {"up", "closing", "waiting", "released"}
  /\ succeeded \subseteq Ids

Init ==
  /\ inUse = 0 /\ others = 0
  /\ reader = "idle" /\ batch = {}
  /\ begun = [i \in Ids |-> 0] /\ active = [i \in Ids |-> 0]
  /\ finished = {} /\ completed = [i \in Ids |-> "unknown"] /\ order = <<>>
  /\ pc = [r \in Registrations |-> "none"]
  /\ woken = {} /\ cancelled = {}
  /\ outcome = [r \in Registrations |-> FALSE]
  /\ retired = FALSE /\ shutdown = "up" /\ succeeded = {}

Goto(r, from, to) == pc[r] = from /\ pc' = [pc EXCEPT ![r] = to]

\* notifyLocked: every waiter that holds the current channel is woken.
Notify == woken' = woken \cup {r \in Registrations : pc[r] = "select"}

(***************************************************************************)
(* finishLocked                                                            *)
(***************************************************************************)

Elems(s) == {s[n] : n \in DOMAIN s}

OrderWithout(ids) == SelectSeq(order, LAMBDA j : j \notin Elems(ids))

\* The bounded history after the result of some ids is recorded, one after the
\* other: each moves to the end, and the oldest that do not fit are forgotten.
Record(ids, result) ==
  LET grown == OrderWithout(ids) \o ids
      kept  == SubSeq(grown, IF Len(grown) > Capacity THEN Len(grown) - Capacity + 1 ELSE 1, Len(grown))
  IN  /\ order' = kept
      /\ completed' = [j \in Ids |-> IF j \notin Elems(kept) THEN "unknown"
                                     ELSE IF j \in Elems(ids) THEN result ELSE completed[j]]

Result(success) == IF success THEN "ok" ELSE "failed"

\* Mutant: whatever is registered under the id is removed.
FinishLockedById(r, success) ==
  /\ finished' = finished \cup {r}
  /\ active' = [active EXCEPT ![r[1]] = 0]
  /\ Record(<<r[1]>>, Result(success))
  /\ Notify

\* Mutant: waiters are not told.
FinishLockedSilent(r, success) ==
  IF r \in finished THEN UNCHANGED registryVars
  ELSE /\ finished' = finished \cup {r}
       /\ active' = IF active[r[1]] = r[2] THEN [active EXCEPT ![r[1]] = 0] ELSE active
       /\ Record(<<r[1]>>, Result(success))
       /\ UNCHANGED woken

\* Only the first end of a registration counts, and it removes only itself.
FinishLocked(r, success) ==
  IF r \in finished THEN UNCHANGED registryVars
  ELSE /\ finished' = finished \cup {r}
       /\ active' = IF active[r[1]] = r[2] THEN [active EXCEPT ![r[1]] = 0] ELSE active
       /\ Record(<<r[1]>>, Result(success))
       /\ Notify

(***************************************************************************)
(* The reader: beginRequests, then one routeMessage per request            *)
(***************************************************************************)

\* Mutant: a session that is closing takes requests.
AdmitClosing(ids) ==
  /\ reader = "idle"
  /\ \A i \in ids : begun[i] < MaxBegins
  /\ TotalBegun + Cardinality(ids) <= MaxRegistrations
  /\ inUse + Cardinality(ids) <= Capacity
  /\ inUse' = inUse + Cardinality(ids)
  /\ batch' = ids
  /\ reader' = "admitted"
  /\ UNCHANGED <<others, begun, registryVars, pc, cancelled, outcome, retired, shutdown, succeeded>>

\* Under lifecycleMu, held until the batch is begun: admission.acquire.
Admit(ids) ==
  /\ reader = "idle"
  /\ \A i \in ids : begun[i] < MaxBegins
  /\ TotalBegun + Cardinality(ids) <= MaxRegistrations
  /\ shutdown = "up"
  /\ inUse + Cardinality(ids) <= Capacity
  /\ inUse' = inUse + Cardinality(ids)
  /\ batch' = ids
  /\ reader' = "admitted"
  /\ UNCHANGED <<others, begun, registryVars, pc, cancelled, outcome, retired, shutdown, succeeded>>

OverCapacity == Cardinality(ActiveIds) + Cardinality(batch) > Capacity
Duplicates == batch \cap ActiveIds

\* beginBatch registers every request of the batch, or none.
BeginBatch ==
  /\ reader = "admitted"
  /\ ~OverCapacity /\ Duplicates = {}
  /\ begun' = [i \in Ids |-> IF i \in batch THEN begun[i] + 1 ELSE begun[i]]
  /\ active' = [i \in Ids |-> IF i \in batch THEN begun[i] + 1 ELSE active[i]]
  /\ pc' = [r \in Registrations |-> IF r[1] \in batch /\ r[2] = begun[r[1]] + 1 THEN "reserved" ELSE pc[r]]
  /\ Notify
  /\ reader' = "routing"
  /\ UNCHANGED <<inUse, others, batch, finished, completed, order, cancelled, outcome, retired, shutdown, succeeded>>

\* The slots are given back.  Too many requests are answered as overload; a
\* duplicate id ends the connection.
BeginFails ==
  /\ reader = "admitted"
  /\ OverCapacity \/ Duplicates # {}
  /\ inUse' = inUse - Cardinality(batch)
  /\ batch' = {}
  /\ reader' = IF OverCapacity THEN "idle" ELSE "stopped"
  /\ retired' = (retired \/ ~OverCapacity)
  /\ UNCHANGED <<others, begun, registryVars, pc, cancelled, outcome, shutdown, succeeded>>

\* routeMessage starts the goroutine of the next request.
Route(i) ==
  /\ reader = "routing" /\ i \in batch
  /\ pc' = [pc EXCEPT ![Latest(i)] = "look"]
  /\ batch' = batch \ {i}
  /\ reader' = IF batch = {i} THEN "idle" ELSE "routing"
  /\ UNCHANGED <<inUse, others, begun, registryVars, cancelled, outcome, retired, shutdown, succeeded>>

\* A save, a write or a route fails: releaseReservations completes the request
\* i and, one by one, all that are left; the connection ends and with it the lease.
ReleaseReservation(i) ==
  /\ reader \in {"routing", "failing"} /\ i \in batch
  /\ FinishLocked(Latest(i), FALSE)
  /\ cancelled' = cancelled \cup {Latest(i)}
  /\ pc' = [pc EXCEPT ![Latest(i)] = "release"]
  /\ batch' = batch \ {i}
  /\ reader' = IF batch = {i} THEN "stopped" ELSE "failing"
  /\ retired' = TRUE
  /\ UNCHANGED <<inUse, others, begun, outcome, shutdown, succeeded>>

\* The connection's other sessions take and return slots.
OtherAcquire ==
  /\ others < MaxOthers /\ inUse + 1 <= Capacity
  /\ inUse' = inUse + 1 /\ others' = others + 1
  /\ UNCHANGED <<reader, batch, begun, registryVars, pc, cancelled, outcome, retired, shutdown, succeeded>>

OtherRelease ==
  /\ others > 0
  /\ inUse' = inUse - 1 /\ others' = others - 1
  /\ UNCHANGED <<reader, batch, begun, registryVars, pc, cancelled, outcome, retired, shutdown, succeeded>>

\* Mutant: dropping a request also returns its slot.
DropReleases(i) ==
  /\ reader \in {"idle", "routing"}
  /\ active[i] # 0
  /\ FinishLocked(<<i, active[i]>>, FALSE)
  /\ cancelled' = cancelled \cup {<<i, active[i]>>}
  /\ inUse' = inUse - 1
  /\ UNCHANGED <<others, reader, batch, begun, pc, outcome, retired, shutdown, succeeded>>

\* rpc_drop_answer for a request in the registry: one that runs goes on, cancelled;
\* one of the same container that is reserved still is routed.
Drop(i) ==
  /\ reader \in {"idle", "routing"}
  /\ active[i] # 0
  /\ FinishLocked(<<i, active[i]>>, FALSE)
  /\ cancelled' = cancelled \cup {<<i, active[i]>>}
  /\ UNCHANGED <<inUse, others, reader, batch, begun, pc, outcome, retired, shutdown, succeeded>>

(***************************************************************************)
(* The goroutine of a request                                              *)
(***************************************************************************)

\* Mutant: a failed dependency counts as completed.
LookAnyOutcome(r) ==
  /\ Goto(r, "look", IF \A d \in Deps[r[1]] : completed[d] # "unknown" THEN "running" ELSE "select")
  /\ woken' = woken \ {r}
  /\ UNCHANGED <<inUse, others, reader, batch, begun, active, finished, completed, order, cancelled, outcome, retired, shutdown, succeeded>>

\* One turn of WaitDependencies under the mutex: a failed dependency, all of
\* them done, or take the current channel and wait.
Look(r) ==
  LET deps == Deps[r[1]] IN
  /\ Goto(r, "look", IF \E d \in deps : completed[d] = "failed" THEN "refuse"
                     ELSE IF \A d \in deps : completed[d] = "ok" THEN "running" ELSE "select")
  /\ woken' = woken \ {r}
  /\ UNCHANGED <<inUse, others, reader, batch, begun, active, finished, completed, order, cancelled, outcome, retired, shutdown, succeeded>>

AroundGoroutine == <<inUse, others, reader, batch, begun, registryVars, cancelled, shutdown, succeeded>>

\* The select of WaitDependencies: the channel is closed, ...
Wake(r) == Goto(r, "select", "look") /\ r \in woken /\ UNCHANGED <<AroundGoroutine, outcome, retired>>

\* ... the timer has fired, ...
TimeOut(r) == Goto(r, "select", "refuse") /\ UNCHANGED <<AroundGoroutine, outcome, retired>>

\* ... or the context is done: leave without an answer.
Cancelled(r) == Goto(r, "select", "complete") /\ r \in cancelled /\ UNCHANGED <<AroundGoroutine, outcome, retired>>

\* MSG_WAIT_FAILED or MSG_WAIT_TIMEOUT is submitted; a failed write retires the lease.
Refuse(r, fails) ==
  /\ Goto(r, "refuse", "complete")
  /\ retired' = (retired \/ fails)
  /\ UNCHANGED <<AroundGoroutine, outcome>>

\* DispatchApplication and applyOutcome return.
HandlerReturns(r, success, fails) ==
  /\ Goto(r, "running", "complete")
  /\ success => ~fails
  /\ outcome' = [outcome EXCEPT ![r] = success]
  /\ retired' = (retired \/ fails)
  /\ UNCHANGED AroundGoroutine

\* complete: first the registry ...
Complete(r) ==
  /\ Goto(r, "complete", "release")
  /\ FinishLocked(r, outcome[r])
  /\ cancelled' = cancelled \cup {r}
  /\ succeeded' = IF outcome[r] THEN succeeded \cup {r[1]} ELSE succeeded
  /\ outcome' = [outcome EXCEPT ![r] = FALSE]
  /\ UNCHANGED <<inUse, others, reader, batch, begun, retired, shutdown>>

\* ... then the admission slot and the session's WaitGroup.
Release(r) ==
  /\ Goto(r, "release", "gone")
  /\ inUse' = inUse - 1
  /\ UNCHANGED <<others, reader, batch, begun, registryVars, cancelled, outcome, retired, shutdown, succeeded>>

(***************************************************************************)
(* Shutdown                                                                *)
(***************************************************************************)

LeaseEnds ==
  /\ ~retired /\ retired' = TRUE
  /\ UNCHANGED <<AroundGoroutine, pc, outcome>>

\* closing is set under lifecycleMu.
ShutdownMark ==
  /\ retired /\ shutdown = "up"
  /\ reader # "admitted"
  /\ shutdown' = "closing"
  /\ UNCHANGED <<inUse, others, reader, batch, begun, registryVars, pc, cancelled, outcome, retired, succeeded>>

\* Mutant: the registry is emptied and nobody is cancelled or woken.
CancelAllQuietly ==
  /\ shutdown = "closing"
  /\ active' = [i \in Ids |-> 0]
  /\ finished' = finished \cup {<<i, active[i]>> : i \in ActiveIds}
  /\ shutdown' = "waiting"
  /\ UNCHANGED <<inUse, others, reader, batch, begun, completed, order, woken, pc, cancelled, outcome, retired, succeeded>>

InSomeOrder(S) == {s \in [1 .. Cardinality(S) -> S] : \A a, b \in DOMAIN s : s[a] = s[b] => a = b}

\* CancelAll ends every active registration, in any order.
CancelAll ==
  /\ shutdown = "closing"
  /\ \E ids \in InSomeOrder(ActiveIds) : Record(ids, "failed")
  /\ finished' = finished \cup {<<i, active[i]>> : i \in ActiveIds}
  /\ cancelled' = cancelled \cup {<<i, active[i]>> : i \in ActiveIds}
  /\ active' = [i \in Ids |-> 0]
  /\ woken' = IF ActiveIds = {} THEN woken ELSE woken \cup {r \in Registrations : pc[r] = "select"}
  /\ shutdown' = "waiting"
  /\ UNCHANGED <<inUse, others, reader, batch, begun, pc, outcome, retired, succeeded>>

\* requestWG.Wait returns and the lease is released.
ShutdownRelease ==
  /\ shutdown = "waiting"
  /\ \A r \in Registrations : pc[r] \in {"none", "gone"}
  /\ shutdown' = "released"
  /\ UNCHANGED <<inUse, others, reader, batch, begun, registryVars, pc, cancelled, outcome, retired, succeeded>>

ReaderStep == BeginBatch \/ BeginFails \/ \E i \in Ids : Route(i) \/ ReleaseReservation(i)

RequestStep(r) ==
  \/ Look(r) \/ Wake(r) \/ Cancelled(r) \/ Complete(r) \/ Release(r)
  \/ \E fails \in BOOLEAN : Refuse(r, fails) \/ \E success \in BOOLEAN : HandlerReturns(r, success, fails)

Next ==
  \/ \E ids \in SUBSET Ids : ids # {} /\ Admit(ids)
  \/ ReaderStep \/ OtherAcquire \/ OtherRelease
  \/ \E i \in Ids : Drop(i)
  \/ \E r \in Registrations : RequestStep(r) \/ TimeOut(r)
  \/ LeaseEnds \/ ShutdownMark \/ CancelAll \/ ShutdownRelease

Spec == Init /\ [][Next]_vars

\* Goroutines run on, handlers return and lifecycleMu is granted in the end
\* (sync.Mutex starvation mode).  No timer has to fire in time: what is
\* promised must not depend on it.
FairSpec ==
  /\ Spec
  /\ WF_vars(ReaderStep)
  /\ \A r \in Registrations : WF_vars(RequestStep(r))
  /\ SF_vars(ShutdownMark) /\ WF_vars(CancelAll) /\ WF_vars(ShutdownRelease)

(***************************************************************************)
(* Properties                                                              *)
(***************************************************************************)

Live(r) == pc[r] \notin {"none", "gone"}
Dependents == {r \in Registrations : Deps[r[1]] # {}}
LiveRegistrations == {r \in Registrations : Live(r)}

\* The admission counter is exactly the slots in use through drops, failed
\* batches and completions that race: one per request of the connection whose
\* goroutine or reservation still lives, dropped ones included.
AdmissionExact ==
  inUse = others + Cardinality(LiveRegistrations)
          + IF reader = "admitted" THEN Cardinality(batch) ELSE 0

\* A request with invokeAfter dependencies is dispatched only after a request of
\* each of those ids has completed successfully.
DependenciesHold ==
  \A r \in Registrations : pc[r] = "running" => Deps[r[1]] \subseteq succeeded

\* A registration leaves the registry only by its own completion, a drop or
\* CancelAll: a late completion of a dropped request never removes the request
\* that reuses its id.
OwnCompletionOnly ==
  [][\A i \in Ids : active[i] # 0 /\ active'[i] # active[i] => <<i, active[i]>> \in cancelled']_vars

\* The lease is released only when no goroutine of a request is left that could
\* still use it, and none starts afterwards.
QuietAfterRelease == shutdown = "released" => LiveRegistrations = {}

\* A waiting request moves when its last dependency completes: the wakeup is not
\* lost between the look and the select, and no timer is needed.
WaitersWake ==
  \A r \in Dependents :
    (pc[r] = "select" /\ \A d \in Deps[r[1]] : completed[d] = "ok") ~> pc[r] # "select"

\* Shutdown ends: CancelAll reaches every request it has to wait for.
ShutdownEnds == retired ~> shutdown = "released"
=============================================================================
