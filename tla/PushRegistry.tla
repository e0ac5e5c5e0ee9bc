---------------------------- MODULE PushRegistry ----------------------------
(***************************************************************************)
(* runtimePushRegistry (runtime_push.go) for one session, composed with    *)
(* the session's RecoveryPushBarrier.  Publishers use PublishProjected:    *)
(* they capture the session's binding, encode for it, and push only if the *)
(* registration still has that binding, holding the registration's mutex   *)
(* over the call of Sender.Push.  A request's reply may first persist      *)
(* session mutations and publish the new binding with Presence.Update;     *)
(* shutdown withdraws the registration with Presence.Remove.               *)
(*                                                                         *)
(* The registry's own mutex guards sections that call nothing: one step.   *)
(* One registration object per successful insertion; Update can insert a   *)
(* second one after Remove, never a third.                                 *)
(***************************************************************************)
EXTENDS RecoveryPushBarrier

CONSTANTS Mutators,  \* requests whose outcome binds another user or layer
          Original   \* the binding registered by newConnectionSession

ASSUME RegistryAssumption ==
  Mutators \subseteq Requests /\ Original \notin Requests /\ Nobody \notin Publishers

VARIABLES
  registered,  \* the registration object in byKey, 0 for none
  binding,     \* per object: target.binding, named by who wrote it
  reachable,   \* per object: target.reachable
  targetMu,    \* per object: the publisher that holds target.mu
  plan,        \* per publisher: the object and binding captured for a push
  update,      \* per request: progress of applyMutationsLocked
  found,       \* per request: the object Update looked up
  removed      \* shutdown has called Presence.Remove

registryVars == <<registered, binding, reachable, targetMu>>
allVars == <<vars, registryVars, plan, update, found, removed>>

Objects == {1, 2}
Bindings == Mutators \cup {Original}
NoPlan == [object |-> 0, binding |-> Original]

RegistryTypeOK ==
  /\ registered \in Objects \cup {0}
  /\ binding \in [Objects -> Bindings]
  /\ reachable \in [Objects -> BOOLEAN]
  /\ targetMu \in [Objects -> Publishers \cup {Nobody}]
  /\ plan \in [Publishers -> [object : Objects \cup {0}, binding : Bindings]]
  /\ update \in [Requests -> {"save", "find", "apply", "done"}]
  /\ found \in [Requests -> Objects \cup {0}]
  /\ removed \in BOOLEAN

RegistryInit ==
  /\ Init
  /\ registered = 1
  /\ binding = [o \in Objects |-> Original]
  /\ reachable = [o \in Objects |-> o = 1]
  /\ targetMu = [o \in Objects |-> Nobody]
  /\ plan = [p \in Publishers |-> NoPlan]
  /\ update = [r \in Requests |-> IF r \in Mutators THEN "save" ELSE "done"]
  /\ found = [r \in Requests |-> 0]
  /\ removed = FALSE

(***************************************************************************)
(* PublishProjected                                                        *)
(***************************************************************************)

\* Find the registration under the registry's read lock and read its binding
\* under target.mu; the push is encoded for that binding.
Collect(p) ==
  /\ pc[p] = "idle"
  /\ plan[p] = NoPlan
  /\ push[p].n < MaxPushes[p]
  /\ registered # 0 /\ targetMu[registered] = Nobody /\ reachable[registered]
  /\ plan' = [plan EXCEPT ![p] = [object |-> registered, binding |-> binding[registered]]]
  /\ UNCHANGED <<vars, registryVars, update, found, removed>>

\* pushProjectedIfCurrent: take target.mu; the binding changed.
PushStale(p) ==
  LET o == plan[p].object IN
  /\ pc[p] = "idle"
  /\ o # 0 /\ targetMu[o] = Nobody
  /\ ~(reachable[o] /\ binding[o] = plan[p].binding)
  /\ plan' = [plan EXCEPT ![p] = NoPlan]
  /\ UNCHANGED <<vars, registryVars, update, found, removed>>

\* Mutant: target.mu is released before Sender.Push returns.
PushCurrentUnlocked(p, size) ==
  LET o == plan[p].object IN
  /\ o # 0 /\ targetMu[o] = Nobody
  /\ reachable[o] /\ binding[o] = plan[p].binding
  /\ PushCall(p, size)
  /\ plan' = IF pc'[p] = "idle" THEN [plan EXCEPT ![p] = NoPlan] ELSE plan
  /\ UNCHANGED <<registryVars, update, found, removed>>

\* ... or it is current: call Sender.Push and keep target.mu until it returns.
PushCurrent(p, size) ==
  LET o == plan[p].object IN
  /\ o # 0 /\ targetMu[o] = Nobody
  /\ reachable[o] /\ binding[o] = plan[p].binding
  /\ PushCall(p, size)
  /\ IF pc'[p] = "idle"
     THEN plan' = [plan EXCEPT ![p] = NoPlan] /\ UNCHANGED targetMu
     ELSE targetMu' = [targetMu EXCEPT ![o] = p] /\ UNCHANGED plan
  /\ UNCHANGED <<registered, binding, reachable, update, found, removed>>

PushOn(p) ==
  LET o == plan[p].object IN
  /\ PushStep(p)
  /\ IF pc'[p] = "idle"
     THEN /\ plan' = [plan EXCEPT ![p] = NoPlan]
          /\ targetMu' = [targetMu EXCEPT ![o] = Nobody]
     ELSE UNCHANGED <<plan, targetMu>>
  /\ UNCHANGED <<registered, binding, reachable, update, found, removed>>

(***************************************************************************)
(* applyMutationsLocked and Presence.Update, inside a request's reply      *)
(***************************************************************************)

\* lease.Save succeeds only while the lease is active.
SaveMutation(r) ==
  /\ pc[r] = "reply" /\ update[r] = "save"
  /\ ~retired
  /\ update' = [update EXCEPT ![r] = "find"]
  /\ UNCHANGED <<vars, registryVars, plan, found, removed>>

\* Update looks the registration up under the read lock ...
UpdateFind(r) ==
  /\ pc[r] = "reply" /\ update[r] = "find"
  /\ found' = [found EXCEPT ![r] = registered]
  /\ update' = [update EXCEPT ![r] = "apply"]
  /\ UNCHANGED <<vars, registryVars, plan, removed>>

\* ... inserts a new one when there is none (reach: the session has a user and
\* accepts pushes) ...
UpdateInsert(r, reach) ==
  /\ update[r] = "apply" /\ found[r] = 0
  /\ registered = 0
  /\ registered' = 2
  /\ binding' = [binding EXCEPT ![2] = r]
  /\ reachable' = [reachable EXCEPT ![2] = reach]
  /\ update' = [update EXCEPT ![r] = "done"]
  /\ UNCHANGED <<vars, targetMu, plan, found, removed>>

\* ... and otherwise replaces the binding under target.mu.
UpdateReplace(r, reach) ==
  LET o == found[r] IN
  /\ update[r] = "apply" /\ o # 0
  /\ targetMu[o] = Nobody
  /\ registered = o
  /\ binding' = [binding EXCEPT ![o] = r]
  /\ reachable' = [reachable EXCEPT ![o] = reach]
  /\ update' = [update EXCEPT ![r] = "done"]
  /\ UNCHANGED <<vars, registered, targetMu, plan, found, removed>>

\* The registration changed since the lookup: once more.
UpdateRetry(r) ==
  /\ update[r] = "apply"
  /\ registered # found[r]
  /\ found[r] # 0 => targetMu[found[r]] = Nobody
  /\ update' = [update EXCEPT ![r] = "find"]
  /\ UNCHANGED <<vars, registryVars, plan, found, removed>>

\* The reply is submitted when the mutations are through; without them it fails.
Reply(r, written, ok) ==
  /\ IF update[r] = "save" THEN retired /\ ~written ELSE update[r] = "done"
  /\ SubmitReply(r, written, ok)
  /\ UNCHANGED <<registryVars, plan, update, found, removed>>

AroundRegistry == <<registryVars, plan, update, found, removed>>

RequestOn(r) ==
  \/ /\ Begin(r) \/ FinishLock(r) \/ AbortLock(r) \/ Finish(r) \/ ReplyFailed(r)
        \/ Settle(r) \/ DrainTake(r) \/ DrainSubmit(r) \/ Abort(r)
        \/ \E written \in BOOLEAN : DrainFails(r, written)
     /\ UNCHANGED AroundRegistry
  \/ \E written, ok \in BOOLEAN : Reply(r, written, ok)
  \/ SaveMutation(r) \/ UpdateFind(r) \/ UpdateRetry(r)
  \/ \E reach \in BOOLEAN : UpdateInsert(r, reach) \/ UpdateReplace(r, reach)

(***************************************************************************)
(* Shutdown: Presence.Remove, then close the barrier                       *)
(***************************************************************************)

RemovePresence ==
  /\ retired /\ ~removed
  /\ registered # 0 => targetMu[registered] = Nobody
  /\ registered' = 0
  /\ reachable' = IF registered = 0 THEN reachable ELSE [reachable EXCEPT ![registered] = FALSE]
  /\ removed' = TRUE
  /\ UNCHANGED <<vars, binding, targetMu, plan, update, found>>

ShutdownOn == RemovePresence \/ (removed /\ (CloseLock \/ Close) /\ UNCHANGED AroundRegistry)

RegistryNext ==
  \/ \E p \in Publishers : Collect(p) \/ PushStale(p) \/ PushOn(p) \/ \E size \in Sizes[p] : PushCurrent(p, size)
  \/ \E r \in Requests : (BeginLock(r) /\ UNCHANGED AroundRegistry) \/ RequestOn(r)
  \/ LeaseEnds /\ UNCHANGED AroundRegistry
  \/ ShutdownOn

RegistrySpec == RegistryInit /\ [][RegistryNext]_allVars

\* As for the barrier: goroutines run on and locks are granted in the end.
RegistryFairSpec ==
  /\ RegistrySpec
  /\ \A p \in Publishers : SF_allVars(PushOn(p))
  /\ \A r \in Requests : SF_allVars(RequestOn(r))
  /\ SF_allVars(ShutdownOn)

(***************************************************************************)
(* Properties                                                              *)
(***************************************************************************)

\* A projected push is accepted, into the queue or by the writer, only while the
\* registration has the very binding the push was encoded for.
ProjectionIsCurrent ==
  [][\A i \in returned' \ returned :
       LET p == i[1]  o == plan[p].object IN reachable[o] /\ binding[o] = plan[p].binding]_allVars

\* Session shutdown ends, whatever publishers and protected replies are doing
\* (recovery_push_barrier_test.go:380 fails with "session shutdown deadlocked
\* behind blocked barrier drain").
ShutdownEnds == retired ~> pc[Shutdown] = "done"
=============================================================================
