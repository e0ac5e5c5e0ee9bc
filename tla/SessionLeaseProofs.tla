------------------------- MODULE SessionLeaseProofs -------------------------
(***************************************************************************)
(* Proofs about SessionLease for any number of connections, goroutines,    *)
(* snapshots and generations, and about SessionSnapshot, which uses the    *)
(* snapshot of a lease, for any number of requests.                        *)
(***************************************************************************)
EXTENDS SessionLease, SessionSnapshot, TLAPS

\* The registered lease is the newest one and not yet removed from the map;
\* every other lease ever granted has left it.
MapInv ==
  /\ current # 0 => current = generations /\ release[current] \in {"none", "marked"}
  /\ \A g \in Generations : g <= generations /\ g # current => release[g] \in {"removed", "closed"}
  /\ \A g \in Generations : g > generations =>
       state[g] = "none" /\ release[g] = "none" /\ opMu[g] = Free

\* A lease being acquired belongs to one connection, is not ready yet, and is
\* released by nobody but that connection's own Acquire.
OwnInv ==
  /\ \A c \in Connections : own[c] <= generations
  /\ \A c, d \in Connections : own[c] = own[d] /\ own[c] # 0 => c = d
  /\ \A c \in Connections : pc[c] \in {"load", "check", "install", "undo"} =>
       own[c] # 0 /\ state[own[c]] = "loading"
  /\ \A c \in Connections : pc[c] \in {"load", "check", "install"} => release[own[c]] = "none"
  /\ \A c \in Connections : pc[c] \in {"retire", "wait"} => previous[c] # 0

\* A goroutine inside Save or Delete holds opMu of a lease that was ready and
\* that cannot be released before the goroutine is through.
JobInv ==
  \A w \in Workers : job[w].step # "idle" =>
    /\ job[w].gen # 0
    /\ opMu[job[w].gen] = w
    /\ state[job[w].gen] = "ready"
    /\ release[job[w].gen] = "none"
    /\ job[w].step = "saving" => job[w].val \in Values

\* What the registered lease remembers is what the store holds.
DurableInv ==
  /\ \A g \in Generations : state[g] = "ready" /\ release[g] = "none" /\ opMu[g] = Free =>
       snapshot[g] = store /\ store # Absent
  /\ \A w \in Workers : job[w].step \in {"saving", "deleting"} =>
       snapshot[job[w].gen] = store /\ store # Absent
  /\ \A w \in Workers : job[w].step = "saved" => store = job[w].val
  /\ \A c \in Connections : pc[c] \in {"check", "install"} => loaded[c] = store /\ store # Absent

LeaseInv == TypeOK /\ MapInv /\ OwnInv /\ JobInv /\ DurableInv

\* The inductive invariant holds initially.
LEMMA InitLeaseInv == Init => LeaseInv
BY ConstantsAssumption DEF Init, LeaseInv, TypeOK, MapInv, OwnInv, JobInv, DurableInv,
   Generations, Snapshots, Jobs, Idle

\* Every step keeps the variables in their types.
LEMMA TypeOKStep == TypeOK /\ OwnInv /\ JobInv /\ [Next]_vars => TypeOK'
<1> SUFFICES ASSUME TypeOK, OwnInv, JobInv, [Next]_vars PROVE TypeOK'
  OBVIOUS
<1> USE ConstantsAssumption DEF TypeOK, OwnInv, JobInv, Generations, Snapshots, Jobs, Idle,
       coordinatorVars, acquireVars, leaseVars, Cancel, Move
<1>1. ASSUME NEW c \in Connections, AcquireCall(c) PROVE TypeOK'
  BY <1>1 DEF AcquireCall
<1>2. ASSUME NEW c \in Connections, CancelContext(c) PROVE TypeOK'
  BY SMTT(60), <1>2 DEF CancelContext
<1>3. ASSUME NEW c \in Connections, AcquireStep(c) PROVE TypeOK'
  <2>1. CASE Register(c)
    BY <2>1 DEF Register
  <2>2. CASE FindPrevious(c)
    BY <2>2 DEF FindPrevious
  <2>3. CASE RetirePrevious(c)
    <3>1. previous[c] \in Generations
      BY SMTT(60), <2>3 DEF RetirePrevious
    <3> QED BY <2>3, <3>1 DEF RetirePrevious
  <2>4. CASE LoadOrCreate(c)
    <3>1. store' \in Snapshots
      BY SMTT(60), <2>4 DEF LoadOrCreate
    <3> QED BY Zenon, <2>4, <3>1 DEF LoadOrCreate
  <2>5. CASE Install(c)
    BY SMTT(60), <2>5 DEF Install
  <2>6. CASE CheckCause(c)
    BY SMTT(60), <2>6 DEF CheckCause
  <2>7. CASE AcquireCancelled(c) \/ AcquireExhausted(c) \/ WaitDone(c) \/ WaitCancelled(c)
             \/ LoadFails(c) \/ UndoDone(c)
    <3>1. Move(c, "lookup", "idle") \/ Move(c, "wait", "lookup") \/ Move(c, "wait", "idle")
          \/ Move(c, "load", "undo") \/ Move(c, "undo", "idle")
      BY Zenon, <2>7 DEF AcquireCancelled, AcquireExhausted, WaitDone, WaitCancelled, LoadFails, UndoDone
    <3>2. PICK to \in {"idle", "lookup", "undo"} : pc' = [pc EXCEPT ![c] = to]
      BY Zenon, <3>1
    <3>3. UNCHANGED <<coordinatorVars, store, cancelled, own, previous, loaded, leaseVars, job>>
      BY Zenon, <3>1
    <3> QED BY <3>2, <3>3
  <2> HIDE DEF TypeOK, OwnInv, JobInv, Move
  <2> QED BY Zenon, <1>3, <2>1, <2>2, <2>3, <2>4, <2>5, <2>6, <2>7 DEF AcquireStep
<1>4. ASSUME NEW w \in Workers, WorkerStep(w) PROVE TypeOK'
  <2>1. CASE SaveStore(w)
    BY SMTT(60), <2>1 DEF SaveStore
  <2>2. CASE SaveReturn(w)
    BY SMTT(60), <2>2 DEF SaveReturn
  <2>3. CASE StoreFails(w)
    BY SMTT(60), <2>3 DEF StoreFails
  <2>4. CASE DeleteStore(w)
    BY SMTT(60), <2>4 DEF DeleteStore
  <2>5. CASE DeleteReturn(w)
    BY SMTT(60), <2>5 DEF DeleteReturn
  <2> HIDE DEF TypeOK, OwnInv, JobInv
  <2> QED BY Zenon, <1>4, <2>1, <2>2, <2>3, <2>4, <2>5 DEF WorkerStep
<1>5. ASSUME NEW w \in Workers, NEW g \in Generations, DeleteLock(w, g) PROVE TypeOK'
  BY SMTT(60), <1>5 DEF DeleteLock
<1>6. ASSUME NEW w \in Workers, NEW g \in Generations, NEW v \in Values, SaveLock(w, g, v) PROVE TypeOK'
  BY SMTT(60), <1>6 DEF SaveLock
<1>7. ASSUME NEW g \in Generations, Retire(g) PROVE TypeOK'
  BY SMTT(60), <1>7 DEF Retire
<1>8. ASSUME NEW g \in Generations, ReleaseMark(g) PROVE TypeOK'
  BY SMTT(60), <1>8 DEF ReleaseMark
<1>9. ASSUME NEW g \in Generations, ReleaseRemove(g) PROVE TypeOK'
  BY SMTT(60), <1>9 DEF ReleaseRemove
<1>10. ASSUME NEW g \in Generations, ReleaseClose(g) PROVE TypeOK'
  BY SMTT(60), <1>10 DEF ReleaseClose
<1>11. CASE UNCHANGED vars
  BY <1>11 DEF vars
<1> HIDE DEF TypeOK, OwnInv, JobInv, Generations, Snapshots, Jobs, Idle,
           coordinatorVars, acquireVars, leaseVars, Cancel, Move
<1> QED
  BY <1>1, <1>2, <1>3, <1>4, <1>5, <1>6, <1>7, <1>8, <1>9, <1>10, <1>11 DEF Next

\* A lease that is not being released is the registered one.
LEMMA UnreleasedIsCurrent ==
  ASSUME TypeOK, MapInv, NEW g \in Generations, state[g] # "none", release[g] = "none"
  PROVE  g = current
BY SMTT(60) DEF TypeOK, MapInv, Generations

\* A goroutine inside Save or Delete works on the registered lease.
LEMMA WorkerOnCurrent ==
  ASSUME LeaseInv, NEW w \in Workers, job[w].step # "idle"
  PROVE  /\ job[w].gen \in Generations
         /\ job[w].gen = current
         /\ opMu[current] = w
         /\ state[current] = "ready"
         /\ release[current] = "none"
<1>1. job[w].gen \in Generations
  BY DEF LeaseInv, TypeOK, JobInv, Jobs, Generations
<1>2. job[w].gen = current
  BY <1>1, UnreleasedIsCurrent DEF LeaseInv, JobInv
<1> QED
  BY <1>1, <1>2 DEF LeaseInv, JobInv

\* It is the only one, no lease is idle and no Acquire is between LoadOrCreate
\* and its return.
LEMMA SoleWriter ==
  ASSUME LeaseInv, NEW w \in Workers, job[w].step # "idle"
  PROVE  /\ \A x \in Workers : job[x].step # "idle" => x = w
         /\ \A g \in Generations : state[g] = "ready" /\ release[g] = "none" => opMu[g] # Free
         /\ \A c \in Connections : pc[c] \notin {"check", "install"}
<1>1. \A x \in Workers : job[x].step # "idle" => x = w
  BY WorkerOnCurrent
<1>2. ASSUME NEW g \in Generations, state[g] = "ready", release[g] = "none" PROVE opMu[g] # Free
  <2>1. g = current
    BY <1>2, UnreleasedIsCurrent DEF LeaseInv
  <2> QED BY <2>1, WorkerOnCurrent, ConstantsAssumption
<1>3. ASSUME NEW c \in Connections, pc[c] \in {"check", "install"} PROVE FALSE
  <2>1. own[c] \in Generations /\ state[own[c]] = "loading" /\ release[own[c]] = "none"
    BY <1>3 DEF LeaseInv, TypeOK, OwnInv, Generations
  <2>2. own[c] = current
    BY SMTT(60), <2>1, UnreleasedIsCurrent DEF LeaseInv
  <2> QED BY SMTT(60), <2>1, <2>2, WorkerOnCurrent
<1> QED
  BY <1>1, <1>2, <1>3

\* Taking the opMu of a granted lease, or freeing one, leaves the map of leases
\* alone.
LEMMA LockKeepsMap ==
  ASSUME MapInv, opMu \in [Generations -> Workers \cup {Free}], NEW g, NEW h,
         UNCHANGED <<generations, current, state, release>>,
         opMu' = [opMu EXCEPT ![g] = h], h = Free \/ g <= generations
  PROVE  MapInv'
BY ConstantsAssumption DEF MapInv, Generations

\* Every step of the protocol keeps the inductive invariant.
LEMMA LeaseInvStep == LeaseInv /\ [Next]_vars => LeaseInv'
<1> SUFFICES ASSUME LeaseInv, [Next]_vars PROVE LeaseInv'
  OBVIOUS
<1>t. TypeOK
  BY DEF LeaseInv
<1>m. MapInv
  BY DEF LeaseInv
<1>o. OwnInv
  BY DEF LeaseInv
<1>j. JobInv
  BY DEF LeaseInv
<1>d. DurableInv
  BY DEF LeaseInv
<1>0. TypeOK'
  BY <1>t, <1>o, <1>j, TypeOKStep
<1>q. ASSUME MapInv', OwnInv', JobInv', DurableInv' PROVE LeaseInv'
  BY <1>0, <1>q DEF LeaseInv
<1> USE DEF coordinatorVars, acquireVars, leaseVars, Cancel, Move
<1>1. ASSUME NEW c \in Connections, AcquireCall(c) PROVE LeaseInv'
  <2>1. MapInv'
    BY <1>1, <1>m DEF AcquireCall, MapInv
  <2>2. OwnInv'
    BY <1>1, <1>t, <1>o, ConstantsAssumption
    DEF AcquireCall, TypeOK, Generations, OwnInv
  <2>3. JobInv'
    BY <1>1, <1>j DEF AcquireCall, JobInv
  <2>4. DurableInv'
    BY <1>1, <1>t, <1>d, ConstantsAssumption
    DEF AcquireCall, TypeOK, Generations, DurableInv
  <2> QED BY <2>1, <2>2, <2>3, <2>4, <1>q
<1>2. ASSUME NEW c \in Connections, AcquireCancelled(c) PROVE LeaseInv'
  <2>1. MapInv'
    BY <1>2, <1>m DEF AcquireCancelled, MapInv
  <2>2. OwnInv'
    BY SMTT(30), <1>2, <1>t, <1>o, ConstantsAssumption
    DEF AcquireCancelled, TypeOK, Generations, OwnInv
  <2>3. JobInv'
    BY <1>2, <1>j DEF AcquireCancelled, JobInv
  <2>4. DurableInv'
    BY <1>2, <1>t, <1>d, ConstantsAssumption
    DEF AcquireCancelled, TypeOK, Generations, DurableInv
  <2> QED BY <2>1, <2>2, <2>3, <2>4, <1>q
<1>3. ASSUME NEW c \in Connections, AcquireExhausted(c) PROVE LeaseInv'
  <2>1. MapInv'
    BY <1>3, <1>m DEF AcquireExhausted, MapInv
  <2>2. OwnInv'
    BY <1>3, <1>t, <1>o, ConstantsAssumption
    DEF AcquireExhausted, TypeOK, Generations, OwnInv
  <2>3. JobInv'
    BY <1>3, <1>j DEF AcquireExhausted, JobInv
  <2>4. DurableInv'
    BY <1>3, <1>t, <1>d, ConstantsAssumption
    DEF AcquireExhausted, TypeOK, Generations, DurableInv
  <2> QED BY <2>1, <2>2, <2>3, <2>4, <1>q
<1>4. ASSUME NEW c \in Connections, Register(c) PROVE LeaseInv'
  <2>0. \A w \in Workers : job[w].step = "idle"
    BY <1>4, WorkerOnCurrent DEF Register, Generations
  <2>1. MapInv'
    BY SMTT(30), <1>4, <1>t, <1>m, <2>0, ConstantsAssumption
    DEF Register, TypeOK, Generations, MapInv
  <2>2. OwnInv'
    BY SMTT(30), <1>4, <1>t, <1>o, <1>m, <2>0, ConstantsAssumption
    DEF Register, TypeOK, Generations, OwnInv, MapInv
  <2>3. JobInv'
    BY Zenon, <1>4, <1>t, <1>j, <2>0, ConstantsAssumption
    DEF Register, TypeOK, Generations, JobInv
  <2>4. DurableInv'
    BY <1>4, <1>t, <1>d, <2>0, ConstantsAssumption
    DEF Register, TypeOK, Generations, DurableInv
  <2> QED BY <2>1, <2>2, <2>3, <2>4, <1>q
<1>5. ASSUME NEW c \in Connections, FindPrevious(c) PROVE LeaseInv'
  <2>1. MapInv'
    BY <1>5, <1>m DEF FindPrevious, MapInv
  <2>2. OwnInv'
    BY <1>5, <1>t, <1>o, ConstantsAssumption
    DEF FindPrevious, TypeOK, Generations, OwnInv
  <2>3. JobInv'
    BY <1>5, <1>j DEF FindPrevious, JobInv
  <2>4. DurableInv'
    BY Zenon, <1>5, <1>t, <1>d, ConstantsAssumption
    DEF FindPrevious, TypeOK, Generations, DurableInv
  <2> QED BY <2>1, <2>2, <2>3, <2>4, <1>q
<1>6. ASSUME NEW c \in Connections, RetirePrevious(c) PROVE LeaseInv'
  <2>1. MapInv'
    BY Zenon, <1>6, <1>m DEF RetirePrevious, MapInv
  <2>2. OwnInv'
    BY SMTT(30), <1>6, <1>t, <1>o, ConstantsAssumption
    DEF RetirePrevious, TypeOK, Generations, OwnInv
  <2>3. JobInv'
    BY <1>6, <1>j DEF RetirePrevious, JobInv
  <2>4. DurableInv'
    BY Zenon, <1>6, <1>t, <1>d, ConstantsAssumption
    DEF RetirePrevious, TypeOK, Generations, DurableInv
  <2> QED BY <2>1, <2>2, <2>3, <2>4, <1>q
<1>7. ASSUME NEW c \in Connections, WaitDone(c) PROVE LeaseInv'
  <2>1. MapInv'
    BY Zenon, <1>7, <1>m DEF WaitDone, MapInv
  <2>2. OwnInv'
    BY ZenonT(40), <1>7, <1>t, <1>o, ConstantsAssumption
    DEF WaitDone, TypeOK, Generations, OwnInv
  <2>3. JobInv'
    BY <1>7, <1>j DEF WaitDone, JobInv
  <2>4. DurableInv'
    BY Zenon, <1>7, <1>t, <1>d, ConstantsAssumption
    DEF WaitDone, TypeOK, Generations, DurableInv
  <2> QED BY <2>1, <2>2, <2>3, <2>4, <1>q
<1>8. ASSUME NEW c \in Connections, WaitCancelled(c) PROVE LeaseInv'
  <2>1. MapInv'
    BY Zenon, <1>8, <1>m DEF WaitCancelled, MapInv
  <2>2. OwnInv'
    BY ZenonT(40), <1>8, <1>t, <1>o, ConstantsAssumption
    DEF WaitCancelled, TypeOK, Generations, OwnInv
  <2>3. JobInv'
    BY Zenon, <1>8, <1>j DEF WaitCancelled, JobInv
  <2>4. DurableInv'
    BY <1>8, <1>t, <1>d, ConstantsAssumption
    DEF WaitCancelled, TypeOK, Generations, DurableInv
  <2> QED BY <2>1, <2>2, <2>3, <2>4, <1>q
<1>9. ASSUME NEW c \in Connections, LoadOrCreate(c) PROVE LeaseInv'
  <2>1. MapInv'
    BY Zenon, <1>9, <1>m DEF LoadOrCreate, MapInv
  <2>2. OwnInv'
    BY <1>9, <1>t, <1>o, ConstantsAssumption
    DEF LoadOrCreate, TypeOK, Generations, OwnInv
  <2>3. JobInv'
    BY ZenonT(40), <1>9, <1>j DEF LoadOrCreate, JobInv
  <2>4. DurableInv'
    BY SMTT(30), <1>9, <1>t, <1>m, <1>o, <1>j, <1>d, ConstantsAssumption
    DEF LoadOrCreate, TypeOK, Generations, Snapshots, Jobs, Idle, MapInv, OwnInv, JobInv, DurableInv
  <2> QED BY <2>1, <2>2, <2>3, <2>4, <1>q
<1>10. ASSUME NEW c \in Connections, LoadFails(c) PROVE LeaseInv'
  <2>1. MapInv'
    BY Zenon, <1>10, <1>m DEF LoadFails, MapInv
  <2>2. OwnInv'
    BY <1>10, <1>t, <1>o, ConstantsAssumption
    DEF LoadFails, TypeOK, Generations, OwnInv
  <2>3. JobInv'
    BY Zenon, <1>10, <1>j DEF LoadFails, JobInv
  <2>4. DurableInv'
    BY ZenonT(40), <1>10, <1>t, <1>d, ConstantsAssumption
    DEF LoadFails, TypeOK, Generations, DurableInv
  <2> QED BY <2>1, <2>2, <2>3, <2>4, <1>q
<1>11. ASSUME NEW c \in Connections, CheckCause(c) PROVE LeaseInv'
  <2>1. MapInv'
    BY <1>11, <1>m DEF CheckCause, MapInv
  <2>2. OwnInv'
    BY SMTT(30), <1>11, <1>t, <1>o, ConstantsAssumption
    DEF CheckCause, TypeOK, Generations, OwnInv
  <2>3. JobInv'
    BY Zenon, <1>11, <1>j DEF CheckCause, JobInv
  <2>4. DurableInv'
    BY SMTT(30), <1>11, <1>t, <1>d DEF CheckCause, TypeOK, DurableInv
  <2> QED BY <2>1, <2>2, <2>3, <2>4, <1>q
<1>12. ASSUME NEW c \in Connections, Install(c) PROVE LeaseInv'
  <2>0. \A w \in Workers : job[w].step # "idle" => job[w].gen # own[c]
    BY Zenon, <1>12, <1>o, <1>j DEF Install, OwnInv, JobInv
  <2>1. MapInv'
    BY SMTT(30), <1>12, <1>t, <1>m, <1>o, <2>0, ConstantsAssumption
    DEF Install, TypeOK, Generations, MapInv, OwnInv
  <2>2. OwnInv'
    BY SMTT(30), <1>12, <1>t, <1>o, <2>0, ConstantsAssumption
    DEF Install, TypeOK, Generations, OwnInv
  <2>3. JobInv'
    BY SMTT(30), <1>12, <1>t, <1>j, <2>0, ConstantsAssumption
    DEF Install, TypeOK, Generations, JobInv
  <2>4. DurableInv'
    BY SMTT(30), <1>12, <1>t, <1>d, <2>0, ConstantsAssumption
    DEF Install, TypeOK, Generations, DurableInv
  <2> QED BY <2>1, <2>2, <2>3, <2>4, <1>q
<1>13. ASSUME NEW c \in Connections, UndoDone(c) PROVE LeaseInv'
  <2>1. MapInv'
    BY Zenon, <1>13, <1>m DEF UndoDone, MapInv
  <2>2. OwnInv'
    BY <1>13, <1>t, <1>o, ConstantsAssumption
    DEF UndoDone, TypeOK, Generations, OwnInv
  <2>3. JobInv'
    BY Zenon, <1>13, <1>j DEF UndoDone, JobInv
  <2>4. DurableInv'
    BY ZenonT(40), <1>13, <1>t, <1>d, ConstantsAssumption
    DEF UndoDone, TypeOK, Generations, DurableInv
  <2> QED BY <2>1, <2>2, <2>3, <2>4, <1>q
<1>14. ASSUME NEW c \in Connections, CancelContext(c) PROVE LeaseInv'
  <2>1. MapInv'
    BY Zenon, <1>14, <1>m DEF CancelContext, MapInv
  <2>2. OwnInv'
    BY Zenon, <1>14, <1>o DEF CancelContext, OwnInv
  <2>3. JobInv'
    BY Zenon, <1>14, <1>j DEF CancelContext, JobInv
  <2>4. DurableInv'
    BY Zenon, <1>14, <1>d DEF CancelContext, DurableInv
  <2> QED BY <2>1, <2>2, <2>3, <2>4, <1>q
<1>15. ASSUME NEW w \in Workers, SaveStore(w) PROVE LeaseInv'
  <2>0. /\ \A x \in Workers : job[x].step # "idle" => x = w
        /\ \A g \in Generations : state[g] = "ready" /\ release[g] = "none" => opMu[g] # Free
        /\ \A c \in Connections : pc[c] \notin {"check", "install"}
    <3>1. job[w].step # "idle"
      BY <1>15 DEF SaveStore
    <3> QED BY <3>1, SoleWriter
  <2>1. MapInv'
    BY <1>15, <1>m DEF SaveStore, MapInv
  <2>2. OwnInv'
    BY ZenonT(40), <1>15, <1>o DEF SaveStore, OwnInv, coordinatorVars, acquireVars, leaseVars
  <2>3. JobInv'
    BY SMTT(30), <1>15, <1>t, <1>j, <2>0, ConstantsAssumption
    DEF SaveStore, TypeOK, Generations, Snapshots, Jobs, Idle, JobInv
  <2>4. DurableInv'
    BY <1>15, <1>t, <1>d, <2>0, ConstantsAssumption
    DEF SaveStore, TypeOK, Generations, Snapshots, Jobs, Idle, DurableInv
  <2> QED BY <2>1, <2>2, <2>3, <2>4, <1>q
<1>16. ASSUME NEW w \in Workers, SaveReturn(w) PROVE LeaseInv'
  <2>1. MapInv'
    BY Zenon, <1>16, <1>t, <1>m, LockKeepsMap DEF SaveReturn, TypeOK, coordinatorVars
  <2>2. OwnInv'
    BY Zenon, <1>16, <1>o DEF SaveReturn, OwnInv, coordinatorVars, acquireVars, leaseVars
  <2>3. JobInv'
    BY SMTT(30), <1>16, <1>t, <1>j, ConstantsAssumption
    DEF SaveReturn, TypeOK, Generations, Snapshots, Jobs, Idle, JobInv
  <2>4. DurableInv'
    BY <1>16, <1>t, <1>d, ConstantsAssumption
    DEF SaveReturn, TypeOK, Generations, Snapshots, Jobs, Idle, DurableInv
  <2> QED BY <2>1, <2>2, <2>3, <2>4, <1>q
<1>17. ASSUME NEW w \in Workers, StoreFails(w) PROVE LeaseInv'
  <2>1. MapInv'
    BY Zenon, <1>17, <1>t, <1>m, LockKeepsMap DEF StoreFails, TypeOK, coordinatorVars
  <2>2. OwnInv'
    BY ZenonT(40), <1>17, <1>o DEF StoreFails, OwnInv, coordinatorVars, acquireVars, leaseVars
  <2>3. JobInv'
    BY SMTT(30), <1>17, <1>t, <1>j, ConstantsAssumption
    DEF StoreFails, TypeOK, Generations, Snapshots, Jobs, Idle, JobInv
  <2>4. DurableInv'
    BY SMTT(30), <1>17, <1>t, <1>d, ConstantsAssumption
    DEF StoreFails, TypeOK, Generations, Snapshots, Jobs, Idle, DurableInv
  <2> QED BY <2>1, <2>2, <2>3, <2>4, <1>q
<1>18. ASSUME NEW w \in Workers, DeleteStore(w) PROVE LeaseInv'
  <2>0. /\ \A x \in Workers : job[x].step # "idle" => x = w
        /\ \A g \in Generations : state[g] = "ready" /\ release[g] = "none" => opMu[g] # Free
        /\ \A c \in Connections : pc[c] \notin {"check", "install"}
    <3>1. job[w].step # "idle"
      BY <1>18 DEF DeleteStore
    <3> QED BY <3>1, SoleWriter
  <2>1. MapInv'
    BY <1>18, <1>m DEF DeleteStore, MapInv
  <2>2. OwnInv'
    BY ZenonT(40), <1>18, <1>o DEF DeleteStore, OwnInv, coordinatorVars, acquireVars, leaseVars
  <2>3. JobInv'
    BY SMTT(30), <1>18, <1>t, <1>j, <2>0, ConstantsAssumption
    DEF DeleteStore, TypeOK, Generations, Snapshots, Jobs, Idle, JobInv
  <2>4. DurableInv'
    BY ZenonT(40), <1>18, <1>t, <1>d, <2>0, ConstantsAssumption
    DEF DeleteStore, TypeOK, Generations, Snapshots, Jobs, Idle, DurableInv
  <2> QED BY <2>1, <2>2, <2>3, <2>4, <1>q
<1>19. ASSUME NEW w \in Workers, DeleteReturn(w) PROVE LeaseInv'
  <2>1. MapInv'
    BY SMTT(30), <1>19, <1>t, <1>m, <1>j, ConstantsAssumption
    DEF DeleteReturn, TypeOK, Generations, Snapshots, Jobs, Idle, MapInv, JobInv
  <2>2. OwnInv'
    BY SMTT(30), <1>19, <1>t, <1>o, <1>j, ConstantsAssumption
    DEF DeleteReturn, TypeOK, Generations, Snapshots, Jobs, Idle, OwnInv, JobInv
  <2>3. JobInv'
    BY SMTT(30), <1>19, <1>t, <1>j, ConstantsAssumption
    DEF DeleteReturn, TypeOK, Generations, Snapshots, Jobs, Idle, JobInv
  <2>4. DurableInv'
    BY <1>19, <1>t, <1>d, ConstantsAssumption
    DEF DeleteReturn, TypeOK, Generations, Snapshots, Jobs, Idle, DurableInv
  <2> QED BY <2>1, <2>2, <2>3, <2>4, <1>q
<1>20. ASSUME NEW w \in Workers, NEW g \in Generations, DeleteLock(w, g) PROVE LeaseInv'
  <2>1. MapInv'
    <3>1. g <= generations
      BY <1>20, <1>m DEF DeleteLock, EnsureActive, MapInv, Generations
    <3> QED BY Zenon, <1>20, <3>1, <1>t, <1>m, LockKeepsMap DEF DeleteLock, TypeOK, coordinatorVars
  <2>2. OwnInv'
    BY ZenonT(40), <1>20, <1>o DEF DeleteLock, OwnInv, coordinatorVars, acquireVars, leaseVars
  <2>3. JobInv'
    BY SMTT(30), <1>20, <1>t, <1>j, ConstantsAssumption
    DEF DeleteLock, EnsureActive, TypeOK, Generations, Snapshots, Jobs, Idle, JobInv
  <2>4. DurableInv'
    BY <1>20, <1>t, <1>d, ConstantsAssumption
    DEF DeleteLock, EnsureActive, TypeOK, Generations, Snapshots, Jobs, Idle, DurableInv
  <2> QED BY <2>1, <2>2, <2>3, <2>4, <1>q
<1>21. ASSUME NEW w \in Workers, NEW g \in Generations, NEW v \in Values, SaveLock(w, g, v) PROVE LeaseInv'
  <2>1. MapInv'
    <3>1. g <= generations
      BY <1>21, <1>m DEF SaveLock, EnsureActive, MapInv, Generations
    <3> QED BY Zenon, <1>21, <3>1, <1>t, <1>m, LockKeepsMap DEF SaveLock, TypeOK, coordinatorVars
  <2>2. OwnInv'
    BY ZenonT(40), <1>21, <1>o DEF SaveLock, OwnInv, coordinatorVars, acquireVars, leaseVars
  <2>3. JobInv'
    BY SMTT(30), <1>21, <1>t, <1>j, ConstantsAssumption
    DEF SaveLock, EnsureActive, TypeOK, Generations, Snapshots, Jobs, Idle, JobInv
  <2>4. DurableInv'
    BY <1>21, <1>t, <1>d, ConstantsAssumption
    DEF SaveLock, EnsureActive, TypeOK, Generations, Snapshots, Jobs, Idle, DurableInv
  <2> QED BY <2>1, <2>2, <2>3, <2>4, <1>q
<1>22. ASSUME NEW g \in Generations, Retire(g) PROVE LeaseInv'
  <2>1. MapInv'
    BY Zenon, <1>22, <1>m DEF Retire, MapInv
  <2>2. OwnInv'
    BY Zenon, <1>22, <1>o DEF Retire, OwnInv
  <2>3. JobInv'
    BY Zenon, <1>22, <1>j DEF Retire, JobInv
  <2>4. DurableInv'
    BY Zenon, <1>22, <1>d DEF Retire, DurableInv
  <2> QED BY <2>1, <2>2, <2>3, <2>4, <1>q
<1>23. ASSUME NEW g \in Generations, ReleaseMark(g) PROVE LeaseInv'
  <2>0. \A w \in Workers : job[w].step # "idle" => job[w].gen # g
    BY ZenonT(40), <1>23, WorkerOnCurrent, ConstantsAssumption DEF ReleaseMark
  <2>1. MapInv'
    BY SMTT(30), <1>23, <1>t, <1>m, <1>o, <2>0, ConstantsAssumption
    DEF ReleaseMark, HandedOver, GivenUp, TypeOK, Generations, MapInv, OwnInv
  <2>2. OwnInv'
    BY SMTT(30), <1>23, <1>t, <1>o, <2>0, ConstantsAssumption
    DEF ReleaseMark, HandedOver, GivenUp, TypeOK, Generations, OwnInv
  <2>3. JobInv'
    BY SMTT(30), <1>23, <1>t, <1>j, <2>0, ConstantsAssumption
    DEF ReleaseMark, HandedOver, GivenUp, TypeOK, Generations, JobInv
  <2>4. DurableInv'
    BY <1>23, <1>t, <1>d, <2>0, ConstantsAssumption
    DEF ReleaseMark, HandedOver, GivenUp, TypeOK, Generations, DurableInv
  <2> QED BY <2>1, <2>2, <2>3, <2>4, <1>q
<1>24. ASSUME NEW g \in Generations, ReleaseRemove(g) PROVE LeaseInv'
  <2>0. \A w \in Workers : job[w].step # "idle" => job[w].gen # g
    BY Zenon, <1>24, <1>j DEF ReleaseRemove, JobInv
  <2>1. MapInv'
    BY SMTT(30), <1>24, <1>t, <1>m, ConstantsAssumption DEF ReleaseRemove, TypeOK, Generations, MapInv
  <2>2. OwnInv'
    BY SMTT(30), <1>24, <1>t, <1>o, <2>0, ConstantsAssumption
    DEF ReleaseRemove, TypeOK, Generations, OwnInv
  <2>3. JobInv'
    BY SMTT(30), <1>24, <1>t, <1>j, <2>0 DEF ReleaseRemove, TypeOK, JobInv
  <2>4. DurableInv'
    BY ZenonT(40), <1>24, <1>t, <1>d, <2>0, ConstantsAssumption
    DEF ReleaseRemove, TypeOK, Generations, DurableInv
  <2> QED BY <2>1, <2>2, <2>3, <2>4, <1>q
<1>25. ASSUME NEW g \in Generations, ReleaseClose(g) PROVE LeaseInv'
  <2>0. \A w \in Workers : job[w].step # "idle" => job[w].gen # g
    BY Zenon, <1>25, <1>j DEF ReleaseClose, JobInv
  <2>1. MapInv'
    BY SMTT(30), <1>25, <1>t, <1>m, <2>0, ConstantsAssumption
    DEF ReleaseClose, TypeOK, Generations, MapInv
  <2>2. OwnInv'
    BY SMTT(30), <1>25, <1>t, <1>o, <2>0, ConstantsAssumption
    DEF ReleaseClose, TypeOK, Generations, OwnInv
  <2>3. JobInv'
    BY SMTT(30), <1>25, <1>t, <1>j, <2>0, ConstantsAssumption
    DEF ReleaseClose, TypeOK, Generations, JobInv
  <2>4. DurableInv'
    BY <1>25, <1>t, <1>d, <2>0, ConstantsAssumption
    DEF ReleaseClose, TypeOK, Generations, DurableInv
  <2> QED BY <2>1, <2>2, <2>3, <2>4, <1>q
<1>26. CASE UNCHANGED vars
  <2>1. MapInv'
    BY <1>26, <1>m DEF vars, MapInv
  <2>2. OwnInv'
    BY Zenon, <1>26, <1>o DEF vars, OwnInv
  <2>3. JobInv'
    BY ZenonT(40), <1>26, <1>j DEF vars, JobInv
  <2>4. DurableInv'
    BY <1>26, <1>d DEF vars, DurableInv
  <2> QED BY Zenon, <2>1, <2>2, <2>3, <2>4, <1>q
<1> HIDE DEF coordinatorVars, acquireVars, leaseVars, Cancel, Move
<1> QED
  BY Zenon, <1>1, <1>2, <1>3, <1>4, <1>5, <1>6, <1>7, <1>8, <1>9, <1>10, <1>11, <1>12, <1>13, <1>14,
     <1>15, <1>16, <1>17, <1>18, <1>19, <1>20, <1>21, <1>22, <1>23, <1>24, <1>25, <1>26
  DEF Next, AcquireStep, WorkerStep

\* Every reachable state satisfies the inductive invariant.
THEOREM LeaseInvariant == Spec => []LeaseInv
BY InitLeaseInv, LeaseInvStep, PTL DEF Spec

\* Exclusive ownership, for any number of competing connections: an active lease
\* is the registered and newest one (Acquire, Retire and Release of
\* session/coordinator.go).
THEOREM ExclusiveOwnership == Spec => []LeaseExclusive
<1>1. ASSUME LeaseInv, NEW g \in Generations, Active(g) PROVE g = current /\ g = generations
  <2>1. g = current
    BY <1>1, UnreleasedIsCurrent DEF LeaseInv, Active
  <2> QED BY <1>1, <2>1 DEF LeaseInv, MapInv, Generations
<1>2. LeaseInv => LeaseExclusive
  BY SMTT(60), <1>1 DEF LeaseExclusive
<1> QED
  BY <1>2, LeaseInvariant, PTL

\* Fencing, for any number of goroutines: a Save or Delete about to change the
\* store belongs to the registered lease, because Release needs opMu.
THEOREM WritesAreFenced == Spec => []FencedWrites
<1>1. ASSUME LeaseInv, NEW w \in Workers, job[w].step \in {"saving", "deleting"}
      PROVE  job[w].gen = current /\ job[w].gen = generations
  <2>1. job[w].gen = current /\ current # 0
    BY <1>1, WorkerOnCurrent DEF Generations
  <2> QED BY <2>1, <1>1 DEF LeaseInv, MapInv
<1>2. LeaseInv => FencedWrites
  BY SMTT(60), <1>1 DEF FencedWrites
<1> QED
  BY <1>2, LeaseInvariant, PTL

\* The in-memory snapshot of the owner is the durable one between operations
\* (Acquire's load, Save and its failures, Delete).
THEOREM SnapshotIsDurable == Spec => []SnapshotDurable
<1>1. LeaseInv => SnapshotDurable
  BY SMTT(60) DEF LeaseInv, DurableInv, SnapshotDurable, Active
<1> QED
  BY <1>1, LeaseInvariant, PTL

\* Every step of Acquire but the registration and the load, every step of a
\* goroutine but the two store calls, and Retire, leave ownership and the store
\* alone.
LEMMA QuietSteps ==
  ASSUME \/ \E c \in Connections :
              \/ AcquireCall(c) \/ CancelContext(c) \/ AcquireCancelled(c) \/ AcquireExhausted(c)
              \/ FindPrevious(c) \/ RetirePrevious(c) \/ WaitDone(c) \/ WaitCancelled(c)
              \/ LoadFails(c) \/ CheckCause(c) \/ Install(c) \/ UndoDone(c)
         \/ \E w \in Workers :
              \/ SaveReturn(w) \/ StoreFails(w) \/ DeleteReturn(w)
              \/ \E g \in Generations : DeleteLock(w, g) \/ \E v \in Values : SaveLock(w, g, v)
         \/ \E g \in Generations : Retire(g)
         \/ UNCHANGED vars
  PROVE  UNCHANGED <<generations, current, release, store>>
<1> USE DEF coordinatorVars, acquireVars, leaseVars
<1>1. ASSUME NEW c \in Connections,
             \/ AcquireCall(c) \/ AcquireCancelled(c) \/ AcquireExhausted(c) \/ WaitDone(c)
             \/ WaitCancelled(c) \/ LoadFails(c) \/ CheckCause(c) \/ UndoDone(c)
      PROVE  UNCHANGED <<generations, current, release, store>>
  BY Zenon, <1>1 DEF AcquireCall, AcquireCancelled, AcquireExhausted, WaitDone, WaitCancelled,
     LoadFails, CheckCause, UndoDone, Move
<1>2. ASSUME NEW c \in Connections,
             CancelContext(c) \/ FindPrevious(c) \/ RetirePrevious(c) \/ Install(c)
      PROVE  UNCHANGED <<generations, current, release, store>>
  BY Zenon, <1>2 DEF CancelContext, FindPrevious, RetirePrevious, Install, Move
<1>3. ASSUME NEW w \in Workers, SaveReturn(w) \/ StoreFails(w) \/ DeleteReturn(w)
      PROVE  UNCHANGED <<generations, current, release, store>>
  BY Zenon, <1>3 DEF SaveReturn, StoreFails, DeleteReturn
<1>4. ASSUME NEW w \in Workers, NEW g \in Generations, DeleteLock(w, g)
      PROVE  UNCHANGED <<generations, current, release, store>>
  BY Zenon, <1>4 DEF DeleteLock
<1>5. ASSUME NEW w \in Workers, NEW g \in Generations, NEW v \in Values, SaveLock(w, g, v)
      PROVE  UNCHANGED <<generations, current, release, store>>
  BY Zenon, <1>5 DEF SaveLock
<1>6. ASSUME NEW g \in Generations, Retire(g)
      PROVE  UNCHANGED <<generations, current, release, store>>
  BY Zenon, <1>6 DEF Retire
<1>7. CASE UNCHANGED vars
  BY Zenon, <1>7 DEF vars
<1> QED
  BY Zenon, <1>1, <1>2, <1>3, <1>4, <1>5, <1>6, <1>7

\* What a step may do to the durable snapshot and to ownership: exactly what the
\* abstract specification allows.
LEMMA FencedStep == LeaseInv /\ LeaseInv' /\ [Next]_vars => [Fenced!Next]_(Fenced!vars)
<1> DEFINE holder == IF current # 0 /\ release[current] = "none" THEN current ELSE 0
           same == UNCHANGED <<holder, generations, store>>
           goal == Fenced!Next \/ same
<1> SUFFICES ASSUME LeaseInv, LeaseInv', [Next]_vars PROVE goal
  BY DEF Fenced!vars
<1>1. ASSUME NEW c \in Connections, Register(c) PROVE Fenced!Grant
  <2>1. /\ current = 0 /\ generations \in Nat /\ generations < MaxGeneration
        /\ generations' = generations + 1 /\ current' = generations + 1 /\ store' = store
        /\ release' = release
    BY SMTT(30), <1>1, ConstantsAssumption DEF Register, LeaseInv, TypeOK, coordinatorVars, acquireVars, leaseVars
  <2>2. release[generations + 1] = "none"
    BY <2>1, ConstantsAssumption DEF LeaseInv, MapInv, Generations
  <2> QED BY ZenonT(40), <2>1, <2>2 DEF Fenced!Grant
<1>2. ASSUME NEW c \in Connections, LoadOrCreate(c) PROVE Fenced!Create \/ same
  <2>1. own[c] \in Generations /\ state[own[c]] # "none" /\ release[own[c]] = "none"
    BY SMTT(30), <1>2 DEF LoadOrCreate, LeaseInv, TypeOK, OwnInv, Generations
  <2>2. current = own[c]
    BY <2>1, UnreleasedIsCurrent DEF LeaseInv
  <2>3. UNCHANGED <<generations, current, release>>
    BY Zenon, <1>2 DEF LoadOrCreate, coordinatorVars, acquireVars, leaseVars
  <2>4. store' = store \/ (store = Absent /\ store' = Initial)
    BY <1>2, ConstantsAssumption DEF LoadOrCreate, Snapshots
  <2>5. holder = own[c] /\ own[c] # 0 /\ holder' = holder
    BY <2>1, <2>2, <2>3 DEF Generations
  <2> QED BY ZenonT(40), <2>3, <2>4, <2>5 DEF Fenced!Create
<1>3. ASSUME NEW w \in Workers, SaveStore(w) PROVE Fenced!Replace
  <2>1. store # Absent /\ job[w].val \in Values
    BY <1>3 DEF SaveStore, LeaseInv, DurableInv, JobInv
  <2>2. current # 0 /\ release[current] = "none"
    BY <1>3, WorkerOnCurrent DEF SaveStore, Generations
  <2>3. store' = job[w].val /\ UNCHANGED <<generations, current, release>>
    BY Zenon, <1>3 DEF SaveStore, coordinatorVars, leaseVars
  <2> QED BY ZenonT(40), <2>1, <2>2, <2>3 DEF Fenced!Replace
<1>4. ASSUME NEW w \in Workers, DeleteStore(w) PROVE Fenced!Erase
  <2>1. current # 0 /\ release[current] = "none"
    BY <1>4, WorkerOnCurrent DEF DeleteStore, Generations
  <2>2. store # Absent /\ store' = Absent /\ UNCHANGED <<generations, current, release>>
    BY Zenon, <1>4 DEF DeleteStore, LeaseInv, DurableInv, coordinatorVars, leaseVars
  <2> QED BY <2>1, <2>2 DEF Fenced!Erase
<1>5. ASSUME NEW g \in Generations, ReleaseMark(g) PROVE Fenced!Yield
  <2>1. state[g] # "none"
    BY ZenonT(40), <1>5 DEF ReleaseMark, HandedOver, GivenUp, LeaseInv, OwnInv
  <2>2. g = current /\ release[g] = "none"
    BY Zenon, <1>5, <2>1, UnreleasedIsCurrent DEF ReleaseMark, LeaseInv
  <2>3. release'[g] # "none" /\ UNCHANGED <<generations, current, store>>
    BY SMTT(30), <1>5 DEF ReleaseMark, LeaseInv, TypeOK, coordinatorVars
  <2> QED BY <2>2, <2>3 DEF Fenced!Yield, Generations
<1>6. ASSUME NEW g \in Generations, ReleaseRemove(g) PROVE same
  BY SMTT(30), <1>6 DEF ReleaseRemove, LeaseInv, TypeOK, Generations
<1>7. ASSUME NEW g \in Generations, ReleaseClose(g) PROVE same
  BY <1>7 DEF ReleaseClose, LeaseInv, TypeOK, Generations, coordinatorVars
<1>8. ASSUME UNCHANGED <<generations, current, release, store>> PROVE same
  BY Zenon, <1>8
<1>9. Fenced!Grant \/ Fenced!Yield \/ Fenced!Create \/ Fenced!Replace \/ Fenced!Erase => Fenced!Next
  BY Zenon DEF Fenced!Next
<1> HIDE DEF same, goal
<1>10. (Fenced!Next \/ same) => goal
  BY Zenon DEF goal
<1> QED
  BY Zenon, <1>1, <1>2, <1>3, <1>4, <1>5, <1>6, <1>7, <1>8, <1>9, <1>10, QuietSteps
  DEF Next, AcquireStep, WorkerStep

\* LocalCoordinator over MemoryStore implements FencedSession: one owner at a
\* time under growing generations, and no step of a stale owner changes the
\* durable snapshot.
THEOREM CoordinatorFences == Spec => ImplementsFencedSession
<1>1. Init => Fenced!Init
  BY DEF Init, Fenced!Init, Snapshots
<1>2. LeaseInv /\ LeaseInv' /\ [Next]_vars => [Fenced!Next]_(Fenced!vars)
  BY FencedStep
<1> QED
  BY <1>1, <1>2, LeaseInvariant, PTL DEF Spec, ImplementsFencedSession, Fenced!Spec

\* A deleted session comes back only with the initial snapshot, because Delete
\* leaves no Save in flight that passed its check.
THEOREM DeletedStaysDeleted == Spec => NoResurrection
<1>1. LeaseInv /\ LeaseInv' /\ [Next]_vars => [store = Absent => store' \in {Absent, Initial}]_vars
  <2>1. [Fenced!Next]_(Fenced!vars) => (store = Absent => store' \in {Absent, Initial})
    BY DEF Fenced!Next, Fenced!vars, Fenced!Grant, Fenced!Yield, Fenced!Create, Fenced!Replace, Fenced!Erase
  <2> QED BY SMTT(60), <2>1, FencedStep
<1> QED
  BY <1>1, LeaseInvariant, PTL DEF Spec, NoResurrection

(***************************************************************************)
(* SessionSnapshot: what the holder of a lease does with its snapshot.     *)
(* There LockstepIsSafe is an invariant for any number of requests: while  *)
(* the client waits for every answer and nobody pushes, one goroutine at a *)
(* time has the client's message, and only that one has a copy to save.    *)
(***************************************************************************)

RequestPlaces == {"idle", "handler", "bind", "expose", "answer", "end"}
ReaderPlaces == {"idle", "validate", "reject", "accept", "create", "created", "announce", "route",
                 "subscribe", "expose", "dispatch"}
Steps == RequestPlaces \cup ReaderPlaces \cup {"push", "save", "write"}

\* A request between its dispatch and its answer.
Works(m) == place[m] \in {"handler", "bind", "expose", "answer"}

\* Where the goroutines are; nobody pushes.
PlaceInv ==
  /\ place \in [Threads \cup {Writer} -> Steps]
  /\ \A m \in Requests : place[m] \in RequestPlaces
  /\ place[Reader] \in ReaderPlaces /\ place[Pusher] = "idle" /\ place[Writer] \in {"idle", "save", "write"}
  /\ place[Reader] # "idle" => message \in Requests
  /\ inbox \in Seq(Requests)

\* The client's one message is on its way, with the reader, or with its handler.
TurnInv ==
  /\ awaited \in {0, 1}
  /\ awaited = 0 => inbox = <<>> /\ place[Reader] = "idle" /\ \A m \in Requests : ~Works(m)
  /\ inbox # <<>> => Len(inbox) = 1 /\ place[Reader] = "idle" /\ \A m \in Requests : ~Works(m)
  /\ place[Reader] # "idle" => \A m \in Requests : ~Works(m)
  /\ \A m, n \in Requests : Works(m) /\ Works(n) => m = n

\* The writer serves the goroutine that has the message, which waits for it.
ServeInv ==
  place[Writer] # "idle" =>
    \/ serving = Reader /\ place[Reader] \in {"reject", "announce"}
    \/ serving \in Requests /\ place[serving] = "answer"

\* So a copy is as good as the snapshot while somebody is going to save it.
CopyInv ==
  /\ shared \in SnapshotRecords /\ copy \in [Threads \cup {Writer} -> SnapshotRecords]
  /\ place[Reader] \in {"validate", "accept", "created", "subscribe", "expose"} => copy[Reader] = shared
  /\ \A m \in Requests : place[m] \in {"bind", "expose"} => copy[m] = shared
  /\ \A m \in Requests : place[m] = "bind" => m \in Binders
  /\ place[Writer] = "save" => copy[Writer] = shared
  /\ place[Writer] = "write" =>
       shared = [copy[Writer] EXCEPT !.sequence = IF ContentRelated(serving) THEN @ + 1 ELSE @]

\* A message that was started is accepted, and one to be started has not run.
StartInv ==
  /\ executed \in [Requests -> Nat]
  /\ \A m \in Requests : executed[m] <= 1 /\ (executed[m] # 0 => m \in shared.accepted)
  /\ place[Reader] = "accept" => message \notin shared.accepted
  /\ place[Reader] \in {"create", "created", "announce", "route", "subscribe", "expose", "dispatch"} =>
       executed[message] = 0 /\ message \in shared.accepted

\* Numbers on the wire are below the one that is used next.
Unused == IF place[Writer] = "write" THEN copy[Writer].sequence ELSE shared.sequence
NumberInv ==
  /\ exposed \subseteq shared.bound
  /\ wire \in Seq(Nat)
  /\ \A i \in DOMAIN wire : wire[i] < 2 * Unused + 1
  /\ \A i, j \in DOMAIN wire : wire[i] = wire[j] => i = j

InStep == PlaceInv /\ TurnInv /\ ServeInv /\ CopyInv /\ StartInv /\ NumberInv
LockstepInv == lockstep => InStep

\* The goroutines are different ones.
LEMMA Apart ==
  /\ Reader # Pusher /\ Reader # Writer /\ Pusher # Writer
  /\ \A m \in Requests : m # Reader /\ m # Pusher /\ m # Writer
  BY SnapshotAssumption

\* One goroutine moves: the others stay where they are.
LEMMA OneMoves ==
  ASSUME PlaceInv, NEW t \in Threads \cup {Writer}, NEW to \in Steps,
         place' = [place EXCEPT ![t] = to]
  PROVE  /\ place' \in [Threads \cup {Writer} -> Steps]
         /\ place'[t] = to
         /\ \A u \in Threads \cup {Writer} : u # t => place'[u] = place[u]
  BY DEF PlaceInv

\* The reader goes on with the message it has; no handler runs and the writer is idle.
LEMMA ReaderMoves ==
  ASSUME PlaceInv, TurnInv, ServeInv, NEW to \in ReaderPlaces \ {"idle"},
         place[Reader] \notin {"idle", "reject", "announce"}, place' = [place EXCEPT ![Reader] = to],
         UNCHANGED <<inbox, message, serving, awaited>>
  PROVE  /\ PlaceInv' /\ TurnInv' /\ ServeInv'
         /\ place'[Reader] = to /\ place[Writer] = "idle" /\ place'[Writer] = "idle"
         /\ \A m \in Requests : place'[m] = place[m] /\ place[m] \in {"idle", "end"}
<1>0. /\ Reader \in Threads \cup {Writer} /\ Writer \in Threads \cup {Writer}
      /\ Pusher \in Threads \cup {Writer} /\ Requests \subseteq Threads \cup {Writer}
      /\ to \in Steps /\ to # "idle" /\ to \in ReaderPlaces
  BY DEF Threads, Steps
<1>1. /\ place' \in [Threads \cup {Writer} -> Steps] /\ place'[Reader] = to
      /\ \A u \in Threads \cup {Writer} : u # Reader => place'[u] = place[u]
  BY <1>0, OneMoves, Zenon
<1>2. /\ place'[Writer] = place[Writer] /\ place'[Pusher] = place[Pusher]
      /\ \A m \in Requests : place'[m] = place[m]
  BY <1>0, <1>1, Apart, Zenon
<1>3. \A m \in Requests : ~Works(m)
  BY Zenon DEF TurnInv
<1>4. \A m \in Requests : place[m] \in {"idle", "end"}
  BY <1>3 DEF PlaceInv, RequestPlaces, Works
<1>5. place[Writer] = "idle"
  BY <1>4 DEF ServeInv
<1>6. PlaceInv'
  BY <1>0, <1>1, <1>2, Zenon DEF PlaceInv
<1>7. \A m \in Requests : ~Works(m)'
  BY <1>2, <1>3, Zenon DEF Works
<1>8. inbox = <<>> /\ awaited # 0
  BY Zenon DEF TurnInv
<1>9. TurnInv'
  BY <1>1, <1>7, <1>8, Zenon DEF TurnInv
<1>10. ServeInv'
  BY <1>2, <1>5, Zenon DEF ServeInv
<1> QED BY <1>1, <1>2, <1>4, <1>5, <1>6, <1>9, <1>10, Zenon

\* A handler goes on: the reader and the writer are idle and no other handler runs.
LEMMA RequestMoves ==
  ASSUME PlaceInv, TurnInv, ServeInv, NEW m \in Requests,
         NEW to \in {"bind", "expose", "answer"},
         place[m] \in {"handler", "bind", "expose"}, place' = [place EXCEPT ![m] = to],
         UNCHANGED <<inbox, message, serving, awaited>>
  PROVE  /\ PlaceInv' /\ TurnInv' /\ ServeInv'
         /\ place'[m] = to /\ place[Writer] = "idle" /\ place'[Writer] = "idle"
         /\ place[Reader] = "idle" /\ place'[Reader] = "idle"
         /\ \A n \in Requests \ {m} : place'[n] = place[n] /\ place[n] \in {"idle", "end"}
<1>0. /\ Reader \in Threads \cup {Writer} /\ Writer \in Threads \cup {Writer}
      /\ Pusher \in Threads \cup {Writer} /\ Requests \subseteq Threads \cup {Writer}
      /\ to \in Steps /\ to \in RequestPlaces /\ m \in Threads \cup {Writer}
  BY DEF Threads, Steps, RequestPlaces
<1>1. /\ place' \in [Threads \cup {Writer} -> Steps] /\ place'[m] = to
      /\ \A u \in Threads \cup {Writer} : u # m => place'[u] = place[u]
  BY <1>0, OneMoves, Zenon
<1>2. /\ place'[Writer] = place[Writer] /\ place'[Pusher] = place[Pusher] /\ place'[Reader] = place[Reader]
      /\ \A n \in Requests : n # m => place'[n] = place[n]
  BY <1>0, <1>1, Apart, Zenon
<1>3. Works(m)
  BY DEF Works
<1>3a. Works(m)'
  BY <1>1 DEF Works
<1>4. place[Reader] = "idle" /\ inbox = <<>> /\ awaited = 1
  BY <1>3, Zenon DEF TurnInv
<1>5. \A n \in Requests : n # m => ~Works(n)
  BY <1>3, Zenon DEF TurnInv
<1>6. \A n \in Requests : n # m => place[n] \in {"idle", "end"}
  BY <1>5 DEF PlaceInv, RequestPlaces, Works
<1>7. place[Writer] = "idle"
  BY <1>4, <1>6 DEF ServeInv
<1>8. PlaceInv'
  BY <1>0, <1>1, <1>2, Zenon DEF PlaceInv
<1>9. \A n \in Requests : n # m => ~Works(n)'
  BY <1>2, <1>5, Zenon DEF Works
<1>10. awaited' \in {0, 1} /\ awaited' # 0 /\ inbox' = <<>> /\ place'[Reader] = "idle"
  BY <1>2, <1>4
<1>11. TurnInv'
  BY <1>9, <1>10, Zenon DEF TurnInv
<1>12. ServeInv'
  BY <1>2, <1>7, Zenon DEF ServeInv
<1> QED BY <1>1, <1>2, <1>4, <1>6, <1>7, <1>8, <1>11, <1>12, ZenonT(40)

\* What a copy may be after a step of the reader: the handlers and the writer hold none.
LEMMA ReaderCopies ==
  ASSUME CopyInv, NEW s \in SnapshotRecords, copy' = [copy EXCEPT ![Reader] = s],
         shared' \in SnapshotRecords, place'[Writer] = "idle",
         \A m \in Requests : place'[m] \in {"idle", "end"},
         place'[Reader] \in {"validate", "accept", "created", "subscribe", "expose"} => s = shared'
  PROVE  CopyInv'
<1>1. copy' \in [Threads \cup {Writer} -> SnapshotRecords] /\ copy'[Reader] = s
  BY DEF CopyInv, Threads
<1>2. \A m \in Requests : place'[m] \notin {"bind", "expose"} /\ place'[m] # "bind"
  OBVIOUS
<1>3. place'[Writer] # "save" /\ place'[Writer] # "write"
  OBVIOUS
<1> QED BY <1>1, <1>2, <1>3, Zenon DEF CopyInv

\* The numbers written stay below the next one when neither changes.
LEMMA NumbersKept ==
  ASSUME NumberInv, place[Writer] = "idle", place'[Writer] = "idle", wire' = wire,
         shared'.sequence = shared.sequence, exposed' \subseteq shared'.bound
  PROVE  NumberInv'
<1>1. Unused' = Unused
  BY DEF Unused
<1> QED BY <1>1, Zenon DEF NumberInv

\* The client sends only when nothing is on its way.
LEMMA SendStep ==
  ASSUME InStep, NEW m \in Requests, ClientSend(m), lockstep'
  PROVE  InStep'
<1> USE DEF InStep
<1>1. /\ UNCHANGED <<shared, copy, place, message, serving, exposed, executed, wire>>
      /\ awaited = 0 /\ awaited' = awaited + 1 /\ inbox' = Append(inbox, m)
  BY Zenon DEF ClientSend, sessionVars
<1>2. inbox = <<>> /\ place[Reader] = "idle" /\ \A n \in Requests : ~Works(n)
  BY <1>1, Zenon DEF TurnInv
<1>3. awaited' = 1 /\ Len(inbox') = 1 /\ inbox' \in Seq(Requests)
  BY <1>1, <1>2
<1>4. PlaceInv'
  BY <1>1, <1>3, Zenon DEF PlaceInv
<1>5. place'[Reader] = "idle" /\ \A n \in Requests : ~Works(n)'
  BY <1>1, <1>2, Zenon DEF Works
<1>6. awaited' \in {0, 1} /\ awaited' # 0
  BY <1>3
<1>7. TurnInv'
  BY <1>3, <1>5, <1>6, Zenon DEF TurnInv
<1>8. ServeInv'
  BY <1>1, Zenon DEF ServeInv
<1>9. CopyInv'
  BY <1>1, Zenon DEF CopyInv, ContentRelated
<1>10. StartInv'
  BY <1>1, Zenon DEF StartInv
<1>11. NumberInv'
  BY <1>1, Zenon DEF NumberInv, Unused
<1> QED BY <1>4, <1>7, <1>8, <1>9, <1>10, <1>11, Zenon

\* The reader takes the one message there is.
LEMMA ReceiveStep ==
  ASSUME InStep, Receive
  PROVE  InStep'
<1> USE DEF InStep
<1>1. /\ place[Reader] = "idle" /\ place' = [place EXCEPT ![Reader] = "validate"]
      /\ inbox # <<>> /\ message' = Head(inbox) /\ inbox' = Tail(inbox)
      /\ copy' = [copy EXCEPT ![Reader] = shared]
      /\ UNCHANGED <<shared, serving, exposed, awaited, executed, wire>>
  BY Zenon DEF Receive, Goto, TakeSnapshot, sessionVars, clientVars
<1>2. Len(inbox) = 1 /\ \A n \in Requests : ~Works(n)
  BY <1>1, Zenon DEF TurnInv
<1>3. message' \in Requests /\ inbox' = <<>>
  BY <1>1, <1>2 DEF PlaceInv
<1>4. /\ place' \in [Threads \cup {Writer} -> Steps] /\ place'[Reader] = "validate"
      /\ \A u \in Threads \cup {Writer} : u # Reader => place'[u] = place[u]
  <2>1. Reader \in Threads \cup {Writer} /\ "validate" \in Steps
    BY DEF Threads, Steps, ReaderPlaces
  <2> QED BY <1>1, <2>1, OneMoves, Zenon
<1>5. /\ place'[Writer] = place[Writer] /\ place'[Pusher] = place[Pusher]
      /\ \A m \in Requests : place'[m] = place[m]
  <2>1. Writer \in Threads \cup {Writer} /\ Pusher \in Threads \cup {Writer}
        /\ Requests \subseteq Threads \cup {Writer}
    BY DEF Threads
  <2> QED BY <2>1, <1>4, Apart, Zenon
<1>6. \A m \in Requests : place[m] \in {"idle", "end"}
  BY <1>2 DEF PlaceInv, RequestPlaces, Works
<1>7. place[Writer] = "idle"
  BY <1>1, <1>6 DEF ServeInv
<1>8. PlaceInv'
  <2>1. "validate" \in ReaderPlaces /\ <<>> \in Seq(Requests)
    BY DEF ReaderPlaces
  <2> QED BY <2>1, <1>3, <1>4, <1>5, Zenon DEF PlaceInv
<1>9. \A n \in Requests : ~Works(n)'
  BY <1>2, <1>5, Zenon DEF Works
<1>10. awaited # 0
  BY <1>1, Zenon DEF TurnInv
<1>11. TurnInv'
  BY <1>1, <1>3, <1>9, <1>10, Zenon DEF TurnInv
<1>12. ServeInv'
  BY <1>5, <1>7, Zenon DEF ServeInv
<1>13. shared \in SnapshotRecords
  BY Zenon DEF CopyInv
<1>14. place'[Writer] = "idle" /\ \A m \in Requests : place'[m] \in {"idle", "end"}
  BY <1>5, <1>6, <1>7, Zenon
<1>15. CopyInv'
  BY <1>1, <1>13, <1>14, ReaderCopies, Zenon
<1>16. StartInv'
  <2>1. place'[Reader] # "accept"
        /\ place'[Reader] \notin {"create", "created", "announce", "route", "subscribe", "expose", "dispatch"}
    BY <1>4
  <2> QED BY <2>1, <1>1, Zenon DEF StartInv
<1>17. NumberInv'
  <2>1. exposed' \subseteq shared'.bound /\ shared'.sequence = shared.sequence
    BY <1>1, Zenon DEF NumberInv
  <2> QED BY <2>1, <1>1, <1>7, <1>14, NumbersKept, Zenon
<1> QED BY <1>8, <1>11, <1>12, <1>15, <1>16, <1>17, Zenon

\* A step of the reader between taking a message and its end: it disturbs nobody,
\* and keeps the invariant when it saves no less than there is.
LEMMA ReaderGoesOn ==
  ASSUME InStep, NEW to \in ReaderPlaces \ {"idle"}, NEW s \in SnapshotRecords,
         place[Reader] \notin {"idle", "reject", "announce"}, place' = [place EXCEPT ![Reader] = to],
         UNCHANGED <<inbox, message, serving, awaited, executed, wire>>,
         copy' = [copy EXCEPT ![Reader] = s],
         shared' \in SnapshotRecords, shared'.sequence = shared.sequence,
         shared.accepted \subseteq shared'.accepted, exposed' \subseteq shared'.bound,
         to \in {"validate", "accept", "created", "subscribe", "expose"} => s = shared',
         to = "accept" => message \notin shared'.accepted,
         to \in {"create", "created", "announce", "route", "subscribe", "expose", "dispatch"} =>
           executed[message] = 0 /\ message \in shared'.accepted
  PROVE  InStep'
<1> USE DEF InStep
<1>1. /\ PlaceInv' /\ TurnInv' /\ ServeInv'
      /\ place'[Reader] = to /\ place[Writer] = "idle" /\ place'[Writer] = "idle"
      /\ \A m \in Requests : place'[m] = place[m] /\ place[m] \in {"idle", "end"}
  BY ReaderMoves, Zenon
<1>2. \A m \in Requests : place'[m] \in {"idle", "end"}
  BY <1>1, Zenon
<1>3. CopyInv'
  BY <1>1, <1>2, ReaderCopies, Zenon
<1>4. StartInv'
  BY <1>1, Zenon DEF StartInv
<1>5. NumberInv'
  BY <1>1, NumbersKept, Zenon
<1> QED BY <1>1, <1>3, <1>4, <1>5, Zenon

\* The reader keeps its copy of the snapshot.
LEMMA CopyStays ==
  ASSUME CopyInv
  PROVE  /\ copy[Reader] \in SnapshotRecords /\ shared \in SnapshotRecords
         /\ copy = [copy EXCEPT ![Reader] = copy[Reader]]
         /\ Fresh \in SnapshotRecords
<1>1. /\ copy \in [Threads \cup {Writer} -> SnapshotRecords] /\ shared \in SnapshotRecords
      /\ Reader \in Threads \cup {Writer}
  BY Zenon DEF CopyInv, Threads
<1>2. Fresh \in SnapshotRecords
  BY DEF Fresh, SnapshotRecords
<1> QED BY <1>1, <1>2, Zenon

\* A copy with one field changed is a snapshot again.
LEMMA AcceptedChanged ==
  ASSUME NEW s \in SnapshotRecords, NEW m \in Requests
  PROVE  LET next == [s EXCEPT !.accepted = @ \cup {m}] IN
         /\ next \in SnapshotRecords
         /\ next.accepted = s.accepted \cup {m} /\ next.sequence = s.sequence /\ next.bound = s.bound
  BY DEF SnapshotRecords

LEMMA CreatedChanged ==
  ASSUME NEW s \in SnapshotRecords
  PROVE  LET next == [s EXCEPT !.created = TRUE] IN
         /\ next \in SnapshotRecords
         /\ next.accepted = s.accepted /\ next.sequence = s.sequence /\ next.bound = s.bound
  BY Zenon DEF SnapshotRecords

LEMMA SubscribedChanged ==
  ASSUME NEW s \in SnapshotRecords
  PROVE  LET next == [s EXCEPT !.subscribed = TRUE] IN
         /\ next \in SnapshotRecords
         /\ next.accepted = s.accepted /\ next.sequence = s.sequence /\ next.bound = s.bound
  BY Zenon DEF SnapshotRecords

\* A replay: on to its rejection.
LEMMA RejectStep ==
  ASSUME InStep, Reject
  PROVE  InStep'
<1> USE DEF InStep
<1>1. /\ place[Reader] = "validate" /\ place' = [place EXCEPT ![Reader] = "reject"]
      /\ UNCHANGED <<shared, copy, inbox, message, serving, exposed, awaited, executed, wire>>
  BY Zenon DEF Reject, Goto, sessionVars, clientVars
<1>2. /\ place[Reader] \notin {"idle", "reject", "announce"} /\ "reject" \in ReaderPlaces \ {"idle"}
      /\ "reject" \notin {"validate", "accept", "created", "subscribe", "expose"} /\ "reject" # "accept"
      /\ "reject" \notin {"create", "created", "announce", "route", "subscribe", "expose", "dispatch"}
  BY <1>1 DEF ReaderPlaces
<1>3. /\ copy[Reader] \in SnapshotRecords /\ copy' = [copy EXCEPT ![Reader] = copy[Reader]]
      /\ shared' \in SnapshotRecords /\ shared'.sequence = shared.sequence
      /\ shared.accepted \subseteq shared'.accepted /\ exposed' \subseteq shared'.bound
  BY <1>1, CopyStays, Zenon DEF NumberInv
<1> QED BY <1>1, <1>2, <1>3, ReaderGoesOn, Zenon

\* A message that is no replay.
LEMMA ReserveStep ==
  ASSUME InStep, Reserve
  PROVE  InStep'
<1> USE DEF InStep
<1>1. /\ place[Reader] = "validate" /\ place' = [place EXCEPT ![Reader] = "accept"]
      /\ message \notin copy[Reader].accepted
      /\ UNCHANGED <<shared, copy, inbox, message, serving, exposed, awaited, executed, wire>>
  BY Zenon DEF Reserve, Goto, clientVars
<1>2. /\ place[Reader] \notin {"idle", "reject", "announce"} /\ "accept" \in ReaderPlaces \ {"idle"}
      /\ "accept" \notin {"create", "created", "announce", "route", "subscribe", "expose", "dispatch"}
  BY <1>1 DEF ReaderPlaces
<1>3. copy[Reader] = shared
  BY <1>1, Zenon DEF CopyInv
<1>4. /\ copy[Reader] \in SnapshotRecords /\ copy' = [copy EXCEPT ![Reader] = copy[Reader]]
      /\ copy[Reader] = shared' /\ message \notin shared'.accepted
      /\ shared' \in SnapshotRecords /\ shared'.sequence = shared.sequence
      /\ shared.accepted \subseteq shared'.accepted /\ exposed' \subseteq shared'.bound
  BY <1>1, <1>3, CopyStays, Zenon DEF NumberInv
<1> QED BY <1>1, <1>2, <1>4, ReaderGoesOn, Zenon

\* The copy saved is the snapshot and the message, which has not run.
LEMMA AcceptStep ==
  ASSUME InStep, Accept
  PROVE  InStep'
<1> USE DEF InStep
<1> DEFINE next == [copy[Reader] EXCEPT !.accepted = @ \cup {message}]
<1>1. /\ place[Reader] = "accept" /\ place' = [place EXCEPT ![Reader] = "create"]
      /\ shared' = next /\ copy' = [copy EXCEPT ![Reader] = Fresh]
      /\ UNCHANGED <<inbox, message, serving, exposed, awaited, executed, wire>>
  BY Zenon DEF Accept, Goto, SaveSnapshot, sessionVars, clientVars
<1>2. /\ place[Reader] \notin {"idle", "reject", "announce"} /\ "create" \in ReaderPlaces \ {"idle"}
      /\ "create" \notin {"validate", "accept", "created", "subscribe", "expose"} /\ "create" # "accept"
      /\ message \in Requests
  BY <1>1 DEF ReaderPlaces, PlaceInv
<1>3. copy[Reader] = shared
  BY <1>1, Zenon DEF CopyInv
<1>4. executed[message] = 0
  BY <1>1, <1>2, Zenon DEF StartInv
<1>5. /\ next \in SnapshotRecords /\ next.accepted = shared.accepted \cup {message}
      /\ next.sequence = shared.sequence /\ next.bound = shared.bound /\ Fresh \in SnapshotRecords
  BY <1>2, <1>3, CopyStays, AcceptedChanged, ZenonT(40)
<1>6. /\ shared' \in SnapshotRecords /\ shared'.sequence = shared.sequence
      /\ shared.accepted \subseteq shared'.accepted /\ exposed' \subseteq shared'.bound
      /\ message \in shared'.accepted
  BY <1>1, <1>5, Zenon DEF NumberInv
<1> HIDE DEF next
<1> QED BY <1>1, <1>2, <1>4, <1>5, <1>6, ReaderGoesOn, Zenon

\* new_session_created was announced before, or the reader takes a copy.
LEMMA CreateStep ==
  ASSUME InStep, Create
  PROVE  InStep'
<1> USE DEF InStep
<1>1. /\ place[Reader] = "create"
      /\ UNCHANGED <<shared, inbox, message, serving, exposed, awaited, executed, wire>>
      /\ \/ place' = [place EXCEPT ![Reader] = "route"] /\ UNCHANGED copy
         \/ place' = [place EXCEPT ![Reader] = "created"] /\ copy' = [copy EXCEPT ![Reader] = shared]
  BY Zenon DEF Create, Goto, TakeSnapshot, sessionVars, clientVars
<1>2. /\ place[Reader] \notin {"idle", "reject", "announce"}
      /\ {"route", "created"} \subseteq ReaderPlaces \ {"idle"}
      /\ "route" \notin {"validate", "accept", "created", "subscribe", "expose"}
      /\ "route" # "accept" /\ "created" # "accept"
  BY <1>1 DEF ReaderPlaces
<1>3. executed[message] = 0 /\ message \in shared'.accepted
  BY <1>1, Zenon DEF StartInv
<1>4. /\ shared' \in SnapshotRecords /\ shared'.sequence = shared.sequence
      /\ shared.accepted \subseteq shared'.accepted /\ exposed' \subseteq shared'.bound
  BY <1>1, CopyStays, Zenon DEF NumberInv
<1>5. CASE place' = [place EXCEPT ![Reader] = "route"] /\ UNCHANGED copy
  <2>1. copy[Reader] \in SnapshotRecords /\ copy' = [copy EXCEPT ![Reader] = copy[Reader]]
        /\ "route" \in ReaderPlaces \ {"idle"}
    BY <1>2, <1>5, CopyStays, Zenon
  <2> QED BY <1>1, <1>2, <1>3, <1>4, <1>5, <2>1, ReaderGoesOn, Zenon
<1>6. CASE place' = [place EXCEPT ![Reader] = "created"] /\ copy' = [copy EXCEPT ![Reader] = shared]
  <2>1. shared \in SnapshotRecords /\ shared = shared' /\ "created" \in ReaderPlaces \ {"idle"}
    BY <1>1, <1>2, CopyStays, Zenon
  <2> QED BY <1>1, <1>2, <1>3, <1>4, <1>6, <2>1, ReaderGoesOn, Zenon
<1> QED BY <1>1, <1>5, <1>6, Zenon

\* Only created changes in what the reader saves.
LEMMA CreateSaveStep ==
  ASSUME InStep, CreateSave
  PROVE  InStep'
<1> USE DEF InStep
<1>1. /\ place[Reader] = "created" /\ place' = [place EXCEPT ![Reader] = "announce"]
      /\ shared' = [copy[Reader] EXCEPT !.created = TRUE] /\ copy' = [copy EXCEPT ![Reader] = Fresh]
      /\ UNCHANGED <<inbox, message, serving, exposed, awaited, executed, wire>>
  BY Zenon DEF CreateSave, Goto, SaveSnapshot, sessionVars, clientVars
<1>2. /\ place[Reader] \notin {"idle", "reject", "announce"} /\ "announce" \in ReaderPlaces \ {"idle"}
      /\ "announce" \notin {"validate", "accept", "created", "subscribe", "expose"} /\ "announce" # "accept"
      /\ message \in Requests
  BY <1>1 DEF ReaderPlaces, PlaceInv
<1>3. copy[Reader] = shared
  BY <1>1, Zenon DEF CopyInv
<1>4. executed[message] = 0 /\ message \in shared.accepted
  BY <1>1, Zenon DEF StartInv
<1>5. /\ shared' \in SnapshotRecords /\ shared'.accepted = shared.accepted
      /\ shared'.sequence = shared.sequence /\ shared'.bound = shared.bound /\ Fresh \in SnapshotRecords
  BY <1>1, <1>2, <1>3, CopyStays, CreatedChanged, Zenon
<1>6. /\ shared.accepted \subseteq shared'.accepted /\ exposed' \subseteq shared'.bound
      /\ message \in shared'.accepted
  BY <1>1, <1>4, <1>5, Zenon DEF NumberInv
<1> QED BY <1>1, <1>2, <1>4, <1>5, <1>6, ReaderGoesOn, Zenon

\* The session accepts pushes already, or the reader takes a copy.
LEMMA SubscribeStep ==
  ASSUME InStep, Subscribe
  PROVE  InStep'
<1> USE DEF InStep
<1>1. /\ place[Reader] = "route"
      /\ UNCHANGED <<shared, inbox, message, serving, exposed, awaited, executed, wire>>
      /\ \/ place' = [place EXCEPT ![Reader] = "dispatch"] /\ UNCHANGED copy
         \/ place' = [place EXCEPT ![Reader] = "subscribe"] /\ copy' = [copy EXCEPT ![Reader] = shared]
  BY Zenon DEF Subscribe, Goto, TakeSnapshot, sessionVars, clientVars
<1>2. /\ place[Reader] \notin {"idle", "reject", "announce"}
      /\ {"dispatch", "subscribe"} \subseteq ReaderPlaces \ {"idle"}
      /\ "dispatch" \notin {"validate", "accept", "created", "subscribe", "expose"}
      /\ "dispatch" # "accept" /\ "subscribe" # "accept"
  BY <1>1 DEF ReaderPlaces
<1>3. executed[message] = 0 /\ message \in shared'.accepted
  BY <1>1, Zenon DEF StartInv
<1>4. /\ shared' \in SnapshotRecords /\ shared'.sequence = shared.sequence
      /\ shared.accepted \subseteq shared'.accepted /\ exposed' \subseteq shared'.bound
  BY <1>1, CopyStays, Zenon DEF NumberInv
<1>5. CASE place' = [place EXCEPT ![Reader] = "dispatch"] /\ UNCHANGED copy
  <2>1. copy[Reader] \in SnapshotRecords /\ copy' = [copy EXCEPT ![Reader] = copy[Reader]]
        /\ "dispatch" \in ReaderPlaces \ {"idle"}
    BY <1>2, <1>5, CopyStays, Zenon
  <2> QED BY <1>1, <1>2, <1>3, <1>4, <1>5, <2>1, ReaderGoesOn, Zenon
<1>6. CASE place' = [place EXCEPT ![Reader] = "subscribe"] /\ copy' = [copy EXCEPT ![Reader] = shared]
  <2>1. shared \in SnapshotRecords /\ shared = shared' /\ "subscribe" \in ReaderPlaces \ {"idle"}
    BY <1>1, <1>2, CopyStays, Zenon
  <2> QED BY <1>1, <1>2, <1>3, <1>4, <1>6, <2>1, ReaderGoesOn, Zenon
<1> QED BY <1>1, <1>5, <1>6, Zenon

\* Only subscribed changes in what the reader saves.
LEMMA SubscribeSaveStep ==
  ASSUME InStep, SubscribeSave
  PROVE  InStep'
<1> USE DEF InStep
<1>1. /\ place[Reader] = "subscribe" /\ place' = [place EXCEPT ![Reader] = "expose"]
      /\ shared' = [copy[Reader] EXCEPT !.subscribed = TRUE]
      /\ copy' = [copy EXCEPT ![Reader] = [copy[Reader] EXCEPT !.subscribed = TRUE]]
      /\ UNCHANGED <<inbox, message, serving, exposed, awaited, executed, wire>>
  BY Zenon DEF SubscribeSave, MutationSave, Goto, sessionVars, clientVars
<1>2. /\ place[Reader] \notin {"idle", "reject", "announce"} /\ "expose" \in ReaderPlaces \ {"idle"}
      /\ "expose" # "accept" /\ message \in Requests
  BY <1>1 DEF ReaderPlaces, PlaceInv
<1>3. copy[Reader] = shared
  BY <1>1, Zenon DEF CopyInv
<1>4. executed[message] = 0 /\ message \in shared.accepted
  BY <1>1, Zenon DEF StartInv
<1>5. PICK s \in SnapshotRecords : s = [copy[Reader] EXCEPT !.subscribed = TRUE]
  BY <1>2, CopyStays, SubscribedChanged, Zenon
<1>6. /\ s.accepted = shared.accepted /\ s.sequence = shared.sequence /\ s.bound = shared.bound
  BY <1>2, <1>3, <1>5, CopyStays, SubscribedChanged, Zenon
<1>7. shared' = s /\ copy' = [copy EXCEPT ![Reader] = s]
  BY <1>1, <1>5, Zenon
<1>8. /\ shared.accepted \subseteq shared'.accepted /\ exposed' \subseteq shared'.bound
      /\ message \in shared'.accepted /\ shared'.sequence = shared.sequence /\ shared' \in SnapshotRecords
  BY <1>1, <1>4, <1>6, <1>7, Zenon DEF NumberInv
<1> QED BY <1>1, <1>2, <1>4, <1>7, <1>8, ReaderGoesOn, Zenon

\* The reader publishes what it saved.
LEMMA ReaderExposeStep ==
  ASSUME InStep, Expose(Reader)
  PROVE  InStep'
<1> USE DEF InStep
<1>1. /\ place[Reader] = "expose" /\ place' = [place EXCEPT ![Reader] = "dispatch"]
      /\ exposed' = copy[Reader].bound /\ copy' = [copy EXCEPT ![Reader] = Fresh]
      /\ UNCHANGED <<shared, inbox, message, serving, awaited, executed, wire>>
  BY Zenon DEF Expose, Goto, clientVars
<1>2. /\ place[Reader] \notin {"idle", "reject", "announce"} /\ "dispatch" \in ReaderPlaces \ {"idle"}
      /\ "dispatch" \notin {"validate", "accept", "created", "subscribe", "expose"} /\ "dispatch" # "accept"
  BY <1>1 DEF ReaderPlaces
<1>3. copy[Reader] = shared
  BY <1>1, Zenon DEF CopyInv
<1>4. executed[message] = 0 /\ message \in shared'.accepted
  BY <1>1, Zenon DEF StartInv
<1>5. /\ shared' \in SnapshotRecords /\ shared'.sequence = shared.sequence /\ Fresh \in SnapshotRecords
      /\ shared.accepted \subseteq shared'.accepted /\ exposed' \subseteq shared'.bound
  BY <1>1, <1>3, CopyStays, ZenonT(40)
<1> QED BY <1>1, <1>2, <1>4, <1>5, ReaderGoesOn, Zenon

\* The handler starts; its message is accepted and has not run.
LEMMA DispatchStep ==
  ASSUME InStep, Dispatch
  PROVE  InStep'
<1> USE DEF InStep
<1>1. /\ place[Reader] = "dispatch" /\ place' = [place EXCEPT ![Reader] = "idle", ![message] = "handler"]
      /\ executed' = [executed EXCEPT ![message] = @ + 1]
      /\ UNCHANGED <<shared, copy, inbox, serving, exposed, awaited, wire>>
  BY Zenon DEF Dispatch, sessionVars, clientVars
<1>2. /\ message \in Requests /\ inbox = <<>> /\ inbox \in Seq(Requests) /\ awaited \in {0, 1} /\ awaited # 0
      /\ \A m \in Requests : ~Works(m)
  BY Zenon, <1>1 DEF PlaceInv, TurnInv
<1>3. \A m \in Requests : place[m] \in {"idle", "end"}
  BY Zenon, <1>2 DEF PlaceInv, RequestPlaces, Works
<1>4. place[Writer] = "idle"
  BY ZenonT(40), <1>1, <1>3 DEF ServeInv
<1>5. /\ place' \in [Threads \cup {Writer} -> Steps]
      /\ place'[message] = "handler" /\ place'[Reader] = "idle"
      /\ place'[Writer] = place[Writer] /\ place'[Pusher] = place[Pusher]
      /\ \A m \in Requests : m # message => place'[m] = place[m]
  BY <1>1, <1>2, Apart DEF PlaceInv, Threads, Steps, RequestPlaces
<1>6. PlaceInv'
  <2>1. "handler" \in RequestPlaces /\ "idle" \in ReaderPlaces
    BY DEF RequestPlaces, ReaderPlaces
  <2> QED BY <2>1, <1>1, <1>2, <1>5, Zenon DEF PlaceInv
<1>7. \A m \in Requests : m # message => ~Works(m)'
  BY <1>2, <1>5, Zenon DEF Works
<1>8. TurnInv'
  BY <1>1, <1>2, <1>5, <1>7, Zenon DEF TurnInv
<1>9. ServeInv'
  BY <1>4, <1>5, ZenonT(40) DEF ServeInv
<1>10. \A m \in Requests : place'[m] \in {"idle", "end", "handler"}
  BY Zenon, <1>3, <1>5
<1>11. /\ place'[Reader] \notin {"validate", "accept", "created", "subscribe", "expose"}
       /\ place'[Reader] \notin {"create", "created", "announce", "route", "subscribe", "expose", "dispatch"}
       /\ place'[Reader] # "accept" /\ place'[Writer] # "save" /\ place'[Writer] # "write"
       /\ \A m \in Requests : place'[m] \notin {"bind", "expose"} /\ place'[m] # "bind"
  BY <1>4, <1>5, <1>10
<1>12. CopyInv'
  BY <1>1, <1>11, Zenon DEF CopyInv
<1>13. /\ executed[message] = 0 /\ message \in shared.accepted /\ executed \in [Requests -> Nat]
       /\ \A m \in Requests : executed[m] <= 1 /\ (executed[m] # 0 => m \in shared.accepted)
  BY <1>1, ZenonT(40) DEF StartInv
<1>14. /\ executed' \in [Requests -> Nat] /\ executed'[message] = 1
       /\ \A m \in Requests : m # message => executed'[m] = executed[m]
  BY SMTT(30), <1>1, <1>2, <1>13
<1>15. \A m \in Requests : executed'[m] <= 1 /\ (executed'[m] # 0 => m \in shared'.accepted)
  BY <1>1, <1>13, <1>14
<1>16. StartInv'
  BY <1>11, <1>14, <1>15, Zenon DEF StartInv
<1>17. NumberInv'
  <2>1. shared'.sequence = shared.sequence /\ exposed' \subseteq shared'.bound /\ place'[Writer] = "idle"
    BY <1>1, <1>4, <1>5, Zenon DEF NumberInv
  <2> QED BY <2>1, <1>1, <1>4, NumbersKept, Zenon
<1> QED BY <1>6, <1>8, <1>9, <1>12, <1>16, <1>17, Zenon

\* A step of the one handler that runs.
LEMMA RequestGoesOn ==
  ASSUME InStep, NEW m \in Requests, NEW to \in {"bind", "expose", "answer"},
         NEW s \in SnapshotRecords,
         place[m] \in {"handler", "bind", "expose"}, place' = [place EXCEPT ![m] = to],
         UNCHANGED <<inbox, message, serving, awaited, executed, wire>>,
         copy' = [copy EXCEPT ![m] = s],
         shared' \in SnapshotRecords, shared'.sequence = shared.sequence,
         shared.accepted \subseteq shared'.accepted, exposed' \subseteq shared'.bound,
         to \in {"bind", "expose"} => s = shared', to = "bind" => m \in Binders
  PROVE  InStep'
<1> USE DEF InStep
<1>1. /\ PlaceInv' /\ TurnInv' /\ ServeInv'
      /\ place'[m] = to /\ place[Writer] = "idle" /\ place'[Writer] = "idle"
      /\ place[Reader] = "idle" /\ place'[Reader] = "idle"
      /\ \A n \in Requests \ {m} : place'[n] = place[n] /\ place[n] \in {"idle", "end"}
  BY RequestMoves, ZenonT(40)
<1>2. copy' \in [Threads \cup {Writer} -> SnapshotRecords] /\ copy'[m] = s
  BY Zenon DEF CopyInv, Threads
<1>3. /\ \A n \in Requests : n # m => place'[n] \notin {"bind", "expose"} /\ place'[n] # "bind"
      /\ place'[Reader] \notin {"validate", "accept", "created", "subscribe", "expose"}
      /\ place'[Reader] \notin {"create", "created", "announce", "route", "subscribe", "expose", "dispatch"}
      /\ place'[Reader] # "accept" /\ place'[Writer] # "save" /\ place'[Writer] # "write"
  BY <1>1
<1>4. CopyInv'
  BY <1>1, <1>2, <1>3, Zenon DEF CopyInv
<1>5. StartInv'
  BY <1>3, Zenon DEF StartInv
<1>6. NumberInv'
  BY <1>1, NumbersKept, Zenon
<1> QED BY <1>1, <1>4, <1>5, <1>6, Zenon

\* A handler keeps its copy of the snapshot.
LEMMA RequestCopy ==
  ASSUME CopyInv, NEW m \in Requests
  PROVE  /\ copy[m] \in SnapshotRecords /\ shared \in SnapshotRecords
         /\ copy = [copy EXCEPT ![m] = copy[m]]
         /\ Fresh \in SnapshotRecords
<1>1. /\ copy \in [Threads \cup {Writer} -> SnapshotRecords] /\ shared \in SnapshotRecords
      /\ m \in Threads \cup {Writer}
  BY ZenonT(40) DEF CopyInv, Threads
<1>2. Fresh \in SnapshotRecords
  BY DEF Fresh, SnapshotRecords
<1> QED BY <1>1, <1>2, Zenon

\* The handler returns; a binder takes a copy.
LEMMA OutcomeStep ==
  ASSUME InStep, NEW m \in Requests, Outcome(m)
  PROVE  InStep'
<1> USE DEF InStep
<1>1. /\ place[m] = "handler"
      /\ UNCHANGED <<shared, inbox, message, serving, exposed, awaited, executed, wire>>
      /\ \/ m \in Binders /\ place' = [place EXCEPT ![m] = "bind"] /\ copy' = [copy EXCEPT ![m] = shared]
         \/ place' = [place EXCEPT ![m] = "answer"] /\ UNCHANGED copy
  BY Zenon DEF Outcome, Goto, TakeSnapshot, sessionVars, clientVars
<1>2. /\ place[m] \in {"handler", "bind", "expose"}
      /\ "answer" \notin {"bind", "expose"} /\ "answer" # "bind"
  BY <1>1
<1>3. /\ shared' \in SnapshotRecords /\ shared'.sequence = shared.sequence
      /\ shared.accepted \subseteq shared'.accepted /\ exposed' \subseteq shared'.bound
  BY <1>1, RequestCopy, Zenon DEF NumberInv
<1>4. CASE m \in Binders /\ place' = [place EXCEPT ![m] = "bind"] /\ copy' = [copy EXCEPT ![m] = shared]
  <2>1. shared \in SnapshotRecords /\ shared = shared'
    BY <1>1, RequestCopy, Zenon
  <2> QED BY <1>1, <1>2, <1>3, <1>4, <2>1, RequestGoesOn, Zenon
<1>5. CASE place' = [place EXCEPT ![m] = "answer"] /\ UNCHANGED copy
  <2>1. copy[m] \in SnapshotRecords /\ copy' = [copy EXCEPT ![m] = copy[m]]
    BY <1>5, RequestCopy, Zenon
  <2> QED BY <1>1, <1>2, <1>3, <1>5, <2>1, RequestGoesOn, Zenon
<1> QED BY <1>1, <1>4, <1>5, Zenon

\* A binder joins those bound in the snapshot.
LEMMA BoundChanged ==
  ASSUME NEW s \in SnapshotRecords, NEW m \in Binders
  PROVE  LET next == [s EXCEPT !.bound = @ \cup {m}] IN
         /\ next \in SnapshotRecords
         /\ next.accepted = s.accepted /\ next.sequence = s.sequence /\ next.bound = s.bound \cup {m}
  BY DEF SnapshotRecords

\* A binder saves the snapshot with its binding.
LEMMA BindSaveStep ==
  ASSUME InStep, NEW m \in Requests, BindSave(m)
  PROVE  InStep'
<1> USE DEF InStep
<1>1. /\ place[m] = "bind" /\ place' = [place EXCEPT ![m] = "expose"]
      /\ shared' = [copy[m] EXCEPT !.bound = @ \cup {m}]
      /\ copy' = [copy EXCEPT ![m] = [copy[m] EXCEPT !.bound = @ \cup {m}]]
      /\ UNCHANGED <<inbox, message, serving, exposed, awaited, executed, wire>>
  BY Zenon DEF BindSave, MutationSave, Goto, sessionVars, clientVars
<1>2. place[m] \in {"handler", "bind", "expose"} /\ "expose" # "bind"
  BY <1>1
<1>3. copy[m] = shared /\ m \in Binders /\ shared \in SnapshotRecords
  BY <1>1, Zenon DEF CopyInv
<1>4. PICK s : s = [shared EXCEPT !.bound = @ \cup {m}]
  BY Zenon
<1>5. /\ s \in SnapshotRecords
      /\ s.accepted = shared.accepted /\ s.sequence = shared.sequence /\ s.bound = shared.bound \cup {m}
  BY <1>3, <1>4, BoundChanged, Zenon
<1>6. shared' = s /\ copy' = [copy EXCEPT ![m] = s]
  BY <1>1, <1>3, <1>4, Zenon
<1>7. /\ shared.accepted \subseteq shared'.accepted /\ exposed' \subseteq shared'.bound
      /\ shared'.sequence = shared.sequence /\ shared' \in SnapshotRecords
  BY <1>1, <1>5, <1>6, Zenon DEF NumberInv
<1> QED BY <1>1, <1>2, <1>5, <1>6, <1>7, RequestGoesOn, Zenon

\* A binder publishes what it saved.
LEMMA RequestExposeStep ==
  ASSUME InStep, NEW m \in Requests, Expose(m)
  PROVE  InStep'
<1> USE DEF InStep
<1>0. m # Reader
  BY Apart, Zenon
<1>1. /\ place[m] = "expose" /\ place' = [place EXCEPT ![m] = "answer"]
      /\ exposed' = copy[m].bound /\ copy' = [copy EXCEPT ![m] = Fresh]
      /\ UNCHANGED <<shared, inbox, message, serving, awaited, executed, wire>>
  BY <1>0, Zenon DEF Expose, Goto, clientVars
<1>2. /\ place[m] \in {"handler", "bind", "expose"}
      /\ "answer" \notin {"bind", "expose"} /\ "answer" # "bind"
  BY <1>1
<1>3. copy[m] = shared
  BY <1>1, Zenon DEF CopyInv
<1>4. /\ shared' \in SnapshotRecords /\ shared'.sequence = shared.sequence /\ Fresh \in SnapshotRecords
      /\ shared.accepted \subseteq shared'.accepted /\ exposed' \subseteq shared'.bound
  BY <1>1, <1>3, RequestCopy, Zenon
<1> QED BY <1>1, <1>2, <1>4, RequestGoesOn, Zenon

\* A handler ends behind its answer, whoever has the next message.
LEMMA CompleteStep ==
  ASSUME InStep, NEW m \in Requests, Complete(m)
  PROVE  InStep'
<1> USE DEF InStep
<1>1. /\ place[m] = "end" /\ place' = [place EXCEPT ![m] = "idle"]
      /\ UNCHANGED <<shared, copy, inbox, message, serving, exposed, awaited, executed, wire>>
  BY Zenon DEF Complete, Goto, clientVars
<1>2. /\ place' \in [Threads \cup {Writer} -> Steps] /\ place'[m] = "idle"
      /\ \A u \in Threads \cup {Writer} : u # m => place'[u] = place[u]
  <2>1. m \in Threads \cup {Writer} /\ "idle" \in Steps
    BY DEF Threads, Steps, RequestPlaces
  <2> QED BY <1>1, <2>1, OneMoves, Zenon
<1>3. /\ place'[Writer] = place[Writer] /\ place'[Pusher] = place[Pusher] /\ place'[Reader] = place[Reader]
      /\ \A n \in Requests : n # m => place'[n] = place[n]
  <2>1. /\ Reader \in Threads \cup {Writer} /\ Writer \in Threads \cup {Writer}
        /\ Pusher \in Threads \cup {Writer} /\ Requests \subseteq Threads \cup {Writer}
    BY DEF Threads
  <2> QED BY <2>1, <1>2, Apart, ZenonT(40)
<1>4. PlaceInv'
  <2>1. "idle" \in RequestPlaces
    BY DEF RequestPlaces
  <2> QED BY <2>1, <1>1, <1>2, <1>3, Zenon DEF PlaceInv
<1>5. ~Works(m)' /\ ~Works(m)
  BY <1>1, <1>2 DEF Works
<1>6. \A n \in Requests : Works(n)' <=> Works(n)
  BY <1>3, <1>5, Zenon DEF Works
<1>7. TurnInv'
  BY <1>1, <1>3, <1>6, ZenonT(40) DEF TurnInv
<1>8. place[Writer] # "idle" => serving # m /\ place'[serving] = place[serving]
  BY <1>1, <1>3, Apart DEF ServeInv
<1>9. ServeInv'
  BY <1>1, <1>3, <1>8, Zenon DEF ServeInv
<1>10. place'[m] \notin {"bind", "expose"} /\ place'[m] # "bind"
  BY <1>2
<1>11. /\ \A n \in Requests : place'[n] \in {"bind", "expose"} => place[n] \in {"bind", "expose"}
       /\ \A n \in Requests : place'[n] = "bind" => place[n] = "bind"
  BY <1>3, <1>10, Zenon
<1>12. place[Writer] = "write" => (ContentRelated(serving)' <=> ContentRelated(serving))
  <2>1. place[Writer] = "write" => place[Writer] # "idle"
    OBVIOUS
  <2> QED BY <2>1, <1>1, <1>8, Zenon DEF ContentRelated
<1>13. CopyInv'
  BY <1>1, <1>3, <1>11, <1>12, Zenon DEF CopyInv
<1>14. StartInv'
  BY <1>1, <1>3, Zenon DEF StartInv
<1>15. Unused' = Unused
  BY <1>1, <1>3, Zenon DEF Unused
<1>16. NumberInv'
  BY <1>1, <1>15, Zenon DEF NumberInv
<1> QED BY <1>4, <1>7, <1>9, <1>13, <1>14, <1>16, Zenon

\* While the writer is busy, whoever has the message waits for it.
LEMMA EverybodyWaits ==
  ASSUME PlaceInv, TurnInv, ServeInv, place[Writer] # "idle"
  PROVE  /\ place[Reader] \in {"idle", "reject", "announce"}
         /\ \A m \in Requests : place[m] \in {"idle", "end", "answer"}
         /\ serving \in Threads /\ serving # Writer /\ awaited = 1
<1>1. CASE serving = Reader /\ place[Reader] \in {"reject", "announce"}
  <2>1. place[Reader] # "idle"
    BY <1>1
  <2>2. (\A m \in Requests : ~Works(m)) /\ awaited = 1
    BY <2>1, Zenon DEF TurnInv
  <2>3. \A m \in Requests : place[m] \in {"idle", "end", "answer"}
    BY <2>2 DEF PlaceInv, RequestPlaces, Works
  <2> QED BY <1>1, <2>2, <2>3, Apart DEF Threads
<1>2. CASE serving \in Requests /\ place[serving] = "answer"
  <2>1. Works(serving)
    BY <1>2 DEF Works
  <2>2. place[Reader] = "idle" /\ awaited = 1 /\ \A m \in Requests : m # serving => ~Works(m)
    BY <1>2, <2>1, Zenon DEF TurnInv
  <2>3. \A m \in Requests : place[m] \in {"idle", "end", "answer"}
    BY <1>2, <2>2 DEF PlaceInv, RequestPlaces, Works
  <2> QED BY <1>2, <2>2, <2>3, Apart DEF Threads
<1> QED BY <1>1, <1>2, Zenon DEF ServeInv

\* The writer moves: nobody else does.
LEMMA WriterMoves ==
  ASSUME PlaceInv, TurnInv, NEW to \in {"save", "write"},
         place' = [place EXCEPT ![Writer] = to], UNCHANGED <<inbox, message, awaited>>
  PROVE  /\ PlaceInv' /\ TurnInv' /\ place'[Writer] = to
         /\ \A u \in Threads : place'[u] = place[u]
<1>1. /\ place' \in [Threads \cup {Writer} -> Steps] /\ place'[Writer] = to
      /\ \A u \in Threads \cup {Writer} : u # Writer => place'[u] = place[u]
  <2>1. Writer \in Threads \cup {Writer} /\ to \in Steps
    BY DEF Steps
  <2> QED BY <2>1, OneMoves, Zenon
<1>2. \A u \in Threads : u # Writer
  BY Apart DEF Threads
<1>3. Reader \in Threads /\ Pusher \in Threads /\ Requests \subseteq Threads
  BY DEF Threads
<1>4. \A u \in Threads : place'[u] = place[u]
  BY <1>1, <1>2, Zenon
<1>5. /\ place'[Reader] = place[Reader] /\ place'[Pusher] = place[Pusher]
      /\ \A m \in Requests : place'[m] = place[m]
  BY <1>3, <1>4, Zenon
<1>6. to \in {"idle", "save", "write"}
  OBVIOUS
<1>7. PlaceInv'
  BY <1>1, <1>5, <1>6, Zenon DEF PlaceInv
<1>8. \A m \in Requests : Works(m)' <=> Works(m)
  BY <1>5, Zenon DEF Works
<1>9. TurnInv'
  BY <1>5, <1>8, Zenon DEF TurnInv
<1> QED BY <1>1, <1>4, <1>7, <1>9, Zenon

\* The writer takes the intent of the goroutine that has the message, and a copy.
LEMMA TakeStep ==
  ASSUME InStep, NEW t \in Threads, WriterTake(t)
  PROVE  InStep'
<1> USE DEF InStep
<1>1. /\ place[Writer] = "idle" /\ place' = [place EXCEPT ![Writer] = "save"]
      /\ place[t] \in Submitting /\ serving' = t /\ copy' = [copy EXCEPT ![Writer] = shared]
      /\ UNCHANGED <<shared, inbox, message, exposed, awaited, executed, wire>>
  BY Zenon DEF WriterTake, Goto, TakeSnapshot, sessionVars, clientVars
<1>2. /\ PlaceInv' /\ TurnInv' /\ place'[Writer] = "save"
      /\ \A u \in Threads : place'[u] = place[u]
  BY <1>1, WriterMoves, Zenon
<1>3. /\ place'[Reader] = place[Reader] /\ \A m \in Requests : place'[m] = place[m]
  BY ZenonT(40), <1>2 DEF Threads
<1>4. \/ t = Reader /\ place[Reader] \in {"reject", "announce"}
      \/ t \in Requests /\ place[t] = "answer"
  BY <1>1 DEF Threads, Submitting, PlaceInv, ReaderPlaces, RequestPlaces
<1>5. ServeInv'
  BY <1>1, <1>3, <1>4, Zenon DEF ServeInv
<1>6. /\ copy' \in [Threads \cup {Writer} -> SnapshotRecords] /\ copy'[Writer] = shared
      /\ copy'[Reader] = copy[Reader] /\ \A m \in Requests : copy'[m] = copy[m]
  BY Zenon, <1>1, Apart DEF CopyInv, Threads
<1>7. place'[Writer] # "write" /\ place[Writer] # "write"
  BY <1>1, <1>2
<1>8. CopyInv'
  BY <1>1, <1>3, <1>6, <1>7, Zenon DEF CopyInv
<1>9. StartInv'
  BY <1>1, <1>3, Zenon DEF StartInv
<1>10. Unused' = Unused
  BY <1>1, <1>7, Zenon DEF Unused
<1>11. NumberInv'
  BY <1>1, <1>10, Zenon DEF NumberInv
<1> QED BY <1>2, <1>5, <1>8, <1>9, <1>11, Zenon

\* The sequence number advances or not; the rest of the snapshot stays.
LEMMA SequenceChanged ==
  ASSUME NEW s \in SnapshotRecords, NEW content \in BOOLEAN
  PROVE  LET next == [s EXCEPT !.sequence = IF content THEN @ + 1 ELSE @] IN
         /\ next \in SnapshotRecords
         /\ next.accepted = s.accepted /\ next.bound = s.bound
         /\ next.sequence = IF content THEN s.sequence + 1 ELSE s.sequence
  BY DEF SnapshotRecords

\* Only the sequence number changes in what the writer saves, and it is used next.
LEMMA SaveStep ==
  ASSUME InStep, WriterSave
  PROVE  InStep'
<1> USE DEF InStep
<1>1. /\ place[Writer] = "save" /\ place' = [place EXCEPT ![Writer] = "write"]
      /\ shared' = [copy[Writer] EXCEPT !.sequence = IF ContentRelated(serving) THEN @ + 1 ELSE @]
      /\ UNCHANGED <<copy, inbox, message, serving, exposed, awaited, executed, wire>>
  BY Zenon DEF WriterSave, Goto, sessionVars, clientVars
<1>2. /\ PlaceInv' /\ TurnInv' /\ place'[Writer] = "write"
      /\ \A u \in Threads : place'[u] = place[u]
  BY <1>1, WriterMoves, ZenonT(40)
<1>3. /\ place'[Reader] = place[Reader] /\ \A m \in Requests : place'[m] = place[m]
  BY <1>2 DEF Threads
<1>4. /\ place[Reader] \in {"idle", "reject", "announce"}
      /\ \A m \in Requests : place[m] \in {"idle", "end", "answer"}
      /\ serving \in Threads
  BY <1>1, EverybodyWaits
<1>5. ServeInv'
  <2>1. place[Writer] # "idle"
    BY <1>1
  <2> QED BY <2>1, <1>1, <1>3, Zenon DEF ServeInv
<1>6. copy[Writer] = shared /\ shared \in SnapshotRecords /\ ContentRelated(serving) \in BOOLEAN
  BY <1>1 DEF CopyInv, ContentRelated
<1>7. /\ shared' \in SnapshotRecords /\ shared'.accepted = shared.accepted
      /\ shared'.bound = shared.bound
  <2>1. PICK c \in BOOLEAN : c = ContentRelated(serving)
    BY <1>6, Zenon
  <2>2. shared' = [shared EXCEPT !.sequence = IF c THEN @ + 1 ELSE @]
    BY <1>1, <1>6, <2>1, Zenon
  <2> QED BY <1>6, <2>2, SequenceChanged, ZenonT(40)
<1>8. /\ place'[Reader] \notin {"validate", "accept", "created", "subscribe", "expose"}
      /\ \A m \in Requests : place'[m] \notin {"bind", "expose"} /\ place'[m] # "bind"
      /\ place'[Writer] # "save"
  BY <1>2, <1>3, <1>4
<1>9. ContentRelated(serving)' <=> ContentRelated(serving)
  BY <1>1, <1>2, <1>4, Zenon DEF ContentRelated
<1>10. CopyInv'
  BY <1>1, <1>7, <1>8, <1>9, Zenon DEF CopyInv
<1>11. StartInv'
  BY <1>1, <1>3, <1>7, Zenon DEF StartInv
<1>12. Unused' = Unused
  BY <1>1, <1>2, <1>6 DEF Unused
<1>13. NumberInv'
  BY <1>1, <1>7, <1>12, Zenon DEF NumberInv
<1> QED BY <1>2, <1>5, <1>10, <1>11, <1>13, Zenon

\* The frame is out: its number is used, and whoever waited for the writer goes on.
LEMMA WriteStep ==
  ASSUME InStep, WriterWrite
  PROVE  InStep'
<1> USE DEF InStep
<1>1. /\ place[Writer] = "write"
      /\ wire' = IF ContentRelated(serving) THEN Append(wire, 2 * copy[Writer].sequence + 1) ELSE wire
      /\ place' = [place EXCEPT ![Writer] = "idle", ![serving] = After(place[serving])]
      /\ copy' = [copy EXCEPT ![Writer] = Fresh]
      /\ awaited' = IF place[serving] \in Answers THEN awaited - 1 ELSE awaited
      /\ UNCHANGED <<shared, inbox, message, exposed, executed>>
  BY Zenon DEF WriterWrite, sessionVars
<1>2. /\ place[Reader] \in {"idle", "reject", "announce"} /\ place[Writer] # "idle"
      /\ \A m \in Requests : place[m] \in {"idle", "end", "answer"}
      /\ serving \in Threads /\ serving # Writer /\ awaited = 1
  BY <1>1, EverybodyWaits
<1>3. /\ serving = Reader /\ place[Reader] = "reject" => After(place[serving]) = "idle"
      /\ serving = Reader /\ place[Reader] = "announce" => After(place[serving]) = "route"
      /\ serving \in Requests => place[serving] = "answer" /\ After(place[serving]) = "end"
      /\ (serving = Reader /\ place[Reader] \in {"reject", "announce"}) \/ serving \in Requests
  BY <1>2, Apart DEF ServeInv, After
<1>4. /\ place' \in [Threads \cup {Writer} -> Steps] /\ place'[Writer] = "idle"
      /\ place'[serving] = After(place[serving])
      /\ \A u \in Threads : u # serving => place'[u] = place[u]
  <2>1. After(place[serving]) \in Steps /\ "idle" \in Steps
    BY <1>3 DEF Steps, RequestPlaces, ReaderPlaces
  <2>2. place \in [Threads \cup {Writer} -> Steps] /\ serving \in Threads /\ serving # Writer
    BY <1>2, Zenon DEF PlaceInv
  <2>3. \A u \in Threads : u # Writer
    BY Apart DEF Threads
  <2>4. PICK a \in Steps : a = After(place[serving])
    BY <2>1, Zenon
  <2>5. place' = [place EXCEPT ![Writer] = "idle", ![serving] = a]
    BY <1>1, <2>4, Zenon
  <2> QED BY ZenonT(40), <2>1, <2>2, <2>3, <2>4, <2>5
<1>5. /\ place'[Pusher] = place[Pusher]
      /\ Reader # serving => place'[Reader] = place[Reader]
      /\ \A m \in Requests : m # serving => place'[m] = place[m]
  <2>1. /\ Pusher \in Threads /\ Reader \in Threads /\ Requests \subseteq Threads
        /\ Pusher # serving
    BY <1>3, Apart DEF Threads
  <2> QED BY <2>1, <1>4, ZenonT(40)
<1>6. /\ \A m \in Requests : place'[m] \in {"idle", "end"}
      /\ place'[Reader] \in {"idle", "route"}
      /\ place'[Reader] = "route" => serving = Reader /\ place[Reader] = "announce"
  <2>1. CASE serving = Reader /\ place[Reader] \in {"reject", "announce"}
    <3>1. place[Reader] # "idle"
      BY <2>1
    <3>2. \A m \in Requests : ~Works(m)
      BY <3>1, Zenon DEF TurnInv
    <3>3. \A m \in Requests : place'[m] = place[m]
      BY <2>1, <1>5, Apart, ZenonT(40)
    <3> QED BY Zenon, <1>2, <1>3, <1>4, <2>1, <3>2, <3>3 DEF Works
  <2>2. CASE serving \in Requests
    <3>1. Works(serving) /\ serving # Reader
      BY <1>3, <2>2, Apart DEF Works
    <3>2. place[Reader] = "idle" /\ \A m \in Requests : m # serving => ~Works(m)
      BY <2>2, <3>1, Zenon DEF TurnInv
    <3> QED BY Zenon, <1>2, <1>3, <1>4, <1>5, <2>2, <3>1, <3>2 DEF Works
  <2> QED BY <1>3, <2>1, <2>2, ZenonT(40)
<1>7. inbox = <<>>
  <2>1. CASE serving = Reader /\ place[Reader] \in {"reject", "announce"}
    <3>1. place[Reader] # "idle"
      BY <2>1
    <3> QED BY <3>1, Zenon DEF TurnInv
  <2>2. CASE serving \in Requests
    <3>1. Works(serving)
      BY <1>3, <2>2 DEF Works
    <3> QED BY <2>2, <3>1, Zenon DEF TurnInv
  <2> QED BY <1>3, <2>1, <2>2, Zenon
<1>8. PlaceInv'
  <2>1. place'[Reader] \in ReaderPlaces /\ \A m \in Requests : place'[m] \in RequestPlaces
    BY Zenon, <1>6 DEF ReaderPlaces, RequestPlaces
  <2>2. place'[Reader] # "idle" => message' \in Requests
    BY Zenon, <1>1, <1>6 DEF PlaceInv
  <2>3. place'[Writer] \in {"idle", "save", "write"}
    BY <1>4
  <2> QED BY <1>1, <1>4, <1>5, <2>1, <2>2, <2>3, ZenonT(40) DEF PlaceInv
<1>9. awaited' \in {0, 1} /\ (awaited' = 0 => place'[Reader] = "idle")
  <2>1. CASE place[serving] \in Answers
    BY SMTT(30), <2>1, <1>1, <1>2, <1>6 DEF Answers
  <2>2. CASE place[serving] \notin Answers
    BY SMTT(30), <2>2, <1>1, <1>2
  <2> QED BY <2>1, <2>2, ZenonT(40)
<1>10. \A m \in Requests : ~Works(m)'
  BY <1>6 DEF Works
<1>11. TurnInv'
  BY <1>1, <1>7, <1>9, <1>10, Zenon DEF TurnInv
<1>12. ServeInv'
  BY <1>4, ZenonT(40) DEF ServeInv
<1>13. /\ place'[Reader] \notin {"validate", "accept", "created", "subscribe", "expose"}
       /\ \A m \in Requests : place'[m] \notin {"bind", "expose"} /\ place'[m] # "bind"
       /\ place'[Writer] # "save" /\ place'[Writer] # "write" /\ place'[Reader] # "accept"
  BY <1>4, <1>6
<1>14. copy' \in [Threads \cup {Writer} -> SnapshotRecords]
  <2>1. Fresh \in SnapshotRecords
    BY CopyStays, Zenon
  <2> QED BY <2>1, <1>1 DEF CopyInv
<1>15. CopyInv'
  BY <1>1, <1>13, <1>14, ZenonT(40) DEF CopyInv
<1>16. place'[Reader] \in {"create", "created", "announce", "route", "subscribe", "expose", "dispatch"} =>
         executed[message] = 0 /\ message \in shared.accepted
  BY <1>6 DEF StartInv
<1>17. StartInv'
  BY <1>1, <1>13, <1>16, Zenon DEF StartInv
<1>18. NumberInv'
  <2>1. /\ copy[Writer] \in SnapshotRecords
        /\ shared = [copy[Writer] EXCEPT !.sequence = IF ContentRelated(serving) THEN @ + 1 ELSE @]
        /\ ContentRelated(serving) \in BOOLEAN
    BY <1>1 DEF CopyInv, ContentRelated
  <2>2. PICK n \in Nat : n = copy[Writer].sequence
    BY <2>1 DEF SnapshotRecords
  <2>3. shared.sequence = IF ContentRelated(serving) THEN n + 1 ELSE n
    <3>1. PICK c \in BOOLEAN : c = ContentRelated(serving)
      BY <2>1, Zenon
    <3>2. shared = [copy[Writer] EXCEPT !.sequence = IF c THEN @ + 1 ELSE @]
      BY <2>1, <3>1, Zenon
    <3> QED BY <2>1, <2>2, <3>1, <3>2, SequenceChanged, Zenon
  <2>4. Unused = n /\ Unused' = shared.sequence
    BY <1>1, <1>13, <2>2, Zenon DEF Unused
  <2>5. /\ wire \in Seq(Nat) /\ \A i \in DOMAIN wire : wire[i] < 2 * n + 1
        /\ \A i, j \in DOMAIN wire : wire[i] = wire[j] => i = j
        /\ exposed' \subseteq shared'.bound
    BY <1>1, <2>4, Zenon DEF NumberInv
  <2>6. CASE ContentRelated(serving)
    <3>1. wire' = Append(wire, 2 * n + 1) /\ Unused' = n + 1
      BY <1>1, <2>2, <2>3, <2>4, <2>6, ZenonT(40)
    <3>2. wire' \in Seq(Nat)
      BY SMTT(30), <2>5, <3>1
    <3>3. \A i \in DOMAIN wire' : wire'[i] < 2 * Unused' + 1
      BY SMTT(30), <2>5, <3>1
    <3>4. \A i, j \in DOMAIN wire' : wire'[i] = wire'[j] => i = j
      BY SMTT(30), <2>5, <3>1
    <3> QED BY <2>5, <3>2, <3>3, <3>4, Zenon DEF NumberInv
  <2>7. CASE ~ContentRelated(serving)
    <3>1. wire' = wire /\ Unused' = n
      BY <1>1, <2>3, <2>4, <2>7, Zenon
    <3> QED BY <2>5, <3>1, Zenon DEF NumberInv
  <2> QED BY <2>6, <2>7, Zenon
<1> QED BY <1>8, <1>11, <1>12, <1>15, <1>17, <1>18, Zenon

\* Nothing has happened yet.
LEMMA InitInStep ==
  ASSUME SessionInit
  PROVE  InStep
<1>1. /\ place \in [Threads \cup {Writer} -> Steps] /\ place[Reader] = "idle" /\ place[Pusher] = "idle"
      /\ place[Writer] = "idle" /\ \A m \in Requests : place[m] = "idle"
  BY DEF SessionInit, Threads, Steps, RequestPlaces
<1>2. /\ shared = Fresh /\ inbox = <<>> /\ exposed = {} /\ awaited = 0 /\ wire = <<>>
      /\ copy = [t \in Threads \cup {Writer} |-> Fresh] /\ executed = [m \in Requests |-> 0]
  BY ZenonT(40) DEF SessionInit
<1>3. Fresh \in SnapshotRecords /\ Fresh.sequence = 0 /\ Fresh.bound = {}
  BY Zenon DEF Fresh, SnapshotRecords
<1>4. PlaceInv
  BY SMTT(30), <1>1, <1>2 DEF PlaceInv, ReaderPlaces, RequestPlaces
<1>5. TurnInv
  BY <1>1, <1>2 DEF TurnInv, Works
<1>6. ServeInv
  BY <1>1 DEF ServeInv
<1>7. CopyInv
  BY ZenonT(40), <1>1, <1>2, <1>3 DEF CopyInv
<1>8. StartInv
  BY SMTT(30), <1>1, <1>2 DEF StartInv
<1>9. NumberInv
  BY <1>1, <1>2, <1>3 DEF NumberInv, Unused
<1> QED BY <1>4, <1>5, <1>6, <1>7, <1>8, <1>9, ZenonT(40) DEF InStep

\* Whatever is true while the client waits stays true in every step.
LEMMA LockstepInvStep ==
  ASSUME LockstepInv, [SessionNext]_allVars
  PROVE  LockstepInv'
<1> SUFFICES ASSUME lockstep'
             PROVE  InStep'
  BY Zenon DEF LockstepInv
<1>1. CASE UNCHANGED allVars
  <2>1. UNCHANGED <<shared, copy, place, inbox, message, serving, exposed, awaited, lockstep, executed, wire>>
    BY <1>1, Zenon DEF allVars, sessionVars, clientVars
  <2>2. InStep
    BY <2>1, Zenon DEF LockstepInv
  <2> QED
    BY <2>1, <2>2, Zenon DEF InStep, PlaceInv, TurnInv, ServeInv, CopyInv, StartInv, NumberInv, Works,
       ContentRelated, Unused
<1>2. CASE SessionNext
  <2>1. lockstep /\ ~PushStart
    BY <1>2, Zenon
    DEF SessionNext, ClientSend, RequestStep, ReaderStep, PushStart, WriterStep,
        Outcome, BindSave, MutationSave, Expose, Complete, Receive,
        Reject, Reserve, Accept, Create, CreateSave, Subscribe,
        SubscribeSave, Dispatch, WriterSave, WriterWrite, WriterTake,
        clientVars
  <2>2. InStep
    BY <2>1, Zenon DEF LockstepInv
  <2>3. CASE \E m \in Requests : ClientSend(m) \/ RequestStep(m)
    BY <2>2, <2>3, SendStep, OutcomeStep, BindSaveStep, RequestExposeStep, CompleteStep, Zenon
    DEF RequestStep
  <2>4. CASE ReaderStep
    BY <2>2, <2>4, ReceiveStep, RejectStep, ReserveStep, AcceptStep, CreateStep, CreateSaveStep, SubscribeStep,
       SubscribeSaveStep, ReaderExposeStep, DispatchStep, Zenon DEF ReaderStep
  <2>5. CASE WriterStep
    BY <2>2, <2>5, SaveStep, WriteStep, TakeStep, Zenon DEF WriterStep
  <2> QED BY <1>2, <2>1, <2>3, <2>4, <2>5, Zenon DEF SessionNext
<1> QED BY <1>1, <1>2, Zenon

\* LockstepIsSafe: a client that waits for every answer, and to whom nobody pushes,
\* loses no update to the copies that the reader, the writer and the handlers take
\* of the snapshot, however many requests it sends and however often.
THEOREM LockstepLosesNothing == SessionSpec => []LockstepIsSafe
<1>1. SessionInit => LockstepInv
  BY InitInStep, Zenon DEF LockstepInv
<1>2. LockstepInv /\ [SessionNext]_allVars => LockstepInv'
  BY LockstepInvStep, Zenon
<1>3. LockstepInv => LockstepIsSafe
  BY Zenon DEF LockstepInv, InStep, StartInv, NumberInv, LockstepIsSafe, AtMostOnce
<1> QED BY <1>1, <1>2, <1>3, PTL DEF SessionSpec
=============================================================================
