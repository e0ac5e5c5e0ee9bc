------------------------ MODULE ActiveRequestsProofs ------------------------
(***************************************************************************)
(* Admission, dependencies and shutdown of a session's requests, for any   *)
(* message ids, dependencies and capacities.                               *)
(***************************************************************************)
EXTENDS ActiveRequests, FiniteSetTheorems, TLAPS

Places == {"none", "reserved", "look", "select", "refuse", "running", "complete", "release", "gone"}

Types ==
  /\ inUse \in Nat /\ others \in Nat
  /\ reader \in {"idle", "admitted", "routing", "failing", "stopped"}
  /\ batch \subseteq Ids
  /\ begun \in [Ids -> 0 .. MaxBegins]
  /\ pc \in [Registrations -> Places]

\* What the reader knows of its batch: before beginBatch every id may be begun,
\* afterwards the latest registration of an id that is not routed is reserved.
BatchInv ==
  /\ reader = "admitted" => \A i \in batch : begun[i] < MaxBegins
  /\ reader \in {"routing", "failing"} =>
       \A i \in batch : Latest(i) \in Registrations /\ pc[Latest(i)] = "reserved"

\* A registration has a place once it is begun.
BegunInv == \A r \in Registrations : pc[r] # "none" <=> r[2] <= begun[r[1]]

\* Slots the reader has taken for a batch it has not begun.
Held == IF reader = "admitted" THEN Cardinality(batch) ELSE 0
CountInv == inUse = others + Cardinality(LiveRegistrations) + Held

\* A session that closes begins nothing, and one whose lease is released has
\* nothing left.
ClosingInv ==
  /\ shutdown # "up" => reader # "admitted"
  /\ shutdown = "released" => LiveRegistrations = {}

RequestInv == Types /\ BatchInv /\ BegunInv /\ CountInv /\ ClosingInv

-----------------------------------------------------------------------------
(* Finite sets *)

\* Ids and registrations are finitely many, so the counts are numbers.
LEMMA FiniteRegistrations ==
  /\ IsFiniteSet(Registrations)
  /\ \A S : S \subseteq Registrations => IsFiniteSet(S) /\ Cardinality(S) \in Nat
  /\ \A S : S \subseteq Ids => IsFiniteSet(S) /\ Cardinality(S) \in Nat
<1>1. 1 \in Int /\ MaxBegins \in Int /\ IsFiniteSet(Ids)
  BY RequestsAssumption
<1>2. IsFiniteSet(1 .. MaxBegins)
  BY Zenon, <1>1, FS_Interval
<1>3. IsFiniteSet(Registrations)
  BY Zenon, <1>1, <1>2, FS_Product DEF Registrations
<1> QED BY Zenon, <1>1, <1>3, FS_Subset, FS_CardinalityType

\* The registrations beginBatch makes are as many as the ids of the batch.
LEMMA BatchCount ==
  ASSUME NEW S, S \subseteq Ids, NEW N, N \subseteq Registrations, NEW f,
         N = {r \in Registrations : r[1] \in S /\ r[2] = f[r[1]]},
         \A i \in S : <<i, f[i]>> \in Registrations
  PROVE  Cardinality(N) = Cardinality(S)
<1> DEFINE g == [i \in S |-> <<i, f[i]>>]
<1>1. \A i \in S : g[i] \in N
  OBVIOUS
<1>2. \A i, j \in S : g[i] = g[j] => i = j
  OBVIOUS
<1>3. \A r \in N : r[1] \in S /\ g[r[1]] = r
  BY DEF Registrations
<1>4. g \in [S -> N]
  BY <1>1
<1> HIDE DEF g
<1>5. g \in Bijection(S, N)
  BY <1>2, <1>3, <1>4 DEF Bijection, Injection, Surjection, IsInjective
<1>6. ExistsBijection(S, N)
  BY Zenon, <1>5 DEF ExistsBijection
<1> QED BY Zenon, <1>6, FiniteRegistrations, FS_Bijection

\* Live registrations are registrations, and can be counted.
LEMMA LiveAre == LiveRegistrations \subseteq Registrations /\ Cardinality(LiveRegistrations) \in Nat
<1>1. LiveRegistrations \subseteq Registrations
  BY DEF LiveRegistrations
<1> QED BY Zenon, <1>1, FiniteRegistrations

-----------------------------------------------------------------------------
\* Nothing is admitted or begun at first.
LEMMA InitRequests == Init => RequestInv
<1> SUFFICES ASSUME Init PROVE RequestInv
  OBVIOUS
<1>1. /\ inUse = 0 /\ others = 0 /\ reader = "idle" /\ batch = {} /\ shutdown = "up"
      /\ begun = [i \in Ids |-> 0] /\ pc = [r \in Registrations |-> "none"]
  BY Zenon DEF Init
<1>2. Types
  BY <1>1, RequestsAssumption DEF Types, Places
<1>3. BatchInv /\ ClosingInv
  BY <1>1 DEF BatchInv, ClosingInv
<1>4. BegunInv
  BY <1>1 DEF BegunInv, Registrations
<1>5. LiveRegistrations = {}
  BY <1>1 DEF LiveRegistrations, Live
<1>6. CountInv
  BY <1>1, <1>5, FS_EmptySet DEF CountInv, Held
<1> QED BY Zenon, <1>2, <1>3, <1>4, <1>6 DEF RequestInv

\* Steps of other sessions, of shutdown and of the registry: nobody moves.
LEMMA StayKeeps ==
  ASSUME RequestInv, UNCHANGED <<reader, batch, begun, pc>>,
         inUse' \in Nat, others' \in Nat, inUse' - others' = inUse - others,
         shutdown' # "up" => reader # "admitted",
         shutdown' = "released" => LiveRegistrations = {}
  PROVE  RequestInv'
<1>1. Types'
  BY Zenon DEF RequestInv, Types
<1>2. LiveRegistrations' = LiveRegistrations /\ Held' = Held
  BY Zenon DEF LiveRegistrations, Live, Held
<1>3. BatchInv' /\ BegunInv'
  BY Zenon DEF RequestInv, BatchInv, BegunInv, Latest
<1>4. CountInv'
  <2>1. Cardinality(LiveRegistrations) \in Nat /\ Held \in Nat
    BY Zenon, LiveAre, FiniteRegistrations, 0 \in Nat DEF Held, RequestInv, Types
  <2>2. inUse = others + Cardinality(LiveRegistrations) + Held /\ inUse \in Nat /\ others \in Nat
    BY Zenon DEF RequestInv, CountInv, Types
  <2>3. inUse' = others' + Cardinality(LiveRegistrations) + Held
    BY <2>1, <2>2
  <2> QED BY Zenon, <1>2, <2>3 DEF CountInv
<1>5. ClosingInv'
  BY Zenon, <1>2 DEF ClosingInv
<1> QED BY Zenon, <1>1, <1>3, <1>4, <1>5 DEF RequestInv

\* A goroutine goes on to a place where it still holds its slot; a reserved one
\* only when its id leaves the batch.
LEMMA WalkKeeps ==
  ASSUME RequestInv, NEW r \in Registrations, NEW to \in Places \ {"none", "gone", "reserved"},
         pc[r] \notin {"none", "gone"}, pc' = [pc EXCEPT ![r] = to],
         UNCHANGED <<inUse, others, begun, shutdown>>,
         batch' \subseteq batch, reader' = reader \/ (reader \in {"routing", "failing"} /\ reader' \in {"idle", "stopped", "failing"}),
         reader = "admitted" => batch' = batch,
         reader \in {"routing", "failing"} => \A i \in batch' : Latest(i) # r
  PROVE  RequestInv'
<1>0. pc \in [Registrations -> Places] /\ batch \subseteq Ids
  BY Zenon DEF RequestInv, Types
<1>1. Types'
  BY <1>0 DEF RequestInv, Types
<1>2. LiveRegistrations' = LiveRegistrations
  BY <1>0 DEF LiveRegistrations, Live
<1>3. Held' = Held
  BY DEF Held
<1>4. BatchInv'
  BY <1>0 DEF RequestInv, BatchInv, Latest
<1>5. BegunInv'
  BY <1>0 DEF RequestInv, BegunInv
<1>6. CountInv'
  BY Zenon, <1>2, <1>3 DEF RequestInv, CountInv
<1>7. ClosingInv'
  BY Zenon, <1>2 DEF RequestInv, ClosingInv
<1> QED BY Zenon, <1>1, <1>4, <1>5, <1>6, <1>7 DEF RequestInv

\* A completed request gives its slot back.
LEMMA ReleaseKeeps ==
  ASSUME RequestInv, NEW r \in Registrations, Release(r)
  PROVE  RequestInv'
<1>0. /\ pc[r] = "release" /\ pc' = [pc EXCEPT ![r] = "gone"] /\ inUse' = inUse - 1
      /\ UNCHANGED <<others, reader, batch, begun, shutdown>>
  BY Zenon DEF Release, Goto
<1>1. pc \in [Registrations -> Places] /\ inUse \in Nat /\ others \in Nat /\ batch \subseteq Ids
  BY Zenon DEF RequestInv, Types
<1>2. LiveRegistrations' = LiveRegistrations \ {r} /\ r \in LiveRegistrations
  BY <1>0, <1>1 DEF LiveRegistrations, Live
<1>3. Cardinality(LiveRegistrations \ {r}) = Cardinality(LiveRegistrations) - 1
  BY Zenon, <1>2, LiveAre, FiniteRegistrations, FS_RemoveElement
<1>4. Cardinality(LiveRegistrations) \in Nat /\ Cardinality(LiveRegistrations \ {r}) \in Nat
  BY Zenon, LiveAre, <1>2, FiniteRegistrations
<1>5. Held' = Held /\ Held \in Nat
  BY Zenon, <1>0, <1>1, FiniteRegistrations, 0 \in Nat DEF Held
<1>6. inUse = others + Cardinality(LiveRegistrations) + Held
  BY Zenon DEF RequestInv, CountInv
<1>7. inUse' = others + Cardinality(LiveRegistrations \ {r}) + Held /\ inUse' \in Nat
  BY <1>0, <1>1, <1>3, <1>4, <1>5, <1>6
<1>8. CountInv'
  BY Zenon, <1>0, <1>2, <1>5, <1>7 DEF CountInv
<1>9. Types'
  BY <1>0, <1>1, <1>7 DEF RequestInv, Types, Places
<1>10. BatchInv'
  BY <1>0, <1>1 DEF RequestInv, BatchInv, Latest
<1>11. BegunInv'
  BY <1>0, <1>1 DEF RequestInv, BegunInv
<1>12. ClosingInv'
  BY <1>0, <1>2 DEF RequestInv, ClosingInv
<1> QED BY Zenon, <1>8, <1>9, <1>10, <1>11, <1>12 DEF RequestInv

\* Admission takes a slot for every id of the batch.
LEMMA AdmitKeeps ==
  ASSUME RequestInv, NEW ids \in SUBSET Ids, Admit(ids)
  PROVE  RequestInv'
<1>0. /\ reader = "idle" /\ \A i \in ids : begun[i] < MaxBegins
      /\ shutdown = "up" /\ inUse' = inUse + Cardinality(ids) /\ batch' = ids /\ reader' = "admitted"
      /\ UNCHANGED <<others, begun, pc, shutdown>>
  BY Zenon DEF Admit
<1>1. inUse \in Nat /\ others \in Nat /\ Cardinality(ids) \in Nat /\ Cardinality(LiveRegistrations) \in Nat
  BY Zenon, LiveAre, FiniteRegistrations DEF RequestInv, Types
<1>2. LiveRegistrations' = LiveRegistrations
  BY Zenon, <1>0 DEF LiveRegistrations, Live
<1>3. Held = 0 /\ Held' = Cardinality(ids)
  BY <1>0 DEF Held
<1>4. inUse = others + Cardinality(LiveRegistrations) + 0
  BY Zenon, <1>3 DEF RequestInv, CountInv
<1>5. inUse' = others' + Cardinality(LiveRegistrations) + Cardinality(ids) /\ inUse' \in Nat
  BY <1>0, <1>1, <1>4
<1>6. CountInv'
  BY Zenon, <1>2, <1>3, <1>5 DEF CountInv
<1>7. Types'
  BY <1>0, <1>5 DEF RequestInv, Types
<1>8. BatchInv' /\ BegunInv'
  BY <1>0 DEF RequestInv, BatchInv, BegunInv
<1>9. ClosingInv'
  BY <1>0 DEF ClosingInv
<1> QED BY Zenon, <1>6, <1>7, <1>8, <1>9 DEF RequestInv

\* The slots of the batch become those of its registrations.
LEMMA BeginBatchKeeps ==
  ASSUME RequestInv, BeginBatch
  PROVE  RequestInv'
<1> DEFINE next == [i \in Ids |-> begun[i] + 1]
           N == {r \in Registrations : r[1] \in batch /\ r[2] = next[r[1]]}
<1>0. /\ reader = "admitted" /\ reader' = "routing"
      /\ begun' = [i \in Ids |-> IF i \in batch THEN begun[i] + 1 ELSE begun[i]]
      /\ pc' = [r \in Registrations |-> IF r[1] \in batch /\ r[2] = begun[r[1]] + 1 THEN "reserved" ELSE pc[r]]
      /\ UNCHANGED <<inUse, others, batch, shutdown>>
  BY Zenon DEF BeginBatch
<1>1. /\ pc \in [Registrations -> Places] /\ batch \subseteq Ids /\ begun \in [Ids -> 0 .. MaxBegins]
      /\ inUse \in Nat /\ others \in Nat
  BY Zenon DEF RequestInv, Types
<1>2. \A i \in batch : begun[i] \in Nat /\ begun[i] < MaxBegins
  BY <1>0, <1>1 DEF RequestInv, BatchInv
<1>3. \A i \in batch : next[i] = begun[i] + 1 /\ <<i, next[i]>> \in Registrations
  BY SMTT(30), <1>1, <1>2, RequestsAssumption DEF Registrations
<1>4. \A r \in Registrations : r[1] \in Ids /\ r[2] \in Nat /\ begun[r[1]] \in Nat /\ next[r[1]] = begun[r[1]] + 1
  BY SMTT(30), <1>1 DEF Registrations
<1>5. \A r \in Registrations : pc'[r] = IF r \in N THEN "reserved" ELSE pc[r]
  BY Zenon, <1>0, <1>4
<1>6. \A r \in N : r \in Registrations /\ pc[r] = "none"
  BY <1>4 DEF RequestInv, BegunInv
<1> HIDE DEF next
<1>7. N \subseteq Registrations /\ Cardinality(N) = Cardinality(batch)
  <2>1. N \subseteq Registrations
    OBVIOUS
  <2> QED BY Zenon, <1>1, <1>3, <2>1, BatchCount
<1>8. \A i \in batch : <<i, next[i]>> \in N
  BY <1>3
<1> HIDE DEF N
<1>9. LiveRegistrations' = LiveRegistrations \cup N /\ LiveRegistrations \cap N = {}
  BY <1>5, <1>6 DEF LiveRegistrations, Live
<1>10. Cardinality(LiveRegistrations \cup N) = Cardinality(LiveRegistrations) + Cardinality(batch)
  <2>1. IsFiniteSet(LiveRegistrations) /\ IsFiniteSet(N)
    BY Zenon, <1>7, LiveAre, FiniteRegistrations
  <2>2. Cardinality(LiveRegistrations \cup N) = Cardinality(LiveRegistrations) + Cardinality(N)
                                                 - Cardinality(LiveRegistrations \cap N)
    BY Zenon, <2>1, FS_Union
  <2>3. Cardinality(LiveRegistrations \cap N) = 0
    BY Zenon, <1>9, FS_EmptySet
  <2>4. Cardinality(LiveRegistrations) \in Nat /\ Cardinality(N) \in Nat
    BY Zenon, <1>7, LiveAre, FiniteRegistrations
  <2> QED BY <2>2, <2>3, <2>4, <1>7
<1>11. CountInv'
  <2>1. Held = Cardinality(batch) /\ Held' = 0
    BY <1>0 DEF Held
  <2>2. inUse = others + Cardinality(LiveRegistrations) + Cardinality(batch)
    BY Zenon, <2>1 DEF RequestInv, CountInv
  <2>3. Cardinality(LiveRegistrations) \in Nat /\ Cardinality(batch) \in Nat
    BY Zenon, <1>1, LiveAre, FiniteRegistrations
  <2>4. inUse' = others' + Cardinality(LiveRegistrations \cup N) + 0
    BY <1>0, <1>1, <1>10, <2>2, <2>3
  <2> QED BY Zenon, <1>9, <2>1, <2>4 DEF CountInv
<1>12. Types'
  <2>1. pc' \in [Registrations -> Places]
    BY <1>0, <1>1 DEF Places
  <2>2. begun' \in [Ids -> 0 .. MaxBegins]
    BY SMTT(30), <1>0, <1>1, <1>2, RequestsAssumption
  <2> QED BY <2>1, <2>2, <1>0, <1>1 DEF Types
<1>13. BatchInv'
  <2>1. \A i \in batch : Latest(i)' = <<i, next[i]>>
    BY ZenonT(40), <1>0, <1>1, <1>3 DEF Latest
  <2>2. \A i \in batch : Latest(i)' \in Registrations /\ pc'[Latest(i)'] = "reserved"
    BY SMTT(30), <2>1, <1>3, <1>5, <1>8
  <2> QED BY <2>2, <1>0 DEF BatchInv
<1>14. BegunInv'
  <2> SUFFICES ASSUME NEW r \in Registrations PROVE pc'[r] # "none" <=> r[2] <= begun'[r[1]]
    BY DEF BegunInv
  <2>1. r[1] \in Ids /\ r[2] \in Nat /\ begun[r[1]] \in Nat
    BY <1>4
  <2>2. pc[r] # "none" <=> r[2] <= begun[r[1]]
    BY Zenon DEF RequestInv, BegunInv
  <2>3. begun'[r[1]] = IF r[1] \in batch THEN begun[r[1]] + 1 ELSE begun[r[1]]
    BY <1>0, <2>1
  <2>4. pc'[r] = IF r[1] \in batch /\ r[2] = begun[r[1]] + 1 THEN "reserved" ELSE pc[r]
    BY Zenon, <1>0
  <2> QED BY SMTT(30), <2>1, <2>2, <2>3, <2>4
<1>15. ClosingInv'
  BY <1>0 DEF RequestInv, ClosingInv
<1> QED BY Zenon, <1>11, <1>12, <1>13, <1>14, <1>15 DEF RequestInv

\* A batch that is refused gives its slots back.
LEMMA BeginFailsKeeps ==
  ASSUME RequestInv, BeginFails
  PROVE  RequestInv'
<1>0. /\ reader = "admitted" /\ inUse' = inUse - Cardinality(batch) /\ batch' = {}
      /\ reader' \in {"idle", "stopped"} /\ UNCHANGED <<others, begun, pc, shutdown>>
  BY DEF BeginFails
<1>1. /\ inUse \in Nat /\ others \in Nat /\ Cardinality(batch) \in Nat
      /\ Cardinality(LiveRegistrations) \in Nat
  BY Zenon, LiveAre, FiniteRegistrations DEF RequestInv, Types
<1>2. LiveRegistrations' = LiveRegistrations
  BY Zenon, <1>0 DEF LiveRegistrations, Live
<1>3. Held = Cardinality(batch) /\ Held' = 0
  BY <1>0 DEF Held
<1>4. inUse = others + Cardinality(LiveRegistrations) + Cardinality(batch)
  BY Zenon, <1>3 DEF RequestInv, CountInv
<1>5. inUse' = others' + Cardinality(LiveRegistrations) + 0 /\ inUse' \in Nat
  BY <1>0, <1>1, <1>4
<1>6. CountInv'
  BY Zenon, <1>2, <1>3, <1>5 DEF CountInv
<1>7. Types'
  BY <1>0, <1>5 DEF RequestInv, Types
<1>8. BatchInv' /\ BegunInv' /\ ClosingInv'
  BY <1>0, <1>2 DEF RequestInv, BatchInv, BegunInv, ClosingInv
<1> QED BY Zenon, <1>6, <1>7, <1>8 DEF RequestInv

\* The reader routes a request of its batch or gives its reservation up.
LEMMA RouteKeeps ==
  ASSUME RequestInv, NEW i \in Ids, Route(i) \/ ReleaseReservation(i)
  PROVE  RequestInv'
<1>1. /\ reader \in {"routing", "failing"} /\ i \in batch /\ batch' = batch \ {i}
      /\ \E to \in {"look", "release"} : pc' = [pc EXCEPT ![Latest(i)] = to]
      /\ UNCHANGED <<inUse, others, begun, shutdown>>
  BY Zenon DEF Route, ReleaseReservation
<1>2. reader' = reader \/ reader' \in {"idle", "stopped", "failing"}
  BY Zenon DEF Route, ReleaseReservation
<1>3. Latest(i) \in Registrations /\ pc[Latest(i)] = "reserved"
  BY Zenon, <1>1 DEF RequestInv, BatchInv
<1>4. PICK to \in {"look", "release"} : pc' = [pc EXCEPT ![Latest(i)] = to]
  BY Zenon, <1>1
<1>5. to \in Places \ {"none", "gone", "reserved"}
  BY <1>4 DEF Places
<1>6. /\ batch' \subseteq batch /\ \A j \in batch' : Latest(j) # Latest(i)
      /\ reader = "admitted" => batch' = batch
      /\ pc[Latest(i)] \notin {"none", "gone"}
  BY <1>1, <1>3 DEF Latest
<1>7. reader' = reader \/ (reader \in {"routing", "failing"} /\ reader' \in {"idle", "stopped", "failing"})
  BY Zenon, <1>1, <1>2
<1> HIDE DEF Latest
<1> QED BY Zenon, <1>1, <1>3, <1>4, <1>5, <1>6, <1>7, WalkKeeps

\* The steps of a request's goroutine.
LEMMA GoroutineKeeps ==
  ASSUME RequestInv, NEW r \in Registrations, RequestStep(r) \/ TimeOut(r)
  PROVE  RequestInv'
<1>1. ASSUME NEW from \in {"look", "select", "refuse", "running", "complete"},
             NEW to \in Places \ {"none", "gone", "reserved"}, Goto(r, from, to),
             UNCHANGED <<inUse, others, reader, batch, begun, shutdown>>
      PROVE  RequestInv'
  <2>1. pc[r] = from /\ pc' = [pc EXCEPT ![r] = to]
    BY Zenon, <1>1 DEF Goto
  <2>2. reader \in {"routing", "failing"} => \A i \in batch' : Latest(i) # r
    BY <1>1, <2>1 DEF RequestInv, BatchInv
  <2>3. pc[r] \notin {"none", "gone"}
    BY <1>1, <2>1
  <2>4. batch' \subseteq batch /\ batch' = batch /\ reader' = reader
    BY <1>1
  <2> QED BY Zenon, <1>1, <2>1, <2>2, <2>3, <2>4, WalkKeeps
<1>2. {"look", "select", "refuse", "running", "complete", "release"} \subseteq Places \ {"none", "gone", "reserved"}
  BY DEF Places
<1>3. CASE Look(r)
  <2>1. PICK to \in {"refuse", "running", "select"} : Goto(r, "look", to)
    BY <1>3 DEF Look
  <2>2. UNCHANGED <<inUse, others, reader, batch, begun, shutdown>>
    BY Zenon, <1>3 DEF Look
  <2> QED BY Zenon, <1>1, <1>2, <2>1, <2>2
<1>4. CASE Wake(r) \/ Cancelled(r) \/ TimeOut(r)
  <2>1. PICK to \in {"look", "complete", "refuse"} : Goto(r, "select", to)
    BY <1>4 DEF Wake, Cancelled, TimeOut
  <2>2. UNCHANGED <<inUse, others, reader, batch, begun, shutdown>>
    BY Zenon, <1>4 DEF Wake, Cancelled, TimeOut, AroundGoroutine
  <2> QED BY <1>1, <1>2, <2>1, <2>2
<1>5. ASSUME NEW fails \in BOOLEAN, Refuse(r, fails) PROVE RequestInv'
  <2>1. Goto(r, "refuse", "complete") /\ UNCHANGED <<inUse, others, reader, batch, begun, shutdown>>
    BY Zenon, <1>5 DEF Refuse, AroundGoroutine
  <2> QED BY <1>1, <1>2, <2>1
<1>6. ASSUME NEW fails \in BOOLEAN, NEW success \in BOOLEAN, HandlerReturns(r, success, fails) PROVE RequestInv'
  <2>1. Goto(r, "running", "complete") /\ UNCHANGED <<inUse, others, reader, batch, begun, shutdown>>
    BY Zenon, <1>6 DEF HandlerReturns, AroundGoroutine
  <2> QED BY <1>1, <1>2, <2>1
<1>7. CASE Complete(r)
  <2>1. Goto(r, "complete", "release") /\ UNCHANGED <<inUse, others, reader, batch, begun, shutdown>>
    BY Zenon, <1>7 DEF Complete
  <2> QED BY <1>1, <1>2, <2>1
<1>8. CASE Release(r)
  BY Zenon, <1>8, ReleaseKeeps
<1> QED BY Zenon, <1>3, <1>4, <1>5, <1>6, <1>7, <1>8 DEF RequestStep

\* Every step keeps the counts and places.
LEMMA NextRequests == RequestInv /\ [Next]_vars => RequestInv'
<1> SUFFICES ASSUME RequestInv, [Next]_vars PROVE RequestInv'
  OBVIOUS
<1>0. inUse \in Nat /\ others \in Nat
  BY Zenon DEF RequestInv, Types
<1>1. ASSUME UNCHANGED <<inUse, others, reader, batch, begun, pc, shutdown>> PROVE RequestInv'
  <2>1. inUse' \in Nat /\ others' \in Nat /\ inUse' - others' = inUse - others
    BY <1>0, <1>1
  <2>2. /\ shutdown' # "up" => reader # "admitted"
        /\ shutdown' = "released" => LiveRegistrations = {}
    BY Zenon, <1>1 DEF RequestInv, ClosingInv
  <2> QED BY Zenon, <1>1, <2>1, <2>2, StayKeeps
<1>2. ASSUME UNCHANGED <<reader, batch, begun, pc, shutdown>>,
             inUse' \in Nat, others' \in Nat, inUse' - others' = inUse - others
      PROVE  RequestInv'
  <2>1. /\ shutdown' # "up" => reader # "admitted"
        /\ shutdown' = "released" => LiveRegistrations = {}
    BY Zenon, <1>2 DEF RequestInv, ClosingInv
  <2> QED BY Zenon, <1>2, <2>1, StayKeeps
<1>3. CASE OtherAcquire
  <2>1. inUse' = inUse + 1 /\ others' = others + 1 /\ UNCHANGED <<reader, batch, begun, pc, shutdown>>
    BY Zenon, <1>3 DEF OtherAcquire
  <2>2. inUse' \in Nat /\ others' \in Nat /\ inUse' - others' = inUse - others
    BY <1>0, <2>1
  <2> QED BY Zenon, <1>2, <2>1, <2>2
<1>4. CASE OtherRelease
  <2>1. others > 0 /\ inUse' = inUse - 1 /\ others' = others - 1 /\ UNCHANGED <<reader, batch, begun, pc, shutdown>>
    BY Zenon, <1>4 DEF OtherRelease
  <2>2. inUse >= others
    <3>1. Cardinality(LiveRegistrations) \in Nat /\ Held \in Nat
      BY Zenon, LiveAre, FiniteRegistrations, 0 \in Nat DEF Held, RequestInv, Types
    <3>2. inUse = others + Cardinality(LiveRegistrations) + Held
      BY Zenon DEF RequestInv, CountInv
    <3> QED BY <1>0, <3>1, <3>2
  <2>3. inUse' \in Nat /\ others' \in Nat /\ inUse' - others' = inUse - others
    BY <1>0, <2>1, <2>2
  <2> QED BY Zenon, <1>2, <2>1, <2>3
<1>5. ASSUME NEW i \in Ids, Drop(i) PROVE RequestInv'
  BY Zenon, <1>1, <1>5 DEF Drop
<1>6. CASE LeaseEnds \/ UNCHANGED vars
  BY Zenon, <1>1, <1>6 DEF LeaseEnds, AroundGoroutine, vars
<1>7. CASE ShutdownMark \/ CancelAll \/ ShutdownRelease
  <2>1. /\ UNCHANGED <<inUse, others, reader, batch, begun, pc>>
        /\ \/ reader # "admitted"
           \/ shutdown \in {"closing", "waiting"}
    BY Zenon, <1>7 DEF ShutdownMark, CancelAll, ShutdownRelease
  <2>2. shutdown' # "up" => reader # "admitted"
    BY <2>1 DEF RequestInv, ClosingInv
  <2>3. shutdown' = "released" => LiveRegistrations = {}
    BY <1>7 DEF ShutdownMark, CancelAll, ShutdownRelease, LiveRegistrations, Live
  <2>4. inUse' \in Nat /\ others' \in Nat /\ inUse' - others' = inUse - others
    BY <1>0, <2>1
  <2> QED BY Zenon, <2>1, <2>2, <2>3, <2>4, StayKeeps
<1>8. ASSUME NEW ids \in SUBSET Ids, Admit(ids) PROVE RequestInv'
  BY Zenon, <1>8, AdmitKeeps
<1>9. CASE ReaderStep
  BY Zenon, <1>9, BeginBatchKeeps, BeginFailsKeeps, RouteKeeps DEF ReaderStep
<1>10. ASSUME NEW r \in Registrations, RequestStep(r) \/ TimeOut(r) PROVE RequestInv'
  BY Zenon, <1>10, GoroutineKeeps
<1> QED BY Zenon, <1>3, <1>4, <1>5, <1>6, <1>7, <1>8, <1>9, <1>10 DEF Next

\* Every reachable state satisfies the inductive invariant of admission.
THEOREM RequestInvariant == Spec => []RequestInv
BY InitRequests, NextRequests, PTL DEF Spec

\* The admission counter is the slots of the other sessions, of the requests that
\* live and of the batch being begun, through drops, refused batches and races
\* (connection_session.go:423-451, 678-705).
THEOREM AdmissionIsExact == Spec => []AdmissionExact
<1>1. RequestInv => AdmissionExact
  BY Zenon DEF RequestInv, CountInv, Held, AdmissionExact
<1> QED BY <1>1, RequestInvariant, PTL

\* No goroutine of a request outlives the release of its lease
\* (connection_session.go:635-657).
THEOREM ReleasedMeansQuiet == Spec => []QuietAfterRelease
<1>1. RequestInv => QuietAfterRelease
  BY Zenon DEF RequestInv, ClosingInv, QuietAfterRelease
<1> QED BY <1>1, RequestInvariant, PTL

-----------------------------------------------------------------------------
(* Outcomes and the registry *)

\* A recorded success is one: what the history says of an id has happened.
OutcomeInv ==
  /\ \A i \in Ids : completed[i] = "ok" => i \in succeeded
  /\ DependenciesHold

\* Recording a result makes no other id successful.
LEMMA RecordFacts ==
  ASSUME NEW ids, NEW result, Record(ids, result)
  PROVE  \A j \in Ids : completed'[j] = "ok" => completed[j] = "ok" \/ (j \in Elems(ids) /\ result = "ok")
<1>1. PICK kept : completed' = [j \in Ids |-> IF j \notin Elems(kept) THEN "unknown"
                                 ELSE IF j \in Elems(ids) THEN result ELSE completed[j]]
  BY Zenon DEF Record
<1> QED BY <1>1

\* The end of a registration.
LEMMA FinishFacts ==
  ASSUME NEW r, NEW success, FinishLocked(r, success)
  PROVE  \A j \in Ids : completed'[j] = "ok" => completed[j] = "ok" \/ (j = r[1] /\ Result(success) = "ok")
<1>1. CASE r \in finished
  BY Zenon, <1>1 DEF FinishLocked, registryVars
<1>2. CASE r \notin finished
  <2>1. Record(<<r[1]>>, Result(success))
    BY Zenon, <1>2 DEF FinishLocked
  <2>2. \A j \in Ids : completed'[j] = "ok" =>
          completed[j] = "ok" \/ (j \in Elems(<<r[1]>>) /\ Result(success) = "ok")
    BY Zenon, <2>1, RecordFacts
  <2>3. Elems(<<r[1]>>) = {r[1]}
    BY DEF Elems
  <2> QED BY Zenon, <2>2, <2>3
<1> QED BY Zenon, <1>1, <1>2

\* Steps that record no success and start no handler.
LEMMA QuietOutcome ==
  ASSUME OutcomeInv, succeeded \subseteq succeeded',
         \A j \in Ids : completed'[j] = "ok" => completed[j] = "ok" \/ j \in succeeded',
         \A q \in Registrations : pc'[q] = "running" => pc[q] = "running"
  PROVE  OutcomeInv'
BY DEF OutcomeInv, DependenciesHold

\* A handler is dispatched when the history shows every dependency successful.
LEMMA LookOutcome ==
  ASSUME RequestInv, OutcomeInv, NEW r \in Registrations, Look(r)
  PROVE  OutcomeInv'
<1>1. /\ pc' = [pc EXCEPT ![r] = IF \E d \in Deps[r[1]] : completed[d] = "failed" THEN "refuse"
                     ELSE IF \A d \in Deps[r[1]] : completed[d] = "ok" THEN "running" ELSE "select"]
      /\ UNCHANGED <<completed, succeeded>>
  BY Zenon DEF Look, Goto
<1>2. pc \in [Registrations -> Places]
  BY Zenon DEF RequestInv, Types
<1>3. Deps[r[1]] \subseteq Ids
  BY RequestsAssumption DEF Registrations
<1>4. pc'[r] = "running" => \A d \in Deps[r[1]] : completed[d] = "ok"
  BY <1>1, <1>2
<1>5. \A q \in Registrations \ {r} : pc'[q] = pc[q]
  BY <1>1, <1>2
<1>6. \A q \in Registrations : pc'[q] = "running" => Deps[q[1]] \subseteq succeeded
  <2> SUFFICES ASSUME NEW q \in Registrations, pc'[q] = "running" PROVE Deps[q[1]] \subseteq succeeded
    OBVIOUS
  <2>1. CASE q = r
    BY <1>3, <1>4, <2>1 DEF OutcomeInv
  <2>2. CASE q # r
    BY Zenon, <1>5, <2>2 DEF OutcomeInv, DependenciesHold
  <2> QED BY Zenon, <2>1, <2>2
<1> QED BY Zenon, <1>1, <1>6 DEF OutcomeInv, DependenciesHold

\* Every step keeps the outcome history true.
LEMMA NextOutcome == RequestInv /\ OutcomeInv /\ [Next]_vars => OutcomeInv'
<1> SUFFICES ASSUME RequestInv, OutcomeInv, [Next]_vars PROVE OutcomeInv'
  OBVIOUS
<1>0. pc \in [Registrations -> Places]
  BY Zenon DEF RequestInv, Types
<1>1. ASSUME NEW r, NEW to, to # "running", pc' = [pc EXCEPT ![r] = to]
      PROVE  \A q \in Registrations : pc'[q] = "running" => pc[q] = "running"
  BY <1>0, <1>1
<1>2. ASSUME UNCHANGED <<completed, succeeded>>, \A q \in Registrations : pc'[q] = "running" => pc[q] = "running"
      PROVE  OutcomeInv'
  BY Zenon, <1>2, QuietOutcome
<1>3. ASSUME NEW i \in Ids, Drop(i) PROVE OutcomeInv'
  <2>1. FinishLocked(<<i, active[i]>>, FALSE) /\ pc' = pc /\ succeeded' = succeeded
    BY Zenon, <1>3 DEF Drop
  <2>2. \A j \in Ids : completed'[j] = "ok" => completed[j] = "ok"
    BY Zenon, <2>1, FinishFacts DEF Result
  <2> QED BY Zenon, <2>1, <2>2, QuietOutcome
<1>4. ASSUME NEW i \in Ids, ReleaseReservation(i) PROVE OutcomeInv'
  <2>1. FinishLocked(Latest(i), FALSE) /\ pc' = [pc EXCEPT ![Latest(i)] = "release"] /\ succeeded' = succeeded
    BY Zenon, <1>4 DEF ReleaseReservation
  <2>2. \A j \in Ids : completed'[j] = "ok" => completed[j] = "ok"
    BY Zenon, <2>1, FinishFacts DEF Result
  <2>3. \A q \in Registrations : pc'[q] = "running" => pc[q] = "running"
    BY <1>1, <2>1
  <2> QED BY Zenon, <2>1, <2>2, <2>3, QuietOutcome
<1>5. ASSUME NEW r \in Registrations, Complete(r) PROVE OutcomeInv'
  <2>1. /\ FinishLocked(r, outcome[r]) /\ pc' = [pc EXCEPT ![r] = "release"]
        /\ succeeded' = IF outcome[r] THEN succeeded \cup {r[1]} ELSE succeeded
    BY Zenon, <1>5 DEF Complete, Goto
  <2>2. \A j \in Ids : completed'[j] = "ok" => completed[j] = "ok" \/ (j = r[1] /\ Result(outcome[r]) = "ok")
    BY Zenon, <2>1, FinishFacts
  <2>3. /\ succeeded \subseteq succeeded'
        /\ \A j \in Ids : completed'[j] = "ok" => completed[j] = "ok" \/ j \in succeeded'
    BY <2>1, <2>2 DEF Result
  <2>4. \A q \in Registrations : pc'[q] = "running" => pc[q] = "running"
    BY <1>1, <2>1
  <2> QED BY Zenon, <2>3, <2>4, QuietOutcome
<1>6. CASE CancelAll
  <2>1. (\E ids \in InSomeOrder(ActiveIds) : Record(ids, "failed")) /\ pc' = pc /\ succeeded' = succeeded
    BY Zenon, <1>6 DEF CancelAll
  <2>2. PICK ids : Record(ids, "failed")
    BY Zenon, <2>1
  <2>3. \A j \in Ids : completed'[j] = "ok" => completed[j] = "ok"
    BY <2>2, RecordFacts
  <2> QED BY Zenon, <2>1, <2>3, QuietOutcome
<1>7. ASSUME UNCHANGED <<completed, succeeded, pc>> PROVE OutcomeInv'
  BY Zenon, <1>2, <1>7
<1>8. CASE OtherAcquire \/ OtherRelease \/ LeaseEnds \/ ShutdownMark \/ ShutdownRelease \/ BeginFails \/ UNCHANGED vars
  BY Zenon, <1>7, <1>8
  DEF OtherAcquire, OtherRelease, LeaseEnds, ShutdownMark, ShutdownRelease, BeginFails, AroundGoroutine, registryVars, vars
<1>9. ASSUME NEW ids \in SUBSET Ids, Admit(ids) PROVE OutcomeInv'
  BY Zenon, <1>7, <1>9 DEF Admit, registryVars
<1>10. CASE BeginBatch
  <2>1. /\ UNCHANGED <<completed, succeeded>>
        /\ pc' = [r \in Registrations |-> IF r[1] \in batch /\ r[2] = begun[r[1]] + 1 THEN "reserved" ELSE pc[r]]
    BY Zenon, <1>10 DEF BeginBatch
  <2>2. \A q \in Registrations : pc'[q] = "running" => pc[q] = "running"
    BY <2>1
  <2> QED BY Zenon, <1>2, <2>1, <2>2
<1>11. ASSUME NEW i \in Ids, Route(i) PROVE OutcomeInv'
  <2>1. pc' = [pc EXCEPT ![Latest(i)] = "look"] /\ UNCHANGED <<completed, succeeded>>
    BY Zenon, <1>11 DEF Route, registryVars
  <2>2. \A q \in Registrations : pc'[q] = "running" => pc[q] = "running"
    BY <1>1, <2>1
  <2> QED BY Zenon, <1>2, <2>1, <2>2
<1>12. ASSUME NEW r \in Registrations,
              \/ Wake(r) \/ Cancelled(r) \/ TimeOut(r) \/ Release(r)
              \/ \E fails \in BOOLEAN : Refuse(r, fails) \/ \E success \in BOOLEAN : HandlerReturns(r, success, fails)
       PROVE  OutcomeInv'
  <2>1. UNCHANGED <<completed, succeeded>>
    BY Zenon, <1>12 DEF Wake, Cancelled, TimeOut, Release, Refuse, HandlerReturns, AroundGoroutine, registryVars
  <2>2. \E to \in {"look", "complete", "refuse", "gone"} : pc' = [pc EXCEPT ![r] = to]
    BY Zenon, <1>12 DEF Wake, Cancelled, TimeOut, Release, Refuse, HandlerReturns, Goto
  <2>3. \A q \in Registrations : pc'[q] = "running" => pc[q] = "running"
    BY <1>1, <2>2
  <2> QED BY Zenon, <1>2, <2>1, <2>3
<1>13. ASSUME NEW r \in Registrations, Look(r) PROVE OutcomeInv'
  BY Zenon, <1>13, LookOutcome
<1>14. CASE ReaderStep
  BY Zenon, <1>14, <1>4, <1>8, <1>10, <1>11 DEF ReaderStep
<1>15. ASSUME NEW r \in Registrations, RequestStep(r) \/ TimeOut(r) PROVE OutcomeInv'
  BY Zenon, <1>15, <1>5, <1>12, <1>13 DEF RequestStep
<1> QED BY Zenon, <1>3, <1>6, <1>8, <1>9, <1>14, <1>15 DEF Next

\* A request with invokeAfter dependencies is dispatched only after requests of
\* all those ids have succeeded, although the history of outcomes is bounded and
\* forgets, and an id may be begun again (active_requests.go:162-201, 251-276).
THEOREM DependenciesAreMet == Spec => []DependenciesHold
<1>1. Init => OutcomeInv
  BY DEF Init, OutcomeInv, DependenciesHold
<1>2. OutcomeInv => DependenciesHold
  BY Zenon DEF OutcomeInv
<1> QED BY <1>1, <1>2, NextOutcome, RequestInvariant, PTL DEF Spec

-----------------------------------------------------------------------------
(* The registry names the registration that is in force *)

ActiveType == active \in [Ids -> Nat]

OwnStep == \A i \in Ids : active[i] # 0 /\ active'[i] # active[i] => <<i, active[i]>> \in cancelled'

\* The end of a registration removes nothing but itself.
LEMMA FinishOwn ==
  ASSUME ActiveType, NEW i \in Ids, NEW n, NEW success, FinishLocked(<<i, n>>, success), <<i, n>> \in cancelled'
  PROVE  ActiveType' /\ OwnStep
<1>1. active' = active \/ (active[i] = n /\ active' = [active EXCEPT ![i] = 0])
  BY DEF FinishLocked, registryVars
<1> QED BY <1>1 DEF ActiveType, OwnStep

\* In every step, an entry of active gives way only when its own registration is over.
LEMMA NextOwn == RequestInv /\ ActiveType /\ [Next]_vars => ActiveType' /\ OwnStep
<1> SUFFICES ASSUME RequestInv, ActiveType, [Next]_vars PROVE ActiveType' /\ OwnStep
  OBVIOUS
<1>1. ASSUME active' = active PROVE ActiveType' /\ OwnStep
  BY <1>1 DEF ActiveType, OwnStep
<1>2. ASSUME NEW i \in Ids, Drop(i) PROVE ActiveType' /\ OwnStep
  <2>1. FinishLocked(<<i, active[i]>>, FALSE) /\ <<i, active[i]>> \in cancelled'
    BY Zenon, <1>2 DEF Drop
  <2> QED BY Zenon, <2>1, FinishOwn
<1>3. ASSUME NEW i \in Ids, ReleaseReservation(i) PROVE ActiveType' /\ OwnStep
  <2>1. FinishLocked(<<i, begun[i]>>, FALSE) /\ <<i, begun[i]>> \in cancelled'
    BY Zenon, <1>3 DEF ReleaseReservation, Latest
  <2> QED BY Zenon, <2>1, FinishOwn
<1>4. ASSUME NEW r \in Registrations, Complete(r) PROVE ActiveType' /\ OwnStep
  <2>1. FinishLocked(r, outcome[r]) /\ r \in cancelled'
    BY <1>4 DEF Complete
  <2>2. r = <<r[1], r[2]>> /\ r[1] \in Ids
    BY DEF Registrations
  <2>3. FinishLocked(<<r[1], r[2]>>, outcome[r]) /\ <<r[1], r[2]>> \in cancelled'
    BY Zenon, <2>1, <2>2
  <2> QED BY Zenon, <2>2, <2>3, FinishOwn
<1>5. CASE CancelAll
  <2>1. /\ active' = [i \in Ids |-> 0]
        /\ cancelled' = cancelled \cup {<<i, active[i]>> : i \in ActiveIds}
    BY Zenon, <1>5 DEF CancelAll
  <2> QED BY <2>1 DEF ActiveType, OwnStep, ActiveIds
<1>6. CASE BeginBatch
  <2>1. /\ active' = [i \in Ids |-> IF i \in batch THEN begun[i] + 1 ELSE active[i]]
        /\ batch \cap ActiveIds = {}
    BY Zenon, <1>6 DEF BeginBatch, Duplicates
  <2>2. begun \in [Ids -> 0 .. MaxBegins]
    BY Zenon DEF RequestInv, Types
  <2> QED BY <2>1, <2>2, RequestsAssumption DEF ActiveType, OwnStep, ActiveIds
<1>7. CASE OtherAcquire \/ OtherRelease \/ LeaseEnds \/ ShutdownMark \/ ShutdownRelease \/ BeginFails \/ UNCHANGED vars
  BY Zenon, <1>1, <1>7
  DEF OtherAcquire, OtherRelease, LeaseEnds, ShutdownMark, ShutdownRelease, BeginFails, AroundGoroutine, registryVars, vars
<1>8. ASSUME NEW ids \in SUBSET Ids, Admit(ids) PROVE ActiveType' /\ OwnStep
  BY Zenon, <1>1, <1>8 DEF Admit, registryVars
<1>9. ASSUME NEW i \in Ids, Route(i) PROVE ActiveType' /\ OwnStep
  BY Zenon, <1>1, <1>9 DEF Route, registryVars
<1>10. ASSUME NEW r \in Registrations,
              \/ Look(r) \/ Wake(r) \/ Cancelled(r) \/ TimeOut(r) \/ Release(r)
              \/ \E fails \in BOOLEAN : Refuse(r, fails) \/ \E success \in BOOLEAN : HandlerReturns(r, success, fails)
       PROVE  ActiveType' /\ OwnStep
  BY Zenon, <1>1, <1>10
  DEF Look, Wake, Cancelled, TimeOut, Release, Refuse, HandlerReturns, AroundGoroutine, registryVars
<1>11. CASE ReaderStep
  BY Zenon, <1>11, <1>3, <1>6, <1>7, <1>9 DEF ReaderStep
<1>12. ASSUME NEW r \in Registrations, RequestStep(r) \/ TimeOut(r) PROVE ActiveType' /\ OwnStep
  BY Zenon, <1>12, <1>4, <1>10 DEF RequestStep
<1> QED BY Zenon, <1>2, <1>5, <1>7, <1>8, <1>11, <1>12 DEF Next

\* A registration leaves the registry only cancelled, by its own end: the late
\* completion of a dropped request never removes the one that reuses its id
\* (active_requests.go:251-258).
THEOREM OnlyOwnCompletion == Spec => OwnCompletionOnly
<1>1. Init => ActiveType
  BY DEF Init, ActiveType
<1>2. RequestInv /\ ActiveType /\ [Next]_vars =>
        [\A i \in Ids : active[i] # 0 /\ active'[i] # active[i] => <<i, active[i]>> \in cancelled']_vars
  BY Zenon, NextOwn DEF OwnStep
<1>3. RequestInv /\ ActiveType /\ [Next]_vars => ActiveType'
  BY Zenon, NextOwn
<1> QED
  BY <1>1, <1>2, <1>3, RequestInvariant, PTL DEF Spec, OwnCompletionOnly
=============================================================================
