---------------------- MODULE ConnectionSessionsProofs ----------------------
(***************************************************************************)
(* A connection never acquires a session again that it lost to a takeover, *)
(* and the connections of a session share one reliability store, for any   *)
(* number of connections, sessions and capacities.                         *)
(***************************************************************************)
EXTENDS ConnectionSessions, FiniteSetTheorems, TLAPS

Places == {"read", "frame", "look", "wait", "load", "stop", "gone"}

Types ==
  /\ reader \in [Conns -> [at : Places, key : Keys \cup {NoKey}]]
  /\ actor \in [Conns -> [Keys -> {"none", "live", "closing", "released", "freed"}]]
  /\ why \in [Conns -> [Keys -> {"none", "lost", "own", "stop"}]]
  /\ cause \in [Conns -> [Keys -> {"none", "lost", "own"}]]
  /\ owner \in [Keys -> Conns \cup {Nobody}]
  /\ lost \in [Conns -> SUBSET Keys]
  /\ poisoned \in [Conns -> SUBSET Keys]

\* A frame is handled for a key.
HandlesKey == \A c \in Conns : At(c) \in {"frame", "look", "wait", "load"} => Key(c) \in Keys

Acquiring(c, k) == At(c) = "load" /\ Key(c) = k

\* The registered lease of a key is the one of a session that has not released
\* it, or of a reader that is about to start one.
OwnerInv ==
  \A c \in Conns, k \in Keys :
    owner[k] = c <=> (actor[c][k] \in {"live", "closing"} \/ Acquiring(c, k))

\* A session shuts down with its lease's context ended.
CauseInv == \A c \in Conns, k \in Keys : actor[c][k] = "closing" => cause[c][k] # "none"

\* A reader acquires a session that its connection neither has nor has lost.
LookInv ==
  /\ \A c \in Conns : At(c) \in {"look", "wait"} => Key(c) \notin lost[c]
  /\ \A c \in Conns : At(c) \in {"look", "wait", "load"} => actor[c][Key(c)] = "none"

\* What became of a lost key: its cancelled lease is still in use, its session is
\* shutting down because of the loss, or the key is poisoned.
LostInv ==
  \A c \in Conns, k \in Keys : k \in lost[c] =>
    \/ k \in poisoned[c]
    \/ At(c) \in {"stop", "gone"}
    \/ cause[c][k] = "lost" /\ (actor[c][k] = "live" \/ Acquiring(c, k))
    \/ actor[c][k] \in {"closing", "released", "freed"} /\ why[c][k] = "lost"

ReclaimInv == Types /\ HandlesKey /\ OwnerInv /\ CauseInv /\ LookInv /\ LostInv

\* What the argument is about.
core == <<reader, actor, why, cause, owner, lost, poisoned>>

-----------------------------------------------------------------------------
\* NewConnection: no sessions, no leases, nothing lost.
LEMMA InitReclaim == Init => ReclaimInv
<1> SUFFICES ASSUME Init PROVE ReclaimInv
  OBVIOUS
<1>1. Types /\ \A c \in Conns : reader[c] = [at |-> "read", key |-> NoKey]
  BY DEF Init, Types, Places, Place, Somewhere
<1>2. \A c \in Conns : At(c) = "read"
  BY <1>1 DEF At
<1>3. HandlesKey /\ CauseInv /\ LookInv
  BY <1>2 DEF HandlesKey, CauseInv, LookInv, Init
<1>4. OwnerInv
  BY <1>2, ConnectionAssumption DEF OwnerInv, Acquiring, Init
<1>5. LostInv
  BY SMTT(60) DEF LostInv, Init
<1> QED BY <1>1, <1>3, <1>4, <1>5 DEF ReclaimInv

\* Steps of the registry and of transports leave the argument's state alone.
LEMMA CoreStutter == ReclaimInv /\ UNCHANGED core => ReclaimInv'
BY DEF ReclaimInv, core, Types, HandlesKey, OwnerInv, CauseInv, LookInv, LostInv, At, Key, Acquiring

\* Reader steps that touch no lease: a reader that does not begin, wait for or
\* hold an acquisition afterwards may go anywhere but back from its end.
LEMMA MoveKeeps ==
  ASSUME ReclaimInv, NEW c \in Conns, NEW at \in {"read", "frame", "stop", "gone"},
         NEW k \in Keys \cup {NoKey},
         at = "frame" => k \in Keys,
         At(c) \in {"read", "frame", "stop", "wait"},
         At(c) = "stop" => at = "gone",
         reader' = [reader EXCEPT ![c] = Somewhere(at, k)],
         UNCHANGED <<actor, why, cause, owner, lost, poisoned>>
  PROVE  ReclaimInv'
<1> USE DEF ReclaimInv, At, Key, Somewhere
<1>1. Types'
  BY DEF Types, Places
<1>2. reader'[c] = [at |-> at, key |-> k] /\ \A d \in Conns \ {c} : reader'[d] = reader[d]
  BY DEF Types
<1>3. HandlesKey'
  BY <1>2 DEF HandlesKey
<1>4. OwnerInv'
  BY <1>2 DEF OwnerInv, Acquiring
<1>5. CauseInv' /\ LookInv'
  BY <1>2 DEF CauseInv, LookInv
<1>6. LostInv'
  BY <1>2 DEF LostInv, Acquiring
<1> QED BY <1>1, <1>3, <1>4, <1>5, <1>6

\* What ReleaseLease does to the readers.
LEMMA ReleaseReaders ==
  ASSUME Types, NEW c \in Conns, NEW k \in Keys, NEW at \in Places, ReleaseLease(c, k, at)
  PROVE  /\ reader' \in [Conns -> [at : Places, key : Keys \cup {NoKey}]]
         /\ reader'[c] = Place(at, Key(c))
         /\ \A d \in Conns \ {c} : \/ reader'[d] = reader[d]
                                   \/ At(d) = "wait" /\ reader'[d].at = "look" /\ reader'[d].key = Key(d)
         /\ owner' = [owner EXCEPT ![k] = Nobody]
         /\ cause' = [cause EXCEPT ![c][k] = "none"]
BY DEF ReleaseLease, Types, Places, Place, Somewhere, At, Key

\* A reader that gives a lease back without having started a session ends.
LEMMA GiveBackKeeps ==
  ASSUME ReclaimInv, NEW c \in Conns, At(c) = "load", ReleaseLease(c, Key(c), "stop"),
         UNCHANGED <<actor, why, lost, poisoned>>
  PROVE  ReclaimInv'
<1> DEFINE k == Key(c)
<1>0. k \in Keys
  BY SMTT(60) DEF ReclaimInv, HandlesKey
<1>1. /\ reader' \in [Conns -> [at : Places, key : Keys \cup {NoKey}]]
      /\ reader'[c] = Place("stop", k)
      /\ \A d \in Conns \ {c} : \/ reader'[d] = reader[d]
                                \/ At(d) = "wait" /\ reader'[d].at = "look" /\ reader'[d].key = Key(d)
      /\ owner' = [owner EXCEPT ![k] = Nobody]
      /\ cause' = [cause EXCEPT ![c][k] = "none"]
  BY <1>0, ReleaseReaders DEF ReclaimInv, Places
<1> HIDE DEF k
<1> USE DEF ReclaimInv, At, Key
<1>2. reader'[c].at = "stop"
  BY <1>1 DEF Place, Somewhere
<1>3. Types'
  BY <1>0, <1>1 DEF Types
<1>4. HandlesKey' /\ LookInv'
  BY SMTT(60), <1>1, <1>2, <1>3 DEF HandlesKey, LookInv
<1>5. actor[c][k] = "none"
  BY DEF LookInv, k
<1>6. OwnerInv'
  <2> SUFFICES ASSUME NEW e \in Conns, NEW j \in Keys
               PROVE  owner'[j] = e <=> actor'[e][j] \in {"live", "closing"} \/ Acquiring(e, j)'
    BY DEF OwnerInv
  <2>1. Acquiring(e, j)' <=> e # c /\ Acquiring(e, j)
    BY <1>1, <1>2 DEF Acquiring
  <2>2. owner[k] = c
    BY <1>0 DEF OwnerInv, Acquiring, k
  <2>3. CASE j # k
    BY <1>0, <1>1, <2>1, <2>3 DEF OwnerInv, Acquiring, Types, k
  <2>4. CASE j = k
    BY SMTT(30), <1>0, <1>1, <1>5, <2>1, <2>2, <2>4, ConnectionAssumption DEF OwnerInv, Types
  <2> QED BY <2>3, <2>4
<1>7. CauseInv'
  BY <1>0, <1>1, <1>5 DEF CauseInv, Types
<1>8. LostInv'
  <2> SUFFICES ASSUME NEW e \in Conns, NEW j \in Keys, j \in lost[e], e # c
               PROVE  \/ j \in poisoned[e]
                      \/ reader'[e].at \in {"stop", "gone"}
                      \/ cause'[e][j] = "lost" /\ (actor[e][j] = "live" \/ Acquiring(e, j)')
                      \/ actor[e][j] \in {"closing", "released", "freed"} /\ why[e][j] = "lost"
    BY ZenonT(40), <1>2 DEF LostInv
  <2>1. cause'[e][j] = cause[e][j]
    BY <1>0, <1>1 DEF Types
  <2>2. \/ reader'[e] = reader[e]
        \/ reader[e].at = "wait" /\ reader'[e].at = "look"
    BY Zenon, <1>1
  <2>3. reader[e].at \in {"stop", "gone"} => reader'[e].at \in {"stop", "gone"}
    BY Zenon, <2>2
  <2>4. Acquiring(e, j) => Acquiring(e, j)'
    BY Zenon, <2>2 DEF Acquiring
  <2> QED BY Zenon, <2>1, <2>3, <2>4 DEF LostInv
<1> QED BY <1>3, <1>4, <1>6, <1>7, <1>8

\* Every step of a reader.
LEMMA ReaderKeeps ==
  ASSUME ReclaimInv, NEW c \in Conns, ReaderStep(c) \/ WaitCancelled(c) \/ ConnEnds(c)
  PROVE  ReclaimInv'
<1>0. At(c) \in {"frame", "look", "wait", "load"} => Key(c) \in Keys
  BY DEF ReclaimInv, HandlesKey
<1>1. CASE ReadFails(c)
  BY ZenonT(60), <1>1, MoveKeeps DEF ReadFails, Goto, Place, actorVars, leaseVars
<1>2. CASE WaitCancelled(c)
  BY ZenonT(60), <1>2, MoveKeeps DEF WaitCancelled, Goto, Place, actorVars, leaseVars
<1>3. CASE ConnEnds(c)
  BY ZenonT(60), <1>3, MoveKeeps DEF ConnEnds, Goto, Place, actorVars, leaseVars
<1>4. CASE Stopped(c)
  BY ZenonT(60), <1>4, MoveKeeps DEF Stopped, Goto, Place, actorVars, leaseVars
<1>5. CASE SessionFor(c)
  <2>1. At(c) = "frame" /\ UNCHANGED <<actor, why, cause, owner, lost, poisoned>>
    BY <1>5 DEF SessionFor, actorVars, leaseVars
  <2>2. CASE \E at \in {"read", "stop"} : Goto(c, at)
    BY ZenonT(60), <2>1, <2>2, MoveKeeps DEF Goto, Place
  <2>3. CASE Goto(c, "look") /\ Key(c) \notin poisoned[c] /\ actor[c][Key(c)] = "none"
    <3> USE DEF ReclaimInv, At, Key
    <3>1. reader'[c] = [at |-> "look", key |-> Key(c)] /\ \A d \in Conns \ {c} : reader'[d] = reader[d]
      BY <2>3 DEF Goto, Place, Somewhere, Types
    <3>2. Types'
      BY <1>0, <2>1, <2>3 DEF Types, Places, Goto, Place, Somewhere
    <3>3. HandlesKey' /\ CauseInv'
      BY <1>0, <2>1, <3>1 DEF HandlesKey, CauseInv
    <3>4. Key(c) \notin lost[c]
      BY <1>0, <2>1, <2>3 DEF LostInv, Acquiring
    <3>5. LookInv'
      BY SMTT(30), <2>1, <2>3, <3>1, <3>4 DEF LookInv
    <3>6. OwnerInv' /\ LostInv'
      BY <2>1, <3>1 DEF OwnerInv, LostInv, Acquiring
    <3> QED BY <3>2, <3>3, <3>5, <3>6
  <2> QED BY <1>5, <2>2, <2>3 DEF SessionFor
<1>6. CASE Register(c)
  <2> DEFINE k == Key(c)
  <2>1. k \in Keys /\ k \notin lost[c] /\ actor[c][k] = "none" /\ At(c) = "look"
    BY <1>0, <1>6 DEF Register, ReclaimInv, LookInv
  <2>2. /\ reader' = [reader EXCEPT ![c] = [at |-> "load", key |-> k]]
        /\ owner' = [owner EXCEPT ![k] = c] /\ cause' = [cause EXCEPT ![c][k] = "none"]
        /\ owner[k] = Nobody /\ UNCHANGED <<actor, why, poisoned, lost>>
    BY <1>6 DEF Register, Goto, Place, Somewhere, actorVars
  <2> HIDE DEF k
  <2> USE DEF ReclaimInv, At, Key
  <2>3. reader'[c] = [at |-> "load", key |-> k] /\ \A d \in Conns \ {c} : reader'[d] = reader[d]
    BY <2>2 DEF Types
  <2>4. Types'
    BY SMTT(60), <2>1, <2>2 DEF Types, Places
  <2>5. HandlesKey' /\ LookInv'
    BY SMTT(60), <2>1, <2>2, <2>3 DEF HandlesKey, LookInv
  <2>6. OwnerInv'
    BY SMTT(60), <2>1, <2>2, <2>3, ConnectionAssumption DEF OwnerInv, Acquiring, Types
  <2>7. CauseInv' /\ LostInv'
    BY SMTT(60), <2>1, <2>2, <2>3 DEF CauseInv, LostInv, Acquiring, Types
  <2> QED BY <2>4, <2>5, <2>6, <2>7
<1>7. CASE TakeOver(c)
  <2> DEFINE k == Key(c)
             d == owner[k]
  <2>1. k \in Keys /\ d \in Conns /\ At(c) = "look"
    BY SMTT(60), <1>0, <1>7 DEF TakeOver, ReclaimInv, Types
  <2>2. /\ reader' = [reader EXCEPT ![c] = [at |-> "wait", key |-> k]]
        /\ cause' = [cause EXCEPT ![d][k] = IF @ = "none" THEN "lost" ELSE @]
        /\ lost' = IF cause[d][k] = "none" THEN [lost EXCEPT ![d] = @ \cup {k}] ELSE lost
        /\ UNCHANGED <<actor, why, poisoned, owner>>
    BY <1>7 DEF TakeOver, Retired, Goto, Place, Somewhere, actorVars
  <2>3. owner[k] = d
    BY SMTT(60)
  <2> HIDE DEF k, d
  <2> USE DEF ReclaimInv, At, Key
  <2>4. reader'[c] = [at |-> "wait", key |-> k] /\ \A e \in Conns \ {c} : reader'[e] = reader[e]
    BY SMTT(60), <2>2 DEF Types
  <2>5. Types'
    BY SMTT(60), <2>1, <2>2 DEF Types, Places
  <2>6. actor[d][k] \in {"live", "closing"} \/ Acquiring(d, k)
    BY Zenon, <2>1, <2>3 DEF OwnerInv
  <2>7. d # c /\ (At(d) \in {"look", "wait"} => Key(d) # k)
    BY SMTT(60), <2>1, <2>6 DEF LookInv, Acquiring, k
  <2>8. HandlesKey' /\ OwnerInv'
    BY SMTT(60), <2>1, <2>2, <2>4 DEF HandlesKey, OwnerInv, Acquiring, k
  <2>9. CauseInv'
    BY SMTT(60), <2>1, <2>2 DEF CauseInv, Types
  <2>10. LookInv'
    BY SMTT(60), <2>1, <2>2, <2>4, <2>7 DEF LookInv, Types, k
  <2>11. LostInv'
    <3> SUFFICES ASSUME NEW e \in Conns, NEW j \in Keys, j \in lost'[e]
                 PROVE  \/ j \in poisoned'[e]
                        \/ At(e)' \in {"stop", "gone"}
                        \/ cause'[e][j] = "lost" /\ (actor'[e][j] = "live" \/ Acquiring(e, j)')
                        \/ actor'[e][j] \in {"closing", "released", "freed"} /\ why'[e][j] = "lost"
      BY SMTT(60) DEF LostInv
    <3>1. CASE j \in lost[e]
      BY SMTT(60), <2>1, <2>2, <2>4, <2>7, <3>1 DEF LostInv, Acquiring, Types
    <3>2. CASE j \notin lost[e]
      <4>1. e = d /\ j = k /\ cause[d][k] = "none"
        BY <2>1, <2>2, <3>2 DEF Types
      <4>2. cause'[d][k] = "lost" /\ actor[d][k] # "closing"
        BY SMTT(60), <2>1, <2>2, <4>1 DEF Types, CauseInv
      <4> QED BY SMTT(60), <2>1, <2>2, <2>4, <2>6, <2>7, <4>1, <4>2 DEF Acquiring
    <3> QED BY SMTT(60), <3>1, <3>2
  <2> QED BY <2>5, <2>8, <2>9, <2>10, <2>11
<1>8. CASE LoadFails(c) \/ BindFails(c) \/ SetupFails(c)
  BY ZenonT(60), <1>8, GiveBackKeeps DEF LoadFails, BindFails, SetupFails, actorVars
<1>9. CASE Bind(c)
  <2> DEFINE k == Key(c)
  <2>1. k \in Keys /\ At(c) = "load" /\ actor[c][k] = "none" /\ owner[k] = c
    BY <1>0, <1>9 DEF Bind, ReclaimInv, LookInv, OwnerInv, Acquiring
  <2>2. /\ reader' = [reader EXCEPT ![c] = [at |-> "read", key |-> NoKey]]
        /\ actor' = [actor EXCEPT ![c][k] = "live"]
        /\ UNCHANGED <<why, poisoned, cause, owner, lost>>
    BY <1>9 DEF Bind, Goto, Place, Somewhere, leaseVars
  <2>3. k = Key(c)
    OBVIOUS
  <2> HIDE DEF k
  <2> USE DEF ReclaimInv, At, Key
  <2>4. reader'[c] = [at |-> "read", key |-> NoKey] /\ \A d \in Conns \ {c} : reader'[d] = reader[d]
    BY <2>2 DEF Types
  <2>5. Types'
    BY Zenon, <2>1, <2>2 DEF Types, Places
  <2>6. HandlesKey' /\ LookInv'
    BY Zenon, <2>1, <2>2, <2>4 DEF HandlesKey, LookInv, Types
  <2>7. OwnerInv' /\ CauseInv'
    BY SMTT(30), <2>1, <2>2, <2>3, <2>4 DEF OwnerInv, CauseInv, Acquiring, Types
  <2>8. LostInv'
    BY <2>1, <2>2, <2>3, <2>4 DEF LostInv, Acquiring, Types
  <2> QED BY <2>5, <2>6, <2>7, <2>8
<1>10. CASE \E k \in Keys : StopSession(c, k)
  <2>1. PICK k \in Keys : StopSession(c, k)
    BY <1>10
  <2>2. /\ At(c) = "stop" /\ actor[c][k] = "live"
        /\ actor' = [actor EXCEPT ![c][k] = "closing"] /\ why' = [why EXCEPT ![c][k] = "stop"]
        /\ cause' = [cause EXCEPT ![c][k] = IF @ = "none" THEN "own" ELSE @]
        /\ UNCHANGED <<reader, poisoned, owner, lost>>
    BY SMTT(60), <2>1 DEF StopSession, Retired, readerVars
  <2> USE DEF ReclaimInv, At, Key
  <2>3. Types' /\ HandlesKey'
    BY SMTT(60), <2>2 DEF Types, HandlesKey
  <2>4. OwnerInv' /\ CauseInv'
    BY SMTT(60), <2>2 DEF OwnerInv, CauseInv, Acquiring, Types
  <2>5. LookInv' /\ LostInv'
    BY <2>2 DEF LookInv, LostInv, Acquiring, Types
  <2> QED BY <2>3, <2>4, <2>5
<1> QED BY Zenon, <1>1, <1>2, <1>3, <1>4, <1>5, <1>6, <1>7, <1>8, <1>9, <1>10 DEF ReaderStep

\* Every step of a session's own goroutine.
LEMMA SessionKeeps ==
  ASSUME ReclaimInv, NEW c \in Conns, NEW k \in Keys,
         ShutdownStep(c, k) \/ SessionFails(c, k)
  PROVE  ReclaimInv'
<1> USE DEF ReclaimInv, At, Key
<1>1. CASE SessionFails(c, k)
  <2>1. /\ cause[c][k] = "none" /\ cause' = [cause EXCEPT ![c][k] = "own"]
        /\ UNCHANGED <<reader, actor, why, poisoned, owner, lost>>
    BY SMTT(60), <1>1 DEF SessionFails, Retired, readerVars, actorVars, Types
  <2>2. Types' /\ HandlesKey' /\ OwnerInv' /\ LookInv'
    BY SMTT(60), <2>1 DEF Types, HandlesKey, OwnerInv, Acquiring, LookInv
  <2>3. CauseInv' /\ LostInv'
    BY <2>1 DEF CauseInv, LostInv, Acquiring, Types
  <2> QED BY SMTT(60), <2>2, <2>3
<1>2. CASE BeginShutdown(c, k)
  <2>1. /\ actor[c][k] = "live" /\ cause[c][k] # "none"
        /\ actor' = [actor EXCEPT ![c][k] = "closing"]
        /\ why' = [why EXCEPT ![c][k] = cause[c][k]]
        /\ UNCHANGED <<reader, poisoned, cause, owner, lost>>
    BY SMTT(60), <1>2 DEF BeginShutdown, readerVars, leaseVars
  <2>2. Types' /\ HandlesKey'
    BY SMTT(60), <2>1 DEF Types, HandlesKey
  <2>3. OwnerInv' /\ CauseInv'
    BY SMTT(60), <2>1 DEF OwnerInv, CauseInv, Acquiring, Types
  <2>4. LookInv' /\ LostInv'
    BY <2>1 DEF LookInv, LostInv, Acquiring, Types
  <2> QED BY <2>2, <2>3, <2>4
<1>3. CASE Release(c, k)
  <2>1. /\ actor[c][k] = "closing" /\ actor' = [actor EXCEPT ![c][k] = "released"]
        /\ ReleaseLease(c, k, At(c)) /\ UNCHANGED <<why, lost, poisoned>>
    BY SMTT(60), <1>3 DEF Release
  <2>2. /\ reader' \in [Conns -> [at : Places, key : Keys \cup {NoKey}]]
        /\ reader'[c] = Place(At(c), Key(c))
        /\ \A d \in Conns \ {c} : \/ reader'[d] = reader[d]
                                  \/ At(d) = "wait" /\ reader'[d].at = "look" /\ reader'[d].key = Key(d)
        /\ owner' = [owner EXCEPT ![k] = Nobody]
        /\ cause' = [cause EXCEPT ![c][k] = "none"]
    BY <2>1, ReleaseReaders DEF Types
  <2>3. /\ reader'[c].at = At(c)
        /\ At(c) \in {"frame", "look", "wait", "load"} => reader'[c].key = Key(c)
    BY SMTT(30), <2>2 DEF Place, Somewhere
  <2>4. Types'
    BY SMTT(60), <2>1, <2>2 DEF Types
  <2>5. HandlesKey' /\ CauseInv'
    <3>1. HandlesKey'
      BY ZenonT(40), <2>1, <2>2, <2>3 DEF HandlesKey, Types
    <3>2. CauseInv'
      BY <2>1, <2>2 DEF CauseInv, Types
    <3> QED BY Zenon, <3>1, <3>2
  <2>6. LookInv'
    <3>1. \A d \in Conns : reader'[d].at \in {"look", "wait", "load"} =>
            /\ At(d) \in {"look", "wait", "load"} /\ reader'[d].key = Key(d)
            /\ reader'[d].at \in {"look", "wait"} => At(d) \in {"look", "wait"}
      BY Zenon, <2>2, <2>3
    <3>2. \A d \in Conns, j \in Keys : actor[d][j] = "none" => actor'[d][j] = "none"
      BY Zenon, <2>1 DEF Types
    <3> QED BY SMTT(30), <2>1, <3>1, <3>2 DEF LookInv, HandlesKey
  <2>7. owner[k] = c /\ ~ Acquiring(c, k)
    BY Zenon, <2>1 DEF OwnerInv, LookInv, Acquiring
  <2>8. \A e \in Conns, j \in Keys : Acquiring(e, j)' <=> Acquiring(e, j)
    BY <2>2, <2>3 DEF Acquiring
  <2>9. OwnerInv'
    <3> SUFFICES ASSUME NEW e \in Conns, NEW j \in Keys
                 PROVE  owner'[j] = e <=> actor'[e][j] \in {"live", "closing"} \/ Acquiring(e, j)'
      BY Zenon DEF OwnerInv
    <3>1. CASE j # k
      BY SMTT(60), <2>1, <2>2, <2>8, <3>1 DEF OwnerInv, Types
    <3>2. CASE j = k
      BY SMTT(60), <2>1, <2>2, <2>7, <2>8, <3>2, ConnectionAssumption DEF OwnerInv, Types
    <3> QED BY Zenon, <3>1, <3>2
  <2>10. LostInv'
    BY SMTT(60), <2>1, <2>2, <2>3, <2>7, <2>8 DEF LostInv, Types
  <2> QED BY <2>4, <2>5, <2>6, <2>9, <2>10
<1>4. CASE Free(c, k)
  <2>1. /\ actor[c][k] = "released" /\ actor' = [actor EXCEPT ![c][k] = "freed"]
        /\ UNCHANGED <<reader, why, poisoned, cause, owner, lost>>
    BY Zenon, <1>4 DEF Free, readerVars, leaseVars
  <2>2. Types' /\ HandlesKey' /\ OwnerInv' /\ CauseInv'
    BY SMTT(60), <2>1 DEF Types, HandlesKey, OwnerInv, CauseInv, Acquiring
  <2>3. LookInv' /\ LostInv'
    BY SMTT(30), <2>1 DEF LookInv, LostInv, Acquiring, Types
  <2> QED BY <2>2, <2>3
<1>5. CASE Remove(c, k)
  <2>1. /\ actor[c][k] = "freed" /\ At(c) \notin {"look", "wait", "load"}
        /\ actor' = [actor EXCEPT ![c][k] = "none"] /\ why' = [why EXCEPT ![c][k] = "none"]
        /\ poisoned' = IF why[c][k] = "lost" THEN [poisoned EXCEPT ![c] = @ \cup {k}] ELSE poisoned
        /\ UNCHANGED <<reader, cause, owner, lost>>
    BY SMTT(60), <1>5 DEF Remove, Unlocked, leaseVars
  <2>2. Types' /\ HandlesKey' /\ OwnerInv' /\ CauseInv'
    BY SMTT(60), <2>1 DEF Types, HandlesKey, OwnerInv, CauseInv, Acquiring
  <2>3. LookInv' /\ LostInv'
    BY <2>1 DEF LookInv, LostInv, Acquiring, Types
  <2> QED BY <2>2, <2>3
<1> QED BY <1>1, <1>2, <1>3, <1>4, <1>5 DEF ShutdownStep

\* Every step keeps the invariant.
LEMMA NextReclaim == ReclaimInv /\ [Next]_vars => ReclaimInv'
<1> SUFFICES ASSUME ReclaimInv, [Next]_vars PROVE ReclaimInv'
  OBVIOUS
<1>1. ASSUME NEW c \in Conns, ReaderStep(c) \/ WaitCancelled(c) \/ ConnEnds(c) PROVE ReclaimInv'
  BY <1>1, ReaderKeeps
<1>2. ASSUME NEW c \in Conns, NEW k \in Keys, ReadFrame(c, k) PROVE ReclaimInv'
  BY ZenonT(60), <1>2, MoveKeeps DEF ReadFrame, actorVars, leaseVars
<1>3. ASSUME NEW c \in Conns, NEW k \in Keys, ShutdownStep(c, k) \/ SessionFails(c, k) PROVE ReclaimInv'
  BY Zenon, <1>3, SessionKeeps
<1>4. ASSUME ExpireIdle PROVE ReclaimInv'
  BY <1>4, CoreStutter DEF ExpireIdle, core, readerVars, actorVars, leaseVars
<1>5. ASSUME UNCHANGED vars PROVE ReclaimInv'
  BY ZenonT(40), <1>5, CoreStutter DEF vars, core, readerVars, actorVars, leaseVars
<1> QED BY Zenon, <1>1, <1>2, <1>3, <1>4, <1>5 DEF Next

\* Ownership only passes to a reader that found the key neither held nor lost.
LEMMA ReclaimStep ==
  ASSUME ReclaimInv, [Next]_vars, NEW c \in Conns, NEW k \in Keys, owner'[k] = c, owner[k] # c
  PROVE  k \notin lost[c]
<1>1. CASE owner' = owner
  BY <1>1
<1>2. CASE \E d \in Conns : Register(d)
  <2>1. PICK d \in Conns : Register(d)
    BY <1>2
  <2>2. d = c /\ Key(d) = k /\ At(d) = "look"
    BY <2>1 DEF Register, ReclaimInv, Types
  <2> QED BY <2>2 DEF ReclaimInv, LookInv
<1>3. CASE \E d \in Conns, j \in Keys, at \in Places : ReleaseLease(d, j, at)
  BY <1>3, ConnectionAssumption DEF ReleaseLease, ReclaimInv, Types
<1>4. \A d \in Conns : ReaderStep(d) \/ WaitCancelled(d) \/ ConnEnds(d) =>
        \/ owner' = owner
        \/ Register(d)
        \/ At(d) = "load" /\ ReleaseLease(d, Key(d), "stop")
  BY ZenonT(60) DEF ReaderStep, ReadFails, SessionFor, TakeOver, LoadFails, Bind, BindFails, SetupFails,
         StopSession, Stopped, WaitCancelled, ConnEnds, leaseVars
<1>5. \A d \in Conns, j \in Keys : ReadFrame(d, j) \/ ShutdownStep(d, j) \/ SessionFails(d, j) =>
        owner' = owner \/ ReleaseLease(d, j, At(d))
  BY DEF ReadFrame, ShutdownStep, BeginShutdown, Release, Free, Remove, SessionFails, leaseVars
<1>6. (ExpireIdle \/ UNCHANGED vars) => owner' = owner
  BY Zenon DEF ExpireIdle, vars, leaseVars
<1>7. \A d \in Conns : At(d) \in Places /\ (At(d) = "load" => Key(d) \in Keys)
  BY DEF ReclaimInv, Types, HandlesKey, At
<1> QED BY Zenon, <1>1, <1>2, <1>3, <1>4, <1>5, <1>6, <1>7 DEF Next, Places

-----------------------------------------------------------------------------
\* In every reachable state a lost key is poisoned, or its session has yet to be
\* removed for the loss, or the connection has ended (removeSession, shutdown).
THEOREM LostIsRemembered == Spec => []ReclaimInv
BY InitReclaim, NextReclaim, PTL DEF Spec

\* A connection never acquires a session it lost to a takeover (sessionFor,
\* removeSession), for any number of connections and sessions and any capacity.
THEOREM StaleTransportsStayOut == Spec => NoReclaim
<1>1. ReclaimInv /\ [Next]_vars =>
        [\A c \in Conns, k \in Keys : owner'[k] = c /\ owner[k] # c => k \notin lost[c]]_vars
  BY ReclaimStep
<1> QED BY <1>1, LostIsRemembered, PTL DEF Spec, NoReclaim

-----------------------------------------------------------------------------
(* The reliability registry *)

Users(k) == {c \in Conns : handle[c][k] # 0}

\* The sessions of a key that hold a handle hold the registered entry, and it
\* counts them.
Counted(k) ==
  /\ IsFiniteSet(Users(k))
  /\ \A c \in Users(k) : handle[c][k] = entry[k]
  /\ entry[k] # 0 => refs[k] = Cardinality(Users(k))

\* A session has its handle from the time it is started until it is freed.
HandleInv ==
  \A c \in Conns, k \in Keys : handle[c][k] # 0 <=> actor[c][k] \in {"live", "closing", "released"}

StoreTypes ==
  /\ entry \in [Keys -> Nat] /\ refs \in [Keys -> Nat]
  /\ handle \in [Conns -> [Keys -> Nat]]

StoreInv == StoreTypes /\ HandleInv /\ \A k \in Keys : Counted(k)

\* At the start no store is registered.
LEMMA InitStore == Init => StoreInv
<1> SUFFICES ASSUME Init PROVE StoreInv
  OBVIOUS
<1>1. /\ entry = [k \in Keys |-> 0] /\ refs = [k \in Keys |-> 0]
      /\ handle = [c \in Conns |-> [k \in Keys |-> 0]]
      /\ actor = [c \in Conns |-> [k \in Keys |-> "none"]]
  BY Zenon DEF Init
<1>2. StoreTypes /\ HandleInv
  BY <1>1 DEF StoreTypes, HandleInv
<1>3. ASSUME NEW k \in Keys PROVE Users(k) = {} /\ entry[k] = 0
  BY <1>1 DEF Users
<1>4. \A k \in Keys : Counted(k)
  BY <1>3, FS_EmptySet DEF Counted
<1> QED BY Zenon, <1>2, <1>4 DEF StoreInv

\* An entry that is idle, and a key without an entry, have no users.
LEMMA NobodyUses ==
  ASSUME NEW k \in Keys, Counted(k), entry[k] = 0 \/ refs[k] = 0
  PROVE  Users(k) = {} /\ Cardinality(Users(k)) = 0
<1>1. CASE entry[k] = 0
  BY <1>1, FS_EmptySet DEF Counted, Users
<1>2. CASE entry[k] # 0
  <2>1. IsFiniteSet(Users(k)) /\ Cardinality(Users(k)) = 0
    BY Zenon, <1>2 DEF Counted
  <2> QED BY Zenon, <2>1, FS_EmptySet
<1> QED BY Zenon, <1>1, <1>2

\* Keys a step of another key's session leaves alone, or whose idle entry goes.
LEMMA OthersCounted ==
  ASSUME NEW k \in Keys, Counted(k), \A c \in Conns : handle'[c][k] = handle[c][k],
         \/ entry'[k] = entry[k] /\ refs'[k] = refs[k]
         \/ k \in Idle /\ entry'[k] = 0
  PROVE  Counted(k)'
<1>1. Users(k)' = Users(k)
  BY DEF Users
<1>2. CASE entry'[k] = entry[k] /\ refs'[k] = refs[k]
  BY Zenon, <1>1, <1>2 DEF Counted, Users
<1>3. CASE k \in Idle /\ entry'[k] = 0
  <2>1. Users(k) = {}
    BY Zenon, <1>3, NobodyUses DEF Idle
  <2> QED BY <1>1, <1>3, <2>1, FS_EmptySet DEF Counted
<1> QED BY Zenon, <1>2, <1>3

\* One more session uses the entry.
LEMMA JoinCounted ==
  ASSUME NEW k \in Keys, Counted(k), StoreTypes, NEW c \in Conns, handle[c][k] = 0,
         NEW e \in Nat \ {0}, handle' = [handle EXCEPT ![c][k] = e], entry'[k] = e,
         \A d \in Users(k) : handle[d][k] = e,
         refs'[k] = Cardinality(Users(k)) + 1
  PROVE  Counted(k)'
<1>1. Users(k)' = Users(k) \cup {c} /\ c \notin Users(k)
  BY Zenon DEF Users, StoreTypes
<1>2. \A d \in Users(k) \cup {c} : handle'[d][k] = e
  BY DEF Users, StoreTypes
<1>3. IsFiniteSet(Users(k) \cup {c}) /\ Cardinality(Users(k) \cup {c}) = Cardinality(Users(k)) + 1
  BY Zenon, <1>1, FS_AddElement DEF Counted
<1> QED BY ZenonT(40), <1>1, <1>2, <1>3 DEF Counted

\* A session gives its handle back.
LEMMA LeaveCounted ==
  ASSUME NEW k \in Keys, Counted(k), StoreTypes, NEW c \in Conns, handle[c][k] # 0,
         handle' = [handle EXCEPT ![c][k] = 0], entry'[k] = entry[k],
         refs'[k] = refs[k] - 1
  PROVE  Counted(k)'
<1>1. Users(k)' = Users(k) \ {c} /\ c \in Users(k)
  BY ZenonT(40) DEF Users, StoreTypes
<1>2. \A d \in Users(k) \ {c} : handle'[d][k] = entry[k]
  BY DEF Users, StoreTypes, Counted
<1>3. IsFiniteSet(Users(k) \ {c}) /\ Cardinality(Users(k) \ {c}) = Cardinality(Users(k)) - 1
  BY Zenon, <1>1, FS_RemoveElement DEF Counted
<1> QED BY Zenon, <1>1, <1>2, <1>3 DEF Counted

\* A new entry has an identity.
LEMMA FreshIsNew ==
  ASSUME NEW c \in Conns, NEW k \in Keys, StoreTypes, Users(k) = {}
  PROVE  Fresh(k) \in Nat \ {0}
<1> DEFINE held == {handle[d][k] : d \in Conns}
<1>1. held = {0}
  BY DEF Users, StoreTypes
<1> HIDE DEF held
<1>2. Cardinality(held) = 1
  BY Zenon, <1>1, FS_Singleton
<1>3. 1 \in 1 .. (Cardinality(held) + 1) /\ 1 \notin held
  BY <1>1, <1>2
<1>4. Fresh(k) \in 1 .. (Cardinality(held) + 1)
  BY Zenon, <1>3 DEF Fresh, held
<1> QED BY SMTT(30), <1>2, <1>4

\* Eviction takes idle entries only.
LEMMA EvictsIdle == \A gone \in Evictions : gone \subseteq Idle
BY Zenon DEF Evictions, Oldest

\* Registering an entry, with or without an eviction.
LEMMA EnteredKeeps ==
  ASSUME NEW k \in Keys, StoreTypes, entry[k] = 0, NEW gone \in Evictions, entry' = Entered(k, gone),
         Fresh(k) \in Nat \ {0}
  PROVE  /\ entry' \in [Keys -> Nat] /\ entry'[k] = Fresh(k)
         /\ \A j \in Keys \ {k} : entry'[j] = entry[j] \/ (j \in Idle /\ entry'[j] = 0)
<1>1. gone \subseteq Idle
  BY Zenon, EvictsIdle
<1> HIDE DEF Fresh
<1> QED BY <1>1 DEF Entered, StoreTypes

\* Bind: a session starts with the handle of the one entry.
LEMMA BindStore ==
  ASSUME ReclaimInv, StoreInv, NEW c \in Conns, Bind(c)
  PROVE  StoreInv'
<1>0. PICK k : k = Key(c)
  OBVIOUS
<1>1. At(c) = "load" /\ (ShareEntry(c, k) \/ NewEntry(c, k)) /\ actor' = [actor EXCEPT ![c][k] = "live"]
  BY Zenon, <1>0 DEF Bind
<1>2. k \in Keys /\ actor[c][k] = "none"
  BY Zenon, <1>0, <1>1 DEF ReclaimInv, HandlesKey, LookInv
<1>3. StoreTypes /\ HandleInv /\ \A j \in Keys : Counted(j)
  BY Zenon DEF StoreInv
<1>4. actor \in [Conns -> [Keys -> {"none", "live", "closing", "released", "freed"}]]
  BY Zenon DEF ReclaimInv, Types
<1>5. handle[c][k] = 0
  BY <1>2, <1>3 DEF HandleInv
<1>6. PICK e \in Nat \ {0} : /\ handle' = [handle EXCEPT ![c][k] = e] /\ entry'[k] = e
                             /\ \A d \in Users(k) : handle[d][k] = e
                             /\ refs'[k] = Cardinality(Users(k)) + 1
                             /\ entry' \in [Keys -> Nat] /\ refs' \in [Keys -> Nat]
                             /\ \A j \in Keys \ {k} : /\ refs'[j] = refs[j]
                                                      /\ entry'[j] = entry[j] \/ (j \in Idle /\ entry'[j] = 0)
  <2>1. CASE ShareEntry(c, k)
    <3>1. /\ entry[k] # 0 /\ refs' = [refs EXCEPT ![k] = refs[k] + 1]
          /\ handle' = [handle EXCEPT ![c][k] = entry[k]] /\ entry' = entry
      BY <2>1 DEF ShareEntry
    <3>2. refs[k] = Cardinality(Users(k)) /\ \A d \in Users(k) : handle[d][k] = entry[k]
      BY Zenon, <1>2, <1>3, <3>1 DEF Counted
    <3>3. entry[k] \in Nat \ {0} /\ refs[k] \in Nat
      BY Zenon, <1>2, <1>3, <3>1 DEF StoreTypes
    <3>4. refs' \in [Keys -> Nat] /\ refs'[k] = refs[k] + 1 /\ \A j \in Keys \ {k} : refs'[j] = refs[j]
      BY <1>2, <1>3, <3>1, <3>3 DEF StoreTypes
    <3>5. entry' \in [Keys -> Nat]
      BY Zenon, <1>3, <3>1 DEF StoreTypes
    <3> QED BY Zenon, <3>1, <3>2, <3>3, <3>4, <3>5
  <2>2. CASE NewEntry(c, k)
    <3>1. /\ entry[k] = 0 /\ refs' = [refs EXCEPT ![k] = 1]
          /\ handle' = [handle EXCEPT ![c][k] = Fresh(k)]
          /\ \E gone \in Evictions : entry' = Entered(k, gone)
      BY Zenon, <2>2 DEF NewEntry
    <3>2. Users(k) = {} /\ Cardinality(Users(k)) = 0
      BY Zenon, <1>2, <1>3, <3>1, NobodyUses
    <3>3. Fresh(k) \in Nat \ {0}
      BY Zenon, <1>2, <1>3, <3>2, FreshIsNew
    <3>4. /\ entry' \in [Keys -> Nat] /\ entry'[k] = Fresh(k)
          /\ \A j \in Keys \ {k} : entry'[j] = entry[j] \/ (j \in Idle /\ entry'[j] = 0)
      BY ZenonT(40), <1>2, <1>3, <3>1, <3>3, EnteredKeeps
    <3>5. refs' \in [Keys -> Nat] /\ refs'[k] = 0 + 1 /\ \A j \in Keys \ {k} : refs'[j] = refs[j]
      BY SMTT(30), <1>2, <1>3, <3>1 DEF StoreTypes
    <3> QED BY Zenon, <3>1, <3>2, <3>3, <3>4, <3>5
  <2> QED BY Zenon, <1>1, <2>1, <2>2
<1>7. Counted(k)'
  BY ZenonT(40), <1>2, <1>3, <1>5, <1>6, JoinCounted
<1>8. ASSUME NEW j \in Keys, j # k PROVE Counted(j)'
  <2>1. \A d \in Conns : handle'[d][j] = handle[d][j]
    BY Zenon, <1>2, <1>3, <1>6, <1>8 DEF StoreTypes
  <2>2. refs'[j] = refs[j] /\ (entry'[j] = entry[j] \/ (j \in Idle /\ entry'[j] = 0))
    BY Zenon, <1>6, <1>8
  <2> QED BY ZenonT(40), <1>3, <2>1, <2>2, OthersCounted
<1>9. StoreTypes'
  BY Zenon, <1>2, <1>3, <1>6 DEF StoreTypes
<1>10. HandleInv'
  BY ZenonT(40), <1>1, <1>2, <1>3, <1>4, <1>6 DEF HandleInv, StoreTypes
<1> QED BY Zenon, <1>7, <1>8, <1>9, <1>10 DEF StoreInv

\* A session that could not be set up leaves an idle entry, or the shared one.
LEMMA SetupFailsStore ==
  ASSUME ReclaimInv, StoreInv, NEW c \in Conns, SetupFails(c)
  PROVE  StoreInv'
<1>0. PICK k : k = Key(c)
  OBVIOUS
<1>1. /\ At(c) = "load" /\ handle' = handle /\ actor' = actor
      /\ \/ entry' = entry /\ refs' = refs
         \/ entry[k] = 0 /\ refs' = [refs EXCEPT ![k] = 0] /\ \E gone \in Evictions : entry' = Entered(k, gone)
  BY Zenon, <1>0 DEF SetupFails, actorVars
<1>2. k \in Keys
  BY Zenon, <1>0, <1>1 DEF ReclaimInv, HandlesKey
<1>3. StoreTypes /\ HandleInv /\ \A j \in Keys : Counted(j)
  BY Zenon DEF StoreInv
<1>4. HandleInv'
  BY Zenon, <1>1, <1>3 DEF HandleInv
<1>5. CASE entry' = entry /\ refs' = refs
  <2>1. \A j \in Keys : Counted(j)'
    BY Zenon, <1>1, <1>3, <1>5, OthersCounted
  <2> QED BY Zenon, <1>1, <1>3, <1>4, <1>5, <2>1 DEF StoreInv, StoreTypes
<1>6. CASE entry[k] = 0 /\ refs' = [refs EXCEPT ![k] = 0] /\ \E gone \in Evictions : entry' = Entered(k, gone)
  <2>2. Users(k) = {} /\ Cardinality(Users(k)) = 0
    BY Zenon, <1>2, <1>3, <1>6, NobodyUses
  <2>3. Fresh(k) \in Nat \ {0}
    BY Zenon, <1>2, <1>3, <2>2, FreshIsNew
  <2>4. /\ entry' \in [Keys -> Nat]
        /\ \A j \in Keys \ {k} : entry'[j] = entry[j] \/ (j \in Idle /\ entry'[j] = 0)
    BY ZenonT(40), <1>2, <1>3, <1>6, <2>3, EnteredKeeps
  <2>5. refs' \in [Keys -> Nat] /\ refs'[k] = 0 /\ \A j \in Keys \ {k} : refs'[j] = refs[j]
    BY <1>2, <1>3, <1>6 DEF StoreTypes
  <2>6. Users(k)' = Users(k)
    BY ZenonT(40), <1>1 DEF Users
  <2>7. Counted(k)'
    BY Zenon, <2>2, <2>5, <2>6, FS_EmptySet DEF Counted
  <2>8. ASSUME NEW j \in Keys, j # k PROVE Counted(j)'
    <3>1. refs'[j] = refs[j] /\ (entry'[j] = entry[j] \/ (j \in Idle /\ entry'[j] = 0))
      BY Zenon, <2>4, <2>5, <2>8
    <3> QED BY ZenonT(40), <1>1, <1>3, <3>1, OthersCounted
  <2>9. StoreTypes'
    BY Zenon, <1>1, <1>3, <2>4, <2>5 DEF StoreTypes
  <2> QED BY Zenon, <1>4, <2>7, <2>8, <2>9 DEF StoreInv
<1> QED BY Zenon, <1>1, <1>5, <1>6

\* The release of a handle.
LEMMA FreeStore ==
  ASSUME ReclaimInv, StoreInv, NEW c \in Conns, NEW k \in Keys, Free(c, k)
  PROVE  StoreInv'
<1>1. /\ actor[c][k] = "released" /\ actor' = [actor EXCEPT ![c][k] = "freed"]
      /\ handle' = [handle EXCEPT ![c][k] = 0] /\ entry' = entry
      /\ refs' = IF entry[k] = handle[c][k] /\ refs[k] # 0 THEN [refs EXCEPT ![k] = refs[k] - 1] ELSE refs
  BY DEF Free
<1>3. StoreTypes /\ HandleInv /\ \A j \in Keys : Counted(j)
  BY Zenon DEF StoreInv
<1>4. actor \in [Conns -> [Keys -> {"none", "live", "closing", "released", "freed"}]]
  BY Zenon DEF ReclaimInv, Types
<1>5. handle[c][k] # 0
  BY <1>1, <1>3 DEF HandleInv
<1>6. entry[k] = handle[c][k] /\ refs[k] # 0
  <2>1. c \in Users(k)
    BY Zenon, <1>5 DEF Users
  <2>2. entry[k] = handle[c][k]
    BY Zenon, <1>3, <2>1 DEF Counted
  <2>3. refs[k] # 0
    BY Zenon, <1>3, <2>1, NobodyUses
  <2> QED BY Zenon, <2>2, <2>3
<1>7. refs' \in [Keys -> Nat] /\ refs'[k] = refs[k] - 1 /\ \A j \in Keys \ {k} : refs'[j] = refs[j]
  <2>1. refs' = [refs EXCEPT ![k] = refs[k] - 1]
    BY <1>1, <1>6
  <2>2. refs \in [Keys -> Nat] /\ refs[k] - 1 \in Nat
    BY <1>3, <1>6 DEF StoreTypes
  <2> QED BY Zenon, <2>1, <2>2
<1>8. Counted(k)'
  BY Zenon, <1>1, <1>3, <1>5, <1>7, LeaveCounted
<1>9. ASSUME NEW j \in Keys, j # k PROVE Counted(j)'
  <2>1. \A d \in Conns : handle'[d][j] = handle[d][j]
    BY <1>1, <1>3, <1>9 DEF StoreTypes
  <2>2. refs'[j] = refs[j] /\ entry'[j] = entry[j]
    BY Zenon, <1>1, <1>7, <1>9
  <2> QED BY ZenonT(40), <1>3, <2>1, <2>2, OthersCounted
<1>10. StoreTypes'
  BY Zenon, <1>1, <1>3, <1>7 DEF StoreTypes
<1>11. HandleInv'
  BY <1>1, <1>3, <1>4 DEF HandleInv, StoreTypes
<1> QED BY ZenonT(40), <1>8, <1>9, <1>10, <1>11 DEF StoreInv

\* Steps that move a session on and leave the registry alone.
LEMMA MoveStore ==
  ASSUME ReclaimInv, StoreInv, NEW c \in Conns, NEW k \in Keys, NEW to, UNCHANGED registryVars,
         actor' = [actor EXCEPT ![c][k] = to],
         actor[c][k] \in {"live", "closing", "released"} <=> to \in {"live", "closing", "released"}
  PROVE  StoreInv'
<1>1. entry' = entry /\ refs' = refs /\ handle' = handle
  BY Zenon DEF registryVars
<1>2. StoreTypes /\ HandleInv /\ \A j \in Keys : Counted(j)
  BY Zenon DEF StoreInv
<1>3. actor \in [Conns -> [Keys -> {"none", "live", "closing", "released", "freed"}]]
  BY ZenonT(40) DEF ReclaimInv, Types
<1>4. HandleInv'
  BY Zenon, <1>1, <1>2, <1>3 DEF HandleInv
<1>5. \A j \in Keys : Counted(j)'
  BY Zenon, <1>1, <1>2, OthersCounted
<1> QED BY Zenon, <1>1, <1>2, <1>4, <1>5 DEF StoreInv, StoreTypes

LEMMA StoreStutter == StoreInv /\ UNCHANGED <<actor, registryVars>> => StoreInv'
<1> SUFFICES ASSUME StoreInv, UNCHANGED <<actor, registryVars>> PROVE StoreInv'
  OBVIOUS
<1>1. entry' = entry /\ refs' = refs /\ handle' = handle /\ actor' = actor
  BY Zenon DEF registryVars
<1>2. \A j \in Keys : Counted(j)'
  BY Zenon, <1>1, OthersCounted DEF StoreInv
<1> QED BY Zenon, <1>1, <1>2 DEF StoreInv, StoreTypes, HandleInv

\* An idle entry expires.
LEMMA ExpireStore == StoreInv /\ ExpireIdle => StoreInv'
<1> SUFFICES ASSUME StoreInv, ExpireIdle PROVE StoreInv'
  OBVIOUS
<1>1. PICK k \in Oldest : entry' = [entry EXCEPT ![k] = 0]
  BY Zenon DEF ExpireIdle
<1>2. refs' = refs /\ handle' = handle /\ actor' = actor
  BY Zenon DEF ExpireIdle, actorVars
<1>3. k \in Idle /\ k \in Keys
  BY <1>1 DEF Oldest, Idle, Entries
<1>4. entry \in [Keys -> Nat] /\ \A j \in Keys : Counted(j)
  BY Zenon DEF StoreInv, StoreTypes
<1>5. /\ entry' \in [Keys -> Nat]
      /\ \A j \in Keys : entry'[j] = entry[j] \/ (j \in Idle /\ entry'[j] = 0)
  BY <1>1, <1>3, <1>4
<1>6. \A j \in Keys : Counted(j)'
  BY ZenonT(40), <1>2, <1>4, <1>5, OthersCounted
<1> QED BY Zenon, <1>2, <1>5, <1>6 DEF StoreInv, StoreTypes, HandleInv

\* Every step keeps the registry's counts.
LEMMA NextStore == ReclaimInv /\ StoreInv /\ [Next]_vars => StoreInv'
<1> SUFFICES ASSUME ReclaimInv, StoreInv, [Next]_vars PROVE StoreInv'
  OBVIOUS
<1>1. ASSUME NEW c \in Conns, ReaderStep(c) \/ WaitCancelled(c) \/ ConnEnds(c) PROVE StoreInv'
  <2>1. CASE Bind(c)
    BY Zenon, <2>1, BindStore
  <2>2. CASE SetupFails(c)
    BY Zenon, <2>2, SetupFailsStore
  <2>3. ASSUME NEW k \in Keys, StopSession(c, k) PROVE StoreInv'
    <3>1. actor[c][k] = "live" /\ actor' = [actor EXCEPT ![c][k] = "closing"] /\ UNCHANGED registryVars
      BY Zenon, <2>3 DEF StopSession
    <3> QED BY Zenon, <3>1, MoveStore
  <2>4. CASE ReadFails(c) \/ SessionFor(c) \/ Register(c) \/ TakeOver(c) \/ LoadFails(c) \/ BindFails(c)
    BY Zenon, <2>4, StoreStutter
    DEF ReadFails, SessionFor, Register, TakeOver, LoadFails, BindFails, actorVars
  <2>5. CASE Stopped(c) \/ WaitCancelled(c) \/ ConnEnds(c)
    BY Zenon, <2>5, StoreStutter DEF Stopped, WaitCancelled, ConnEnds, actorVars
  <2> QED BY Zenon, <1>1, <2>1, <2>2, <2>3, <2>4, <2>5 DEF ReaderStep
<1>2. ASSUME NEW c \in Conns, NEW k \in Keys, ReadFrame(c, k) \/ SessionFails(c, k) PROVE StoreInv'
  BY Zenon, <1>2, StoreStutter DEF ReadFrame, SessionFails, actorVars
<1>3. ASSUME NEW c \in Conns, NEW k \in Keys, ShutdownStep(c, k) PROVE StoreInv'
  <2>1. CASE BeginShutdown(c, k)
    <3>1. actor[c][k] = "live" /\ actor' = [actor EXCEPT ![c][k] = "closing"] /\ UNCHANGED registryVars
      BY Zenon, <2>1 DEF BeginShutdown
    <3> QED BY Zenon, <3>1, MoveStore
  <2>2. CASE Release(c, k)
    <3>1. actor[c][k] = "closing" /\ actor' = [actor EXCEPT ![c][k] = "released"] /\ UNCHANGED registryVars
      BY Zenon, <2>2 DEF Release
    <3> QED BY Zenon, <3>1, MoveStore
  <2>3. CASE Free(c, k)
    BY Zenon, <2>3, FreeStore
  <2>4. CASE Remove(c, k)
    <3>1. actor[c][k] = "freed" /\ actor' = [actor EXCEPT ![c][k] = "none"] /\ UNCHANGED registryVars
      BY Zenon, <2>4 DEF Remove
    <3> QED BY Zenon, <3>1, MoveStore
  <2> QED BY ZenonT(40), <1>3, <2>1, <2>2, <2>3, <2>4 DEF ShutdownStep
<1>4. CASE ExpireIdle
  BY Zenon, <1>4, ExpireStore
<1>5. CASE UNCHANGED vars
  BY Zenon, <1>5, StoreStutter DEF vars, actorVars
<1> QED BY ZenonT(40), <1>1, <1>2, <1>3, <1>4, <1>5 DEF Next

\* Concurrent and reconnecting sessions of a key share the one registered entry,
\* whose references are counted exactly, so neither eviction nor expiry takes a
\* store that a session still uses (reliability_registry.go:101-220).
THEOREM SessionsShareOneStore == Spec => []OneStorePerSession
<1>1. StoreInv => OneStorePerSession
  BY Zenon DEF StoreInv, Counted, Users, OneStorePerSession
<1> QED
  BY <1>1, InitStore, NextStore, LostIsRemembered, PTL DEF Spec
=============================================================================
