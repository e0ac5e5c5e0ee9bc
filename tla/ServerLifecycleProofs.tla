------------------------ MODULE ServerLifecycleProofs ------------------------
(***************************************************************************)
(* Proofs about ServerLifecycle for any number of listeners, connections   *)
(* and requests, and any quotas.                                           *)
(***************************************************************************)
EXTENDS ServerLifecycle, Integers, FiniteSetTheorems, TLAPS

ConnPlaces == {"new", "accepted", "listed", "admitted", "run", "drain", "finished", "gone"}
ReqPlaces == {"idle", "wait", "slot", "run", "refused", "freed", "notify", "ended"}
ServePlaces == {"start", "accept", "serve", "done"}

\* The part of the types that the argument uses.
Types ==
  /\ serve \in [Listeners -> ServePlaces] /\ serving \in [Listeners -> Conns \cup {Nobody}]
  /\ pc \in [Conns -> ConnPlaces] /\ req \in [Requests -> ReqPlaces]
  /\ byIP \in [IPs -> Int] /\ byAuth \in [AuthKeys -> Int]
  /\ activeSessions \in Int /\ activeHandlers \in Int

\* An accept loop that serves has a connection.
ServeInv == \A l \in Listeners : serve[l] = "serve" => serving[l] \in Conns

\* What a connection's place says about the maps it is in.
PlaceInv ==
  /\ connections = {c \in Conns : pc[c] \in {"listed", "admitted", "run", "drain", "finished"}}
  /\ states = {c \in Conns : pc[c] \in {"admitted", "run", "drain"}}
  /\ bound \subseteq {c \in Conns : pc[c] \in {"run", "drain"}}
  /\ authCounted \subseteq states /\ counted \subseteq states

\* A request that is not over keeps its connection from finishing, and the
\* slots are held by the requests that say so.
RequestInv ==
  /\ \A r \in Requests : req[r] \notin {"idle", "ended"} => pc[ConnOf[r]] \in {"run", "drain"}
  /\ slots = {r \in Requests : req[r] \in {"slot", "run"}}

\* What is counted under an address, under a key, and as a running handler.
From(i) == {c \in states : IpOf[c] = i}
Charged(a) == {c \in states \cap authCounted : AuthOf[c] = a}
Running == {r \in Requests : req[r] \in {"run", "freed", "refused"}}

\* Only finitely many connections are owned, and the quotas count them.
QuotaInv ==
  /\ IsFiniteSet(connections)
  /\ \A i \in IPs : byIP[i] = Cardinality(From(i)) /\ byIP[i] <= MaxPerIP
  /\ \A a \in AuthKeys : byAuth[a] = Cardinality(Charged(a)) /\ byAuth[a] <= MaxPerAuthKey
  /\ activeSessions = Cardinality(states \cap counted)
  /\ Cardinality(states) <= MaxConnections

HandlerInv == IsFiniteSet(Running) /\ activeHandlers = Cardinality(Running)

\* Once Stop has returned no connection is owned.
StopInv == stop = "done" => connections = {}

LifeInv ==
  Types /\ ServeInv /\ PlaceInv /\ RequestInv /\ QuotaInv /\ HandlerInv /\ StopInv

-----------------------------------------------------------------------------
(* The parts of the invariant, one by one *)

\* The invariant holds initially.
LEMMA InitLife == Init => LifeInv
<1> SUFFICES ASSUME Init PROVE LifeInv
  OBVIOUS
<1>1. Types
  BY DEF Init, Types, ServePlaces, ConnPlaces, ReqPlaces
<1>2. ServeInv /\ PlaceInv /\ RequestInv
  BY DEF Init, ServeInv, PlaceInv, RequestInv
<1>3. (\A i \in IPs : From(i) = {}) /\ (\A a \in AuthKeys : Charged(a) = {}) /\ Running = {} /\ states \cap counted = {}
  BY DEF Init, From, Charged, Running
<1>4. QuotaInv
  <2>1. Cardinality({}) = 0 /\ IsFiniteSet({})
    BY Zenon, FS_EmptySet
  <2>2. (\A i \in IPs : byIP[i] = 0) /\ (\A a \in AuthKeys : byAuth[a] = 0) /\ connections = {} /\ states = {}
    BY DEF Init
  <2>3. 0 <= MaxPerIP /\ 0 <= MaxPerAuthKey /\ 0 <= MaxConnections
    BY ServerAssumption
  <2>4. activeSessions = 0
    BY Zenon DEF Init
  <2> QED BY Zenon, <1>3, <2>1, <2>2, <2>3, <2>4 DEF QuotaInv
<1>5. HandlerInv /\ StopInv
  BY <1>3, FS_EmptySet DEF Init, HandlerInv, StopInv
<1> QED BY Zenon, <1>1, <1>2, <1>4, <1>5 DEF LifeInv

\* A connection moves from place to place.
LEMMA ConnMove ==
  ASSUME Types, NEW c \in Conns, NEW to \in ConnPlaces, pc' = [pc EXCEPT ![c] = to]
  PROVE  pc' \in [Conns -> ConnPlaces] /\ pc'[c] = to /\ \A d \in Conns : d # c => pc'[d] = pc[d]
BY DEF Types

\* A connection moves, and enters and leaves the maps as its new place says.
LEMMA PlaceMove ==
  ASSUME Types, PlaceInv, NEW c \in Conns, NEW to \in ConnPlaces, pc' = [pc EXCEPT ![c] = to],
         connections' = IF to \in {"listed", "admitted", "run", "drain", "finished"}
                        THEN connections \cup {c} ELSE connections \ {c},
         states' = IF to \in {"admitted", "run", "drain"} THEN states \cup {c} ELSE states \ {c},
         authCounted' \subseteq states', counted' \subseteq states',
         bound' = bound, c \in bound => to \in {"run", "drain"}
  PROVE  PlaceInv'
<1>1. pc'[c] = to /\ \A d \in Conns : d # c => pc'[d] = pc[d]
  BY Zenon, ConnMove
<1>2. connections' = {d \in Conns : pc'[d] \in {"listed", "admitted", "run", "drain", "finished"}}
  BY <1>1 DEF PlaceInv
<1>3. states' = {d \in Conns : pc'[d] \in {"admitted", "run", "drain"}}
  BY <1>1 DEF PlaceInv
<1>4. bound' \subseteq {d \in Conns : pc'[d] \in {"run", "drain"}}
  BY <1>1 DEF PlaceInv
<1> QED BY Zenon, <1>2, <1>3, <1>4 DEF PlaceInv

\* The states are among the connections, so there are finitely many.
LEMMA StatesFinite ==
  ASSUME PlaceInv, QuotaInv
  PROVE  /\ states \subseteq connections /\ IsFiniteSet(states) /\ IsFiniteSet(states \cap counted)
         /\ \A i : IsFiniteSet(From(i)) /\ IsFiniteSet(Charged(i))
<1>1. states \subseteq connections
  BY DEF PlaceInv
<1>2. \A T \in SUBSET connections : IsFiniteSet(T)
  BY Zenon, FS_Subset DEF QuotaInv
<1>3. \A i : From(i) \subseteq connections /\ Charged(i) \subseteq connections
  BY <1>1 DEF From, Charged
<1> QED BY <1>1, <1>2, <1>3

\* The quotas stay exact while their holders and counters stay.
LEMMA QuotaKept ==
  ASSUME QuotaInv, UNCHANGED <<states, byIP, byAuth, activeSessions, authCounted, counted>>,
         IsFiniteSet(connections')
  PROVE  QuotaInv'
<1>1. (\A i \in IPs : From(i)' = From(i)) /\ (\A a \in AuthKeys : Charged(a)' = Charged(a))
  BY DEF From, Charged
<1> QED BY <1>1 DEF QuotaInv

\* A connection that finishes leaves no request in flight.
LEMMA RequestsKept ==
  ASSUME RequestInv, UNCHANGED <<req, slots>>,
         \A c \in Conns : pc[c] \in {"run", "drain"} => pc'[c] \in {"run", "drain"} \/ InFlight(c) = {}
  PROVE  RequestInv'
<1>1. \A r \in Requests : ConnOf[r] \in Conns
  BY ServerAssumption
<1>2. \A r \in Requests : req[r] \notin {"idle", "ended"} => r \in InFlight(ConnOf[r])
  BY DEF InFlight
<1> QED BY <1>1, <1>2 DEF RequestInv

\* So does the number of handlers.
LEMMA HandlersKept ==
  ASSUME HandlerInv, UNCHANGED <<req, activeHandlers>>
  PROVE  HandlerInv'
BY DEF HandlerInv, Running

LEMMA LifeParts ==
  ASSUME Types', ServeInv', PlaceInv', RequestInv', QuotaInv', HandlerInv', StopInv'
  PROVE  LifeInv'
BY Zenon DEF LifeInv

-----------------------------------------------------------------------------
(* Accept loops *)

\* Steps of an accept loop that leave its connection where it is.
LEMMA LoopStep ==
  ASSUME LifeInv, NEW l \in Listeners, NEW at \in ServePlaces \ {"serve"}, serve' = [serve EXCEPT ![l] = at],
         UNCHANGED <<stopVars, serving, quotaVars, handlerVars, pc, connections, bound>>
  PROVE  LifeInv'
<1> USE DEF stopVars, quotaVars, handlerVars
<1>p. Types /\ ServeInv /\ PlaceInv /\ RequestInv /\ QuotaInv /\ HandlerInv /\ StopInv
  BY Zenon DEF LifeInv
<1>1. Types' /\ ServeInv'
  BY <1>p DEF Types, ServeInv
<1>2. PlaceInv' /\ StopInv'
  BY <1>p DEF PlaceInv, StopInv
<1>3. RequestInv'
  BY <1>p DEF RequestInv
<1>4. QuotaInv' /\ HandlerInv'
  <2>1. IsFiniteSet(connections')
    BY <1>p DEF QuotaInv
  <2> QED BY <2>1, <1>p, QuotaKept, HandlersKept
<1> QED BY Zenon, <1>1, <1>2, <1>3, <1>4, LifeParts

\* Steps that move one connection and leave the quotas alone.
LEMMA ConnStep ==
  ASSUME LifeInv, NEW c \in Conns, NEW to \in ConnPlaces, pc' = [pc EXCEPT ![c] = to],
         pc[c] \in {"admitted", "run", "drain"} <=> to \in {"admitted", "run", "drain"},
         pc[c] \in {"run", "drain"} => to \in {"run", "drain"},
         connections' = IF to \in {"listed", "admitted", "run", "drain", "finished"}
                        THEN connections \cup {c} ELSE connections \ {c},
         c \notin connections => ~Stopping \/ c \notin connections',
         UNCHANGED <<stop, quotaVars, handlerVars, bound>>, Types', ServeInv'
  PROVE  LifeInv'
<1> USE DEF quotaVars, handlerVars
<1>p. Types /\ ServeInv /\ PlaceInv /\ RequestInv /\ QuotaInv /\ HandlerInv /\ StopInv
  BY Zenon DEF LifeInv
<1>1. PlaceInv'
  <2>1. states' = IF to \in {"admitted", "run", "drain"} THEN states \cup {c} ELSE states \ {c}
    BY <1>p DEF PlaceInv
  <2>2. c \in bound => to \in {"run", "drain"}
    BY <1>p DEF PlaceInv
  <2>3. authCounted' \subseteq states' /\ counted' \subseteq states'
    BY <1>p DEF PlaceInv
  <2> QED BY Zenon, <2>1, <2>2, <2>3, <1>p, PlaceMove
<1>2. RequestInv'
  <2>1. \A d \in Conns : pc[d] \in {"run", "drain"} => pc'[d] \in {"run", "drain"}
    BY <1>p, ConnMove
  <2> QED BY <2>1, <1>p, RequestsKept
<1>3. QuotaInv' /\ HandlerInv'
  <2>1. IsFiniteSet(connections \cup {c}) /\ IsFiniteSet(connections \ {c})
    BY <1>p, FS_AddElement, FS_RemoveElement DEF QuotaInv
  <2>2. IsFiniteSet(connections')
    BY Zenon, <2>1
  <2> QED BY Zenon, <2>2, <1>p, QuotaKept, HandlersKept
<1>4. StopInv'
  BY <1>p DEF StopInv, Stopping
<1> QED BY Zenon, <1>1, <1>2, <1>3, <1>4, LifeParts

LEMMA AcceptStep ==
  ASSUME LifeInv, NEW l \in Listeners, NEW c \in Conns, Accept(l, c)
  PROVE  LifeInv'
<1>p. Types /\ ServeInv /\ PlaceInv
  BY Zenon DEF LifeInv
<1>1. /\ pc[c] = "new" /\ pc' = [pc EXCEPT ![c] = "accepted"] /\ serve' = [serve EXCEPT ![l] = "serve"]
      /\ serving' = [serving EXCEPT ![l] = c]
      /\ UNCHANGED <<stop, quotaVars, handlerVars, connections, bound>>
  BY Zenon DEF Accept, stopVars
<1>2. "accepted" \in ConnPlaces /\ "serve" \in ServePlaces
  BY DEF ConnPlaces, ServePlaces
<1>3. Types' /\ ServeInv'
  BY <1>1, <1>2, <1>p DEF Types, ServeInv, quotaVars, handlerVars
<1>4. connections' = connections \ {c}
  BY <1>1, <1>p DEF PlaceInv
<1> QED BY Zenon, <1>1, <1>2, <1>3, <1>4, ConnStep

\* The loop gives its connection up or hands it to a goroutine.
LEMMA ServedTypes ==
  ASSUME Types, ServeInv, NEW l \in Listeners, NEW at \in ServePlaces \ {"serve"}, Served(l, at),
         NEW c \in Conns, NEW to \in ConnPlaces, pc' = [pc EXCEPT ![c] = to],
         UNCHANGED <<byIP, byAuth, activeSessions, handlerVars>>
  PROVE  Types' /\ ServeInv'
BY DEF Types, ServeInv, Served, handlerVars

LEMMA ServeConnStep ==
  ASSUME LifeInv, NEW l \in Listeners, ServeConn(l)
  PROVE  LifeInv'
<1> DEFINE c == serving[l]
<1>p. Types /\ ServeInv /\ PlaceInv
  BY Zenon DEF LifeInv
<1>1. c \in Conns /\ pc[c] = "accepted" /\ UNCHANGED <<stop, quotaVars, handlerVars, bound>>
  BY <1>p DEF ServeConn, ServeInv, stopVars
<1>2. c \notin connections
  BY <1>1, <1>p DEF PlaceInv
<1>3. CASE Stopping
  <2>1. pc' = [pc EXCEPT ![c] = "gone"] /\ Served(l, "done") /\ connections' = connections
    BY Zenon, <1>3 DEF ServeConn
  <2>2. "gone" \in ConnPlaces /\ "done" \in ServePlaces \ {"serve"}
    BY DEF ConnPlaces, ServePlaces
  <2> HIDE DEF c
  <2>3. Types' /\ ServeInv'
    BY Zenon, <2>1, <2>2, <1>1, <1>p, ServedTypes DEF quotaVars
  <2>4. connections' = connections \ {c}
    BY <2>1, <1>2
  <2> QED BY Zenon, <2>1, <2>2, <2>3, <2>4, <1>1, <1>2, ConnStep
<1>4. CASE ~Stopping
  <2>1. pc' = [pc EXCEPT ![c] = "listed"] /\ connections' = connections \cup {c} /\ UNCHANGED <<serve, serving>>
    BY Zenon, <1>4 DEF ServeConn
  <2>2. "listed" \in ConnPlaces
    BY DEF ConnPlaces
  <2> HIDE DEF c
  <2>3. Types' /\ ServeInv'
    BY <2>1, <2>2, <1>1, <1>p DEF Types, ServeInv, quotaVars, handlerVars
  <2> QED BY Zenon, <2>1, <2>2, <2>3, <1>1, <1>4, ConnStep
<1> QED BY Zenon, <1>3, <1>4

LEMMA RefuseStep ==
  ASSUME LifeInv, NEW l \in Listeners, Refuse(l)
  PROVE  LifeInv'
<1> DEFINE c == serving[l]
<1>p. Types /\ ServeInv /\ PlaceInv
  BY Zenon DEF LifeInv
<1>1. c \in Conns /\ pc[c] = "listed"
  BY <1>p DEF Refuse, ServeInv
<1>2. /\ pc' = [pc EXCEPT ![c] = "gone"] /\ Served(l, "accept") /\ connections' = connections \ {c}
      /\ UNCHANGED <<stop, quotaVars, handlerVars, bound>>
  BY Zenon DEF Refuse, stopVars
<1> HIDE DEF c
<1>3. "gone" \in ConnPlaces /\ "accept" \in ServePlaces \ {"serve"}
  BY DEF ConnPlaces, ServePlaces
<1>4. Types' /\ ServeInv'
  BY Zenon, <1>1, <1>2, <1>3, <1>p, ServedTypes DEF quotaVars
<1> QED BY Zenon, <1>1, <1>2, <1>3, <1>4, ConnStep

LEMMA StartStep ==
  ASSUME LifeInv, NEW l \in Listeners, Start(l)
  PROVE  LifeInv'
<1> DEFINE c == serving[l]
<1>p. Types /\ ServeInv /\ PlaceInv
  BY Zenon DEF LifeInv
<1>1. c \in Conns /\ pc[c] = "admitted"
  BY <1>p DEF Start, ServeInv
<1>2. /\ pc' = [pc EXCEPT ![c] = "run"] /\ Served(l, "accept")
      /\ UNCHANGED <<stop, quotaVars, handlerVars, connections, bound>>
  BY Zenon DEF Start, stopVars
<1> HIDE DEF c
<1>3. "run" \in ConnPlaces /\ "accept" \in ServePlaces \ {"serve"}
  BY DEF ConnPlaces, ServePlaces
<1>4. Types' /\ ServeInv'
  BY Zenon, <1>1, <1>2, <1>3, <1>p, ServedTypes DEF quotaVars
<1>5. connections' = connections \cup {c}
  BY <1>1, <1>2, <1>p DEF PlaceInv
<1> QED BY ZenonT(40), <1>1, <1>2, <1>3, <1>4, <1>5, ConnStep

LEMMA RunEndsStep ==
  ASSUME LifeInv, NEW c \in Conns, RunEnds(c)
  PROVE  LifeInv'
<1>p. Types /\ ServeInv /\ PlaceInv
  BY Zenon DEF LifeInv
<1>1. /\ pc[c] = "run" /\ pc' = [pc EXCEPT ![c] = "drain"]
      /\ UNCHANGED <<stop, serve, serving, quotaVars, handlerVars, connections, bound>>
  BY Zenon DEF RunEnds, stopVars, serveVars
<1>2. "drain" \in ConnPlaces
  BY DEF ConnPlaces
<1>3. Types' /\ ServeInv'
  BY <1>1, <1>2, <1>p DEF Types, ServeInv, quotaVars, handlerVars
<1>4. connections' = connections \cup {c}
  BY <1>1, <1>p DEF PlaceInv
<1> QED BY Zenon, <1>1, <1>2, <1>3, <1>4, ConnStep

LEMMA DisownStep ==
  ASSUME LifeInv, NEW c \in Conns, Disown(c)
  PROVE  LifeInv'
<1>p. Types /\ ServeInv /\ PlaceInv
  BY Zenon DEF LifeInv
<1>1. /\ pc[c] = "finished" /\ pc' = [pc EXCEPT ![c] = "gone"] /\ connections' = connections \ {c}
      /\ UNCHANGED <<stop, serve, serving, quotaVars, handlerVars, bound>>
  BY Zenon DEF Disown, stopVars, serveVars
<1>2. "gone" \in ConnPlaces
  BY DEF ConnPlaces
<1>3. Types' /\ ServeInv'
  BY <1>1, <1>2, <1>p DEF Types, ServeInv, quotaVars, handlerVars
<1> QED BY Zenon, <1>1, <1>2, <1>3, ConnStep

-----------------------------------------------------------------------------
(* Quotas *)

\* Every connection has a counter under its address and one under its key.
LEMMA HasCounters == \A c \in Conns : IpOf[c] \in IPs /\ AuthOf[c] \in AuthKeys
BY DEF IPs, AuthKeys

\* A set of counted things grows or shrinks by one.
LEMMA OneMore ==
  ASSUME NEW S, IsFiniteSet(S), NEW x, x \notin S
  PROVE  IsFiniteSet(S \cup {x}) /\ Cardinality(S \cup {x}) = Cardinality(S) + 1
BY FS_AddElement

\* One element less is one less.
LEMMA OneLess ==
  ASSUME NEW S, IsFiniteSet(S), NEW x, x \in S
  PROVE  IsFiniteSet(S \ {x}) /\ Cardinality(S \ {x}) = Cardinality(S) - 1
BY FS_RemoveElement

\* admitConnection counts the connection under its address: it is one of the
\* connections, of which there are not too many.
LEMMA AdmitQuota ==
  ASSUME Types, PlaceInv, QuotaInv, NEW c \in Conns, pc[c] = "listed", ~Full(c),
         states' = states \cup {c}, byIP' = [byIP EXCEPT ![IpOf[c]] = @ + 1],
         UNCHANGED <<byAuth, activeSessions, authCounted, counted, connections>>
  PROVE  QuotaInv'
<1>1. /\ c \notin states /\ c \in connections /\ states \subseteq connections
      /\ authCounted \subseteq states /\ counted \subseteq states
  BY DEF PlaceInv
<1>2. \A i \in IPs : IsFiniteSet(From(i))
  BY Zenon, StatesFinite
<1>3. \A i \in IPs : byIP'[i] = Cardinality(From(i)') /\ byIP'[i] <= MaxPerIP
  <2> SUFFICES ASSUME NEW i \in IPs PROVE byIP'[i] = Cardinality(From(i)') /\ byIP'[i] <= MaxPerIP
    BY Zenon
  <2>1. byIP[i] = Cardinality(From(i)) /\ byIP[i] <= MaxPerIP /\ byIP[i] \in Int
    BY DEF QuotaInv, Types
  <2>2. CASE IpOf[c] = i
    <3>1. byIP'[i] = byIP[i] + 1 /\ ~(byIP[i] >= MaxPerIP)
      BY Zenon, <2>2 DEF Types, Full
    <3>2. From(i)' = From(i) \cup {c} /\ c \notin From(i)
      BY <2>2, <1>1 DEF From
    <3>3. Cardinality(From(i)') = Cardinality(From(i)) + 1
      BY Zenon, <3>2, <1>2, OneMore
    <3> QED BY <2>1, <3>1, <3>3, ServerAssumption
  <2>3. CASE IpOf[c] # i
    <3>1. byIP'[i] = byIP[i]
      BY Zenon, <2>3 DEF Types
    <3>2. From(i)' = From(i)
      BY <2>3 DEF From
    <3> QED BY Zenon, <2>1, <3>1, <3>2
  <2> QED BY Zenon, <2>2, <2>3
<1>4. \A a \in AuthKeys : Charged(a)' = Charged(a)
  BY <1>1 DEF Charged
<1>5. states' \cap counted' = states \cap counted
  BY <1>1
<1>6. Cardinality(states') <= MaxConnections
  <2>1. IsFiniteSet(connections) /\ states' \subseteq connections
    BY <1>1 DEF QuotaInv
  <2>2. Cardinality(states') <= Cardinality(connections) /\ Cardinality(states') \in Nat /\ Cardinality(connections) \in Nat
    BY Zenon, <2>1, FS_Subset, FS_CardinalityType
  <2> QED BY <2>2, ServerAssumption DEF Full
<1>7. IsFiniteSet(connections')
  BY Zenon DEF QuotaInv
<1>8. \A a \in AuthKeys : byAuth'[a] = Cardinality(Charged(a)') /\ byAuth'[a] <= MaxPerAuthKey
  BY <1>4 DEF QuotaInv
<1>9. activeSessions' = Cardinality(states' \cap counted')
  BY Zenon, <1>5 DEF QuotaInv
<1> QED BY ZenonT(40), <1>3, <1>6, <1>7, <1>8, <1>9 DEF QuotaInv

\* finishConnection gives back exactly what was counted for the connection.
LEMMA GiveBackQuota ==
  ASSUME Types, PlaceInv, QuotaInv, NEW c \in Conns, c \in states, GiveBack(c), IsFiniteSet(connections')
  PROVE  QuotaInv'
<1>1. /\ states' = states \ {c} /\ byIP' = [byIP EXCEPT ![IpOf[c]] = @ - 1]
      /\ byAuth' = [byAuth EXCEPT ![AuthOf[c]] = IF c \in authCounted THEN @ - 1 ELSE @]
      /\ activeSessions' = IF c \in counted THEN activeSessions - 1 ELSE activeSessions
      /\ authCounted' = authCounted \ {c} /\ counted' = counted \ {c}
  BY Zenon DEF GiveBack
<1>2. /\ \A i : IsFiniteSet(From(i)) /\ IsFiniteSet(Charged(i))
      /\ IsFiniteSet(states) /\ IsFiniteSet(states \cap counted)
  BY Zenon, StatesFinite
<1>3. \A i \in IPs : byIP'[i] = Cardinality(From(i)') /\ byIP'[i] <= MaxPerIP
  <2> SUFFICES ASSUME NEW i \in IPs PROVE byIP'[i] = Cardinality(From(i)') /\ byIP'[i] <= MaxPerIP
    OBVIOUS
  <2>1. byIP[i] = Cardinality(From(i)) /\ byIP[i] <= MaxPerIP /\ byIP[i] \in Int
    BY DEF QuotaInv, Types
  <2>2. CASE IpOf[c] = i
    <3>1. byIP'[i] = byIP[i] - 1
      BY Zenon, <2>2, <1>1 DEF Types
    <3>2. From(i)' = From(i) \ {c} /\ c \in From(i)
      BY <2>2, <1>1 DEF From
    <3>3. Cardinality(From(i)') = Cardinality(From(i)) - 1
      BY Zenon, <3>2, <1>2, OneLess
    <3> QED BY SMTT(30), <2>1, <3>1, <3>3, ServerAssumption
  <2>3. CASE IpOf[c] # i
    <3>1. byIP'[i] = byIP[i]
      BY <2>3, <1>1 DEF Types
    <3>2. From(i)' = From(i)
      BY <2>3, <1>1 DEF From
    <3> QED BY Zenon, <2>1, <3>1, <3>2
  <2> QED BY Zenon, <2>2, <2>3
<1>4. \A a \in AuthKeys : byAuth'[a] = Cardinality(Charged(a)') /\ byAuth'[a] <= MaxPerAuthKey
  <2> SUFFICES ASSUME NEW a \in AuthKeys PROVE byAuth'[a] = Cardinality(Charged(a)') /\ byAuth'[a] <= MaxPerAuthKey
    OBVIOUS
  <2>1. byAuth[a] = Cardinality(Charged(a)) /\ byAuth[a] <= MaxPerAuthKey /\ byAuth[a] \in Int
    BY DEF QuotaInv, Types
  <2>2. CASE AuthOf[c] = a /\ c \in authCounted
    <3>1. byAuth'[a] = byAuth[a] - 1
      BY Zenon, <2>2, <1>1 DEF Types
    <3>2. Charged(a)' = Charged(a) \ {c} /\ c \in Charged(a)
      BY <2>2, <1>1 DEF Charged
    <3>3. Cardinality(Charged(a)') = Cardinality(Charged(a)) - 1
      BY ZenonT(40), <3>2, <1>2, OneLess
    <3> QED BY SMTT(30), <2>1, <3>1, <3>3, ServerAssumption
  <2>3. CASE ~(AuthOf[c] = a /\ c \in authCounted)
    <3>1. byAuth'[a] = byAuth[a]
      BY <2>3, <1>1 DEF Types
    <3>2. Charged(a)' = Charged(a)
      BY <2>3, <1>1 DEF Charged
    <3> QED BY Zenon, <2>1, <3>1, <3>2
  <2> QED BY Zenon, <2>2, <2>3
<1>5. activeSessions' = Cardinality(states' \cap counted')
  <2>1. activeSessions = Cardinality(states \cap counted)
    BY Zenon DEF QuotaInv
  <2>2. states' \cap counted' = (states \cap counted) \ {c}
    BY <1>1
  <2>3. CASE c \in counted
    <3>1. Cardinality((states \cap counted) \ {c}) = Cardinality(states \cap counted) - 1
      BY Zenon, <2>3, <1>2, OneLess
    <3> QED BY Zenon, <2>1, <2>2, <2>3, <3>1, <1>1
  <2>4. CASE c \notin counted
    <3>1. (states \cap counted) \ {c} = states \cap counted
      BY <2>4
    <3> QED BY Zenon, <2>1, <2>2, <2>4, <3>1, <1>1
  <2> QED BY Zenon, <2>3, <2>4
<1>6. Cardinality(states') <= MaxConnections
  <2>1. Cardinality(states') = Cardinality(states) - 1 /\ Cardinality(states) \in Nat
    BY Zenon, <1>1, <1>2, OneLess, FS_CardinalityType
  <2> QED BY <2>1, ServerAssumption DEF QuotaInv
<1> QED BY Zenon, <1>3, <1>4, <1>5, <1>6 DEF QuotaInv

\* handleObservedSessionBound charges the key once per connection and counts the
\* session once; without room under the key it counts nothing.
LEMMA BoundQuota ==
  ASSUME Types, PlaceInv, QuotaInv, NEW c \in Conns, Bound(c), UNCHANGED connections
  PROVE  /\ QuotaInv' /\ UNCHANGED <<states, byIP>>
         /\ byAuth' \in [AuthKeys -> Int] /\ activeSessions' \in Int
         /\ authCounted' \subseteq states' /\ counted' \subseteq states'
<1>1. IsFiniteSet(connections') /\ authCounted \subseteq states /\ counted \subseteq states
  BY DEF QuotaInv, PlaceInv
<1>2. CASE UNCHANGED quotaVars
  <2>1. UNCHANGED <<states, byIP, byAuth, activeSessions, authCounted, counted>>
    BY Zenon, <1>2 DEF quotaVars
  <2>2. QuotaInv'
    BY Zenon, <2>1, <1>1, QuotaKept
  <2> QED BY <2>1, <2>2, <1>1 DEF Types
<1>3. CASE ~UNCHANGED quotaVars
  <2>1. /\ c \in states /\ (c \in authCounted \/ ~(byAuth[AuthOf[c]] >= MaxPerAuthKey))
        /\ authCounted' = authCounted \cup {c} /\ counted' = counted \cup {c}
        /\ byAuth' = [byAuth EXCEPT ![AuthOf[c]] = IF c \in authCounted THEN @ ELSE @ + 1]
        /\ activeSessions' = IF c \in counted THEN activeSessions ELSE activeSessions + 1
        /\ UNCHANGED <<states, byIP>>
    BY Zenon, <1>3 DEF Bound
  <2>2. (\A i : IsFiniteSet(Charged(i))) /\ IsFiniteSet(states \cap counted)
    BY Zenon, StatesFinite
  <2>3. \A a \in AuthKeys : byAuth'[a] = Cardinality(Charged(a)') /\ byAuth'[a] <= MaxPerAuthKey
    <3> SUFFICES ASSUME NEW a \in AuthKeys PROVE byAuth'[a] = Cardinality(Charged(a)') /\ byAuth'[a] <= MaxPerAuthKey
      OBVIOUS
    <3>1. byAuth[a] = Cardinality(Charged(a)) /\ byAuth[a] <= MaxPerAuthKey /\ byAuth[a] \in Int
      BY DEF QuotaInv, Types
    <3>2. CASE AuthOf[c] = a /\ c \notin authCounted
      <4>1. byAuth'[a] = byAuth[a] + 1 /\ ~(byAuth[a] >= MaxPerAuthKey)
        BY <3>2, <2>1 DEF Types
      <4>2. Charged(a)' = Charged(a) \cup {c} /\ c \notin Charged(a)
        BY <3>2, <2>1 DEF Charged
      <4>3. Cardinality(Charged(a)') = Cardinality(Charged(a)) + 1
        BY Zenon, <4>2, <2>2, OneMore
      <4> QED BY SMTT(30), <3>1, <4>1, <4>3, ServerAssumption
    <3>3. CASE ~(AuthOf[c] = a /\ c \notin authCounted)
      <4>1. byAuth'[a] = byAuth[a]
        BY <3>3, <2>1 DEF Types
      <4>2. Charged(a)' = Charged(a)
        BY <3>3, <2>1 DEF Charged
      <4> QED BY Zenon, <3>1, <4>1, <4>2
    <3> QED BY Zenon, <3>2, <3>3
  <2>4. activeSessions' = Cardinality(states' \cap counted')
    <3>1. activeSessions = Cardinality(states \cap counted)
      BY Zenon DEF QuotaInv
    <3>2. states' \cap counted' = (states \cap counted) \cup {c}
      BY <2>1
    <3>3. CASE c \in counted
      <4>1. (states \cap counted) \cup {c} = states \cap counted
        BY <3>3, <2>1
      <4> QED BY <3>1, <3>2, <3>3, <4>1, <2>1
    <3>4. CASE c \notin counted
      <4>1. Cardinality((states \cap counted) \cup {c}) = Cardinality(states \cap counted) + 1
        BY Zenon, <3>4, <2>2, OneMore
      <4> QED BY Zenon, <3>1, <3>2, <3>4, <4>1, <2>1
    <3> QED BY Zenon, <3>3, <3>4
  <2>5. \A i \in IPs : byIP'[i] = Cardinality(From(i)') /\ byIP'[i] <= MaxPerIP
    BY <2>1 DEF QuotaInv, From
  <2>6. Cardinality(states') <= MaxConnections
    BY <2>1 DEF QuotaInv
  <2>7. QuotaInv'
    BY ZenonT(40), <2>3, <2>4, <2>5, <2>6, <1>1 DEF QuotaInv
  <2>8. byAuth' \in [AuthKeys -> Int]
    BY SMTT(30), <2>1, HasCounters DEF Types
  <2>9. activeSessions' \in Int
    BY <2>1 DEF Types
  <2> QED BY Zenon, <2>1, <2>7, <2>8, <2>9, <1>1
<1> QED BY Zenon, <1>2, <1>3

LEMMA AdmitStep ==
  ASSUME LifeInv, NEW l \in Listeners, Admit(l)
  PROVE  LifeInv'
<1> DEFINE c == serving[l]
<1>p. Types /\ ServeInv /\ PlaceInv /\ RequestInv /\ QuotaInv /\ HandlerInv /\ StopInv
  BY ZenonT(40) DEF LifeInv
<1>1. c \in Conns /\ pc[c] = "listed" /\ ~Full(c)
  BY <1>p DEF Admit, ServeInv
<1>2. /\ pc' = [pc EXCEPT ![c] = "admitted"] /\ states' = states \cup {c}
      /\ byIP' = [byIP EXCEPT ![IpOf[c]] = @ + 1]
      /\ UNCHANGED <<stop, serve, serving, byAuth, activeSessions, authCounted, counted, req, slots, activeHandlers,
                     connections, bound>>
  BY Zenon DEF Admit, stopVars, serveVars, handlerVars
<1> HIDE DEF c
<1>3. "admitted" \in ConnPlaces
  BY DEF ConnPlaces
<1>4. pc' \in [Conns -> ConnPlaces] /\ pc'[c] = "admitted" /\ \A d \in Conns : d # c => pc'[d] = pc[d]
  BY Zenon, <1>1, <1>2, <1>3, <1>p, ConnMove
<1>5. Types' /\ ServeInv'
  <2>1. byIP' \in [IPs -> Int]
    BY <1>1, <1>2, <1>p, HasCounters DEF Types
  <2> QED BY ZenonT(40), <2>1, <1>2, <1>4, <1>p DEF Types, ServeInv
<1>6. PlaceInv'
  <2>1. /\ connections' = connections \cup {c} /\ c \notin bound
        /\ authCounted' \subseteq states' /\ counted' \subseteq states'
    BY ZenonT(40), <1>1, <1>2, <1>p DEF PlaceInv
  <2> QED BY Zenon, <2>1, <1>1, <1>2, <1>3, <1>p, PlaceMove
<1>7. RequestInv'
  <2>1. \A d \in Conns : pc[d] \in {"run", "drain"} => pc'[d] \in {"run", "drain"}
    BY <1>1, <1>4
  <2> QED BY <2>1, <1>2, <1>p, RequestsKept
<1>8. QuotaInv' /\ HandlerInv' /\ StopInv'
  BY Zenon, <1>1, <1>2, <1>p, AdmitQuota, HandlersKept DEF StopInv
<1> QED BY Zenon, <1>5, <1>6, <1>7, <1>8, LifeParts

\* A connection without a session and without requests ends, in the accept loop
\* or in its goroutine.
LEMMA EndStep ==
  ASSUME LifeInv, NEW c \in Conns, c \in states, c \notin bound, InFlight(c) = {}, GiveBack(c),
         NEW to \in {"finished", "gone"}, pc' = [pc EXCEPT ![c] = to],
         connections' = IF to = "finished" THEN connections ELSE connections \ {c},
         UNCHANGED <<stop, req, slots, activeHandlers, bound>>,
         serve' \in [Listeners -> ServePlaces], serving' \in [Listeners -> Conns \cup {Nobody}], ServeInv'
  PROVE  LifeInv'
<1>p. Types /\ PlaceInv /\ RequestInv /\ QuotaInv /\ HandlerInv /\ StopInv
  BY Zenon DEF LifeInv
<1>1. to \in ConnPlaces /\ to \notin {"admitted", "run", "drain"}
  BY DEF ConnPlaces
<1>2. pc' \in [Conns -> ConnPlaces] /\ pc'[c] = to /\ \A d \in Conns : d # c => pc'[d] = pc[d]
  BY ZenonT(40), <1>1, <1>p, ConnMove
<1>3. Types'
  <2>1. byIP' \in [IPs -> Int]
    BY SMTT(30), <1>p, HasCounters DEF GiveBack, Types
  <2>2. byAuth' \in [AuthKeys -> Int]
    BY SMTT(30), <1>p, HasCounters DEF GiveBack, Types
  <2>3. activeSessions' \in Int
    BY <1>p DEF GiveBack, Types
  <2> QED BY ZenonT(40), <2>1, <2>2, <2>3, <1>2, <1>p DEF Types
<1>4. PlaceInv'
  <2>1. /\ states' = states \ {c} /\ authCounted' \subseteq states' /\ counted' \subseteq states'
        /\ c \in connections
    BY Zenon, <1>p DEF GiveBack, PlaceInv
  <2>2. connections' = IF to \in {"listed", "admitted", "run", "drain", "finished"}
                       THEN connections \cup {c} ELSE connections \ {c}
    BY Zenon, <2>1
  <2> QED BY ZenonT(40), <2>1, <2>2, <1>1, <1>p, PlaceMove
<1>5. RequestInv'
  <2>1. \A d \in Conns : pc[d] \in {"run", "drain"} => pc'[d] \in {"run", "drain"} \/ InFlight(d) = {}
    BY Zenon, <1>2
  <2> QED BY <2>1, <1>p, RequestsKept
<1>6. IsFiniteSet(connections')
  <2>1. IsFiniteSet(connections) /\ IsFiniteSet(connections \ {c})
    BY Zenon, <1>p, FS_RemoveElement DEF QuotaInv
  <2> QED BY Zenon, <2>1
<1>7. QuotaInv' /\ HandlerInv'
  BY Zenon, <1>6, <1>p, GiveBackQuota, HandlersKept
<1>8. StopInv'
  BY <1>p DEF StopInv
<1> QED BY Zenon, <1>3, <1>4, <1>5, <1>7, <1>8, LifeParts

LEMMA SetupFailsStep ==
  ASSUME LifeInv, NEW l \in Listeners, SetupFails(l)
  PROVE  LifeInv'
<1> DEFINE c == serving[l]
<1>p. Types /\ ServeInv /\ PlaceInv /\ RequestInv
  BY Zenon DEF LifeInv
<1>1. c \in Conns /\ pc[c] = "admitted"
  BY <1>p DEF SetupFails, ServeInv
<1>2. /\ GiveBack(c) /\ pc' = [pc EXCEPT ![c] = "gone"] /\ connections' = connections \ {c} /\ Served(l, "done")
      /\ UNCHANGED <<stop, req, slots, activeHandlers, bound>>
  BY Zenon DEF SetupFails, stopVars, handlerVars
<1> HIDE DEF c
<1>3. c \in states /\ c \notin bound
  BY <1>1, <1>p DEF PlaceInv
<1>4. InFlight(c) = {}
  BY Zenon, <1>1, <1>p DEF InFlight, RequestInv
<1>5. /\ serve' \in [Listeners -> ServePlaces] /\ serving' \in [Listeners -> Conns \cup {Nobody}] /\ ServeInv'
  BY <1>2, <1>p DEF Served, Types, ServeInv, ServePlaces
<1> QED BY Zenon, <1>1, <1>2, <1>3, <1>4, <1>5, EndStep

LEMMA FinishStep ==
  ASSUME LifeInv, NEW c \in Conns, Finish(c)
  PROVE  LifeInv'
<1>p. Types /\ ServeInv /\ PlaceInv
  BY Zenon DEF LifeInv
<1>1. /\ pc[c] = "drain" /\ c \notin bound /\ InFlight(c) = {} /\ GiveBack(c) /\ pc' = [pc EXCEPT ![c] = "finished"]
      /\ UNCHANGED <<stop, serve, serving, req, slots, activeHandlers, connections, bound>>
  BY Zenon DEF Finish, stopVars, serveVars, handlerVars
<1>2. c \in states
  BY <1>1, <1>p DEF PlaceInv
<1>3. /\ serve' \in [Listeners -> ServePlaces] /\ serving' \in [Listeners -> Conns \cup {Nobody}] /\ ServeInv'
  BY <1>1, <1>p DEF Types, ServeInv
<1> QED BY Zenon, <1>1, <1>2, <1>3, EndStep

\* Steps that leave every connection where it is.
LEMMA StayStep ==
  ASSUME LifeInv, UNCHANGED <<stop, serve, serving, pc, connections, states, byIP>>,
         QuotaInv', byAuth' \in [AuthKeys -> Int], activeSessions' \in Int,
         authCounted' \subseteq states', counted' \subseteq states',
         bound' \subseteq {c \in Conns : pc[c] \in {"run", "drain"}},
         RequestInv', HandlerInv', req' \in [Requests -> ReqPlaces], activeHandlers' \in Int
  PROVE  LifeInv'
<1>p. Types /\ ServeInv /\ PlaceInv /\ StopInv
  BY Zenon DEF LifeInv
<1>1. Types' /\ ServeInv'
  BY Zenon, <1>p DEF Types, ServeInv
<1>2. PlaceInv'
  BY Zenon, <1>p DEF PlaceInv
<1>3. StopInv'
  BY <1>p DEF StopInv
<1> QED BY Zenon, <1>1, <1>2, <1>3, LifeParts

LEMMA BindSessionStep ==
  ASSUME LifeInv, NEW c \in Conns, BindSession(c)
  PROVE  LifeInv'
<1>p. Types /\ PlaceInv /\ RequestInv /\ QuotaInv /\ HandlerInv
  BY Zenon DEF LifeInv
<1>1. /\ pc[c] = "run" /\ bound' = bound \cup {c} /\ Bound(c)
      /\ UNCHANGED <<stop, serve, serving, req, slots, activeHandlers, pc, connections>>
  BY Zenon DEF BindSession, stopVars, serveVars, handlerVars
<1>2. /\ QuotaInv' /\ UNCHANGED <<states, byIP>> /\ byAuth' \in [AuthKeys -> Int] /\ activeSessions' \in Int
      /\ authCounted' \subseteq states' /\ counted' \subseteq states'
  BY ZenonT(40), <1>1, <1>p, BoundQuota
<1>3. bound' \subseteq {d \in Conns : pc[d] \in {"run", "drain"}}
  BY Zenon, <1>1, <1>p DEF PlaceInv
<1>4. RequestInv' /\ HandlerInv'
  BY ZenonT(40), <1>1, <1>p, RequestsKept, HandlersKept
<1>5. req' \in [Requests -> ReqPlaces] /\ activeHandlers' \in Int
  BY <1>1, <1>p DEF Types
<1> QED BY Zenon, <1>1, <1>2, <1>3, <1>4, <1>5, StayStep

LEMMA UnbindSessionStep ==
  ASSUME LifeInv, NEW c \in Conns, UnbindSession(c)
  PROVE  LifeInv'
<1>p. Types /\ PlaceInv /\ RequestInv /\ QuotaInv /\ HandlerInv
  BY Zenon DEF LifeInv
<1>1. /\ bound' = bound \ {c} /\ counted' = counted \ {c}
      /\ activeSessions' = IF c \in counted THEN activeSessions - 1 ELSE activeSessions
      /\ UNCHANGED <<stop, serve, serving, req, slots, activeHandlers, pc, connections, states, byIP, byAuth, authCounted>>
  BY Zenon DEF UnbindSession, stopVars, serveVars, handlerVars
<1>2. activeSessions' = Cardinality(states' \cap counted')
  <2>1. activeSessions = Cardinality(states \cap counted) /\ IsFiniteSet(states \cap counted)
    BY Zenon, <1>p, StatesFinite DEF QuotaInv
  <2>2. states' \cap counted' = (states \cap counted) \ {c} /\ counted \subseteq states
    BY <1>1, <1>p DEF PlaceInv
  <2>3. CASE c \in counted
    <3>1. Cardinality((states \cap counted) \ {c}) = Cardinality(states \cap counted) - 1
      BY ZenonT(40), <2>1, <2>2, <2>3, OneLess
    <3> QED BY <2>1, <2>2, <2>3, <3>1, <1>1
  <2>4. CASE c \notin counted
    <3>1. (states \cap counted) \ {c} = states \cap counted
      BY Zenon, <2>4
    <3> QED BY Zenon, <2>1, <2>2, <2>4, <3>1, <1>1
  <2> QED BY Zenon, <2>3, <2>4
<1>3. QuotaInv'
  <2>1. /\ \A i \in IPs : From(i)' = From(i)
        /\ \A a \in AuthKeys : Charged(a)' = Charged(a)
    BY <1>1 DEF From, Charged
  <2> QED BY Zenon, <2>1, <1>1, <1>2, <1>p DEF QuotaInv
<1>4. /\ byAuth' \in [AuthKeys -> Int] /\ activeSessions' \in Int
      /\ req' \in [Requests -> ReqPlaces] /\ activeHandlers' \in Int
  BY <1>1, <1>p DEF Types
<1>5. /\ authCounted' \subseteq states' /\ counted' \subseteq states'
      /\ bound' \subseteq {d \in Conns : pc[d] \in {"run", "drain"}}
  BY <1>1, <1>p DEF PlaceInv
<1>6. RequestInv' /\ HandlerInv'
  BY <1>1, <1>p, RequestsKept, HandlersKept
<1> QED BY Zenon, <1>1, <1>3, <1>4, <1>5, <1>6, StayStep

-----------------------------------------------------------------------------
(* Requests *)

\* A request moves on; a slot and a count go with its place.
LEMMA ReqMove ==
  ASSUME Types, RequestInv, HandlerInv, NEW r \in Requests, NEW to \in ReqPlaces, ReqTo(r, to), UNCHANGED pc,
         to \notin {"idle", "ended"} => pc[ConnOf[r]] \in {"run", "drain"},
         slots' = IF to \in {"slot", "run"} THEN slots \cup {r} ELSE slots \ {r},
         activeHandlers' = CASE to \in {"run", "freed", "refused"} /\ r \notin Running -> activeHandlers + 1
                             [] to \notin {"run", "freed", "refused"} /\ r \in Running -> activeHandlers - 1
                             [] OTHER -> activeHandlers
  PROVE  RequestInv' /\ HandlerInv' /\ req' \in [Requests -> ReqPlaces] /\ activeHandlers' \in Int
<1> DEFINE run == to \in {"run", "freed", "refused"}
<1>1. req' \in [Requests -> ReqPlaces] /\ req'[r] = to /\ \A x \in Requests : x # r => req'[x] = req[x]
  BY DEF Types, ReqTo
<1>2. RequestInv'
  BY <1>1 DEF RequestInv
<1>3. Running' = IF run THEN Running \cup {r} ELSE Running \ {r}
  BY <1>1 DEF Running
<1>4. IsFiniteSet(Running) /\ activeHandlers = Cardinality(Running) /\ activeHandlers \in Int
  BY Zenon DEF HandlerInv, Types
<1> HIDE DEF run
<1>5. activeHandlers' = IF run /\ r \notin Running THEN activeHandlers + 1
                        ELSE IF ~run /\ r \in Running THEN activeHandlers - 1 ELSE activeHandlers
  BY DEF run
<1>6. CASE run /\ r \notin Running
  <2>1. IsFiniteSet(Running \cup {r}) /\ Cardinality(Running \cup {r}) = Cardinality(Running) + 1
    BY Zenon, <1>4, <1>6, OneMore
  <2> QED BY SMTT(30), <2>1, <1>1, <1>2, <1>3, <1>4, <1>5, <1>6 DEF HandlerInv
<1>7. CASE ~run /\ r \in Running
  <2>1. IsFiniteSet(Running \ {r}) /\ Cardinality(Running \ {r}) = Cardinality(Running) - 1
    BY Zenon, <1>4, <1>7, OneLess
  <2> QED BY SMTT(30), <2>1, <1>1, <1>2, <1>3, <1>4, <1>5, <1>7 DEF HandlerInv
<1>8. CASE run <=> r \in Running
  <2>1. Running' = Running
    BY <1>3, <1>8
  <2> QED BY SMTT(30), <2>1, <1>1, <1>2, <1>4, <1>5, <1>8 DEF HandlerInv
<1> QED BY Zenon, <1>6, <1>7, <1>8

\* A request's steps leave everything but the handlers alone.
LEMMA RequestStep ==
  ASSUME LifeInv, NEW r \in Requests, NEW to \in ReqPlaces, ReqTo(r, to), OnlyRequests,
         to \notin {"idle", "ended"} => pc[ConnOf[r]] \in {"run", "drain"},
         slots' = IF to \in {"slot", "run"} THEN slots \cup {r} ELSE slots \ {r},
         activeHandlers' = CASE to \in {"run", "freed", "refused"} /\ r \notin Running -> activeHandlers + 1
                             [] to \notin {"run", "freed", "refused"} /\ r \in Running -> activeHandlers - 1
                             [] OTHER -> activeHandlers
  PROVE  LifeInv'
<1>p. Types /\ PlaceInv /\ RequestInv /\ QuotaInv /\ HandlerInv
  BY Zenon DEF LifeInv
<1>1. UNCHANGED <<stop, serve, serving, pc, connections, bound, states, byIP, byAuth, activeSessions, authCounted, counted>>
  BY Zenon DEF OnlyRequests, stopVars, serveVars, quotaVars
<1>2. UNCHANGED pc
  BY Zenon, <1>1
<1>3. RequestInv' /\ HandlerInv' /\ req' \in [Requests -> ReqPlaces] /\ activeHandlers' \in Int
  BY Zenon, <1>2, <1>p, ReqMove
<1>4. QuotaInv'
  <2>1. IsFiniteSet(connections')
    BY ZenonT(40), <1>1, <1>p DEF QuotaInv
  <2> QED BY Zenon, <2>1, <1>1, <1>p, QuotaKept
<1>5. /\ byAuth' \in [AuthKeys -> Int] /\ activeSessions' \in Int
      /\ authCounted' \subseteq states' /\ counted' \subseteq states'
      /\ bound' \subseteq {c \in Conns : pc[c] \in {"run", "drain"}}
  BY <1>1, <1>p DEF Types, PlaceInv
<1> QED BY SMTT(30), <1>1, <1>3, <1>4, <1>5, StayStep

\* Where a request's connection is while the request is under way, and which
\* requests hold a slot or are counted.
LEMMA RequestAt ==
  ASSUME LifeInv, NEW r \in Requests
  PROVE  /\ req[r] \notin {"idle", "ended"} => pc[ConnOf[r]] \in {"run", "drain"}
         /\ r \in slots <=> req[r] \in {"slot", "run"}
         /\ r \in Running <=> req[r] \in {"run", "freed", "refused"}
BY Zenon DEF LifeInv, RequestInv, Running

LEMMA RequestsStep ==
  ASSUME LifeInv, NEW r \in Requests,
         Dispatch(r) \/ TakeSlot(r) \/ GiveUp(r) \/ RunHandler(r) \/ Release(r) \/ Uncount(r)
  PROVE  LifeInv'
<1> USE RequestAt DEF ReqPlaces
<1>1. CASE Dispatch(r)
  <2>1. PICK to \in {"ended", "wait"} : ReqTo(r, to) /\ pc[ConnOf[r]] = "run" /\ req[r] = "idle" /\ OnlyRequests
                                        /\ UNCHANGED <<slots, activeHandlers>>
    BY Zenon, <1>1 DEF Dispatch
  <2> QED BY SMTT(30), <2>1, RequestStep
<1>2. CASE TakeSlot(r)
  <2>1. ReqTo(r, "slot") /\ req[r] = "wait" /\ OnlyRequests /\ slots' = slots \cup {r} /\ UNCHANGED activeHandlers
    BY Zenon, <1>2 DEF TakeSlot
  <2> QED BY Zenon, <2>1, RequestStep
<1>3. CASE GiveUp(r)
  <2>1. ReqTo(r, "ended") /\ req[r] = "wait" /\ OnlyRequests /\ UNCHANGED <<slots, activeHandlers>>
    BY Zenon, <1>3 DEF GiveUp
  <2> QED BY <2>1, RequestStep
<1>4. CASE RunHandler(r) /\ Stopping
  <2>1. ReqTo(r, "refused") /\ req[r] = "slot" /\ OnlyRequests /\ slots' = slots \ {r} /\ activeHandlers' = activeHandlers + 1
    BY Zenon, <1>4 DEF RunHandler
  <2> QED BY <2>1, RequestStep
<1>5. CASE RunHandler(r) /\ ~Stopping
  <2>1. ReqTo(r, "run") /\ req[r] = "slot" /\ OnlyRequests /\ slots' = slots /\ activeHandlers' = activeHandlers + 1
    BY Zenon, <1>5 DEF RunHandler
  <2> QED BY <2>1, RequestStep
<1>6. CASE Release(r)
  <2>1. ReqTo(r, "freed") /\ req[r] = "run" /\ OnlyRequests /\ slots' = slots \ {r} /\ UNCHANGED activeHandlers
    BY Zenon, <1>6 DEF Release
  <2> QED BY <2>1, RequestStep
<1>7. CASE Uncount(r)
  <2>1. PICK to \in {"ended", "notify"} : ReqTo(r, to) /\ req[r] \in {"freed", "refused"} /\ OnlyRequests
                                          /\ slots' = slots /\ activeHandlers' = activeHandlers - 1
    BY Zenon, <1>7 DEF Uncount
  <2> QED BY <2>1, RequestStep
<1> QED BY SMTT(30), <1>1, <1>2, <1>3, <1>4, <1>5, <1>6, <1>7

LEMMA NotifyStep ==
  ASSUME LifeInv, NEW r \in Requests, Notify(r)
  PROVE  LifeInv'
<1>p. Types /\ PlaceInv /\ RequestInv /\ QuotaInv /\ HandlerInv
  BY Zenon DEF LifeInv
<1>1. /\ req[r] = "notify" /\ Bound(ConnOf[r]) /\ ReqTo(r, "ended")
      /\ UNCHANGED <<stop, serve, serving, slots, activeHandlers, pc, connections, bound>>
  BY Zenon DEF Notify, stopVars, serveVars
<1>2. ConnOf[r] \in Conns
  BY ServerAssumption
<1>3. /\ QuotaInv' /\ UNCHANGED <<states, byIP>> /\ byAuth' \in [AuthKeys -> Int] /\ activeSessions' \in Int
      /\ authCounted' \subseteq states' /\ counted' \subseteq states'
  BY Zenon, <1>1, <1>2, <1>p, BoundQuota
<1>4. RequestInv' /\ HandlerInv' /\ req' \in [Requests -> ReqPlaces] /\ activeHandlers' \in Int
  <2>1. "ended" \in ReqPlaces
    BY DEF ReqPlaces
  <2>2. r \notin slots /\ r \notin Running
    BY Zenon, <1>1, RequestAt
  <2> QED BY Zenon, <2>1, <2>2, <1>1, <1>p, ReqMove
<1>5. bound' \subseteq {c \in Conns : pc[c] \in {"run", "drain"}}
  BY <1>1, <1>p DEF PlaceInv
<1> QED BY Zenon, <1>1, <1>3, <1>4, <1>5, StayStep

-----------------------------------------------------------------------------
(* Stop, and the theorems *)

LEMMA StopsStep ==
  ASSUME LifeInv, StopBegins \/ StopStep
  PROVE  LifeInv'
<1>p. Types /\ ServeInv /\ PlaceInv /\ RequestInv /\ QuotaInv /\ HandlerInv
  BY ZenonT(40) DEF LifeInv
<1>1. /\ UNCHANGED <<serve, serving, states, byIP, byAuth, activeSessions, authCounted, counted,
                     req, slots, activeHandlers, pc, connections, bound>>
      /\ stop' = "done" => connections = {}
  BY Zenon DEF StopBegins, StopStep, StopListeners, StopForces, StopEnds, stopVars, serveVars, quotaVars, handlerVars
<1>2. Types' /\ ServeInv'
  BY Zenon, <1>1, <1>p DEF Types, ServeInv
<1>3. PlaceInv' /\ StopInv'
  BY <1>1, <1>p DEF PlaceInv, StopInv
<1>4. RequestInv' /\ HandlerInv'
  BY Zenon, <1>1, <1>p, RequestsKept, HandlersKept
<1>5. QuotaInv'
  <2>1. IsFiniteSet(connections')
    BY Zenon, <1>1, <1>p DEF QuotaInv
  <2> QED BY <2>1, <1>1, <1>p, QuotaKept
<1> QED BY Zenon, <1>2, <1>3, <1>4, <1>5, LifeParts

LEMMA StutterStep ==
  ASSUME LifeInv, UNCHANGED vars
  PROVE  LifeInv'
<1>1. UNCHANGED <<stop, serve, serving, states, byIP, byAuth, activeSessions, authCounted, counted,
                  req, slots, activeHandlers, pc, connections, bound>>
  BY ZenonT(40) DEF vars, stopVars, serveVars, quotaVars, handlerVars
<1>2. UNCHANGED <<Types, ServeInv, PlaceInv>>
  BY Zenon, <1>1 DEF Types, ServeInv, PlaceInv
<1>3. UNCHANGED <<RequestInv, HandlerInv, StopInv>>
  BY Zenon, <1>1 DEF RequestInv, HandlerInv, StopInv, Running
<1>4. QuotaInv => QuotaInv'
  <2>1. IsFiniteSet(connections) => IsFiniteSet(connections')
    BY Zenon, <1>1
  <2> QED BY Zenon, <2>1, <1>1, QuotaKept DEF QuotaInv
<1> QED BY Zenon, <1>2, <1>3, <1>4 DEF LifeInv

\* Every step keeps the invariant.
LEMMA LifeInvStep == LifeInv /\ [Next]_vars => LifeInv'
<1> SUFFICES ASSUME LifeInv, [Next]_vars PROVE LifeInv'
  OBVIOUS
<1>1. ASSUME NEW l \in Listeners, ServeStep(l) \/ AcceptFails(l) PROVE LifeInv'
  <2>1. CASE Register(l) \/ AcceptFails(l)
    <3>1. PICK at \in {"done", "accept"} :
            /\ serve' = [serve EXCEPT ![l] = at]
            /\ UNCHANGED <<stopVars, serving, quotaVars, handlerVars, pc, connections, bound>>
      BY Zenon, <2>1 DEF Register, AcceptFails
    <3>2. at \in ServePlaces \ {"serve"}
      BY DEF ServePlaces
    <3> QED BY Zenon, <3>1, <3>2, LoopStep
  <2> QED BY Zenon, <1>1, <2>1, ServeConnStep, AdmitStep, RefuseStep, StartStep, SetupFailsStep DEF ServeStep
<1>2. ASSUME NEW l \in Listeners, NEW c \in Conns, Accept(l, c) PROVE LifeInv'
  BY Zenon, <1>2, AcceptStep
<1>3. ASSUME NEW c \in Conns, BindSession(c) \/ UnbindSession(c) \/ RunEnds(c) \/ Finish(c) \/ Disown(c)
      PROVE  LifeInv'
  BY Zenon, <1>3, BindSessionStep, UnbindSessionStep, RunEndsStep, FinishStep, DisownStep
<1>4. ASSUME NEW r \in Requests, Dispatch(r) \/ HandlerStep(r) \/ Release(r) PROVE LifeInv'
  BY Zenon, <1>4, RequestsStep, NotifyStep DEF HandlerStep
<1>5. CASE StopBegins \/ StopStep
  BY Zenon, <1>5, StopsStep
<1>6. CASE UNCHANGED vars
  BY Zenon, <1>6, StutterStep
<1> QED BY Zenon, <1>1, <1>2, <1>3, <1>4, <1>5, <1>6 DEF Next

\* Every reachable state satisfies the inductive invariant: a connection's place
\* determines which of the server's maps it is in, and the counters follow the
\* maps (server.go, resource_controls.go).
THEOREM LifecycleInvariant == Spec => []LifeInv
BY InitLife, LifeInvStep, PTL DEF Spec

\* The quotas are exact and kept: a connection, a session or a handler is counted
\* once while it is there, and uncounted once, whichever way it ends
\* (resource_controls.go:210-361).
THEOREM QuotasAreExact == Spec => []CountsExact
<1>1. LifeInv => CountsExact
  BY DEF LifeInv, QuotaInv, HandlerInv, CountsExact, From, Charged, Running
<1> QED BY <1>1, LifecycleInvariant, PTL

\* Stop leaves nothing behind: what it waits for, the owned connections, bounds
\* everything else the server counts (server.go:337-379).
THEOREM StopLeavesNothing == Spec => []StopIsComplete
<1>1. LifeInv => StopIsComplete
  <2> SUFFICES ASSUME LifeInv, stop = "done" PROVE StopIsComplete
    BY DEF StopIsComplete
  <2>p. Types /\ PlaceInv /\ RequestInv /\ QuotaInv /\ HandlerInv /\ StopInv
    BY Zenon DEF LifeInv
  <2>1. connections = {}
    BY Zenon, <2>p DEF StopInv
  <2>2. /\ states = {} /\ bound = {}
        /\ \A c \in Conns : pc[c] \in {"new", "accepted", "gone"}
    BY <2>1, <2>p DEF PlaceInv, Types, ConnPlaces
  <2>3. \A r \in Requests : ConnOf[r] \in Conns
    BY ServerAssumption
  <2>4. \A r \in Requests : req[r] \in {"idle", "ended"}
    BY Zenon, <2>2, <2>3, <2>p DEF RequestInv
  <2>5. slots = {} /\ Running = {}
    BY <2>4, <2>p DEF RequestInv, Running
  <2>6. Cardinality({}) = 0
    BY Zenon, FS_EmptySet
  <2>7. activeHandlers = 0 /\ activeSessions = 0
    BY Zenon, <2>2, <2>5, <2>6, <2>p DEF HandlerInv, QuotaInv
  <2>8. \A i \in IPs : byIP[i] = 0
    <3>1. \A i \in IPs : From(i) = {}
      BY <2>2 DEF From
    <3> QED BY Zenon, <3>1, <2>6, <2>p DEF QuotaInv
  <2> QED BY ZenonT(40), <2>1, <2>2, <2>4, <2>5, <2>7, <2>8 DEF StopIsComplete
<1> QED BY <1>1, LifecycleInvariant, PTL
=============================================================================
