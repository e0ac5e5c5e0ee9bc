--------------------------- MODULE ServerLifecycle ---------------------------
(***************************************************************************)
(* The server: accept loops (Serve, ServeTransport), connection ownership  *)
(* (serveConn), admission and its quotas (admitConnection,                 *)
(* handleObservedSessionBound, acquireHandler) and Stop, from server.go    *)
(* and resource_controls.go.  A section under lifecycleMu is one step.     *)
(* What a connection does while it runs is ConnectionSessions; here it     *)
(* binds at most one session at a time and runs requests on it.            *)
(***************************************************************************)
EXTENDS Naturals, FiniteSets

CONSTANTS Listeners, Conns, Requests, Nobody,
          IpOf,             \* remote address of a connection
          AuthOf,           \* authorization key its sessions use
          ConnOf,           \* connection of a request
          MaxConnections, MaxPerIP, MaxPerAuthKey, MaxHandlers

ASSUME ServerAssumption ==
  /\ MaxConnections \in Nat /\ MaxPerIP \in Nat /\ MaxPerAuthKey \in Nat /\ MaxHandlers \in Nat
  /\ ConnOf \in [Requests -> Conns] /\ Nobody \notin Conns

VARIABLES
  stop,        \* where Stop is: "no", "listeners", "grace", "wait", "done"
  serve,       \* where each accept loop is
  serving,     \* the connection it is admitting
  deaf,        \* listeners that are closed
  pc,          \* where each connection is
  closed,      \* transports that are closed
  connections, \* s.connections; connectionWG counts its members
  owned,       \* the connections Stop will close by force
  states,      \* s.connectionStates and s.connectionByID
  byIP, byAuth, activeSessions,
  authCounted, \* connections with state.authCounted
  counted,     \* connections whose session is in state.activeSessions
  bound,       \* connections with a session
  req,         \* where each request is
  slots,       \* requests that hold a handler slot
  activeHandlers

stopVars == <<stop, owned>>
serveVars == <<serve, serving, deaf>>
quotaVars == <<states, byIP, byAuth, activeSessions, authCounted, counted>>
handlerVars == <<req, slots, activeHandlers>>
vars == <<stopVars, serveVars, quotaVars, handlerVars, pc, closed, connections, bound>>

IPs == {IpOf[c] : c \in Conns}
AuthKeys == {AuthOf[c] : c \in Conns}
Stopping == stop # "no"       \* shutdownCh is closed

TypeOK ==
  /\ stop \in {"no", "listeners", "grace", "wait", "done"}
  /\ serve \in [Listeners -> {"start", "accept", "serve", "done"}]
  /\ serving \in [Listeners -> Conns \cup {Nobody}]
  /\ deaf \subseteq Listeners
  /\ pc \in [Conns -> {"new", "accepted", "listed", "admitted", "run", "drain", "finished", "gone"}]
  /\ \A s \in {closed, connections, owned, states, authCounted, counted, bound} : s \subseteq Conns
  /\ byIP \in [IPs -> Nat] /\ byAuth \in [AuthKeys -> Nat] /\ activeSessions \in Nat
  /\ req \in [Requests -> {"idle", "wait", "slot", "run", "refused", "freed", "notify", "ended"}]
  /\ slots \subseteq Requests /\ activeHandlers \in Nat

Init ==
  /\ stop = "no" /\ owned = {}
  /\ serve = [l \in Listeners |-> "start"] /\ serving = [l \in Listeners |-> Nobody]
  /\ deaf = {}
  /\ pc = [c \in Conns |-> "new"] /\ closed = {} /\ connections = {} /\ bound = {}
  /\ states = {} /\ byIP = [i \in IPs |-> 0] /\ byAuth = [a \in AuthKeys |-> 0]
  /\ activeSessions = 0 /\ authCounted = {} /\ counted = {}
  /\ req = [r \in Requests |-> "idle"] /\ slots = {} /\ activeHandlers = 0

-----------------------------------------------------------------------------
(* Accept loops *)

\* registerListener refuses a stopped server, and Serve returns.
Register(l) ==
  /\ serve[l] = "start"
  /\ serve' = [serve EXCEPT ![l] = IF Stopping THEN "done" ELSE "accept"]
  /\ UNCHANGED <<stopVars, serving, deaf, quotaVars, handlerVars, pc, closed, connections, bound>>

Accept(l, c) ==
  /\ serve[l] = "accept" /\ l \notin deaf /\ pc[c] = "new"
  /\ serve' = [serve EXCEPT ![l] = "serve"]
  /\ serving' = [serving EXCEPT ![l] = c]
  /\ pc' = [pc EXCEPT ![c] = "accepted"]
  /\ UNCHANGED <<stopVars, deaf, quotaVars, handlerVars, closed, connections, bound>>

\* Accept fails, at the latest when the listener is closed, and Serve returns.
AcceptFails(l) ==
  /\ serve[l] = "accept"
  /\ serve' = [serve EXCEPT ![l] = "done"]
  /\ UNCHANGED <<stopVars, serving, deaf, quotaVars, handlerVars, pc, closed, connections, bound>>

\* serveConn is over: the loop accepts again, or Serve returns.
Served(l, at) ==
  /\ serve' = [serve EXCEPT ![l] = at]
  /\ serving' = [serving EXCEPT ![l] = Nobody]

\* Mutant: a connection accepted while the server stops is served.
ServeAlways(l) ==
  LET c == serving[l] IN
  /\ serve[l] = "serve" /\ pc[c] = "accepted"
  /\ connections' = connections \cup {c}
  /\ pc' = [pc EXCEPT ![c] = "listed"]
  /\ UNCHANGED <<stopVars, serveVars, quotaVars, handlerVars, closed, bound>>

\* serveConn: own the connection, unless the server has stopped meanwhile.
ServeConn(l) ==
  LET c == serving[l] IN
  /\ serve[l] = "serve" /\ pc[c] = "accepted"
  /\ IF Stopping
     THEN /\ closed' = closed \cup {c}
          /\ pc' = [pc EXCEPT ![c] = "gone"]
          /\ Served(l, "done")
          /\ UNCHANGED connections
     ELSE /\ connections' = connections \cup {c}
          /\ pc' = [pc EXCEPT ![c] = "listed"]
          /\ UNCHANGED <<closed, serve, serving>>
  /\ UNCHANGED <<stopVars, deaf, quotaVars, handlerVars, bound>>

\* admitConnection: connections that are still being admitted count as well.
Full(c) == Cardinality(connections) > MaxConnections \/ byIP[IpOf[c]] >= MaxPerIP

Admit(l) ==
  LET c == serving[l] IN
  /\ serve[l] = "serve" /\ pc[c] = "listed" /\ ~Full(c)
  /\ pc' = [pc EXCEPT ![c] = "admitted"]
  /\ states' = states \cup {c}
  /\ byIP' = [byIP EXCEPT ![IpOf[c]] = @ + 1]
  /\ UNCHANGED <<stopVars, serveVars, byAuth, activeSessions, authCounted, counted, handlerVars,
                 closed, connections, bound>>

\* A refused connection is closed and given up; the loop goes on.
Refuse(l) ==
  LET c == serving[l] IN
  /\ serve[l] = "serve" /\ pc[c] = "listed" /\ Full(c)
  /\ pc' = [pc EXCEPT ![c] = "gone"]
  /\ closed' = closed \cup {c}
  /\ connections' = connections \ {c}
  /\ Served(l, "accept")
  /\ UNCHANGED <<stopVars, deaf, quotaVars, handlerVars, bound>>

\* NewConnection succeeds and the connection's goroutine starts.
Start(l) ==
  LET c == serving[l] IN
  /\ serve[l] = "serve" /\ pc[c] = "admitted"
  /\ pc' = [pc EXCEPT ![c] = "run"]
  /\ Served(l, "accept")
  /\ UNCHANGED <<stopVars, deaf, quotaVars, handlerVars, closed, connections, bound>>

-----------------------------------------------------------------------------
(* Quotas *)

\* finishConnection: everything that is counted for the connection is given back.
GiveBack(c) ==
  /\ states' = states \ {c}
  /\ byIP' = [byIP EXCEPT ![IpOf[c]] = @ - 1]
  /\ byAuth' = [byAuth EXCEPT ![AuthOf[c]] = IF c \in authCounted THEN @ - 1 ELSE @]
  /\ activeSessions' = IF c \in counted THEN activeSessions - 1 ELSE activeSessions
  /\ authCounted' = authCounted \ {c}
  /\ counted' = counted \ {c}

\* The setup fails: the loop gives the connection up, and Serve returns.
SetupFails(l) ==
  LET c == serving[l] IN
  /\ serve[l] = "serve" /\ pc[c] = "admitted"
  /\ GiveBack(c)
  /\ pc' = [pc EXCEPT ![c] = "gone"]
  /\ connections' = connections \ {c}
  /\ closed' = closed \cup {c}
  /\ Served(l, "done")
  /\ UNCHANGED <<stopVars, deaf, handlerVars, bound>>

\* Mutant: the session is counted again each time its binding changes.
BoundAgain(c) ==
  /\ c \in states
  /\ authCounted' = authCounted \cup {c}
  /\ byAuth' = [byAuth EXCEPT ![AuthOf[c]] = IF c \in authCounted THEN @ ELSE @ + 1]
  /\ counted' = counted \cup {c}
  /\ activeSessions' = activeSessions + 1
  /\ UNCHANGED <<states, byIP, closed>>

\* handleObservedSessionBound: the connection's first binding is charged to its
\* authorization key, or closes the connection when the key has too many.
Bound(c) ==
  IF c \notin states THEN UNCHANGED <<quotaVars, closed>>
  ELSE IF c \notin authCounted /\ byAuth[AuthOf[c]] >= MaxPerAuthKey
  THEN closed' = closed \cup {c} /\ UNCHANGED quotaVars
  ELSE /\ authCounted' = authCounted \cup {c}
       /\ byAuth' = [byAuth EXCEPT ![AuthOf[c]] = IF c \in authCounted THEN @ ELSE @ + 1]
       /\ counted' = counted \cup {c}
       /\ activeSessions' = IF c \in counted THEN activeSessions ELSE activeSessions + 1
       /\ UNCHANGED <<states, byIP, closed>>

-----------------------------------------------------------------------------
(* Connections *)

InFlight(c) == {r \in Requests : ConnOf[r] = c /\ req[r] \notin {"idle", "ended"}}

\* A message of a session the connection does not have: the reader binds it.
BindSession(c) ==
  /\ pc[c] = "run" /\ c \notin bound /\ InFlight(c) = {}
  /\ bound' = bound \cup {c}
  /\ Bound(c)
  /\ UNCHANGED <<stopVars, serveVars, handlerVars, pc, connections>>

\* The session shuts down, by itself or with the connection:
\* handleObservedSessionUnbound uncounts it if it is counted.
UnbindSession(c) ==
  /\ pc[c] \in {"run", "drain"} /\ c \in bound
  /\ bound' = bound \ {c}
  /\ counted' = counted \ {c}
  /\ activeSessions' = IF c \in counted THEN activeSessions - 1 ELSE activeSessions
  /\ UNCHANGED <<stopVars, serveVars, handlerVars, pc, closed, connections,
                 states, byIP, byAuth, authCounted>>

\* Run's reader fails: the peer, a timeout, Stop or a quota closed the transport.
RunEnds(c) ==
  /\ pc[c] = "run"
  /\ pc' = [pc EXCEPT ![c] = "drain"]
  /\ closed' = closed \cup {c}
  /\ UNCHANGED <<stopVars, serveVars, quotaVars, handlerVars, connections, bound>>

\* Run has returned, its sessions and requests are over.
Finish(c) ==
  /\ pc[c] = "drain" /\ c \notin bound /\ InFlight(c) = {}
  /\ GiveBack(c)
  /\ pc' = [pc EXCEPT ![c] = "finished"]
  /\ UNCHANGED <<stopVars, serveVars, handlerVars, closed, connections, bound>>

Disown(c) ==
  /\ pc[c] = "finished"
  /\ connections' = connections \ {c}
  /\ pc' = [pc EXCEPT ![c] = "gone"]
  /\ UNCHANGED <<stopVars, serveVars, quotaVars, handlerVars, closed, bound>>

-----------------------------------------------------------------------------
(* Requests: DispatchApplication and the mutations it returns *)

OnlyRequests == UNCHANGED <<stopVars, serveVars, quotaVars, pc, closed, connections, bound>>
ReqTo(r, at) == req' = [req EXCEPT ![r] = at]

\* acquireHandler's first look at shutdownCh.
Dispatch(r) ==
  /\ req[r] = "idle" /\ pc[ConnOf[r]] = "run" /\ ConnOf[r] \in bound
  /\ ReqTo(r, IF Stopping THEN "ended" ELSE "wait")
  /\ OnlyRequests /\ UNCHANGED <<slots, activeHandlers>>

\* The select: a slot, also when the server has stopped in the meantime ...
TakeSlot(r) ==
  /\ req[r] = "wait" /\ Cardinality(slots) < MaxHandlers
  /\ ReqTo(r, "slot")
  /\ slots' = slots \cup {r}
  /\ OnlyRequests /\ UNCHANGED activeHandlers

\* ... or the request's context, or shutdownCh.
GiveUp(r) ==
  /\ req[r] = "wait" /\ (Stopping \/ pc[ConnOf[r]] = "drain" \/ ConnOf[r] \notin bound)
  /\ ReqTo(r, "ended")
  /\ OnlyRequests /\ UNCHANGED <<slots, activeHandlers>>

\* The slot is counted and shutdownCh looked at again: the handler runs, or the
\* slot is given back (releaseHandler).
RunHandler(r) ==
  /\ req[r] = "slot"
  /\ activeHandlers' = activeHandlers + 1
  /\ IF Stopping THEN ReqTo(r, "refused") /\ slots' = slots \ {r}
                 ELSE ReqTo(r, "run") /\ UNCHANGED slots
  /\ OnlyRequests

\* releaseHandler frees the slot first ...
Release(r) ==
  /\ req[r] = "run"
  /\ slots' = slots \ {r}
  /\ ReqTo(r, "freed")
  /\ OnlyRequests /\ UNCHANGED activeHandlers

\* ... and then uncounts the handler.  The outcome of a handler that has run may
\* change the session's binding.
Uncount(r) ==
  /\ req[r] \in {"freed", "refused"}
  /\ activeHandlers' = activeHandlers - 1
  /\ ReqTo(r, "ended") \/ (req[r] = "freed" /\ ReqTo(r, "notify"))
  /\ OnlyRequests /\ UNCHANGED slots

\* The push registry reports the changed binding, after its own locks are
\* released: the session may be unbound by then.
Notify(r) ==
  /\ req[r] = "notify"
  /\ Bound(ConnOf[r])
  /\ ReqTo(r, "ended")
  /\ UNCHANGED <<stopVars, serveVars, slots, activeHandlers, pc, connections, bound>>

-----------------------------------------------------------------------------
(* Stop *)

\* Mutant: only the connections that are admitted are remembered.
StopAdmitted ==
  /\ stop = "no"
  /\ stop' = "listeners"
  /\ owned' = states
  /\ UNCHANGED <<serveVars, quotaVars, handlerVars, pc, closed, connections, bound>>

\* shutdownCh is closed and the connections are remembered in one section.
StopBegins ==
  /\ stop = "no"
  /\ stop' = "listeners"
  /\ owned' = connections
  /\ UNCHANGED <<serveVars, quotaVars, handlerVars, pc, closed, connections, bound>>

StopListeners ==
  /\ stop = "listeners"
  /\ stop' = "grace"
  /\ deaf' = {l \in Listeners : serve[l] # "start"} \cup deaf
  /\ UNCHANGED <<owned, serve, serving, quotaVars, handlerVars, pc, closed, connections, bound>>

\* The grace period ends, at once when there is none, and the transports are closed.
StopForces ==
  /\ stop = "grace"
  /\ stop' = "wait"
  /\ closed' = closed \cup owned
  /\ UNCHANGED <<owned, serveVars, quotaVars, handlerVars, pc, connections, bound>>

\* connectionWG.Wait returns, before or after the grace period.
StopEnds ==
  /\ stop \in {"grace", "wait"} /\ connections = {}
  /\ stop' = "done"
  /\ UNCHANGED <<owned, serveVars, quotaVars, handlerVars, pc, closed, connections, bound>>

-----------------------------------------------------------------------------
ServeStep(l) ==
  Register(l) \/ ServeConn(l) \/ Admit(l) \/ Refuse(l) \/ Start(l) \/ SetupFails(l)
HandlerStep(r) ==
  TakeSlot(r) \/ GiveUp(r) \/ RunHandler(r) \/ Uncount(r) \/ Notify(r)
StopStep == StopListeners \/ StopForces \/ StopEnds

Next ==
  \/ \E l \in Listeners : ServeStep(l) \/ AcceptFails(l) \/ \E c \in Conns : Accept(l, c)
  \/ \E c \in Conns : BindSession(c) \/ UnbindSession(c) \/ RunEnds(c) \/ Finish(c) \/ Disown(c)
  \/ \E r \in Requests : Dispatch(r) \/ HandlerStep(r) \/ Release(r)
  \/ StopBegins \/ StopStep

Spec == Init /\ [][Next]_vars

\* Goroutines run on; a closed transport ends its reader, which then shuts its
\* session down; a handler returns once its request is cancelled.  Nobody has to
\* connect, to send a request or to call Stop.
Draining(c) ==
  \/ c \in closed /\ RunEnds(c)
  \/ pc[c] = "drain" /\ UnbindSession(c)
  \/ Finish(c) \/ Disown(c)
Returns(r) == pc[ConnOf[r]] = "drain" /\ Release(r)

\* Some goroutine that can go on does: less than every one of them being scheduled,
\* and enough, because each has a finite way to go.
FairSpec ==
  Spec /\ WF_vars(\/ StopStep
                  \/ \E l \in Listeners : ServeStep(l)
                  \/ \E c \in Conns : Draining(c)
                  \/ \E r \in Requests : HandlerStep(r) \/ Returns(r))

-----------------------------------------------------------------------------
\* Every counter of the server is the number of things it counts, in every
\* order of admission, binding, late notification, unbinding and the end of the
\* connection, and none exceeds its limit (resource_controls.go:210-361).
CountsExact ==
  /\ \A i \in IPs : byIP[i] = Cardinality({c \in states : IpOf[c] = i}) /\ byIP[i] <= MaxPerIP
  /\ \A a \in AuthKeys : /\ byAuth[a] = Cardinality({c \in states \cap authCounted : AuthOf[c] = a})
                         /\ byAuth[a] <= MaxPerAuthKey
  /\ activeSessions = Cardinality(states \cap counted)
  /\ Cardinality(states) <= MaxConnections
  /\ activeHandlers = Cardinality({r \in Requests : req[r] \in {"run", "freed", "refused"}})

\* When Stop returns, nothing of the server is left: no connection, no quota, no
\* handler, and nothing comes back later (server.go:337-379).
StopIsComplete ==
  stop = "done" =>
    /\ connections = {} /\ states = {} /\ bound = {} /\ slots = {} /\ activeHandlers = 0
    /\ activeSessions = 0 /\ \A i \in IPs : byIP[i] = 0
    /\ \A c \in Conns : pc[c] \in {"new", "accepted", "gone"}
    /\ \A r \in Requests : req[r] \in {"idle", "ended"}

\* Stop returns, whatever was being accepted, admitted, bound or handled when
\* it was called (server.go:337-379).
StopReturns == []<>(stop \in {"no", "done"})
=============================================================================
