------------------------- MODULE ConnectionSessions -------------------------
(***************************************************************************)
(* Physical connections that multiplex sessions and take them over from    *)
(* each other: Connection.sessionFor, removeSession and shutdown           *)
(* (internal/runtime/connection.go), newConnectionSession and              *)
(* connectionSession.shutdown (connection_session.go), the reference-      *)
(* counted ReliabilityRegistry (reliability_registry.go), and session      *)
(* leases as their users see them (SessionLease is the detailed model).    *)
(*                                                                         *)
(* A reader holds c.mu from the lookup in sessionFor until                 *)
(* newConnectionSession returns, so also while it waits for the lease's    *)
(* previous owner.  Every other section under c.mu is one step, which      *)
(* waits for the reader to let go of it.                                   *)
(***************************************************************************)
EXTENDS Naturals, FiniteSets

CONSTANTS Conns,            \* physical connections of one process
          Keys,             \* sessions of one authorization key
          Nobody,
          SessionCapacity,  \* sessions of one connection
          Limits            \* the values of MaxSessions, the registry's capacity

ASSUME ConnectionAssumption ==
  /\ SessionCapacity \in Nat \ {0} /\ Limits \subseteq Nat \ {0}
  /\ Nobody \notin Conns

VARIABLES
  reader,    \* where each connection's reader is, and with which key
  closed,    \* the transport is closed
  actor,     \* the connectionSession in c.sessions[k], from start to removal
  why,       \* the cause its shutdown was called with: the lease's, or the end of
             \* the connection
  poisoned,  \* c.poisoned
  owner,     \* the connection whose lease the coordinator has registered
  cause,     \* context.Cause of the lease a connection has for a key
  lost,      \* history: keys whose lease was retired with ErrLeaseLost
  limit,     \* the registry's MaxSessions, which never changes
  entry,     \* registry entry of a key, 0 for none
  refs,      \* its references
  older,     \* idleOrder: <<j, k>> when both are idle and j has been for longer
  handle     \* the entry a connection's session has acquired

readerVars == <<reader, closed>>
actorVars == <<actor, why, poisoned>>
leaseVars == <<owner, cause, lost>>
registryVars == <<limit, entry, refs, older, handle>>
vars == <<readerVars, actorVars, leaseVars, registryVars>>

At(c) == reader[c].at
Key(c) == reader[c].key
Somewhere(at, k) == [at |-> at, key |-> k]
NoKey == CHOOSE k \in Keys : TRUE

\* The key matters only while a frame is being handled.
Place(at, k) == Somewhere(at, IF at \in {"read", "stop", "gone"} THEN NoKey ELSE k)
Goto(c, at) == reader' = [reader EXCEPT ![c] = Place(at, Key(c))]

\* c.mu: held by the reader inside newConnectionSession.
Unlocked(c) == At(c) \notin {"look", "wait", "load"}
Sessions(c) == {k \in Keys : actor[c][k] # "none"}

TypeOK ==
  /\ \A c \in Conns : /\ At(c) \in {"read", "frame", "look", "wait", "load", "stop", "gone"}
                      /\ Key(c) \in Keys
  /\ closed \in [Conns -> BOOLEAN]
  /\ actor \in [Conns -> [Keys -> {"none", "live", "closing", "released", "freed"}]]
  /\ why \in [Conns -> [Keys -> {"none", "lost", "own", "stop"}]]
  /\ poisoned \in [Conns -> SUBSET Keys] /\ lost \in [Conns -> SUBSET Keys]
  /\ owner \in [Keys -> Conns \cup {Nobody}]
  /\ cause \in [Conns -> [Keys -> {"none", "lost", "own"}]]
  /\ limit \in Limits /\ entry \in [Keys -> Nat] /\ refs \in [Keys -> Nat]
  /\ older \subseteq Keys \X Keys
  /\ handle \in [Conns -> [Keys -> Nat]]

Init ==
  /\ reader = [c \in Conns |-> Place("read", NoKey)]
  /\ closed = [c \in Conns |-> FALSE]
  /\ actor = [c \in Conns |-> [k \in Keys |-> "none"]]
  /\ why = [c \in Conns |-> [k \in Keys |-> "none"]]
  /\ cause = [c \in Conns |-> [k \in Keys |-> "none"]]
  /\ poisoned = [c \in Conns |-> {}] /\ lost = [c \in Conns |-> {}]
  /\ owner = [k \in Keys |-> Nobody]
  /\ limit \in Limits /\ entry = [k \in Keys |-> 0] /\ refs = [k \in Keys |-> 0] /\ older = {}
  /\ handle = [c \in Conns |-> [k \in Keys |-> 0]]

-----------------------------------------------------------------------------
(* Leases *)

\* Retire: the first cause of a context stays.
Retired(c, k, why_) ==
  cause' = [cause EXCEPT ![c][k] = IF @ = "none" THEN why_ ELSE @]

\* Release: the coordinator forgets the lease and its done channel is closed;
\* everyone who waits for the key looks again.  Reader c goes to at.
ReleaseLease(c, k, at) ==
  /\ owner' = [owner EXCEPT ![k] = Nobody]
  /\ cause' = [cause EXCEPT ![c][k] = "none"]
  /\ reader' = [d \in Conns |->
       IF d = c THEN Place(at, Key(c))
       ELSE IF reader[d] = Somewhere("wait", k) THEN Somewhere("look", k)
       ELSE reader[d]]

-----------------------------------------------------------------------------
(* The reader: Run, sessionFor, newConnectionSession *)

ReadFrame(c, k) ==
  /\ At(c) = "read" /\ ~closed[c]
  /\ reader' = [reader EXCEPT ![c] = Somewhere("frame", k)]
  /\ UNCHANGED <<closed, actorVars, leaseVars, registryVars>>

ReadFails(c) ==
  /\ At(c) = "read" /\ closed[c]
  /\ Goto(c, "stop")
  /\ UNCHANGED <<closed, actorVars, leaseVars, registryVars>>

\* The peer, the disconnect timer or a temporary key's expiry closes the
\* transport, which the reader meets at its next read.
ConnEnds(c) ==
  /\ At(c) = "read" /\ ~closed[c]
  /\ closed' = [closed EXCEPT ![c] = TRUE]
  /\ Goto(c, "stop")
  /\ UNCHANGED <<actorVars, leaseVars, registryVars>>

\* Mutant: a lost key may be acquired again.
SessionForAny(c) ==
  LET k == Key(c) IN
  /\ At(c) = "frame"
  /\ Goto(c, IF actor[c][k] = "live" /\ cause[c][k] = "none" THEN "read"
             ELSE IF actor[c][k] # "none" \/ Cardinality(Sessions(c)) >= SessionCapacity THEN "stop"
             ELSE "look")
  /\ UNCHANGED <<closed, actorVars, leaseVars, registryVars>>

\* sessionFor: a poisoned key, a session whose lease has ended and a full
\* connection are errors that end the connection; a live session handles the
\* message; otherwise Acquire begins, with c.mu held.
SessionFor(c) ==
  LET k == Key(c) IN
  /\ At(c) = "frame"
  /\ Goto(c, IF k \in poisoned[c] THEN "stop"
             ELSE IF actor[c][k] = "live" /\ cause[c][k] = "none" THEN "read"
             ELSE IF actor[c][k] # "none" \/ Cardinality(Sessions(c)) >= SessionCapacity THEN "stop"
             ELSE "look")
  /\ UNCHANGED <<closed, actorVars, leaseVars, registryVars>>

\* Acquire: register a lease when there is none ...
Register(c) ==
  LET k == Key(c) IN
  /\ At(c) = "look" /\ owner[k] = Nobody
  /\ owner' = [owner EXCEPT ![k] = c]
  /\ cause' = [cause EXCEPT ![c][k] = "none"]
  /\ Goto(c, "load")
  /\ UNCHANGED <<closed, actorVars, lost, registryVars>>

\* ... or retire the owner's lease and wait until it is released.
TakeOver(c) ==
  LET k == Key(c) IN
  /\ At(c) = "look" /\ owner[k] # Nobody
  /\ Retired(owner[k], k, "lost")
  /\ lost' = IF cause[owner[k]][k] = "none" THEN [lost EXCEPT ![owner[k]] = @ \cup {k}] ELSE lost
  /\ Goto(c, "wait")
  /\ UNCHANGED <<closed, actorVars, owner, registryVars>>

\* LoadOrCreate fails, or the lease was taken over before it was ready.
LoadFails(c) ==
  /\ At(c) = "load"
  /\ ReleaseLease(c, Key(c), "stop")
  /\ UNCHANGED <<closed, actorVars, lost, registryVars>>

\* Acquire's context is cancelled while it waits.
WaitCancelled(c) ==
  /\ At(c) = "wait"
  /\ Goto(c, "stop")
  /\ UNCHANGED <<closed, actorVars, leaseVars, registryVars>>

-----------------------------------------------------------------------------
(* ReliabilityRegistry *)

Entries == {k \in Keys : entry[k] # 0}

\* Mutant: entries in use are not skipped.
IdleAny == Entries

Idle == {k \in Entries : refs[k] = 0}
Oldest == {k \in Idle : \A j \in Idle : <<j, k>> \notin older}

\* The idle order without some keys, and with a key that becomes idle now.
Apart(gone) == {p \in older : p[1] \notin gone /\ p[2] \notin gone}
Youngest(k, gone) == Apart(gone \cup {k}) \cup ((Idle \ (gone \cup {k})) \X {k})

\* The identity of a new entry: a number no session of the key still holds.
Fresh(k) ==
  LET held == {handle[c][k] : c \in Conns}
  IN  CHOOSE n \in 1 .. (Cardinality(held) + 1) : n \notin held

\* Acquire with an entry: share it.
ShareEntry(c, k) ==
  /\ entry[k] # 0
  /\ refs' = [refs EXCEPT ![k] = @ + 1]
  /\ older' = Apart({k})
  /\ handle' = [handle EXCEPT ![c][k] = entry[k]]
  /\ UNCHANGED <<limit, entry>>

\* What makes room for an entry: nothing, or evictOldestIdleLocked when the
\* registry is full; no way if all entries are in use.
Evictions == IF Cardinality(Entries) < limit THEN {{}} ELSE {{j} : j \in Oldest}

Entered(k, gone) == [j \in Keys |-> IF j = k THEN Fresh(k) ELSE IF j \in gone THEN 0 ELSE entry[j]]

NewEntry(c, k) ==
  /\ entry[k] = 0
  /\ \E gone \in Evictions : entry' = Entered(k, gone) /\ older' = Apart(gone)
  /\ refs' = [refs EXCEPT ![k] = 1]
  /\ handle' = [handle EXCEPT ![c][k] = Fresh(k)]
  /\ UNCHANGED limit

\* The lease was ready when Acquire looked, and may have been taken over since:
\* the rest of newConnectionSession; the session is inserted and started.
Bind(c) ==
  LET k == Key(c) IN
  /\ At(c) = "load"
  /\ ShareEntry(c, k) \/ NewEntry(c, k)
  /\ actor' = [actor EXCEPT ![c][k] = "live"]
  /\ Goto(c, "read")
  /\ UNCHANGED <<closed, why, poisoned, leaseVars>>

\* ReliabilityCapacityError: the deferred release gives the lease back.
BindFails(c) ==
  LET k == Key(c) IN
  /\ At(c) = "load" /\ entry[k] = 0 /\ Evictions = {}
  /\ ReleaseLease(c, k, "stop")
  /\ UNCHANGED <<closed, actorVars, lost, registryVars>>

\* A later step of newConnectionSession fails: the handle is released, so the
\* entry is the youngest idle one unless another session uses it, then the lease.
SetupFails(c) ==
  LET k == Key(c) IN
  /\ At(c) = "load"
  /\ \/ /\ entry[k] # 0
        /\ older' = IF refs[k] = 0 THEN Youngest(k, {}) ELSE older
        /\ UNCHANGED <<entry, refs>>
     \/ /\ entry[k] = 0
        /\ \E gone \in Evictions : entry' = Entered(k, gone) /\ older' = Youngest(k, gone)
        /\ refs' = [refs EXCEPT ![k] = 0]
  /\ ReleaseLease(c, k, "stop")
  /\ UNCHANGED <<closed, actorVars, lost, limit, handle>>

\* expireIdleLocked: the oldest idle entry is past its TTL.  Acquire does this
\* first and nothing else looks at idle entries, so it may happen any time before.
ExpireIdle ==
  \E k \in Oldest :
    /\ entry' = [entry EXCEPT ![k] = 0]
    /\ older' = Apart({k})
    /\ UNCHANGED <<readerVars, actorVars, leaseVars, limit, refs, handle>>

-----------------------------------------------------------------------------
(* Session shutdown *)

\* A fatal session error, or Delete, ends the lease from inside.
SessionFails(c, k) ==
  /\ actor[c][k] = "live" /\ cause[c][k] = "none"
  /\ Retired(c, k, "own")
  /\ UNCHANGED <<readerVars, actorVars, owner, lost, registryVars>>

\* The goroutine of start sees the lease's context end.
BeginShutdown(c, k) ==
  /\ actor[c][k] = "live" /\ cause[c][k] # "none"
  /\ actor' = [actor EXCEPT ![c][k] = "closing"]
  /\ why' = [why EXCEPT ![c][k] = cause[c][k]]
  /\ UNCHANGED <<readerVars, poisoned, leaseVars, registryVars>>

\* Mutant: removeSession comes before Release, and it needs c.mu.
ReleaseLast(c, k) ==
  /\ actor[c][k] = "closing" /\ Unlocked(c)
  /\ actor' = [actor EXCEPT ![c][k] = "released"]
  /\ ReleaseLease(c, k, At(c))
  /\ UNCHANGED <<closed, why, poisoned, lost, registryVars>>

\* Handlers and writer have ended: the lease is released ...
Release(c, k) ==
  /\ actor[c][k] = "closing"
  /\ actor' = [actor EXCEPT ![c][k] = "released"]
  /\ ReleaseLease(c, k, At(c))
  /\ UNCHANGED <<closed, why, poisoned, lost, registryVars>>

\* ... then the reliability handle, whose last release makes the entry idle ...
Free(c, k) ==
  /\ actor[c][k] = "released"
  /\ actor' = [actor EXCEPT ![c][k] = "freed"]
  /\ handle' = [handle EXCEPT ![c][k] = 0]
  /\ IF entry[k] = handle[c][k] /\ refs[k] # 0
     THEN /\ refs' = [refs EXCEPT ![k] = @ - 1]
          /\ older' = IF refs[k] = 1 THEN Youngest(k, {}) ELSE older
     ELSE UNCHANGED <<refs, older>>
  /\ UNCHANGED <<readerVars, why, poisoned, leaseVars, limit, entry>>

\* ... then removeSession: a lost key is poisoned, and a transport that lost its
\* last session or too many is closed.
Remove(c, k) ==
  /\ actor[c][k] = "freed" /\ Unlocked(c)
  /\ actor' = [actor EXCEPT ![c][k] = "none"]
  /\ why' = [why EXCEPT ![c][k] = "none"]
  /\ IF why[c][k] = "lost"
     THEN /\ poisoned' = [poisoned EXCEPT ![c] = @ \cup {k}]
          /\ closed' = [closed EXCEPT ![c] = \/ @ \/ Sessions(c) = {k}
                                             \/ Cardinality(poisoned[c] \cup {k}) >= SessionCapacity]
     ELSE UNCHANGED <<poisoned, closed>>
  /\ UNCHANGED <<reader, leaseVars, registryVars>>

\* Connection.shutdown: shuts the sessions down one after the other, in the order
\* of a map.  The call for one that is already shutting down only waits for its end,
\* so it is the reader not going on yet.
StopSession(c, k) ==
  /\ At(c) = "stop"
  /\ \A j \in Keys : why[c][j] # "stop"
  /\ actor[c][k] = "live"
  /\ actor' = [actor EXCEPT ![c][k] = "closing"]
  /\ why' = [why EXCEPT ![c][k] = "stop"]
  /\ Retired(c, k, "own")
  /\ UNCHANGED <<readerVars, poisoned, owner, lost, registryVars>>

Stopped(c) ==
  /\ At(c) = "stop" /\ Sessions(c) = {}
  /\ Goto(c, "gone")
  /\ closed' = [closed EXCEPT ![c] = TRUE]
  /\ UNCHANGED <<actorVars, leaseVars, registryVars>>

-----------------------------------------------------------------------------
ReaderStep(c) ==
  \/ ReadFails(c) \/ SessionFor(c) \/ Register(c) \/ TakeOver(c) \/ LoadFails(c)
  \/ Bind(c) \/ BindFails(c) \/ SetupFails(c) \/ Stopped(c) \/ \E k \in Keys : StopSession(c, k)

ShutdownStep(c, k) == BeginShutdown(c, k) \/ Release(c, k) \/ Free(c, k) \/ Remove(c, k)

Next ==
  \/ \E c \in Conns : ReaderStep(c) \/ WaitCancelled(c) \/ ConnEnds(c)
  \/ \E c \in Conns, k \in Keys : ReadFrame(c, k) \/ ShutdownStep(c, k) \/ SessionFails(c, k)
  \/ ExpireIdle

Spec == Init /\ [][Next]_vars

\* Goroutines run on and handlers of a cancelled session end.  Nobody has to
\* send, fail or cancel, and a waiting Acquire is not helped by its context.
FairSpec ==
  /\ Spec
  /\ \A c \in Conns : WF_vars(ReaderStep(c))
  /\ \A c \in Conns, k \in Keys : WF_vars(ShutdownStep(c, k))

-----------------------------------------------------------------------------
\* A connection that lost a session to a takeover never acquires it again, from
\* the moment the takeover cancels its lease: its poisoned key outlives the
\* session ("never let this stale transport reclaim", connection.go:370).
NoReclaim ==
  [][\A c \in Conns, k \in Keys : owner'[k] = c /\ owner[k] # c => k \notin lost[c]]_vars

\* Every session of a key, the one that shuts down after it has released its
\* lease included, uses the one registered entry, and its references are counted
\* exactly: a reconnect finds the retained answers (ReliabilityRegistry.Acquire:
\* "Concurrent and reconnecting acquisitions ... share both stores").
OneStorePerSession ==
  \A k \in Keys :
    LET users == {c \in Conns : handle[c][k] # 0}
    IN  /\ \A c \in users : handle[c][k] = entry[k]
        /\ entry[k] # 0 => refs[k] = Cardinality(users)

\* Nobody waits for a lease forever, although the reader holds c.mu while it
\* waits and two connections may take sessions over from each other: a displaced
\* session releases its lease before it needs c.mu (connection_session.go:653-655).
NoWaitForever == \A c \in Conns : []<>(At(c) # "wait")
=============================================================================
