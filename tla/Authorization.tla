---------------------------- MODULE Authorization ----------------------------
(***************************************************************************)
(* Authorization keys and the timers that end their use: key exchanges     *)
(* (internal/handshake), MemoryAuthKeyManager (crypto/authkey_memory.go),  *)
(* BindTemporaryAuthKey (temporary_authkey.go), the plaintext and the      *)
(* first encrypted messages of a connection (connection.go), the frame     *)
(* sink of a temporary key (temporary_key.go) and the timer of             *)
(* ping_delay_disconnect.  A connection's reader handles one message in a  *)
(* step, and in two when the message opens a session, which may have to    *)
(* wait; a connection has at most one session, which requests, timers and  *)
(* the writer use concurrently.  Timers fire at any time after they are    *)
(* due.                                                                    *)
(***************************************************************************)
EXTENDS Naturals, FiniteSets

CONSTANTS Conns, KeyIds, NoKey,
          Known,          \* permanent keys stored by earlier exchanges
          Lifetimes,      \* expires_in of a temporary key
          Delays,         \* of ping_delay_disconnect
          Capacity, TTL,  \* of the handshake engine
          TempCapacity,   \* temporary keys of the store
          MaxTime,
          MaxResets       \* pings a connection sends

ASSUME AuthorizationAssumption ==
  /\ Known \subseteq KeyIds /\ NoKey \notin KeyIds
  /\ Lifetimes \subseteq Nat \ {0} /\ Delays \subseteq Nat
  /\ Capacity \in Nat /\ TTL \in Nat /\ TempCapacity \in Nat /\ MaxTime \in Nat
  /\ MaxResets \in Nat

VARIABLES
  clock,
  ended,     \* why a connection's transport was closed, "no" while it is open
  stage,     \* of its handshake session, "none" before there is one
  expires,   \* temporaryExpiresAt of the exchange, 0 for a permanent key
  admitted,  \* Engine.sessions: until when the handshake session is admitted, 0 for not
  authorization, pinned,
  opening,   \* key of a decoded frame whose session is being acquired, NoKey for none
  session,   \* the connection has a session
  sink,      \* when the timer of its temporaryFrameSink fires, 0 for none
  keys, temporary,
  binding,   \* a BindTemporaryAuthKey between its look at the key and BindTemporary
  generation, due, pending, disconnectClosed,
  asked,     \* history: expires_in of the exchange's req_DH_params, 0 for none
  made,      \* history: keys that exchanges have made
  permanent  \* history: the keys made for a request without expires_in

hsVars == <<stage, expires, admitted, authorization, asked, made, permanent>>
connVars == <<pinned, opening, session, sink>>
storeVars == <<keys, temporary>>
pingVars == <<generation, due, pending, disconnectClosed>>
vars == <<clock, ended, hsVars, connVars, storeVars, binding, pingVars>>

NoBinding == [parent |-> NoKey, expires |-> 0]
NotTemporary == [expires |-> 0, parent |-> NoKey]
IsTemporary(k) == temporary[k].expires # 0
Open(c) == ended[c] = "no"

\* MemoryAuthKeyManager.Get.
Usable(k) ==
  /\ k \in keys
  /\ IsTemporary(k) => /\ clock < temporary[k].expires
                       /\ temporary[k].parent # NoKey => temporary[k].parent \in keys

TypeOK ==
  /\ clock \in 0 .. MaxTime
  /\ ended \in [Conns -> {"no", "failed", "expiry", "disconnect"}]
  /\ stage \in [Conns -> {"none", "pq", "dh", "closed"}]
  /\ expires \in [Conns -> Nat] /\ admitted \in [Conns -> Nat] /\ sink \in [Conns -> Nat]
  /\ authorization \in [Conns -> KeyIds \cup {NoKey}] /\ pinned \in [Conns -> KeyIds \cup {NoKey}]
  /\ opening \in [Conns -> KeyIds \cup {NoKey}] /\ asked \in [Conns -> Nat]
  /\ session \in [Conns -> BOOLEAN] /\ disconnectClosed \in [Conns -> BOOLEAN]
  /\ keys \subseteq KeyIds /\ made \subseteq KeyIds /\ permanent \subseteq made
  /\ temporary \in [KeyIds -> [expires : Nat, parent : KeyIds \cup {NoKey}]]
  /\ binding \in [Conns -> [parent : KeyIds \cup {NoKey}, expires : Nat]]
  /\ generation \in [Conns -> Nat] /\ due \in [Conns -> Nat]
  /\ \A c \in Conns : pending[c] \subseteq Nat \X Nat

Init ==
  /\ clock = 0
  /\ ended = [c \in Conns |-> "no"] /\ stage = [c \in Conns |-> "none"]
  /\ expires = [c \in Conns |-> 0] /\ admitted = [c \in Conns |-> 0]
  /\ authorization = [c \in Conns |-> NoKey] /\ pinned = [c \in Conns |-> NoKey]
  /\ opening = [c \in Conns |-> NoKey] /\ asked = [c \in Conns |-> 0]
  /\ session = [c \in Conns |-> FALSE] /\ sink = [c \in Conns |-> 0]
  /\ keys = Known /\ temporary = [k \in KeyIds |-> NotTemporary]
  /\ made = Known /\ permanent = Known
  /\ binding = [c \in Conns |-> NoBinding]
  /\ generation = [c \in Conns |-> 0] /\ due = [c \in Conns |-> 0]
  /\ pending = [c \in Conns |-> {}] /\ disconnectClosed = [c \in Conns |-> FALSE]

Tick ==
  /\ clock < MaxTime
  /\ clock' = clock + 1
  /\ UNCHANGED <<ended, hsVars, connVars, storeVars, binding, pingVars>>

-----------------------------------------------------------------------------
(* The end of a connection and of its session *)

\* Connection.shutdown after the transport is closed: the timers are stopped, the
\* session ends and the handshake session gives its admission back.  A
\* disconnect callback that has already started finds disconnectClosed set.
Shut(c, why) ==
  /\ ended' = [ended EXCEPT ![c] = why]
  /\ stage' = [stage EXCEPT ![c] = IF @ = "none" THEN @ ELSE "closed"]
  /\ admitted' = [admitted EXCEPT ![c] = 0]
  /\ expires' = [expires EXCEPT ![c] = 0]
  /\ asked' = [asked EXCEPT ![c] = 0]
  /\ authorization' = [authorization EXCEPT ![c] = NoKey]
  /\ opening' = [opening EXCEPT ![c] = NoKey]
  /\ session' = [session EXCEPT ![c] = FALSE]
  /\ sink' = [sink EXCEPT ![c] = 0]
  /\ disconnectClosed' = [disconnectClosed EXCEPT ![c] = TRUE]
  /\ generation' = [generation EXCEPT ![c] = @ + 1]
  /\ pending' = [pending EXCEPT ![c] = {}]

\* The peer goes away, or sends what the reader refuses: an exchange message out
\* of order or malformed, plaintext after an encrypted frame, a key that cannot
\* be used or has expired when its sink is made, a key other than the pinned or
\* the exchanged one.
Fails(c) ==
  /\ Open(c)
  /\ Shut(c, "failed")
  /\ UNCHANGED <<clock, made, permanent, pinned, storeVars, binding, due>>

\* The session ends by itself; context.AfterFunc stops the sink's timer.
SessionEnds(c) ==
  /\ Open(c) /\ session[c]
  /\ session' = [session EXCEPT ![c] = FALSE]
  /\ sink' = [sink EXCEPT ![c] = 0]
  /\ UNCHANGED <<clock, ended, hsVars, pinned, opening, storeVars, binding, pingVars>>

-----------------------------------------------------------------------------
(* Key exchange *)

Plain(c) == Open(c) /\ pinned[c] = NoKey /\ opening[c] = NoKey

\* NewSession removes expired sessions before it counts the others.
Live == [d \in Conns |-> IF clock < admitted[d] THEN admitted[d] ELSE 0]
Admissible(c) == Cardinality({d \in Conns \ {c} : Live[d] # 0}) < Capacity
InExchange(c, at) == Plain(c) /\ stage[c] = at /\ clock < admitted[c]

\* The first req_pq of an exchange, also after a completed one: its session is
\* closed and a new one admitted.
BeginExchange(c) ==
  /\ Plain(c) /\ (stage[c] = "none" \/ authorization[c] # NoKey) /\ Admissible(c)
  /\ stage' = [stage EXCEPT ![c] = "pq"]
  /\ expires' = [expires EXCEPT ![c] = 0] /\ asked' = [asked EXCEPT ![c] = 0]
  /\ admitted' = [Live EXCEPT ![c] = clock + TTL]
  /\ authorization' = [authorization EXCEPT ![c] = NoKey]
  /\ UNCHANGED <<clock, ended, made, permanent, connVars, storeVars, binding, pingVars>>

\* Mutant: a restarted exchange keeps the lifetime of the one it replaces.
RestartKeepsExpiry(c) ==
  /\ InExchange(c, "pq") \/ InExchange(c, "dh")
  /\ stage' = [stage EXCEPT ![c] = "pq"]
  /\ asked' = [asked EXCEPT ![c] = 0]
  /\ admitted' = [admitted EXCEPT ![c] = clock + TTL]
  /\ UNCHANGED <<clock, ended, expires, authorization, made, permanent, connVars, storeVars, binding, pingVars>>

\* req_pq in an unfinished exchange: it starts again with fresh nonces.
RestartExchange(c) ==
  /\ InExchange(c, "pq") \/ InExchange(c, "dh")
  /\ stage' = [stage EXCEPT ![c] = "pq"]
  /\ expires' = [expires EXCEPT ![c] = 0] /\ asked' = [asked EXCEPT ![c] = 0]
  /\ admitted' = [admitted EXCEPT ![c] = clock + TTL]
  /\ UNCHANGED <<clock, ended, authorization, made, permanent, connVars, storeVars, binding, pingVars>>

\* req_DH_params for a permanent (0) or a temporary key; the request for a
\* permanent one leaves temporaryExpiresAt as it is.
ReqDHParams(c, life) ==
  /\ InExchange(c, "pq")
  /\ stage' = [stage EXCEPT ![c] = "dh"]
  /\ expires' = [expires EXCEPT ![c] = IF life = 0 THEN @ ELSE clock + life]
  /\ asked' = [asked EXCEPT ![c] = life]
  /\ admitted' = [admitted EXCEPT ![c] = clock + TTL]
  /\ UNCHANGED <<clock, ended, authorization, made, permanent, connVars, storeVars, binding, pingVars>>

\* set_client_DH_params with a short secret: dh_gen_retry keeps the stage.
DHGenRetry(c) ==
  /\ InExchange(c, "dh")
  /\ admitted' = [admitted EXCEPT ![c] = clock + TTL]
  /\ UNCHANGED <<clock, ended, stage, expires, authorization, asked, made, permanent, connVars, storeVars,
                 binding, pingVars>>

Expired == {k \in KeyIds : IsTemporary(k) /\ clock >= temporary[k].expires}
Kept == {k \in KeyIds : IsTemporary(k)} \ Expired

\* Put, or PutTemporary, which first removes expired keys.
Stored(c, k) ==
  IF expires[c] = 0 THEN keys' = keys \cup {k} /\ UNCHANGED temporary
  ELSE /\ clock < expires[c] /\ Cardinality(Kept) < TempCapacity
       /\ keys' = (keys \ Expired) \cup {k}
       /\ temporary' = [j \in KeyIds |->
            IF j = k THEN [expires |-> expires[c], parent |-> NoKey]
            ELSE IF j \in Expired THEN NotTemporary ELSE temporary[j]]

\* set_client_DH_params completes the exchange: the key is stored, the handshake
\* session closed, and the response written, which may fail.
DHGenOK(c, k) ==
  /\ InExchange(c, "dh") /\ k \notin made
  /\ Stored(c, k)
  /\ made' = made \cup {k}
  /\ permanent' = IF asked[c] = 0 THEN permanent \cup {k} ELSE permanent
  /\ \/ /\ stage' = [stage EXCEPT ![c] = "closed"]
        /\ admitted' = [admitted EXCEPT ![c] = 0]
        /\ authorization' = [authorization EXCEPT ![c] = k]
        /\ UNCHANGED <<ended, expires, asked, opening, session, sink, generation, pending,
                       disconnectClosed>>
     \/ Shut(c, "failed")
  /\ UNCHANGED <<clock, pinned, binding, due>>

-----------------------------------------------------------------------------
(* Encrypted traffic *)

\* A frame of a session the connection does not have is decoded with the key the
\* store has for it; the session is then acquired, for which the reader may wait.
DecodeFrame(c, k) ==
  /\ Open(c) /\ ~session[c] /\ opening[c] = NoKey /\ Usable(k)
  /\ authorization[c] \in {NoKey, k} /\ pinned[c] \in {NoKey, k}
  /\ opening' = [opening EXCEPT ![c] = k]
  /\ UNCHANGED <<clock, ended, hsVars, pinned, session, sink, storeVars, binding, pingVars>>

\* The session is acquired and the key pinned.  temporaryKeySink looks at the key
\* again: one that has expired is an error, which ends the connection; one that
\* is temporary gets a timer for its expiry; one that was permanent or has been
\* removed meanwhile gets the plain sink.
OpenSession(c) ==
  LET k == opening[c]
  IN  /\ Open(c) /\ k # NoKey /\ k \notin Expired
      /\ opening' = [opening EXCEPT ![c] = NoKey]
      /\ session' = [session EXCEPT ![c] = TRUE]
      /\ pinned' = [pinned EXCEPT ![c] = k]
      /\ sink' = [sink EXCEPT ![c] = temporary[k].expires]
      /\ UNCHANGED <<clock, ended, hsVars, storeVars, binding, pingVars>>

\* temporaryFrameSink.WriteFrame: a key that has expired or is gone is a write
\* error, which ends the session; otherwise the timer follows the key's expiry.
WriteFrame(c) ==
  LET k == pinned[c]
      good == IsTemporary(k) /\ clock < temporary[k].expires
  IN  /\ Open(c) /\ session[c] /\ sink[c] # 0
      /\ session' = [session EXCEPT ![c] = good]
      /\ sink' = [sink EXCEPT ![c] = IF good THEN temporary[k].expires ELSE 0]
      /\ UNCHANGED <<clock, ended, hsVars, pinned, opening, storeVars, binding, pingVars>>

SinkExpires(c) ==
  /\ Open(c) /\ sink[c] # 0 /\ clock >= sink[c]
  /\ Shut(c, "expiry")
  /\ UNCHANGED <<clock, made, permanent, pinned, storeVars, binding, due>>

-----------------------------------------------------------------------------
(* The key store *)

\* expireTemporary, which has a timer for every expiry the key has had.
ExpireTemporary(k) ==
  /\ k \in Expired
  /\ keys' = keys \ {k}
  /\ temporary' = [temporary EXCEPT ![k] = NotTemporary]
  /\ UNCHANGED <<clock, ended, hsVars, connVars, binding, pingVars>>

\* Mutant: the temporary keys bound to a deleted key stay.
DeleteOnly(k) ==
  /\ k \in keys
  /\ keys' = keys \ {k}
  /\ temporary' = [temporary EXCEPT ![k] = NotTemporary]
  /\ UNCHANGED <<clock, ended, hsVars, connVars, binding, pingVars>>

\* Delete takes the temporary keys bound to the key with it.
Delete(k) ==
  LET gone == {k} \cup {j \in KeyIds : IsTemporary(j) /\ temporary[j].parent = k}
  IN  /\ k \in keys
      /\ keys' = keys \ gone
      /\ temporary' = [j \in KeyIds |-> IF j \in gone THEN NotTemporary ELSE temporary[j]]
      /\ UNCHANGED <<clock, ended, hsVars, connVars, binding, pingVars>>

\* BindTemporaryAuthKey looks at both keys and shortens the requested expiry to
\* the one it has seen; a request outside the key's lifetime is refused.
LookAtKeys(c, parent, requested) ==
  LET k == pinned[c]
      exp == IF requested > temporary[k].expires THEN temporary[k].expires ELSE requested
  IN  /\ session[c] /\ binding[c] = NoBinding
      /\ IsTemporary(k) /\ clock < temporary[k].expires
      /\ ~IsTemporary(parent) /\ Usable(parent) /\ clock < exp
      /\ binding' = [binding EXCEPT ![c] = [parent |-> parent, expires |-> exp]]
      /\ UNCHANGED <<clock, ended, hsVars, connVars, storeVars, pingVars>>

\* Mutant: the expiry is not compared with the stored one again.
MayBindUnchecked(k, b) ==
  /\ IsTemporary(k) /\ b.parent \in keys /\ ~IsTemporary(b.parent) /\ b.parent # k
  /\ temporary[k].parent \in {NoKey, b.parent}
  /\ clock < b.expires

\* What BindTemporary demands of the store as it is by then.
MayBind(k, b) ==
  /\ IsTemporary(k) /\ b.parent \in keys /\ ~IsTemporary(b.parent) /\ b.parent # k
  /\ temporary[k].parent \in {NoKey, b.parent}
  /\ clock < b.expires /\ b.expires <= temporary[k].expires

BindTemporary(c) ==
  LET k == pinned[c]
      b == binding[c]
  IN  /\ b # NoBinding
      /\ binding' = [binding EXCEPT ![c] = NoBinding]
      /\ temporary' = IF MayBind(k, b) THEN [temporary EXCEPT ![k] = [expires |-> b.expires, parent |-> b.parent]]
                                       ELSE temporary
      /\ UNCHANGED <<clock, ended, hsVars, connVars, keys, pingVars>>

-----------------------------------------------------------------------------
(* ping_delay_disconnect *)

\* resetDisconnectDelay: a stopped timer does not fire; Stop comes too late for
\* one that is due, whose callback may be waiting for the lock.
ResetDisconnect(c, delay) ==
  /\ session[c] /\ ~disconnectClosed[c] /\ generation[c] < MaxResets
  /\ generation' = [generation EXCEPT ![c] = @ + 1]
  /\ due' = [due EXCEPT ![c] = clock + delay]
  /\ pending' = [pending EXCEPT ![c] =
                   {t \in @ : t[2] <= clock} \cup {<<generation[c] + 1, clock + delay>>}]
  /\ UNCHANGED <<clock, ended, hsVars, connVars, storeVars, binding, disconnectClosed>>

\* Mutant: a callback closes the transport whichever timer it belongs to.
CurrentAny(c, t) == ~disconnectClosed[c]

Current(c, t) == ~disconnectClosed[c] /\ generation[c] = t[1]

\* expireDisconnectDelay: only the callback of the latest timer closes.
ExpireDisconnect(c, t) ==
  /\ t \in pending[c] /\ clock >= t[2]
  /\ IF Current(c, t) THEN Shut(c, "disconnect")
     ELSE /\ pending' = [pending EXCEPT ![c] = @ \ {t}]
          /\ UNCHANGED <<ended, stage, admitted, expires, asked, authorization, opening, session,
                         sink, disconnectClosed, generation>>
  /\ UNCHANGED <<clock, made, permanent, pinned, storeVars, binding, due>>

-----------------------------------------------------------------------------
Next ==
  \/ Tick
  \/ \E c \in Conns :
       \/ Fails(c) \/ SessionEnds(c) \/ WriteFrame(c) \/ SinkExpires(c)
       \/ BeginExchange(c) \/ RestartExchange(c) \/ DHGenRetry(c)
       \/ \E life \in Lifetimes \cup {0} : ReqDHParams(c, life)
       \/ \E k \in KeyIds : DHGenOK(c, k) \/ DecodeFrame(c, k)
       \/ OpenSession(c)
       \/ \E k \in KeyIds, e \in 1 .. MaxTime : LookAtKeys(c, k, e)
       \/ BindTemporary(c)
       \/ \E d \in Delays : ResetDisconnect(c, d)
       \/ \E t \in pending[c] : ExpireDisconnect(c, t)
  \/ \E k \in KeyIds : ExpireTemporary(k) \/ Delete(k)

Spec == Init /\ [][Next]_vars

-----------------------------------------------------------------------------
\* The lifetime fixed when a temporary key was made is never extended and its
\* binding never changed, also by two binding requests that looked at the key
\* before either bound it (temporary_authkey.go:40: "can never extend").
ExpiryOnlyShrinks ==
  [][\A k \in KeyIds :
       temporary[k].expires # 0 /\ temporary'[k].expires # 0 =>
         /\ temporary'[k].expires <= temporary[k].expires
         /\ temporary[k].parent # NoKey => temporary'[k].parent = temporary[k].parent]_vars

\* A temporary key is bound to a permanent key that is still stored: deleting the
\* permanent key, before, between or after the steps of a binding, leaves no
\* orphan (crypto/authkey_memory.go:47-59, 106-130).
BoundToStoredKey ==
  \A k \in KeyIds : IsTemporary(k) =>
    /\ k \in keys
    /\ temporary[k].parent # NoKey => /\ temporary[k].parent \in keys
                                      /\ ~IsTemporary(temporary[k].parent)

\* A timer closes a transport only when its time has come: the disconnect timer
\* when the latest ping's delay is over, although a stopped timer may still run;
\* the sink's timer when the key has expired or is gone (connection.go:412-449,
\* temporary_key.go).
ClosedOnlyWhenDue ==
  [][\A c \in Conns : ended[c] = "no" =>
       /\ ended'[c] = "disconnect" => clock >= due[c]
       /\ ended'[c] = "expiry" => clock >= temporary[pinned[c]].expires]_vars

\* A stored key is temporary exactly when the exchange that made it asked for a
\* lifetime, however often the exchange was restarted with another request; and
\* only unfinished exchanges of open connections take the engine's capacity
\* (internal/handshake/session.go:98-165, 274-279, engine.go:86-136).
ExchangeIsFresh ==
  /\ \A k \in keys : IsTemporary(k) <=> k \notin permanent
  /\ \A c \in Conns : admitted[c] # 0 => Open(c) /\ stage[c] \in {"pq", "dh"}
  /\ Cardinality({d \in Conns : Live[d] # 0}) <= Capacity
=============================================================================
