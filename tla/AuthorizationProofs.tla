------------------------ MODULE AuthorizationProofs ------------------------
(***************************************************************************)
(* Bindings, lifetimes, timers and key exchanges for any number of         *)
(* connections and keys and any clock, lifetimes, delays and capacities.   *)
(***************************************************************************)
EXTENDS Authorization, FiniteSetTheorems, TLAPS

Info == [expires : Nat, parent : KeyIds \cup {NoKey}]
Request == [parent : KeyIds \cup {NoKey}, expires : Nat]

\* The part of the types that the argument uses.
Types ==
  /\ clock \in Nat
  /\ ended \in [Conns -> {"no", "failed", "expiry", "disconnect"}]
  /\ expires \in [Conns -> Nat]
  /\ sink \in [Conns -> Nat]
  /\ pinned \in [Conns -> KeyIds \cup {NoKey}]
  /\ opening \in [Conns -> KeyIds \cup {NoKey}]
  /\ temporary \in [KeyIds -> Info]
  /\ binding \in [Conns -> Request]
  /\ generation \in [Conns -> Nat]
  /\ due \in [Conns -> Nat]
  /\ disconnectClosed \in [Conns -> BOOLEAN]
  /\ pending \in [Conns -> SUBSET (Nat \X Nat)]

\* Every stored key was made once, so a key that is made now is not stored,
\* bound or used by anyone.
MadeInv == keys \subseteq made

\* The key a frame was decoded with was made before, also if it is removed while
\* the session is being acquired.
OpeningInv == \A c \in Conns : opening[c] # NoKey => opening[c] \in made

\* A sink's timer is never ahead of the expiry of the key it watches.
SinkInv ==
  \A c \in Conns : sink[c] # 0 =>
    pinned[c] \in KeyIds \cap made /\ temporary[pinned[c]].expires <= sink[c]

\* The latest ping's timer is the only one that can still close the transport.
PingInv ==
  \A c \in Conns : \A t \in pending[c] :
    t[1] <= generation[c] /\ (t[1] = generation[c] => t[2] = due[c])

KeyInv == Types /\ MadeInv /\ OpeningInv /\ BoundToStoredKey /\ SinkInv /\ PingInv

\* What every step does to the store: no orphans, no key made twice, and the
\* keys that exist never live longer and are never bound to another key.
StoreStep ==
  /\ temporary' \in [KeyIds -> Info]
  /\ made \subseteq made' /\ MadeInv' /\ BoundToStoredKey'
  /\ \A k \in KeyIds \cap made :
       /\ temporary'[k].expires <= temporary[k].expires
       /\ temporary[k].parent # NoKey /\ temporary'[k].expires # 0
            => temporary'[k].parent = temporary[k].parent

\* The store starts with permanent keys only, and no timer is armed.
LEMMA InitKeyInv == Init => KeyInv
BY AuthorizationAssumption
DEF Init, KeyInv, Types, MadeInv, OpeningInv, BoundToStoredKey, SinkInv, PingInv, IsTemporary,
    NotTemporary, NoBinding, Info, Request

-----------------------------------------------------------------------------
(* The store *)

\* Most steps leave the store alone.
LEMMA StoreStutter == KeyInv /\ UNCHANGED <<keys, temporary, made>> => StoreStep
BY DEF KeyInv, Types, Info, MadeInv, BoundToStoredKey, IsTemporary, StoreStep

\* A completed exchange stores a key nobody has seen; PutTemporary removes only
\* expired keys, which no key is bound to.
LEMMA StoredKeeps ==
  ASSUME KeyInv, NEW c \in Conns, NEW k \in KeyIds, k \notin made, Stored(c, k),
         made' = made \cup {k}
  PROVE  StoreStep
<1>1. CASE expires[c] = 0
  <2>1. keys' = keys \cup {k} /\ temporary' = temporary
    BY <1>1 DEF Stored
  <2> QED
    BY <2>1 DEF KeyInv, Types, Info, MadeInv, BoundToStoredKey, IsTemporary, StoreStep
<1>2. CASE expires[c] # 0
  <2>1. /\ keys' = (keys \ Expired) \cup {k}
        /\ temporary' = [j \in KeyIds |->
             IF j = k THEN [expires |-> expires[c], parent |-> NoKey]
             ELSE IF j \in Expired THEN NotTemporary ELSE temporary[j]]
    BY <1>2 DEF Stored
  <2>2. \A j \in Expired : j \in KeyIds /\ IsTemporary(j)
    BY DEF Expired
  <2>3. k \notin keys
    BY DEF KeyInv, MadeInv
  <2>4. temporary' \in [KeyIds -> Info]
    BY <2>1 DEF KeyInv, Types, Info, NotTemporary
  <2>5. BoundToStoredKey'
    <3> SUFFICES ASSUME NEW j \in KeyIds, IsTemporary(j)'
                 PROVE  /\ j \in keys'
                        /\ temporary'[j].parent # NoKey =>
                             /\ temporary'[j].parent \in keys'
                             /\ ~(temporary'[temporary'[j].parent].expires # 0)
      BY DEF BoundToStoredKey, IsTemporary
    <3>1. CASE j = k
      BY SMTT(60), <2>1, <3>1
    <3>2. CASE j # k
      <4>1. j \notin Expired /\ temporary'[j] = temporary[j]
        BY <2>1, <3>2 DEF IsTemporary, NotTemporary
      <4>2. IsTemporary(j)
        BY <4>1 DEF IsTemporary
      <4>3. j \in keys /\ (temporary[j].parent # NoKey => /\ temporary[j].parent \in keys
                                                          /\ ~IsTemporary(temporary[j].parent))
        BY <4>2 DEF KeyInv, BoundToStoredKey
      <4>4. ASSUME temporary[j].parent # NoKey
            PROVE  temporary'[temporary[j].parent] = temporary[temporary[j].parent]
        <5>1. temporary[j].parent \in KeyIds
          BY <4>4 DEF KeyInv, Types, Info
        <5>2. temporary[j].parent # k /\ temporary[j].parent \notin Expired
          BY <2>2, <2>3, <4>3, <4>4
        <5> QED
          BY <2>1, <5>1, <5>2
      <4> QED
        BY <2>1, <2>2, <4>1, <4>3, <4>4 DEF IsTemporary
    <3> QED
      BY <3>1, <3>2
  <2>6. ASSUME NEW j \in KeyIds \cap made
        PROVE  /\ temporary'[j].expires <= temporary[j].expires
               /\ temporary[j].parent # NoKey /\ temporary'[j].expires # 0
                    => temporary'[j].parent = temporary[j].parent
    BY <2>1 DEF KeyInv, Types, Info, NotTemporary
  <2> QED
    BY <2>1, <2>4, <2>5, <2>6 DEF KeyInv, MadeInv, StoreStep
<1> QED
  BY <1>1, <1>2

\* Keys that are taken out of the store take what is bound to them along.
LEMMA RemovalKeeps ==
  ASSUME KeyInv, NEW gone, UNCHANGED made,
         keys' = keys \ gone,
         temporary' = [j \in KeyIds |-> IF j \in gone THEN NotTemporary ELSE temporary[j]],
         \A j \in KeyIds : IsTemporary(j) /\ temporary[j].parent \in gone => j \in gone
  PROVE  StoreStep
<1>1. temporary' \in [KeyIds -> Info]
  BY DEF KeyInv, Types, Info, NotTemporary
<1>2. BoundToStoredKey'
  <2> SUFFICES ASSUME NEW j \in KeyIds, IsTemporary(j)'
               PROVE  /\ j \in keys'
                      /\ temporary'[j].parent # NoKey =>
                           /\ temporary'[j].parent \in keys'
                           /\ ~(temporary'[temporary'[j].parent].expires # 0)
    BY DEF BoundToStoredKey, IsTemporary
  <2>1. j \notin gone /\ temporary'[j] = temporary[j] /\ IsTemporary(j)
    BY DEF IsTemporary, NotTemporary
  <2>2. j \in keys /\ (temporary[j].parent # NoKey => /\ temporary[j].parent \in keys
                                                      /\ ~IsTemporary(temporary[j].parent))
    BY <2>1 DEF KeyInv, BoundToStoredKey
  <2>3. ASSUME temporary[j].parent # NoKey
        PROVE  temporary'[temporary[j].parent] = temporary[temporary[j].parent]
    BY <2>1, <2>3 DEF KeyInv, Types, Info
  <2> QED
    BY Zenon, <2>1, <2>2, <2>3 DEF IsTemporary
<1>3. ASSUME NEW j \in KeyIds
      PROVE  /\ temporary'[j].expires <= temporary[j].expires
             /\ temporary'[j].expires # 0 => temporary'[j].parent = temporary[j].parent
  BY DEF KeyInv, Types, Info, NotTemporary
<1> QED
  BY <1>1, <1>2, <1>3 DEF KeyInv, MadeInv, StoreStep

\* BindTemporary checks the store as it is, not as the request saw it.
LEMMA BindKeeps ==
  ASSUME KeyInv, NEW c \in Conns, BindTemporary(c)
  PROVE  StoreStep
<1> DEFINE k == pinned[c]
           b == binding[c]
<1>1. UNCHANGED <<keys, made>>
  BY DEF BindTemporary, hsVars
<1>2. CASE ~MayBind(k, b)
  BY <1>1, <1>2, StoreStutter DEF BindTemporary
<1>3. CASE MayBind(k, b) /\ k \notin KeyIds
  <2>1. temporary' = temporary
    BY <1>3 DEF BindTemporary, KeyInv, Types
  <2> QED
    BY <1>1, <2>1, StoreStutter
<1>4. CASE MayBind(k, b) /\ k \in KeyIds
  <2>1. temporary' = [temporary EXCEPT ![k] = [expires |-> b.expires, parent |-> b.parent]]
    BY <1>4 DEF BindTemporary
  <2>2. b.expires \in Nat /\ b.parent \in KeyIds \cup {NoKey}
    BY SMTT(60) DEF KeyInv, Types, Request
  <2>3. /\ IsTemporary(k) /\ b.parent \in keys /\ ~IsTemporary(b.parent) /\ b.parent # k
        /\ temporary[k].parent \in {NoKey, b.parent}
        /\ clock < b.expires /\ b.expires <= temporary[k].expires
    BY <1>4 DEF MayBind
  <2> HIDE DEF b, k
  <2>4. temporary' \in [KeyIds -> Info]
    BY ZenonT(60), <2>1, <2>2 DEF KeyInv, Types, Info
  <2>5. BoundToStoredKey'
    BY Zenon, <1>1, <1>4, <2>1, <2>2, <2>3 DEF KeyInv, Types, Info, BoundToStoredKey, IsTemporary
  <2>6. ASSUME NEW j \in KeyIds
        PROVE  /\ temporary'[j].expires <= temporary[j].expires
               /\ temporary[j].parent # NoKey => temporary'[j].parent = temporary[j].parent
    BY SMTT(30), <1>4, <2>1, <2>3 DEF KeyInv, Types, Info
  <2> QED
    BY <1>1, <2>4, <2>5, <2>6 DEF KeyInv, MadeInv, StoreStep
<1> QED
  BY <1>2, <1>3, <1>4

\* Every step treats the store this way.
LEMMA StoreSteps == KeyInv /\ [Next]_vars => StoreStep
<1> SUFFICES ASSUME KeyInv, [Next]_vars PROVE StoreStep
  OBVIOUS
<1>1. ASSUME NEW c \in Conns, NEW k \in KeyIds, DHGenOK(c, k) PROVE StoreStep
  BY <1>1, StoredKeeps DEF DHGenOK
<1>2. ASSUME NEW k \in KeyIds, ExpireTemporary(k) PROVE StoreStep
  <2>1. IsTemporary(k) /\ UNCHANGED made /\ keys' = keys \ {k}
    BY <1>2 DEF ExpireTemporary, Expired, hsVars
  <2>2. temporary' = [j \in KeyIds |-> IF j \in {k} THEN NotTemporary ELSE temporary[j]]
    BY ZenonT(60), <1>2 DEF ExpireTemporary, KeyInv, Types
  <2>3. \A j \in KeyIds : IsTemporary(j) => temporary[j].parent # k
    BY <2>1, AuthorizationAssumption DEF KeyInv, BoundToStoredKey
  <2> QED
    BY ZenonT(60), <2>1, <2>2, <2>3, RemovalKeeps
<1>3. ASSUME NEW k \in KeyIds, Delete(k) PROVE StoreStep
  <2> DEFINE gone == {k} \cup {j \in KeyIds : IsTemporary(j) /\ temporary[j].parent = k}
  <2>1. /\ keys' = keys \ gone /\ UNCHANGED made
        /\ temporary' = [j \in KeyIds |-> IF j \in gone THEN NotTemporary ELSE temporary[j]]
    BY <1>3 DEF Delete, hsVars
  <2>2. ASSUME NEW j \in KeyIds, IsTemporary(j), temporary[j].parent \in gone PROVE j \in gone
    <3>1. temporary[j].parent # NoKey
      BY <2>2, AuthorizationAssumption
    <3>2. ~IsTemporary(temporary[j].parent)
      BY <2>2, <3>1 DEF KeyInv, BoundToStoredKey
    <3> QED
      BY <2>2, <3>2
  <2> QED
    BY ZenonT(60), <2>1, <2>2, RemovalKeeps
<1>4. ASSUME NEW c \in Conns, BindTemporary(c) PROVE StoreStep
  BY <1>4, BindKeeps
<1>5. ASSUME UNCHANGED <<keys, temporary, made>> PROVE StoreStep
  BY <1>5, StoreStutter
<1>6. ASSUME NEW c \in Conns,
             \/ Fails(c) \/ SessionEnds(c) \/ WriteFrame(c) \/ SinkExpires(c)
             \/ BeginExchange(c) \/ RestartExchange(c) \/ DHGenRetry(c)
             \/ \E life \in Lifetimes \cup {0} : ReqDHParams(c, life)
             \/ OpenSession(c) \/ \E k \in KeyIds : DecodeFrame(c, k)
             \/ \E k \in KeyIds, e \in 1 .. MaxTime : LookAtKeys(c, k, e)
             \/ \E d \in Delays : ResetDisconnect(c, d)
             \/ \E t \in pending[c] : ExpireDisconnect(c, t)
      PROVE  UNCHANGED <<keys, temporary, made>>
  BY ZenonT(60), <1>6 DEF Fails, SessionEnds, WriteFrame, SinkExpires, BeginExchange, RestartExchange,
     DHGenRetry, ReqDHParams, OpenSession, DecodeFrame, LookAtKeys, ResetDisconnect, ExpireDisconnect,
     storeVars, hsVars
<1>7. CASE Tick
  BY <1>5, <1>7 DEF Tick, storeVars, hsVars
<1>8. CASE UNCHANGED vars
  BY <1>5, <1>8 DEF vars, storeVars, hsVars
<1> QED
  BY <1>1, <1>2, <1>3, <1>4, <1>5, <1>6, <1>7, <1>8 DEF Next

\* What every step does to the keys that frames were decoded with.
OpeningStep == opening' \in [Conns -> KeyIds \cup {NoKey}] /\ OpeningInv'

\* A frame is decoded with a stored key, and the wait for its session ends.
LEMMA OpeningSteps == KeyInv /\ StoreStep /\ [Next]_vars => OpeningStep
<1> SUFFICES ASSUME KeyInv, StoreStep, [Next]_vars PROVE OpeningStep
  OBVIOUS
<1>0. /\ opening \in [Conns -> KeyIds \cup {NoKey}] /\ OpeningInv
      /\ keys \subseteq made /\ made \subseteq made'
  BY Zenon DEF KeyInv, Types, MadeInv, StoreStep
<1>1. ASSUME opening' = opening PROVE OpeningStep
  BY Zenon, <1>0, <1>1 DEF OpeningStep, OpeningInv
<1>2. ASSUME NEW c \in Conns, opening' = [opening EXCEPT ![c] = NoKey] PROVE OpeningStep
  BY <1>0, <1>2 DEF OpeningStep, OpeningInv
<1>3. ASSUME NEW c \in Conns, NEW k \in KeyIds, DecodeFrame(c, k) PROVE OpeningStep
  <2>1. k \in made' /\ opening' = [opening EXCEPT ![c] = k]
    BY Zenon, <1>0, <1>3 DEF DecodeFrame, Usable
  <2> QED
    BY <1>0, <2>1 DEF OpeningStep, OpeningInv
<1>4. ASSUME NEW c \in Conns, Fails(c) \/ SinkExpires(c) \/ OpenSession(c) PROVE OpeningStep
  BY Zenon, <1>2, <1>4 DEF Fails, SinkExpires, OpenSession, Shut
<1>5. ASSUME NEW c \in Conns, NEW k \in KeyIds, DHGenOK(c, k) PROVE OpeningStep
  BY Zenon, <1>1, <1>2, <1>5 DEF DHGenOK, Shut
<1>6. ASSUME NEW c \in Conns, NEW t \in pending[c], ExpireDisconnect(c, t) PROVE OpeningStep
  BY Zenon, <1>1, <1>2, <1>6 DEF ExpireDisconnect, Shut
<1>7. ASSUME NEW c \in Conns, \/ SessionEnds(c) \/ WriteFrame(c) \/ BindTemporary(c)
                              \/ BeginExchange(c) \/ RestartExchange(c) \/ DHGenRetry(c)
      PROVE  OpeningStep
  BY Zenon, <1>1, <1>7
  DEF SessionEnds, WriteFrame, BindTemporary, BeginExchange, RestartExchange, DHGenRetry, connVars
<1>8. ASSUME NEW c \in Conns, \/ \E life \in Lifetimes \cup {0} : ReqDHParams(c, life)
                              \/ \E k \in KeyIds, e \in 1 .. MaxTime : LookAtKeys(c, k, e)
                              \/ \E d \in Delays : ResetDisconnect(c, d)
      PROVE  OpeningStep
  BY Zenon, <1>1, <1>8 DEF ReqDHParams, LookAtKeys, ResetDisconnect, connVars
<1>9. ASSUME \/ Tick \/ UNCHANGED vars \/ \E k \in KeyIds : ExpireTemporary(k) \/ Delete(k)
      PROVE  OpeningStep
  BY Zenon, <1>1, <1>9 DEF Tick, vars, ExpireTemporary, Delete, connVars
<1> QED
  BY ZenonT(40), <1>3, <1>4, <1>5, <1>6, <1>7, <1>8, <1>9 DEF Next

-----------------------------------------------------------------------------
(* The invariant *)

\* What remains to be shown when no sink is armed and no ping sent.
LEMMA QuietKeeps ==
  ASSUME KeyInv, StoreStep, OpeningStep, UNCHANGED <<sink, pinned, pingVars>>,
         clock' \in Nat, expires' \in [Conns -> Nat], binding' \in [Conns -> Request],
         ended' \in [Conns -> {"no", "failed", "expiry", "disconnect"}]
  PROVE  KeyInv'
<1>1. Types'
  BY SMTT(60) DEF KeyInv, Types, StoreStep, OpeningStep, pingVars
<1>2. SinkInv'
  <2> SUFFICES ASSUME NEW c \in Conns, sink[c] # 0
               PROVE  pinned[c] \in KeyIds \cap made' /\ temporary'[pinned[c]].expires <= sink[c]
    BY DEF SinkInv
  <2>1. pinned[c] \in KeyIds \cap made /\ temporary[pinned[c]].expires <= sink[c]
    BY SMTT(60) DEF KeyInv, SinkInv
  <2>2. temporary'[pinned[c]].expires <= temporary[pinned[c]].expires /\ made \subseteq made'
    BY SMTT(60), <2>1 DEF StoreStep
  <2>3. /\ temporary'[pinned[c]].expires \in Nat /\ temporary[pinned[c]].expires \in Nat
        /\ sink[c] \in Nat
    BY <2>1 DEF KeyInv, Types, Info, StoreStep
  <2> QED
    BY SMTT(60), <2>1, <2>2, <2>3
<1>3. PingInv'
  BY SMTT(60) DEF KeyInv, PingInv, pingVars
<1> QED
  BY <1>1, <1>2, <1>3 DEF KeyInv, StoreStep, OpeningStep

\* The end of a connection leaves no sink and no pending timer behind.
LEMMA ShutKeeps ==
  ASSUME KeyInv, StoreStep, OpeningStep, NEW c \in Conns, NEW why \in {"failed", "expiry", "disconnect"},
         Shut(c, why), UNCHANGED <<clock, pinned, binding, due>>
  PROVE  KeyInv'
<1>1. /\ ended' = [ended EXCEPT ![c] = why]
      /\ expires' = [expires EXCEPT ![c] = 0]
      /\ sink' = [sink EXCEPT ![c] = 0]
      /\ disconnectClosed' = [disconnectClosed EXCEPT ![c] = TRUE]
      /\ generation' = [generation EXCEPT ![c] = @ + 1]
      /\ pending' = [pending EXCEPT ![c] = {}]
  BY SMTT(60) DEF Shut
<1>2. Types'
  BY <1>1 DEF KeyInv, Types, StoreStep, OpeningStep
<1>3. SinkInv'
  <2> SUFFICES ASSUME NEW d \in Conns, sink'[d] # 0
               PROVE  pinned[d] \in KeyIds \cap made' /\ temporary'[pinned[d]].expires <= sink'[d]
    BY DEF SinkInv
  <2>1. sink'[d] = sink[d]
    BY SMTT(60), <1>1 DEF KeyInv, Types
  <2>2. pinned[d] \in KeyIds \cap made /\ temporary[pinned[d]].expires <= sink[d]
    BY SMTT(60), <2>1 DEF KeyInv, SinkInv
  <2>3. temporary'[pinned[d]].expires <= temporary[pinned[d]].expires /\ made \subseteq made'
    BY SMTT(60), <2>2 DEF StoreStep
  <2>4. /\ temporary'[pinned[d]].expires \in Nat /\ temporary[pinned[d]].expires \in Nat
        /\ sink[d] \in Nat
    BY SMTT(60), <2>2 DEF KeyInv, Types, Info, StoreStep
  <2> QED
    BY <2>1, <2>2, <2>3, <2>4
<1>4. PingInv'
  BY <1>1 DEF KeyInv, Types, PingInv
<1> QED
  BY <1>2, <1>3, <1>4 DEF KeyInv, StoreStep, OpeningStep

\* A new session's sink is armed with the expiry its key has, and a write moves
\* it to the expiry the key has by then.
LEMMA SinkKeeps ==
  ASSUME KeyInv, StoreStep, OpeningStep, NEW c \in Conns, NEW k \in KeyIds \cap made,
         pinned' = [pinned EXCEPT ![c] = k],
         sink' = [sink EXCEPT ![c] = temporary[k].expires] \/ sink' = [sink EXCEPT ![c] = 0],
         UNCHANGED <<clock, ended, expires, binding, temporary, made, pingVars>>
  PROVE  KeyInv'
<1>1. temporary[k].expires \in Nat
  BY SMTT(60) DEF KeyInv, Types, Info
<1>2. Types'
  BY SMTT(60), <1>1 DEF KeyInv, Types, StoreStep, OpeningStep, pingVars
<1>3. SinkInv'
  BY SMTT(60), <1>1 DEF KeyInv, Types, SinkInv
<1>4. PingInv'
  BY DEF KeyInv, PingInv, pingVars
<1> QED
  BY Zenon, <1>2, <1>3, <1>4 DEF KeyInv, StoreStep, OpeningStep

\* A ping's timer is the only one of its generation.
LEMMA PingKeeps ==
  ASSUME KeyInv, NEW c \in Conns, NEW delay \in Delays, ResetDisconnect(c, delay)
  PROVE  KeyInv'
<1>1. /\ generation' = [generation EXCEPT ![c] = @ + 1]
      /\ due' = [due EXCEPT ![c] = clock + delay]
      /\ pending' = [pending EXCEPT ![c] =
                       {t \in @ : t[2] <= clock} \cup {<<generation[c] + 1, clock + delay>>}]
      /\ UNCHANGED <<clock, ended, expires, made, pinned, opening, sink, keys, temporary, binding,
                     disconnectClosed>>
  BY Zenon DEF ResetDisconnect, hsVars, connVars, storeVars
<1>2. clock + delay \in Nat /\ generation[c] \in Nat
  BY SMTT(60), AuthorizationAssumption DEF KeyInv, Types
<1>3. Types'
  <2>1. pending' \in [Conns -> SUBSET (Nat \X Nat)]
    BY <1>1, <1>2 DEF KeyInv, Types
  <2> QED
    BY SMTT(60), <1>1, <1>2, <2>1 DEF KeyInv, Types
<1>4. PingInv'
  <2> SUFFICES ASSUME NEW d \in Conns, NEW t \in pending'[d]
               PROVE  t[1] <= generation'[d] /\ (t[1] = generation'[d] => t[2] = due'[d])
    BY SMTT(60) DEF PingInv
  <2>1. CASE d # c
    BY SMTT(60), <1>1, <2>1 DEF KeyInv, Types, PingInv
  <2>2. CASE d = c
    <3>1. generation'[c] = generation[c] + 1 /\ due'[c] = clock + delay
      BY SMTT(60), <1>1 DEF KeyInv, Types
    <3>2. t \in pending[c] \/ t = <<generation[c] + 1, clock + delay>>
      BY SMTT(60), <1>1, <2>2 DEF KeyInv, Types
    <3>3. CASE t \in pending[c]
      <4>1. t[1] \in Nat /\ t[1] <= generation[c]
        BY SMTT(60), <3>3 DEF KeyInv, Types, PingInv
      <4> QED
        BY SMTT(60), <1>2, <2>2, <3>1, <4>1
    <3>4. CASE t = <<generation[c] + 1, clock + delay>>
      BY SMTT(60), <1>2, <2>2, <3>1, <3>4
    <3> QED
      BY SMTT(60), <3>2, <3>3, <3>4
  <2> QED
    BY <2>1, <2>2
<1>5. MadeInv' /\ OpeningInv' /\ BoundToStoredKey' /\ SinkInv'
  BY SMTT(60), <1>1 DEF KeyInv, MadeInv, OpeningInv, BoundToStoredKey, IsTemporary, SinkInv
<1> QED
  BY ZenonT(40), <1>3, <1>4, <1>5 DEF KeyInv

\* A connection with a session has a pinned key (inbound frames pin it first).
SessionInv ==
  /\ session \in [Conns -> BOOLEAN] /\ pinned \in [Conns -> KeyIds \cup {NoKey}]
  /\ opening \in [Conns -> KeyIds \cup {NoKey}]
  /\ \A c \in Conns : session[c] => pinned[c] \in KeyIds

\* Every step keeps the bindings and their lifetimes sound.
LEMMA SessionInvStep == SessionInv /\ OpeningStep /\ [Next]_vars => SessionInv'
<1> SUFFICES ASSUME SessionInv, OpeningStep, [Next]_vars PROVE SessionInv'
  OBVIOUS
<1>0. opening' \in [Conns -> KeyIds \cup {NoKey}]
  BY Zenon DEF OpeningStep
<1>1. ASSUME NEW c \in Conns, session' = [session EXCEPT ![c] = FALSE], pinned' = pinned
      PROVE  SessionInv'
  BY <1>0, <1>1 DEF SessionInv
<1>2. ASSUME session' = session, pinned' = pinned PROVE SessionInv'
  BY Zenon, <1>0, <1>2 DEF SessionInv
<1>3. ASSUME NEW c \in Conns, WriteFrame(c) PROVE SessionInv'
  BY SMTT(60), <1>0, <1>3 DEF WriteFrame, SessionInv, hsVars
<1>4. ASSUME NEW c \in Conns, OpenSession(c) \/ \E k \in KeyIds : DecodeFrame(c, k) PROVE SessionInv'
  <2>1. CASE OpenSession(c)
    <3> DEFINE k == opening[c]
    <3>1. k \in KeyIds /\ session' = [session EXCEPT ![c] = TRUE] /\ pinned' = [pinned EXCEPT ![c] = k]
      BY Zenon, <2>1 DEF OpenSession, SessionInv
    <3> HIDE DEF k
    <3> QED BY <1>0, <3>1 DEF SessionInv
  <2>2. ASSUME NEW k \in KeyIds, DecodeFrame(c, k) PROVE SessionInv'
    BY Zenon, <1>2, <2>2 DEF DecodeFrame
  <2> QED BY Zenon, <1>4, <2>1, <2>2
<1>5. ASSUME NEW c \in Conns, \/ Fails(c) \/ SinkExpires(c) \/ SessionEnds(c)
                              \/ \E k \in KeyIds : DHGenOK(c, k)
                              \/ \E t \in pending[c] : ExpireDisconnect(c, t)
      PROVE  SessionInv'
  <2>1. pinned' = pinned /\ (session' = session \/ session' = [session EXCEPT ![c] = FALSE])
    BY <1>5 DEF Fails, SinkExpires, SessionEnds, DHGenOK, ExpireDisconnect, Shut
  <2> QED
    BY SMTT(60), <2>1, <1>1, <1>2
<1>6. ASSUME \/ Tick \/ UNCHANGED vars
             \/ \E c \in Conns :
                  \/ BeginExchange(c) \/ RestartExchange(c) \/ DHGenRetry(c) \/ BindTemporary(c)
                  \/ \E life \in Lifetimes \cup {0} : ReqDHParams(c, life)
                  \/ \E k \in KeyIds, e \in 1 .. MaxTime : LookAtKeys(c, k, e)
                  \/ \E d \in Delays : ResetDisconnect(c, d)
             \/ \E k \in KeyIds : ExpireTemporary(k) \/ Delete(k)
      PROVE  SessionInv'
  <2>1. connVars' = connVars
    <3>1. CASE Tick \/ UNCHANGED vars
      BY Zenon, <3>1 DEF Tick, vars
    <3>2. CASE \E c \in Conns : \/ BeginExchange(c) \/ RestartExchange(c) \/ DHGenRetry(c)
                               \/ BindTemporary(c)
                               \/ \E life \in Lifetimes \cup {0} : ReqDHParams(c, life)
      BY Zenon, <3>2 DEF BeginExchange, RestartExchange, DHGenRetry, BindTemporary, ReqDHParams
    <3>3. CASE \E c \in Conns : \/ \E k \in KeyIds, e \in 1 .. MaxTime : LookAtKeys(c, k, e)
                               \/ \E d \in Delays : ResetDisconnect(c, d)
      BY ZenonT(40), <3>3 DEF LookAtKeys, ResetDisconnect
    <3>4. CASE \E k \in KeyIds : ExpireTemporary(k) \/ Delete(k)
      BY Zenon, <3>4 DEF ExpireTemporary, Delete
    <3> QED BY Zenon, <1>6, <3>1, <3>2, <3>3, <3>4
  <2> QED
    BY <2>1, <1>2 DEF connVars
<1> QED
  BY Zenon, <1>3, <1>4, <1>5, <1>6 DEF Next

\* The invariant is inductive.
LEMMA KeyInvStep == SessionInv /\ KeyInv /\ [Next]_vars => KeyInv'
<1> SUFFICES ASSUME SessionInv, KeyInv, [Next]_vars PROVE KeyInv'
  OBVIOUS
<1>s. StoreStep /\ OpeningStep
  BY Zenon, StoreSteps, OpeningSteps
<1>t. Types
  BY DEF KeyInv
<1>1. CASE Tick
  BY <1>1, <1>s, <1>t, QuietKeeps DEF Tick, Types, hsVars, connVars
<1>2. ASSUME NEW c \in Conns, Fails(c) PROVE KeyInv'
  BY <1>2, <1>s, ShutKeeps DEF Fails
<1>3. ASSUME NEW c \in Conns, SinkExpires(c) PROVE KeyInv'
  BY <1>3, <1>s, ShutKeeps DEF SinkExpires
<1>4. ASSUME NEW c \in Conns, SessionEnds(c) \/ WriteFrame(c) PROVE KeyInv'
  <2>1. /\ sink' = [sink EXCEPT ![c] = 0] \/ sink' = [sink EXCEPT ![c] = temporary[pinned[c]].expires]
        /\ UNCHANGED <<clock, ended, expires, binding, keys, temporary, made, pinned, pingVars>>
    BY Zenon, <1>4 DEF SessionEnds, WriteFrame, hsVars, storeVars
  <2>2. CASE sink[c] = 0
    <3>1. sink' = sink
      BY ZenonT(60), <1>4, <2>2, <1>t DEF SessionEnds, WriteFrame, Types
    <3> QED
      BY SMTT(60), <2>1, <3>1, <1>s, <1>t, QuietKeeps DEF Types
  <2>3. CASE sink[c] # 0
    <3>1. pinned[c] \in KeyIds \cap made
      BY <2>3 DEF KeyInv, SinkInv
    <3>2. pinned' = [pinned EXCEPT ![c] = pinned[c]]
      BY <2>1, <1>t DEF Types
    <3> QED
      BY ZenonT(60), <2>1, <3>1, <3>2, <1>s, SinkKeeps
  <2> QED
    BY SMTT(60), <2>2, <2>3
<1>5. ASSUME NEW c \in Conns,
             \/ BeginExchange(c) \/ RestartExchange(c) \/ DHGenRetry(c)
             \/ \E life \in Lifetimes \cup {0} : ReqDHParams(c, life)
      PROVE  KeyInv'
  <2>1. UNCHANGED <<clock, ended, sink, pinned, binding, pingVars>>
    BY SMTT(60), <1>5 DEF BeginExchange, RestartExchange, DHGenRetry, ReqDHParams, connVars
  <2>2. expires' \in [Conns -> Nat]
    BY <1>5, <1>t, AuthorizationAssumption
    DEF BeginExchange, RestartExchange, DHGenRetry, ReqDHParams, Types
  <2> QED
    BY SMTT(60), <2>1, <2>2, <1>s, <1>t, QuietKeeps DEF Types
<1>6. ASSUME NEW c \in Conns, NEW k \in KeyIds, DHGenOK(c, k) PROVE KeyInv'
  <2>1. CASE Shut(c, "failed")
    BY SMTT(60), <1>6, <2>1, <1>s, ShutKeeps DEF DHGenOK
  <2>2. CASE ~Shut(c, "failed")
    BY SMTT(60), <1>6, <2>2, <1>s, <1>t, QuietKeeps DEF DHGenOK, Types, pingVars
  <2> QED
    BY <2>1, <2>2
<1>7. ASSUME NEW c \in Conns, OpenSession(c) \/ \E k \in KeyIds : DecodeFrame(c, k) PROVE KeyInv'
  <2>1. CASE OpenSession(c)
    <3>1. opening[c] \in KeyIds \cap made
      BY Zenon, <2>1, <1>t DEF OpenSession, KeyInv, OpeningInv, Types
    <3>2. /\ pinned' = [pinned EXCEPT ![c] = opening[c]]
          /\ sink' = [sink EXCEPT ![c] = temporary[opening[c]].expires]
          /\ UNCHANGED <<clock, ended, expires, binding, temporary, made, pingVars>>
      BY Zenon, <2>1 DEF OpenSession, hsVars, storeVars
    <3> QED
      BY ZenonT(60), <3>1, <3>2, <1>s, SinkKeeps
  <2>2. ASSUME NEW k \in KeyIds, DecodeFrame(c, k) PROVE KeyInv'
    <3>1. UNCHANGED <<clock, ended, expires, sink, pinned, binding, pingVars>>
      BY Zenon, <2>2 DEF DecodeFrame, hsVars
    <3> QED
      BY ZenonT(40), <3>1, <1>s, <1>t, QuietKeeps DEF Types
  <2> QED BY Zenon, <1>7, <2>1, <2>2
<1>8. ASSUME NEW c \in Conns, NEW k \in KeyIds, NEW e \in 1 .. MaxTime, LookAtKeys(c, k, e)
      PROVE  KeyInv'
  <2>1. UNCHANGED <<clock, ended, expires, sink, pinned, pingVars>>
    BY <1>8 DEF LookAtKeys, hsVars, connVars
  <2>2. binding' \in [Conns -> Request]
    <3> DEFINE j == pinned[c]
               exp == IF e > temporary[j].expires THEN temporary[j].expires ELSE e
    <3>1. binding' = [binding EXCEPT ![c] = [parent |-> k, expires |-> exp]] /\ clock < exp
      BY Zenon, <1>8 DEF LookAtKeys
    <3>2. CASE j \in KeyIds
      <4>1. exp \in Nat
        BY SMTT(60), <3>2, <1>t DEF Types, Info
      <4> HIDE DEF exp
      <4> QED
        BY <3>1, <4>1, <1>t DEF Types, Request
    <3>3. j \in KeyIds
      BY <1>8 DEF LookAtKeys, SessionInv
    <3> QED
      BY Zenon, <3>2, <3>3
  <2> QED
    BY ZenonT(40), <2>1, <2>2, <1>s, <1>t, QuietKeeps DEF Types
<1>9. ASSUME NEW c \in Conns, BindTemporary(c) PROVE KeyInv'
  <2>1. UNCHANGED <<clock, ended, expires, sink, pinned, pingVars>>
    BY Zenon, <1>9 DEF BindTemporary, hsVars, connVars
  <2>2. binding' \in [Conns -> Request]
    BY <1>9, <1>t DEF BindTemporary, Types, Request, NoBinding
  <2> QED
    BY SMTT(60), <2>1, <2>2, <1>s, <1>t, QuietKeeps DEF Types
<1>10. ASSUME NEW c \in Conns, NEW d \in Delays, ResetDisconnect(c, d) PROVE KeyInv'
  BY SMTT(60), <1>10, PingKeeps
<1>11. ASSUME NEW c \in Conns, NEW t \in pending[c], ExpireDisconnect(c, t) PROVE KeyInv'
  <2>1. CASE Current(c, t)
    BY SMTT(60), <1>11, <2>1, <1>s, ShutKeeps DEF ExpireDisconnect
  <2>2. CASE ~Current(c, t)
    <3>1. /\ pending' = [pending EXCEPT ![c] = @ \ {t}]
          /\ UNCHANGED <<clock, ended, expires, made, pinned, opening, sink, keys, temporary,
                         binding, generation, due, disconnectClosed>>
      BY SMTT(60), <1>11, <2>2 DEF ExpireDisconnect, storeVars
    <3>2. Types'
      BY SMTT(60), <3>1, <1>t DEF Types
    <3>3. PingInv'
      BY SMTT(60), <3>1, <1>t DEF KeyInv, Types, PingInv
    <3>4. SinkInv'
      BY Zenon, <3>1 DEF KeyInv, SinkInv
    <3> QED
      BY Zenon, <3>2, <3>3, <3>4, <1>s DEF KeyInv, StoreStep, OpeningStep
  <2> QED
    BY SMTT(60), <2>1, <2>2
<1>12. ASSUME NEW k \in KeyIds, ExpireTemporary(k) \/ Delete(k) PROVE KeyInv'
  <2>1. UNCHANGED <<clock, ended, expires, sink, pinned, binding, pingVars>>
    BY SMTT(60), <1>12 DEF ExpireTemporary, Delete, hsVars, connVars
  <2> QED
    BY SMTT(60), <2>1, <1>s, <1>t, QuietKeeps DEF Types
<1>13. CASE UNCHANGED vars
  BY SMTT(60), <1>13, <1>s, <1>t, QuietKeeps DEF vars, Types, hsVars, connVars
<1> QED
  BY ZenonT(60), <1>1, <1>2, <1>3, <1>4, <1>5, <1>6, <1>7, <1>8, <1>9, <1>10, <1>11, <1>12, <1>13 DEF Next

-----------------------------------------------------------------------------
\* What a step may do to the reason a transport was closed.
DueStep ==
  \A c \in Conns : ended[c] = "no" =>
    /\ ended'[c] = "disconnect" => clock >= due[c]
    /\ ended'[c] = "expiry" => clock >= temporary[pinned[c]].expires

\* In every step, a connection is closed by a timer only when it is due.
LEMMA DueSteps == KeyInv /\ [Next]_vars => DueStep
<1> SUFFICES ASSUME KeyInv, [Next]_vars PROVE DueStep
  OBVIOUS
<1>1. ASSUME ended' = ended PROVE DueStep
  BY SMTT(60), <1>1 DEF DueStep
<1>2. ASSUME NEW c \in Conns, Shut(c, "failed") PROVE DueStep
  BY SMTT(60), <1>2 DEF DueStep, Shut, KeyInv, Types
<1>3. ASSUME NEW c \in Conns, SinkExpires(c) PROVE DueStep
  <2>1. pinned[c] \in KeyIds /\ temporary[pinned[c]].expires <= sink[c] /\ clock >= sink[c]
    BY SMTT(60), <1>3 DEF SinkExpires, KeyInv, SinkInv
  <2>2. clock \in Nat /\ sink[c] \in Nat /\ temporary[pinned[c]].expires \in Nat
    BY Zenon, <2>1 DEF KeyInv, Types, Info
  <2>3. clock >= temporary[pinned[c]].expires
    BY SMTT(60), <2>1, <2>2
  <2>4. ended' = [ended EXCEPT ![c] = "expiry"]
    BY <1>3 DEF SinkExpires, Shut
  <2> QED
    BY SMTT(60), <2>3, <2>4 DEF DueStep, KeyInv, Types
<1>4. ASSUME NEW c \in Conns, NEW t \in pending[c], ExpireDisconnect(c, t) PROVE DueStep
  <2>1. CASE Current(c, t)
    <3>1. clock >= due[c]
      BY SMTT(60), <1>4, <2>1 DEF ExpireDisconnect, Current, KeyInv, PingInv
    <3>2. ended' = [ended EXCEPT ![c] = "disconnect"]
      BY SMTT(60), <1>4, <2>1 DEF ExpireDisconnect, Shut
    <3> QED
      BY SMTT(60), <3>1, <3>2 DEF DueStep, KeyInv, Types
  <2>2. CASE ~Current(c, t)
    BY <1>1, <1>4, <2>2 DEF ExpireDisconnect
  <2> QED
    BY SMTT(60), <2>1, <2>2
<1>5. ASSUME NEW c \in Conns, Fails(c) \/ \E k \in KeyIds : DHGenOK(c, k) PROVE DueStep
  <2>1. ended' = ended \/ Shut(c, "failed")
    BY <1>5 DEF Fails, DHGenOK
  <2> QED
    BY SMTT(60), <2>1, <1>1, <1>2
<1>6. ASSUME \/ Tick \/ UNCHANGED vars
             \/ \E c \in Conns :
                  \/ SessionEnds(c) \/ WriteFrame(c)
                  \/ BeginExchange(c) \/ RestartExchange(c) \/ DHGenRetry(c) \/ BindTemporary(c)
                  \/ \E life \in Lifetimes \cup {0} : ReqDHParams(c, life)
                  \/ OpenSession(c) \/ \E k \in KeyIds : DecodeFrame(c, k)
                  \/ \E k \in KeyIds, e \in 1 .. MaxTime : LookAtKeys(c, k, e)
                  \/ \E d \in Delays : ResetDisconnect(c, d)
             \/ \E k \in KeyIds : ExpireTemporary(k) \/ Delete(k)
      PROVE  DueStep
  <2>1. ended' = ended
    <3>1. CASE Tick \/ UNCHANGED vars
      BY Zenon, <3>1 DEF Tick, vars
    <3>2. CASE \E c \in Conns : \/ SessionEnds(c) \/ WriteFrame(c)
                               \/ BeginExchange(c) \/ RestartExchange(c) \/ DHGenRetry(c)
      BY Zenon, <3>2 DEF SessionEnds, WriteFrame, BeginExchange, RestartExchange, DHGenRetry
    <3>3. CASE \E c \in Conns : \/ BindTemporary(c)
                               \/ \E life \in Lifetimes \cup {0} : ReqDHParams(c, life)
                               \/ OpenSession(c) \/ \E k \in KeyIds : DecodeFrame(c, k)
      BY Zenon, <3>3 DEF BindTemporary, ReqDHParams, OpenSession, DecodeFrame
    <3>4. CASE \E c \in Conns : \/ \E k \in KeyIds, e \in 1 .. MaxTime : LookAtKeys(c, k, e)
                               \/ \E d \in Delays : ResetDisconnect(c, d)
      BY ZenonT(40), <3>4 DEF LookAtKeys, ResetDisconnect
    <3>5. CASE \E k \in KeyIds : ExpireTemporary(k) \/ Delete(k)
      BY Zenon, <3>5 DEF ExpireTemporary, Delete
    <3> QED BY Zenon, <1>6, <3>1, <3>2, <3>3, <3>4, <3>5
  <2> QED
    BY <2>1, <1>1
<1> QED
  BY ZenonT(60), <1>3, <1>4, <1>5, <1>6 DEF Next

\* No temporary key's expiry grows or binding changes in a step.
LEMMA ShrinkSteps ==
  KeyInv /\ [Next]_vars =>
    \A k \in KeyIds :
      temporary[k].expires # 0 /\ temporary'[k].expires # 0 =>
        /\ temporary'[k].expires <= temporary[k].expires
        /\ temporary[k].parent # NoKey => temporary'[k].parent = temporary[k].parent
<1> SUFFICES ASSUME KeyInv, [Next]_vars, NEW k \in KeyIds,
                    temporary[k].expires # 0, temporary'[k].expires # 0
             PROVE  /\ temporary'[k].expires <= temporary[k].expires
                    /\ temporary[k].parent # NoKey => temporary'[k].parent = temporary[k].parent
  BY SMTT(60)
<1>1. k \in made
  BY DEF KeyInv, BoundToStoredKey, IsTemporary, MadeInv
<1> QED
  BY Zenon, <1>1, StoreSteps DEF StoreStep

\* The inductive invariant holds for every number of connections and keys, every
\* lifetime, delay and capacity.
THEOREM KeyInvariant == Spec => [](SessionInv /\ KeyInv)
<1>1. Init => SessionInv
  BY DEF Init, SessionInv
<1> QED
  <2>1. SessionInv /\ KeyInv /\ [Next]_vars => (SessionInv /\ KeyInv)'
    BY Zenon, StoreSteps, OpeningSteps, SessionInvStep, KeyInvStep
  <2> QED
    BY <1>1, <2>1, InitKeyInv, PTL DEF Spec

\* A bound temporary key's permanent key is stored and permanent: Delete,
\* expireTemporary, PutTemporary and BindTemporary keep the two maps of
\* MemoryAuthKeyManager together (crypto/authkey_memory.go).
THEOREM BindingsAreSound == Spec => []BoundToStoredKey
<1>1. KeyInv => BoundToStoredKey
  BY DEF KeyInv
<1> QED
  BY <1>1, KeyInvariant, PTL

\* BindTemporaryAuthKey never lengthens a temporary key's life nor changes its
\* binding, however many requests looked at the key before one of them bound it.
THEOREM LifetimesShrink == Spec => ExpiryOnlyShrinks
<1> QED
  BY KeyInvariant, ShrinkSteps, PTL DEF Spec, ExpiryOnlyShrinks

\* A disconnect timer closes only after the delay of the latest ping, a frame
\* sink's only after the expiry its key has by then (connection.go, temporary_key.go).
THEOREM TimersCloseOnlyWhenDue == Spec => ClosedOnlyWhenDue
<1> QED
  BY KeyInvariant, DueSteps, PTL DEF Spec, ClosedOnlyWhenDue, DueStep

-----------------------------------------------------------------------------
(* Key exchanges and the capacity of the engine *)

Taken == {d \in Conns : clock < admitted[d]}
Bounded == IsFiniteSet(Taken) /\ Cardinality(Taken) <= Capacity

\* An admission belongs to an unfinished exchange of an open connection, an
\* exchange starts without a lifetime, and the live admissions are counted.
ExchangeInv ==
  /\ stage \in [Conns -> {"none", "pq", "dh", "closed"}]
  /\ admitted \in [Conns -> Nat]
  /\ \A c \in Conns : /\ stage[c] = "pq" => expires[c] = 0
                      /\ admitted[c] # 0 => ended[c] = "no" /\ stage[c] \in {"pq", "dh"}
  /\ Bounded

\* Admissions end, by themselves or when they are given back.
LEMMA FewerTaken == Bounded /\ Taken' \subseteq Taken => Bounded'
<1> SUFFICES ASSUME Bounded, Taken' \subseteq Taken PROVE Bounded'
  OBVIOUS
<1>1. IsFiniteSet(Taken') /\ Cardinality(Taken') <= Cardinality(Taken)
  BY Zenon, FS_Subset DEF Bounded
<1>2. Cardinality(Taken) \in Nat /\ Cardinality(Taken') \in Nat /\ Cardinality(Taken) <= Capacity
  BY Zenon, <1>1, FS_CardinalityType DEF Bounded
<1>3. Cardinality(Taken') <= Capacity
  BY <1>1, <1>2, AuthorizationAssumption
<1> QED BY Zenon, <1>1, <1>3 DEF Bounded

\* NewSession admits one session when there is room, not counting the one that
\* it replaces.
LEMMA OneMoreTaken ==
  ASSUME Bounded, NEW c, Cardinality(Taken \ {c}) < Capacity, Taken' \subseteq Taken \cup {c}
  PROVE  Bounded'
<1> DEFINE T == Taken \ {c}
<1>1. IsFiniteSet(T) /\ Cardinality(T) < Capacity
  BY Zenon, FS_Subset DEF Bounded
<1>2. c \notin T /\ Taken' \subseteq T \cup {c}
  OBVIOUS
<1> HIDE DEF T
<1>3. IsFiniteSet(T \cup {c}) /\ Cardinality(T \cup {c}) = Cardinality(T) + 1
  BY Zenon, <1>1, <1>2, FS_AddElement
<1>4. IsFiniteSet(Taken') /\ Cardinality(Taken') <= Cardinality(T \cup {c})
  BY Zenon, <1>2, <1>3, FS_Subset
<1>5. Cardinality(T) \in Nat /\ Cardinality(Taken') \in Nat
  BY Zenon, <1>1, <1>4, FS_CardinalityType
<1>6. Cardinality(Taken') <= Capacity
  BY <1>1, <1>3, <1>4, <1>5, AuthorizationAssumption
<1> QED BY Zenon, <1>4, <1>6 DEF Bounded

\* A message of an exchange moves it on and renews its admission.
LEMMA RenewKeeps ==
  ASSUME Types, ExchangeInv, NEW c \in Conns, ended[c] = "no", clock < admitted[c],
         NEW st \in {"pq", "dh"}, stage' = [stage EXCEPT ![c] = st],
         NEW ex, st = "pq" => ex = 0, expires' = [expires EXCEPT ![c] = ex],
         admitted' = [admitted EXCEPT ![c] = clock + TTL], UNCHANGED <<clock, ended>>
  PROVE  ExchangeInv'
<1>1. clock \in Nat /\ TTL \in Nat /\ clock + TTL \in Nat
  BY SMTT(30), AuthorizationAssumption DEF Types
<1>2. stage' \in [Conns -> {"none", "pq", "dh", "closed"}] /\ admitted' \in [Conns -> Nat]
  BY <1>1 DEF ExchangeInv
<1>3. \A d \in Conns : /\ stage'[d] = "pq" => expires'[d] = 0
                       /\ admitted'[d] # 0 => ended'[d] = "no" /\ stage'[d] \in {"pq", "dh"}
  BY Zenon DEF ExchangeInv, Types
<1>4. Taken' \subseteq Taken
  BY <1>1 DEF Taken, ExchangeInv
<1> QED BY Zenon, <1>2, <1>3, <1>4, FewerTaken DEF ExchangeInv

\* The first message of an exchange; expired admissions are dropped.
LEMMA BeginKeeps ==
  ASSUME Types, ExchangeInv, NEW c \in Conns, BeginExchange(c)
  PROVE  ExchangeInv'
<1>1. /\ ended[c] = "no" /\ Admissible(c) /\ stage' = [stage EXCEPT ![c] = "pq"]
      /\ expires' = [expires EXCEPT ![c] = 0] /\ admitted' = [Live EXCEPT ![c] = clock + TTL]
      /\ clock' = clock /\ ended' = ended
  BY Zenon DEF BeginExchange, Plain, Open
<1>2. clock \in Nat /\ TTL \in Nat /\ clock + TTL \in Nat
  BY SMTT(30), AuthorizationAssumption DEF Types
<1>3. Live \in [Conns -> Nat] /\ \A d \in Conns : /\ Live[d] # 0 <=> d \in Taken
                                                  /\ Live[d] # 0 => Live[d] = admitted[d]
  BY <1>2 DEF Live, Taken, ExchangeInv
<1>4. {d \in Conns \ {c} : Live[d] # 0} = Taken \ {c}
  BY <1>3 DEF Taken
<1>5. Cardinality(Taken \ {c}) < Capacity
  BY Zenon, <1>1, <1>4 DEF Admissible
<1>6. stage' \in [Conns -> {"none", "pq", "dh", "closed"}] /\ admitted' \in [Conns -> Nat]
  BY ZenonT(40), <1>1, <1>2, <1>3 DEF ExchangeInv
<1>7. /\ stage'[c] = "pq" /\ expires'[c] = 0
      /\ \A d \in Conns : d # c => stage'[d] = stage[d] /\ expires'[d] = expires[d] /\ admitted'[d] = Live[d]
  BY <1>1, <1>3 DEF ExchangeInv, Types
<1>8. ASSUME NEW d \in Conns
      PROVE  /\ stage'[d] = "pq" => expires'[d] = 0
             /\ admitted'[d] # 0 => ended'[d] = "no" /\ stage'[d] \in {"pq", "dh"}
  <2>1. CASE d = c
    BY Zenon, <1>1, <1>7, <2>1
  <2>2. CASE d # c
    BY ZenonT(81), <1>1, <1>3, <1>7, <2>2 DEF ExchangeInv
  <2> QED BY Zenon, <2>1, <2>2
<1>9. Taken' \subseteq Taken \cup {c}
  <2>1. \A d \in Taken' : d \in Conns /\ (d # c => clock < Live[d])
    BY Zenon, <1>1, <1>7 DEF Taken
  <2>2. \A d \in Conns : clock < Live[d] => Live[d] # 0
    BY <1>2
  <2> QED BY Zenon, <1>3, <2>1, <2>2
<1>10. Bounded'
  BY Zenon, <1>5, <1>9, OneMoreTaken DEF ExchangeInv
<1> QED BY Zenon, <1>6, <1>8, <1>10 DEF ExchangeInv

\* A connection that ends, or an exchange that completes, gives its admission back.
LEMMA GivesBack ==
  ASSUME Types, ExchangeInv, NEW c \in Conns, NEW st \in {"none", "closed"},
         stage' = [stage EXCEPT ![c] = st], admitted' = [admitted EXCEPT ![c] = 0],
         NEW ex, expires' = [expires EXCEPT ![c] = ex],
         NEW why, ended' = [ended EXCEPT ![c] = why], clock' = clock
  PROVE  ExchangeInv'
<1>1. stage' \in [Conns -> {"none", "pq", "dh", "closed"}] /\ admitted' \in [Conns -> Nat]
  BY Zenon DEF ExchangeInv
<1>2. \A d \in Conns : /\ stage'[d] = "pq" => expires'[d] = 0
                       /\ admitted'[d] # 0 => ended'[d] = "no" /\ stage'[d] \in {"pq", "dh"}
  BY Zenon DEF ExchangeInv, Types
<1>3. Taken' \subseteq Taken
  BY DEF Taken, ExchangeInv, Types
<1> QED BY Zenon, <1>1, <1>2, <1>3, FewerTaken DEF ExchangeInv

\* Closing a connection ends its exchange and gives the admission back.
LEMMA ShutGivesBack ==
  ASSUME Types, ExchangeInv, NEW c \in Conns, NEW why, Shut(c, why), clock' = clock
  PROVE  ExchangeInv'
<1> DEFINE st == IF stage[c] = "none" THEN "none" ELSE "closed"
<1>1. stage' = [stage EXCEPT ![c] = st] /\ st \in {"none", "closed"}
  BY Zenon DEF Shut, ExchangeInv
<1>2. /\ admitted' = [admitted EXCEPT ![c] = 0] /\ expires' = [expires EXCEPT ![c] = 0]
      /\ ended' = [ended EXCEPT ![c] = why]
  BY Zenon DEF Shut
<1> HIDE DEF st
<1> QED BY Zenon, <1>1, <1>2, GivesBack

\* Other steps, and the passing of time, leave the exchanges alone.
LEMMA ExchangeStutter ==
  ASSUME Types, ExchangeInv, UNCHANGED <<stage, expires, admitted, ended>>, clock' \in {clock, clock + 1}
  PROVE  ExchangeInv'
<1>1. Taken' \subseteq Taken
  BY DEF Taken, ExchangeInv, Types
<1>2. Bounded'
  BY ZenonT(40), <1>1, FewerTaken DEF ExchangeInv
<1> QED BY ZenonT(40), <1>2 DEF ExchangeInv

\* At the start nothing is admitted.
LEMMA InitExchange == Init => ExchangeInv
<1> SUFFICES ASSUME Init PROVE ExchangeInv
  BY Zenon
<1>1. Taken = {}
  BY DEF Init, Taken
<1>2. Bounded
  BY <1>1, FS_EmptySet, AuthorizationAssumption DEF Bounded
<1> QED BY <1>2 DEF Init, ExchangeInv

\* Every step keeps the exchanges in order.
LEMMA ExchangeStep == KeyInv /\ ExchangeInv /\ [Next]_vars => ExchangeInv'
<1> SUFFICES ASSUME KeyInv, ExchangeInv, [Next]_vars PROVE ExchangeInv'
  OBVIOUS
<1>t. Types
  BY Zenon DEF KeyInv
<1>u. stage \in [Conns -> {"none", "pq", "dh", "closed"}] /\ expires \in [Conns -> Nat]
  BY Zenon, <1>t DEF ExchangeInv, Types
<1>1. ASSUME NEW c \in Conns, RestartExchange(c) PROVE ExchangeInv'
  <2>1. /\ ended[c] = "no" /\ clock < admitted[c] /\ stage' = [stage EXCEPT ![c] = "pq"]
        /\ expires' = [expires EXCEPT ![c] = 0] /\ admitted' = [admitted EXCEPT ![c] = clock + TTL]
        /\ clock' = clock /\ ended' = ended
    BY Zenon, <1>1 DEF RestartExchange, InExchange, Plain, Open
  <2> QED BY Zenon, <2>1, <1>t, RenewKeeps
<1>2. ASSUME NEW c \in Conns, NEW life \in Lifetimes \cup {0}, ReqDHParams(c, life) PROVE ExchangeInv'
  <2> DEFINE ex == IF life = 0 THEN expires[c] ELSE clock + life
  <2>1. /\ ended[c] = "no" /\ clock < admitted[c] /\ stage' = [stage EXCEPT ![c] = "dh"]
        /\ expires' = [expires EXCEPT ![c] = ex] /\ admitted' = [admitted EXCEPT ![c] = clock + TTL]
        /\ clock' = clock /\ ended' = ended
    BY Zenon, <1>2 DEF ReqDHParams, InExchange, Plain, Open
  <2> HIDE DEF ex
  <2> QED BY Zenon, <2>1, <1>t, RenewKeeps
<1>3. ASSUME NEW c \in Conns, DHGenRetry(c) PROVE ExchangeInv'
  <2>1. /\ ended[c] = "no" /\ stage[c] = "dh" /\ clock < admitted[c] /\ stage' = stage
        /\ expires' = expires /\ admitted' = [admitted EXCEPT ![c] = clock + TTL]
        /\ clock' = clock /\ ended' = ended
    BY Zenon, <1>3 DEF DHGenRetry, InExchange, Plain, Open
  <2>2. stage' = [stage EXCEPT ![c] = "dh"] /\ expires' = [expires EXCEPT ![c] = expires[c]]
    BY <2>1, <1>u
  <2> QED BY Zenon, <2>1, <2>2, <1>t, RenewKeeps
<1>4. ASSUME NEW c \in Conns, NEW k \in KeyIds, DHGenOK(c, k) PROVE ExchangeInv'
  <2>0. clock' = clock
    BY Zenon, <1>4 DEF DHGenOK
  <2>1. CASE Shut(c, "failed")
    BY Zenon, <2>0, <2>1, <1>t, ShutGivesBack
  <2>2. CASE /\ stage' = [stage EXCEPT ![c] = "closed"] /\ admitted' = [admitted EXCEPT ![c] = 0]
             /\ expires' = expires /\ ended' = ended
    <3>1. expires' = [expires EXCEPT ![c] = expires[c]] /\ ended' = [ended EXCEPT ![c] = ended[c]]
      BY <2>2, <1>t DEF Types
    <3> QED BY ZenonT(40), <2>0, <2>2, <3>1, <1>t, GivesBack
  <2> QED BY Zenon, <2>1, <2>2, <1>4 DEF DHGenOK
<1>5. ASSUME NEW c \in Conns, Fails(c) \/ SinkExpires(c) PROVE ExchangeInv'
  BY Zenon, <1>5, <1>t, ShutGivesBack DEF Fails, SinkExpires
<1>6. ASSUME NEW c \in Conns, NEW t \in pending[c], ExpireDisconnect(c, t) PROVE ExchangeInv'
  <2>1. clock' = clock
    BY Zenon, <1>6 DEF ExpireDisconnect
  <2>2. Shut(c, "disconnect") \/ UNCHANGED <<stage, expires, admitted, ended>>
    BY Zenon, <1>6 DEF ExpireDisconnect
  <2> QED BY Zenon, <2>1, <2>2, <1>t, ShutGivesBack, ExchangeStutter
<1>7. CASE Tick
  BY Zenon, <1>7, <1>t, ExchangeStutter DEF Tick, hsVars
<1>8. ASSUME UNCHANGED <<stage, expires, admitted, ended, clock>> PROVE ExchangeInv'
  BY Zenon, <1>8, <1>t, ExchangeStutter
<1>9. ASSUME NEW c \in Conns, SessionEnds(c) \/ WriteFrame(c) \/ BindTemporary(c) \/ OpenSession(c)
      PROVE  ExchangeInv'
  BY Zenon, <1>8, <1>9 DEF SessionEnds, WriteFrame, BindTemporary, OpenSession, hsVars
<1>10. ASSUME NEW c \in Conns, NEW k \in KeyIds, DecodeFrame(c, k) \/ \E e \in 1 .. MaxTime : LookAtKeys(c, k, e)
       PROVE  ExchangeInv'
  BY Zenon, <1>8, <1>10 DEF DecodeFrame, LookAtKeys, hsVars
<1>11. ASSUME NEW c \in Conns, NEW d \in Delays, ResetDisconnect(c, d) PROVE ExchangeInv'
  BY Zenon, <1>8, <1>11 DEF ResetDisconnect, hsVars
<1>12. ASSUME NEW k \in KeyIds, ExpireTemporary(k) \/ Delete(k) PROVE ExchangeInv'
  BY Zenon, <1>8, <1>12 DEF ExpireTemporary, Delete, hsVars
<1>13. CASE UNCHANGED vars
  BY Zenon, <1>8, <1>13 DEF vars, hsVars
<1>14. ASSUME NEW c \in Conns, BeginExchange(c) PROVE ExchangeInv'
  BY Zenon, <1>14, <1>t, BeginKeeps
<1> QED
  BY ZenonT(40), <1>1, <1>2, <1>3, <1>4, <1>5, <1>6, <1>7, <1>9, <1>10, <1>11, <1>12, <1>13, <1>14 DEF Next

-----------------------------------------------------------------------------
(* The kind of the keys that exchanges make *)

\* An exchange has an expiry exactly when its request asked for a lifetime.
AskInv ==
  /\ asked \in [Conns -> Nat]
  /\ \A c \in Conns : stage[c] \in {"pq", "dh"} => (expires[c] = 0 <=> asked[c] = 0)

\* The stored keys are of the kind that was asked for.
KindInv ==
  /\ keys \subseteq KeyIds /\ permanent \subseteq made
  /\ \A k \in keys : IsTemporary(k) <=> k \notin permanent

\* A message of an exchange, or its end, concerns one connection.
LEMMA AskMove ==
  ASSUME Types, ExchangeInv, AskInv, NEW c \in Conns, NEW st, NEW ex, NEW as \in Nat,
         stage' = [stage EXCEPT ![c] = st], expires' = [expires EXCEPT ![c] = ex],
         asked' = [asked EXCEPT ![c] = as], ex = 0 <=> as = 0
  PROVE  AskInv'
BY Zenon DEF Types, ExchangeInv, AskInv

\* Every step keeps the expiry and the request of an exchange together: a
\* restart clears what the request for a permanent key would leave.
LEMMA AskStep == Types /\ ExchangeInv /\ AskInv /\ [Next]_vars => AskInv'
<1> SUFFICES ASSUME Types, ExchangeInv, AskInv, [Next]_vars PROVE AskInv'
  OBVIOUS
<1>s. ASSUME NEW c \in Conns, NEW why, Shut(c, why) PROVE AskInv'
  <2>1. /\ expires' = [expires EXCEPT ![c] = 0] /\ asked' = [asked EXCEPT ![c] = 0]
        /\ stage' = [stage EXCEPT ![c] = IF @ = "none" THEN @ ELSE "closed"]
    BY Zenon, <1>s DEF Shut
  <2>2. PICK st : st = IF stage[c] = "none" THEN stage[c] ELSE "closed"
    BY Zenon
  <2>3. stage' = [stage EXCEPT ![c] = st]
    BY Zenon, <2>1, <2>2
  <2> QED BY Zenon, <2>1, <2>3, AskMove, 0 \in Nat
<1>u. ASSUME UNCHANGED <<stage, expires, asked>> PROVE AskInv'
  BY Zenon, <1>u DEF AskInv
<1>1. ASSUME NEW c \in Conns, BeginExchange(c) \/ RestartExchange(c) PROVE AskInv'
  <2>1. /\ stage' = [stage EXCEPT ![c] = "pq"] /\ expires' = [expires EXCEPT ![c] = 0]
        /\ asked' = [asked EXCEPT ![c] = 0]
    BY Zenon, <1>1 DEF BeginExchange, RestartExchange
  <2> QED BY Zenon, <2>1, AskMove, 0 \in Nat
<1>2. ASSUME NEW c \in Conns, NEW life \in Lifetimes \cup {0}, ReqDHParams(c, life) PROVE AskInv'
  <2>1. /\ stage[c] = "pq" /\ stage' = [stage EXCEPT ![c] = "dh"] /\ asked' = [asked EXCEPT ![c] = life]
        /\ expires' = [expires EXCEPT ![c] = IF life = 0 THEN @ ELSE clock + life]
    BY Zenon, <1>2 DEF ReqDHParams, InExchange
  <2>2. PICK ex : ex = IF life = 0 THEN expires[c] ELSE clock + life
    BY Zenon
  <2>3. expires' = [expires EXCEPT ![c] = ex]
    BY ZenonT(40), <2>1, <2>2
  <2>4. expires[c] = 0 /\ clock \in Nat /\ life \in Nat
    BY <2>1, AuthorizationAssumption DEF ExchangeInv, Types
  <2>5. ex = 0 <=> life = 0
    BY <2>2, <2>4
  <2> QED BY Zenon, <2>1, <2>3, <2>4, <2>5, AskMove
<1>3. ASSUME NEW c \in Conns, NEW k \in KeyIds, DHGenOK(c, k) PROVE AskInv'
  <2>1. CASE Shut(c, "failed")
    BY Zenon, <2>1, <1>s
  <2>2. CASE stage' = [stage EXCEPT ![c] = "closed"] /\ UNCHANGED <<expires, asked>>
    BY Zenon, <2>2 DEF AskInv, ExchangeInv
  <2> QED BY Zenon, <1>3, <2>1, <2>2 DEF DHGenOK
<1>4. ASSUME NEW c \in Conns, Fails(c) \/ SinkExpires(c) PROVE AskInv'
  BY Zenon, <1>4, <1>s DEF Fails, SinkExpires
<1>5. ASSUME NEW c \in Conns, NEW t \in pending[c], ExpireDisconnect(c, t) PROVE AskInv'
  BY Zenon, <1>5, <1>s, <1>u DEF ExpireDisconnect
<1>6. ASSUME NEW c \in Conns, \/ SessionEnds(c) \/ WriteFrame(c) \/ BindTemporary(c)
                              \/ OpenSession(c) \/ DHGenRetry(c)
                              \/ \E k \in KeyIds : DecodeFrame(c, k)
      PROVE  AskInv'
  BY Zenon, <1>6, <1>u
  DEF SessionEnds, WriteFrame, BindTemporary, OpenSession, DHGenRetry, DecodeFrame, hsVars
<1>7. ASSUME NEW c \in Conns, \/ \E k \in KeyIds, e \in 1 .. MaxTime : LookAtKeys(c, k, e)
                              \/ \E d \in Delays : ResetDisconnect(c, d)
      PROVE  AskInv'
  BY Zenon, <1>7, <1>u DEF LookAtKeys, ResetDisconnect, hsVars
<1>8. ASSUME \/ Tick \/ UNCHANGED vars \/ \E k \in KeyIds : ExpireTemporary(k) \/ Delete(k)
      PROVE  AskInv'
  BY Zenon, <1>8, <1>u DEF Tick, vars, ExpireTemporary, Delete, hsVars
<1> QED
  BY ZenonT(40), <1>1, <1>2, <1>3, <1>4, <1>5, <1>6, <1>7, <1>8 DEF Next

\* A completed exchange stores a key of the kind that was asked for.
LEMMA StoredKind ==
  ASSUME KeyInv, ExchangeInv, AskInv, KindInv, NEW c \in Conns, NEW k \in KeyIds, DHGenOK(c, k)
  PROVE  KindInv'
<1>1. /\ stage[c] = "dh" /\ k \notin made /\ Stored(c, k) /\ made' = made \cup {k}
      /\ permanent' = IF asked[c] = 0 THEN permanent \cup {k} ELSE permanent
  BY Zenon DEF DHGenOK, InExchange
<1>2. k \notin keys /\ k \notin permanent /\ ~IsTemporary(k)
  BY Zenon, <1>1 DEF KeyInv, MadeInv, BoundToStoredKey, KindInv
<1>3. expires[c] = 0 <=> asked[c] = 0
  BY Zenon, <1>1 DEF AskInv
<1>4. CASE expires[c] = 0
  <2>1. /\ keys' = keys \cup {k} /\ temporary' = temporary /\ permanent' = permanent \cup {k}
    BY Zenon, <1>1, <1>3, <1>4 DEF Stored
  <2> QED BY Zenon, <1>1, <1>2, <2>1 DEF KindInv, IsTemporary
<1>5. CASE expires[c] # 0
  <2>1. /\ keys' = (keys \ Expired) \cup {k} /\ permanent' = permanent
        /\ temporary' = [j \in KeyIds |->
             IF j = k THEN [expires |-> expires[c], parent |-> NoKey]
             ELSE IF j \in Expired THEN NotTemporary ELSE temporary[j]]
    BY ZenonT(40), <1>1, <1>3, <1>5 DEF Stored
  <2>2. temporary'[k].expires = expires[c]
    BY <2>1
  <2>3. \A j \in keys' : j # k => j \in keys /\ temporary'[j] = temporary[j]
    BY Zenon, <2>1 DEF KindInv
  <2> QED BY Zenon, <1>1, <1>2, <1>5, <2>1, <2>2, <2>3 DEF KindInv, IsTemporary
<1> QED BY Zenon, <1>4, <1>5

\* Keys that leave the store and keys that are bound do not change their kind.
LEMMA KindStep == KeyInv /\ ExchangeInv /\ AskInv /\ KindInv /\ [Next]_vars => KindInv'
<1> SUFFICES ASSUME KeyInv, ExchangeInv, AskInv, KindInv, [Next]_vars PROVE KindInv'
  OBVIOUS
<1>m. ASSUME keys' \subseteq keys, UNCHANGED <<made, permanent>>,
             \A k \in keys' : temporary'[k].expires # 0 <=> temporary[k].expires # 0
      PROVE  KindInv'
  BY Zenon, <1>m DEF KindInv, IsTemporary
<1>u. ASSUME UNCHANGED <<keys, temporary, made, permanent>> PROVE KindInv'
  BY Zenon, <1>u, <1>m
<1>1. ASSUME NEW c \in Conns, NEW k \in KeyIds, DHGenOK(c, k) PROVE KindInv'
  BY Zenon, <1>1, StoredKind
<1>2. ASSUME NEW k \in KeyIds, ExpireTemporary(k) \/ Delete(k) PROVE KindInv'
  <2>1. CASE ExpireTemporary(k)
    <3>1. keys' = keys \ {k} /\ UNCHANGED <<made, permanent>>
      BY Zenon, <2>1 DEF ExpireTemporary, hsVars
    <3>2. \A j \in keys' : temporary'[j] = temporary[j]
      BY Zenon, <2>1, <3>1 DEF ExpireTemporary, KindInv, KeyInv, Types
    <3> QED BY Zenon, <3>1, <3>2, <1>m
  <2>2. CASE Delete(k)
    <3> DEFINE gone == {k} \cup {j \in KeyIds : IsTemporary(j) /\ temporary[j].parent = k}
    <3>1. /\ keys' = keys \ gone /\ UNCHANGED <<made, permanent>>
          /\ temporary' = [j \in KeyIds |-> IF j \in gone THEN NotTemporary ELSE temporary[j]]
      BY Zenon, <2>2 DEF Delete, hsVars
    <3> HIDE DEF gone
    <3>2. keys' \subseteq keys /\ \A j \in keys' : temporary'[j] = temporary[j]
      BY Zenon, <3>1 DEF KindInv
    <3> QED BY Zenon, <3>1, <3>2, <1>m
  <2> QED BY Zenon, <1>2, <2>1, <2>2
<1>3. ASSUME NEW c \in Conns, BindTemporary(c) PROVE KindInv'
  <2> DEFINE k == pinned[c]
             b == binding[c]
  <2>1. UNCHANGED <<keys, made, permanent>>
    BY Zenon, <1>3 DEF BindTemporary, hsVars
  <2>2. CASE ~MayBind(k, b)
    BY Zenon, <1>3, <2>1, <2>2, <1>u DEF BindTemporary
  <2>3. CASE MayBind(k, b)
    <3>1. /\ temporary' = [temporary EXCEPT ![k] = [expires |-> b.expires, parent |-> b.parent]]
          /\ temporary[k].expires # 0 /\ clock < b.expires
      BY Zenon, <1>3, <2>3 DEF BindTemporary, MayBind, IsTemporary
    <3>2. clock \in Nat /\ b.expires \in Nat
      BY SMTT(30) DEF KeyInv, Types, Request
    <3> HIDE DEF k, b
    <3>3. b.expires # 0
      BY <3>1, <3>2
    <3>4. temporary \in [KeyIds -> Info]
      BY Zenon DEF KeyInv, Types
    <3>5. ASSUME NEW j \in keys' PROVE temporary'[j].expires # 0 <=> temporary[j].expires # 0
      <4>1. j \in KeyIds
        BY Zenon, <2>1 DEF KindInv
      <4>2. CASE j = k
        <5>1. temporary'[j] = [expires |-> b.expires, parent |-> b.parent]
          BY ZenonT(40), <3>1, <3>4, <4>1, <4>2
        <5>2. temporary'[j].expires = b.expires
          BY <5>1
        <5> QED BY Zenon, <3>1, <3>3, <4>2, <5>2
      <4>3. CASE j # k
        BY Zenon, <3>1, <3>4, <4>1, <4>3
      <4> QED BY Zenon, <4>2, <4>3
    <3> QED BY Zenon, <2>1, <3>5, <1>m
  <2> QED BY Zenon, <2>2, <2>3
<1>4. ASSUME NEW c \in Conns, \/ Fails(c) \/ SinkExpires(c) \/ SessionEnds(c) \/ WriteFrame(c)
                              \/ OpenSession(c) \/ \E k \in KeyIds : DecodeFrame(c, k)
                              \/ \E t \in pending[c] : ExpireDisconnect(c, t)
      PROVE  KindInv'
  BY Zenon, <1>4, <1>u DEF Fails, SinkExpires, SessionEnds, WriteFrame, OpenSession, DecodeFrame,
     ExpireDisconnect, hsVars, storeVars
<1>5. ASSUME NEW c \in Conns, \/ BeginExchange(c) \/ RestartExchange(c) \/ DHGenRetry(c)
                              \/ \E life \in Lifetimes \cup {0} : ReqDHParams(c, life)
      PROVE  KindInv'
  BY Zenon, <1>5, <1>u DEF BeginExchange, RestartExchange, DHGenRetry, ReqDHParams, storeVars
<1>6. ASSUME NEW c \in Conns, \/ \E k \in KeyIds, e \in 1 .. MaxTime : LookAtKeys(c, k, e)
                              \/ \E d \in Delays : ResetDisconnect(c, d)
      PROVE  KindInv'
  BY Zenon, <1>6, <1>u DEF LookAtKeys, ResetDisconnect, hsVars, storeVars
<1>7. CASE Tick \/ UNCHANGED vars
  BY Zenon, <1>7, <1>u DEF Tick, vars, hsVars, storeVars
<1> QED
  BY ZenonT(40), <1>1, <1>2, <1>3, <1>4, <1>5, <1>6, <1>7 DEF Next

\* What the engine makes and what it admits: a stored key is temporary exactly
\* when the exchange that made it asked for a lifetime, only unfinished exchanges
\* of open connections hold an admission, and there are never more live ones than
\* the capacity (internal/handshake/session.go:98-165, 274-279, engine.go:86-136).
THEOREM ExchangesAreFresh == Spec => []ExchangeIsFresh
<1>1. ASSUME KeyInv, ExchangeInv, KindInv PROVE ExchangeIsFresh
  <2>1. clock \in Nat /\ admitted \in [Conns -> Nat]
    BY Zenon, <1>1 DEF KeyInv, Types, ExchangeInv
  <2>2. {d \in Conns : Live[d] # 0} = Taken
    BY SMTT(30), <2>1 DEF Live, Taken
  <2> QED BY Zenon, <1>1, <2>2 DEF ExchangeInv, KindInv, Bounded, ExchangeIsFresh, Open
<1>2. Init => AskInv /\ KindInv
  BY AuthorizationAssumption DEF Init, AskInv, KindInv, IsTemporary, NotTemporary
<1>3. ExchangeInv /\ AskInv /\ KindInv /\ KeyInv /\ [Next]_vars => (ExchangeInv /\ AskInv /\ KindInv)'
  BY Zenon, ExchangeStep, AskStep, KindStep DEF KeyInv
<1> QED
  BY <1>1, <1>2, <1>3, InitExchange, KeyInvariant, PTL DEF Spec
=============================================================================
