# TLRPC Runtime v2 in TLA+

TLRPC is a schema-first RPC framework over MTProto. A server accepts TCP and
WebSocket connections; each connection exchanges or names an authorization key
and hosts sessions of that key; each session validates client messages, runs
application handlers and writes answers and pushes. This directory holds TLA+
models of the runtime's concurrent core, TLC configurations that check them on
small instances, and TLAPS proofs. Paths below are relative to the repository.

## The system and its hard parts

| Part | State | What is hard about it | Module |
| --- | --- | --- | --- |
| Server, quotas (`server.go`, `resource_controls.go`) | accept loops, connections, counters, stop flag | accepting while stopping, late notifications, counters that must return to zero | `ServerLifecycle` |
| Handshake, keys and timers (`internal/handshake/`, `crypto/authkey_memory.go`, `temporary_authkey.go`, `connection.go`, `temporary_key.go`) | stages, stored keys, expiries, disconnect timer | restarted exchanges, two bindings of one key at once, deletion under a binding, timers that fire although stopped | `Authorization` |
| Connection actor, reliability registry (`connection.go`, `reliability_registry.go`) | session map, poisoned keys, reference-counted stores | crossing takeovers, eviction while a session shuts down | `ConnectionSessions` |
| Coordinator and lease (`session/`) | generation counter, registered lease, stored snapshot | takeover while the old owner is inside Save, failed loads, Delete against a waiting Save | `SessionLease`, `FencedSession` |
| Replay validation (`mtproto/protocol/`, `inbound.go`, `inbound_state.go`) | recent ids, floor, sequence window, ledger | eviction, containers with known children, recovery after a crash | `ReplayWindow` |
| Active requests (`active_requests.go`, `connection_session.go`) | admission counter, active map, outcome history | slots given back once, late completion of a dropped request, lost wakeups | `ActiveRequests` |
| Session snapshot (`connection_session.go`, `writer.go`) | one snapshot, `outcomeMu` | three parties read, change and save the whole of it | `SessionSnapshot` |
| Session writer (`writer.go`, `mtproto/reliability/`) | request channel, sequence number, retained frames | saves from a copy, a cancelled submitter, resends against expiry | `Writer` |
| Recovery push barrier (`recovery_push_barrier.go`) | two mutexes, active count, bounded FIFO | a push between its two checks, overlapping requests, overflow | `RecoveryPushBarrier` |
| Push registry (`runtime_push.go`) | registrations with binding and mutex | binding changes under a push, calling the session with a lock held | `PushRegistry` |

## Modules

* `FencedSession`: what the coordinator promises for one session key: one owner
  at a time, growing generations, only the owner changes the durable snapshot.
* `SessionLease`: `LocalCoordinator`, `localLease` and `MemoryStore`. Connections
  run Acquire step by step (look up, register, retire and wait, load, check the
  cause, install, or undo); workers run Save and Delete under `opMu`, also
  through leases they have lost; Release is three steps as in the code. A lease
  is named by its generation. The refinement mapping takes the owner to be the
  registered lease until its Release begins.
* `RecoveryPushBarrier`: publishers, protected requests and the shutdown
  goroutine. Sections under `mu` are single steps; `orderMu` is a lock with a
  waiting writer that keeps readers out, as Go's `RWMutex`. Writes may fail
  before or after the writer took the message.
* `PushRegistry`: extends the barrier with the session's registration: a
  projected publish (capture, compare, push under `target.mu`), the reply's
  `lease.Save` and `Presence.Update`, and shutdown's `Presence.Remove`. The plain
  publish path takes no registration lock and is the barrier's own `PushCall`.
* `ActiveRequests`: the reader admits and begins batches; each request's
  goroutine waits for its dependencies, runs, completes and gives its slot back;
  the client drops requests; shutdown cancels and waits. A registration is a
  message id and the number of the attempt, so ids can be reused.
* `SessionSnapshot`: the reader, the writer and the holders of `outcomeMu` use
  one snapshot. Taking a copy and saving it are separate steps. The snapshot is a
  record of what the parties change: accepted ids, the server sequence number,
  whether the session was announced, the push subscription, the bindings applied.
* `Writer`: the writer goroutine, its callers in the two selects of `request`,
  the store of retained messages and the frame sink as the writer sees it. The
  session's reader calls it for `msgs_ack`, `msg_resend_req` and the recovery of
  a request that comes again: inside a container (`ReplayRequest`), where the
  store decides, or alone (`ReplayAlone`), where only the ledger is asked, whose
  entry for the request is the variable `completed`. Contexts are cancelled at any
  time; saves and writes fail, writes also after delivery. `cause` is the error of
  the lease and the writer once they have ended: the first fatal one, which may be
  the cancellation of one caller's context, and which all later callers get.
  Messages expire when a command looks into the store.
  A next owner starts a new writer on the same store and sequence number. Saves
  by other parties, which can set the sequence number back, are the subject of
  `SessionSnapshot` and absent here; `outcomeMu` is left out, so callers
  interleave more freely than in the code.
* `ReplayWindow`: one session's inbound path. An envelope is a message alone or a
  container. Validation works on a candidate state, containers check children they
  remember, the acceptance is saved and only then are handlers started and the
  ledger told. The registry of active ids and the handlers that run are two sets:
  `rpc_drop_answer` and shutdown take an id out of the registry and cancel its
  context, and the handler runs on until it ends. Its response is taken by the
  writer (`Write`) before the ledger hears of it (`Answer`) or never does
  (`Abandon`). A crash between any two steps restores the saved window; the ledger
  evicts and expires; a resend is answered from the retained response, ignored
  while its id is active, or refused with REQUEST_RETRY. The reader's is the only
  save in this module; what other saves do to it is `SessionSnapshot`'s subject.
* `ConnectionSessions`: composes connections with the coordinator's ownership and
  the reliability registry. A reader creates sessions under `c.mu`, acquires the
  lease (retiring another connection's) and the store; a session ends by failure,
  takeover or the connection's shutdown, in the steps of
  `ConnectionSession.shutdown` and `removeSession`; lost keys are poisoned; the
  registry counts references, keeps idle entries in order, evicts and expires them.
* `Authorization`: key exchanges with the engine's capacity and TTL, the key store
  (Put, PutTemporary, Delete, expiry), the lookup of a frame's key and, after the
  wait for the session, the second look that decides about its sink,
  `BindTemporaryAuthKey` in the two steps between which other requests run, the temporary key's frame sink with its timer,
  and `ping_delay_disconnect` with callbacks that were already running when their
  timer was stopped. Time is a counter; a timer fires at any time after it is due.
* `ServerLifecycle`: accept loops, admission and the quotas by address, key and
  handler slot, sessions bound and unbound with notifications in any order,
  handlers, and Stop with its grace period, in the order in which `server.go`
  releases what it holds.
* `...Proofs` modules hold theorems, `MC...` modules give constants their values.

`TypeOK` in a module documents its variables; the proofs carry the type facts
they need in their own invariants. Mutated definitions stand before the
definitions they vary, under a comment that starts with "Mutant"; no
specification uses them.

## Runs

| Run | Instance | Shows |
| --- | --- | --- |
| `lease` | 2 connections, 2 workers, 2 generations | exclusive ownership, memory equal to store, no resurrection, refinement of `FencedSession`; an owner that is taken over makes room, and an Acquire returns once its competitors stay away |
| `barrier` | 2 publishers with 3 pushes, 2 protected requests, queue of 2 entries and 3 bytes | silence during protected requests, order, no loss, limits kept; held pushes leave and every call ends |
| `registry_fence` | 2 projecting publishers, 2 requests, one of which rebinds | a projected push is accepted only under the binding it was encoded for |
| `requests` | 3 ids, an id begun twice, one invoked after another, capacity 2 | exact admission, dependencies, own completion only, quiet after release, no lost wakeup, shutdown's wait ends |
| `snapshot` | 2 messages in flight, resends, a push | every message is answered; a client that keeps one message in flight, without pushes, gets at most one execution, stored bindings and unique sequence numbers |
| `writer` | 2 pushes or a push and an answer, one control message or replay, 2 owners, a store of 6 | true responses, nobody left waiting, no foreign cancellation while the session goes on, unique sequence numbers, written messages retained, no second answer beside a retained one except where the ledger lacks it |
| `replay` | 4 requests, an `rpc_drop_answer` and 2 containers, windows of 2 ids and 2 numbers, a ledger of 2 | accepted messages stay refused, run once, use a sequence number once; REQUEST_RETRY is final |
| `connections` | 2 connections, both on 2 sessions, registry of 1 or 2 | one store per session, no reclaim after a takeover, no reader waits for ever |
| `server` | 2 accept loops, 3 connections from 2 addresses, 2 requests for 1 slot | exact counters within limits, Stop leaves nothing behind and returns |
| `authorization` | 2 connections, 3 keys, engine and store with room for one, 2 pings | bindings to stored keys, shrinking lifetimes, keys as their own exchange asked for, timers that close only what is due |

Two runs end in a counterexample, where the code disagrees with its own comments
or tests:

* `registry_shutdown`: a projected push holds `target.mu` and waits for
  `orderMu`; a protected reply holds `orderMu` and waits for `target.mu`;
  shutdown waits for `target.mu`. A test expects shutdown to end.
* `snapshot_replay`: the writer's save undoes the acceptance of a message, and a
  resend runs its handler a second time. `lease.Save` replaces the whole snapshot
  and its callers do not exclude one another between `Snapshot` and `Save`.
  `LockstepIsSafe` shows that a client with one message in flight and no pushes
  never meets it.

### Behaviour to know of

Reading and modelling the code also showed the following. The properties are
stated so as not to claim otherwise.

* `Presence.Update` of a late handler may follow shutdown's `Presence.Remove`
  (`connection_session.go:644`): the user stays listed through a session that is
  gone, although `runtime_push.go:435` says "currently".
* The reader's save of an older copy removes a persisted binding that stays
  exposed (`docs/architecture.md:174-175`); the cause is that of `snapshot_replay`.
* A write that finds its temporary key expired ends the session, which stops the
  timer: the idle transport stays open (`temporary_key.go:11`,
  `docs/telegram-mtproto.md:96-97`). A key shortened through another connection
  closes this one at its original expiry unless it writes before.
* The limit on poisoned keys (`docs/implementation.md:188-194`) can be exceeded by
  a frame that was already read.
* When the ledger has evicted a completed entry, a resend gets REQUEST_RETRY
  although the response is still retained (`connection_session.go:285-287`). The
  same happens when a drop, after the answer was written, keeps `applyOutcome` from
  completing the entry: a request that comes again alone then gets a second,
  different answer (`docs/telegram-mtproto.md:160-163`). Inside a container it gets
  the retained one. `OneAnswer` says exactly where the second answer is possible. A
  container child below the floor that its own container raises gets it although
  it was never accepted.
* A dropped request leaves the registry while its handler runs on, so a resend may
  get REQUEST_RETRY while the old handler still has effects. `RetryIsFinal` says
  that no handler starts for the old id and that the old one's response is no
  longer taken; during shutdown it may be, as handlers are cancelled one by one
  after the registry was emptied.
* A fatal error of a cancelled push is the cause of the stopped writer, so callers
  with live contexts get `context.Canceled` (`writer.go:202-207`, `246-248`), on
  which handlers end silently. The lease is retired by then, so the session ends
  with them (`CancellationIsOwnOrFinal`).
* A temporary key that is deleted between the lookup for a frame and the sink's
  gets the plain sink, without a timer (`temporary_key.go:29-35`).
* The 500 ms timer of `invokeAfter` also ends the wait for a dependency that is
  known and running; `docs/implementation.md:329` and
  `docs/telegram-mtproto.md:188` differ on this.
* When setup fails, `serveConn` counts the connection out before it closes the
  transport, and a connection accepted during Stop may be closed after Stop
  returned. `StopIsComplete` makes no claim about transports. Two connections
  admitted at once may each count the other against the limit, a late Bound counts
  a session until its connection finishes, and the gauge of handlers may exceed
  the cap for a moment.
* A peer whose session fails and returns again and again can starve another
  connection's Acquire. `NoWaitForever` and `TakeoverEnds` therefore say that one
  who waits gets to look again, and `TakeoverEnds` that it wins when the others
  stay away.

### Bounds

Two of each competing party are enough for every race above, a third adds only
repetition: two generations give a takeover and the exhausted counter (longer
chains are covered by the proofs), overlapping protected requests come in pairs,
crossing takeovers need two connections and two sessions, and a quota of one
needs two that compete. The server has a third connection so that one address is
refused while another is served. The barrier's queue is smaller than the number
of pushes, so overflow by count and by bytes happens. Three ids with capacity two
fill and evict the outcome history. The writer's store holds 6 messages: an
answer with its acknowledgement and container takes 3, and so does the retryable
error of a request that comes again alone, so both fit beside one another, and a
push besides forces an eviction. The replay windows hold two entries and the envelopes seven ids, so
both windows evict and the floor rises above ids that are sent again. Time in
`Authorization` runs to 2: a lifetime of 2 outlives an exchange's TTL of 1 and a
ping's delay of 1. Its run explores behaviours with key exchanges and behaviours
with pings apart, which share no state; the proofs cover them together. The run
is symmetric in connections and in new keys, `writer` and `registry_fence` in
publishers; none of these checks liveness.

`MaxGeneration` stands for `math.MaxInt64` and `MaxInt32` for the largest sequence
number; `MaxPushes`, `MaxBegins`, `MaxRegistrations`, `MaxSends`, `Window`,
`MaxOthers`, `MaxSubmissions`, `MaxPrograms`, `MaxOwners`, `MaxTime` and
`MaxResets` bound the environment only. Runs switch the deadlock check off because
clients, publishers and servers may stop; that nobody waits for ever is stated by
the liveness properties instead, and for the writer by `NobodyStranded`.

### Fairness

Goroutines that can run are run and handlers return: weak fairness. A lock that
becomes free again and again is granted in the end (`sync.Mutex` has a starvation
mode, `sync.RWMutex` blocks new readers behind a waiting writer, channel senders
queue first in, first out): strong fairness on the steps of `SessionLease`,
`ActiveRequests`, `SessionSnapshot` and `PushRegistry` that wait for such a lock.
The barrier, connections and the server need weak fairness only; the server's is
one condition over Stop, accept loops, draining connections and handlers, weaker
than one for each. Clients, publishers, ending leases, failing accepts and the
`invokeAfter` timer are never assumed to act.

## Proofs

The theorems hold for any sets of connections, workers, publishers, keys and
messages and for any bounds, limits and capacities. None of the properties is
inductive; each module states an inductive invariant and a lemma for every action.

| Module | Theorems (property) | Invariant |
| --- | --- | --- |
| `SessionLeaseProofs` | `ExclusiveOwnership` (`LeaseExclusive`), `WritesAreFenced` (`FencedWrites`, which no run repeats), `SnapshotIsDurable` (`SnapshotDurable`), `DeletedStaysDeleted` (`NoResurrection`), `CoordinatorFences` (`ImplementsFencedSession`); for `SessionSnapshot` `LockstepLosesNothing` (`LockstepIsSafe`) | `LeaseInv`, `LockstepInv` |
| `RecoveryPushBarrierProofs` | `ProtectedRequestsAreSilent` (`ProtectedSilence`), `NothingOvertakes` (`NoOvertaking`), `NothingAcceptedIsLost` (`AcceptedNotLost`), `QueueIsBounded` (`QueueWithinLimits`); for `PushRegistry` `RegistryImplementsBarrier`, `ProjectionsAreCurrent` (`ProjectionIsCurrent`) | `BarrierInv`, `RegistryInv` |
| `ActiveRequestsProofs` | `AdmissionIsExact` (`AdmissionExact`), `ReleasedMeansQuiet` (`QuietAfterRelease`), `DependenciesAreMet` (`DependenciesHold`), `OnlyOwnCompletion` (`OwnCompletionOnly`) | `RequestInv`, `OutcomeInv` |
| `WriterProofs` | `OutcomesAreTrue` (`OutcomeTruth`), `CancellationsAreOwnOrFinal` (`CancellationIsOwnOrFinal`), `NobodyIsStranded` (`NobodyStranded`), `NumbersAreUnique` (`SequenceUnique`), `WrittenIsRetained` (`WireIsRetained`), `RequestsHaveOneAnswer` (`OneAnswer`) | `WriterInv` |
| `ReplayWindowProofs` | `AcceptanceIsForGood` (`AcceptedStaysRefused`), `HandlersRunAtMostOnce` (`ExecutedOnce`), `NumbersAreUsedOnce` (`SequenceOnce`), `RetriesAreFinal` (`RetryIsFinal`) | `ReplayInv`, `SequenceInv`, `RetryInv`, `HandlerInv` |
| `ConnectionSessionsProofs` | `StaleTransportsStayOut` (`NoReclaim`), `SessionsShareOneStore` (`OneStorePerSession`) | `ReclaimInv`, `StoreInv` |
| `AuthorizationProofs` | `BindingsAreSound` (`BoundToStoredKey`), `LifetimesShrink` (`ExpiryOnlyShrinks`), `TimersCloseOnlyWhenDue` (`ClosedOnlyWhenDue`), `ExchangesAreFresh` (`ExchangeIsFresh`) | `KeyInv`, `SessionInv`, `ExchangeInv`, `AskInv`, `KindInv` |
| `ServerLifecycleProofs` | `QuotasAreExact` (`CountsExact`), `StopLeavesNothing` (`StopIsComplete`) | `LifeInv` |

Along which argument:

* Lease. The registered lease is the newest and all older ones have left the map
  (`MapInv`); a lease being acquired belongs to one connection and is not ready
  (`OwnInv`); a goroutine inside Save or Delete holds `opMu` of a ready lease that
  no Release has marked (`JobInv`), because Release marks under `opMu`; the ready
  lease remembers what the store holds (`DurableInv`). So a goroutine past its
  ownership check is on the registered lease (`WorkerOnCurrent`), it is the only
  one (`SoleWriter`), and each step is a step of `FencedSession` or leaves its
  variables alone (`FencedStep`).
* Snapshot. What the holder of the lease does with its snapshot is the second part
  of the same module, which extends `SessionSnapshot` too (hence that module's
  `SessionInit`, `SessionNext` and `shared`). While the client waits for every
  answer and nobody pushes, its one message is on its way, with the reader, or with
  its handler (`TurnInv`), and the writer serves the goroutine that has it,
  which waits (`ServeInv`). So nobody saves between another's copy and its save, and
  a copy about to be saved equals the snapshot (`CopyInv`). A started message is
  accepted and one about to start has not run (`StartInv`); the numbers on the wire
  are below the next one (`NumberInv`). `outcomeMu` is not needed for this, and
  without the client's waiting the argument fails where `snapshot_replay` fails.
* Barrier. The lock names who is inside (`LockInv`), so `active` is exactly the
  number of protected requests of an open barrier (`CountInv`) and a publisher that
  writes directly finds nothing held (`GateInv`). Order follows from `QueueInv`:
  everything a held push must follow is written, in the drain's hand or ahead of it
  in the queue. The bytes held are a set with one element for each byte
  (`HeldBytes`), so that the counter is a cardinality and no fold is needed.
* Registry. Every step of the composition is a step of the barrier or leaves it
  alone, so `RegistrySpec` implies the barrier's `Spec` and the theorems about the
  barrier hold in it. A publisher inside `Sender.Push` holds `target.mu` of the
  registration it planned for, which still has the binding of the push
  (`HolderInv`): `Update` and `Remove` need that mutex, and the second registration
  object is inserted when nobody can have planned for it (`SecondInv`).
* Requests. Before `beginBatch` the reader holds one slot for each id of its batch,
  afterwards each begun registration holds its own until it is gone (`BatchInv`,
  `BegunInv`, `CountInv`); a closing session has no batch that is not begun
  (`ClosingInv`). A success in the outcome history is one that happened
  (`OutcomeInv`), whatever was evicted.
* Writer. A request in the writer's hands belongs to a caller that waits for it
  with the same context, or to one whose context is done and that submits nothing
  else to this writer (`HeldInv`). From this, a response goes to a caller that has
  none yet, and the messages of a caller without a response are those of the frame
  about to be written (`ReplyInv`); the writer is closed only when the lease is
  retired, so a cancellation that is its cause is final. Numbers and ids of what was prepared are
  distinct and below the next ones, and what was prepared is retained or forgotten
  (`StoreInv`); that the store keeps its limit is a pigeonhole argument
  (`LatestBounded`). A second answer is made only when the handler can make none
  and the lookup that preceded it found all earlier ones gone, or when the reader
  saw the ledger without the answer, which it then lacks unless a dropped handler
  completes it later (`AnswerInv`). This stays true because only the handler and
  the reader make answers.
* Replay. Eviction never uncovers an id, because the floor rises to the evicted one
  (`AcceptCovers`). The candidate covers all that was accepted before and all it
  accepted itself, and the two are disjoint (`CandidateInv`); a reservation belongs
  to an id that is accepted or about to be, and that has not run
  (`ReservationInv`). The window of numbers remembers every accepted number that it
  would still admit (`SequenceInv`): it holds at most `SeqLimit` distinct odd
  numbers, so what it drops is too far below the expected one. A retransmission was
  covered before its envelope and a fresh message was not, so no id that is told to
  be lost has a reservation, now or later (`RetryInv`). It was not active, so the
  context of a handler that still runs for it was cancelled, or the session is
  shutting down (`HandlerInv`).
* Connections. A lost key is poisoned, or the session that lost it is still in the
  map and will poison it (`LostInv`). That needs the owner of a key to be exactly
  the session that has not released it or the reader about to start it
  (`OwnerInv`). The references of a registered store are counted by the
  connections that use it (`StoreInv`), so only unused ones are evicted.
* Authorization. Stored keys were made, and made keys are not made again
  (`MadeInv`), so a key's expiry never grows; an armed sink fires no earlier than
  its key expires (`SinkInv`); an exchange has an expiry exactly when its
  request asked for a lifetime (`AskInv`), so its key is of that kind (`KindInv`); no timer callback has a later generation than the
  connection, and the one of the same generation is due when the latest ping says
  (`PingInv`). Admissions whose TTL has not passed belong to unfinished exchanges
  of open connections and are at most the engine's capacity (`ExchangeInv`).
* Server. Where a connection is determines the maps it is in (`PlaceInv`), and a
  request that is not over keeps its connection from finishing (`RequestInv`); so
  the counters are the cardinalities of their holders (`QuotaInv`, `HandlerInv`),
  and when Stop returns, which waits for all connections, nothing is counted.

The assumptions are the modules' own: `ConstantsAssumption`, `SnapshotAssumption`,
`BarrierAssumption`, `RegistryAssumption`, `RequestsAssumption`, `WriterAssumption`,
`ReplayAssumption`, `ConnectionAssumption`, `AuthorizationAssumption` and
`ServerAssumption`. The bounds are natural numbers, those that must be are positive,
roles and special values differ from one another, and the message ids of a session
are finitely many (`RequestsAssumption`). TLC evaluates them in the runs of their
modules.

Some definitions are in a closed form because a recursive one could not be reasoned
about. The registry's idle order is the relation `older`; `Latest` is what
remains in the writer's store after its messages were put one by one; the history
of outcomes after `CancelAll` is given at once (`Record`).

Every safety property that a passing run checks is proved. Model-checked only is
liveness, which is out of the prover's reach: `TakeoverEnds`, `HeldPushesLeave`,
`CallsEnd`, `WaitersWake`, `ShutdownEnds`, `MessagesAnswered`, `NoWaitForever` and
`StopReturns`.

## Not modelled

* The bounded queue, permit and deadline of the physical frame sink: `Writer` and
  `Authorization` see a write that succeeds, fails, or fails after delivery.
* State requests (`StateInfo`), salts and wrapper normalisation compute an answer
  from one message and keep no state that others read.
* Fan-out, the `byUser` index and the auth-key variants of the push registry:
  each push goes through the single-session path modelled here.
* Application dispatch is stateless after registration; a handler is an arbitrary
  outcome. The observer does not feed back into the protocol.
* Transports, codecs, MTProto byte formats and cryptography: the models start from
  decoded messages, and a message that fails its checks is refused.
* Parser, generator, command-line tools, compatibility client and the generated
  examples, which make up nearly all lines of the repository, have no concurrency
  and no persistent state.
* No module composes all parts of a session. The interactions left out are those
  between a session's requests and a takeover in progress beyond what
  `ActiveRequests` and `ConnectionSessions` each contain.
