# MoonLightBridge in TLA+

Models of the parts of MoonLightBridge whose correctness depends on the order in which
tasks, threads, frames and builds meet. TLC checks them on small instances, TLAPS proves
the central safety properties for every value of the constants. Every module names the
source it is translated from; `PROJECT.json` maps each definition to its lines.

    tlc -workers 2 -config FramePath.cfg MCFramePath           # one run
    tlapm ReconnectProofs.tla                                  # one set of proofs

## The system

MoonLightBridge connects a Java client (`java/moonlight-bridge-client`) to a Rust
server (`crates/moonlight-bridge-server`) by a framed binary protocol
(`crates/moonlight-bridge-protocol`). A code generator
(`crates/moonlight-bridge-codegen`) turns a contract into code for both sides and keeps
its history in `schema.lock`.

| part | operations | what makes it hard | module |
|---|---|---|---|
| accept loop (`Server::run`) | accept, stop, fail | a connection is spawned before it is counted | ServerDrain |
| connection loop (`serve_connection`), request tasks | handshake, admit, refuse, cancel, drain, force, epilogue | watch channels, aborts at any await, panics | ServerDrain |
| drain (`drain.rs`) | `begin_drain`, `drain` | several loads and a registration with other tasks in between | ServerDrain |
| reader, response queue, writer, event hub | read, reserve, queue, batch, write, publish | three byte budgets shared by all connections | FramePath |
| settings, headers, metadata, compression | negotiate, decode, validate, fit, compress | two peers with different limits | Payload, Metadata |
| idempotency cache (`idempotency.rs`) | `execute`, its worker, its waiters | expiry, eviction, panics, cancelled waiters, wake-ups | IdempotencyCache |
| server streaming, client side and server side | subscribe, request, emit, take credit, finish | credit is spread over client, wire and server | StreamCredit |
| client connection (`MoonLightClient`) | send, complete, expire, fail all, drain, close | check-then-act on `closed` and `accepting` | ClientConnection |
| reconnecting client | install, reconnect, subscribe, drain, close | flags and lists changed in several steps by several threads | Reconnect |
| code generator | generate, check, lock, register | every step reads the files an earlier one left | SchemaLock |

The components interact in three places. ServerDrain, FramePath and StreamCredit model
`serve_connection` for three different questions: who is still at work, where the bytes
are, and where the credit is. Reconnect extends ClientConnection: a supervisor over the
connections it makes. SchemaLock composes the source generator, the lock check, the
policies and the router builder into the life of a contract.

## Modules

A definition whose comment begins with "Mutant:" is a plausible mistake in the definition
below it. It is used by no specification; it shows that a property notices.

### SingleFlight, IdempotencyCache

`SingleFlight` is the promise to the callers of `IdempotencyCache::execute`: the operation
of a key never runs twice at once, an operation whose outcome is unknown is neither
repeated nor forgotten, and a call is answered with an outcome of a run of its own key.

`IdempotencyCache` is the code. A run is named by the call that started it, so `entries`
maps a key to the call whose `Entry` it holds. The block under the mutex is one step with
four outcomes (`Hit`, `Renew`, `Admit`, `Overload`); the worker's last block is `Complete`;
a waiter registers, checks and sleeps in separate steps (`Register`, `Check`, `Wake`), and
may be dropped at any of them (`CancelWaiter`). `Tick` is the clock.

`ImplementsSingleFlight` is the refinement. Its mapping reads a key's status off the run
that the map holds for it.

### ServerDrain

`Server::run`, the connection loops, the request tasks and one caller of
`ServerHandle::drain`, as one module: they meet in the counters and the watch channels.
Each statement that another task can observe is a step.

- A watch receiver is represented by whether it subscribed after the value was set
  (`stale`, `runStale`): `changed()` then never resolves. `watch::Sender::send` has no
  effect without a receiver.
- `state_changed.notify_waiters()` wakes a drain that has registered and leaves nothing
  behind; `active_changed.notify_one()` stores one permit.
- A frame is queued when there is room (`Room`); until then the loop or the task waits.
- An aborted task disappears at its next await. It may first finish the poll it is in. Its
  permit (`permits`) comes back when the task is gone, not when the table forgets it.
- A request ends with one frame. PING, HEALTH, events, the byte budgets and the reuse of a
  request id are in FramePath.

### FramePath, with Payload, Metadata and FairSemaphore

The way of a frame through a connection: the reader task takes bytes of the request budget
before it reads a body; the loop spawns a task, answers itself, cancels or breaks; a task
parses, runs its handler and sends; `send_observed` tries both response budgets and waits
for them one after the other; the writer fits, compresses and batches. A worker is a
connection's loop (0) or the task of the request at a place of the client's script.

- `FairSemaphore` is tokio's semaphore, as the code uses it (external): waiters are served
  in order, and the first one collects what is released.
- `Payload` has the settings, the header checks, the decisions of the compression policy
  and the parsing of a request. Bytes are counted. A payload is its length and how zstd
  shrinks it: not at all ("dense"), once, twice ("regular") or beyond the permitted ratio.
- `Metadata` has `validate`, `get_reserved`, `into_metadata` and `encode_prefix` over
  entries with a key, the critical bit, a name and a length.
- Dropping a future gives back what it holds (`DropRead`, `DropSend`); an aborted task may
  finish its poll first, and then removes the table entry of its id, whoever owns it by then.
- A task's last send, the removal of its entry and the drop of its permit are one step: there
  is no await between them, and no property here tells the three apart. In ServerDrain,
  where one does, they are steps of their own.

### StreamCredit

One server-streaming call from `subscribe` to its terminal signal, with the client's
threads, the frames and the server's task. The monitor `callbacks` makes `subscribe`,
`request`, `emit` and the end of a callback atomic, a failure inside them included. A
thread that ends the stream from outside sets `terminated` and signals in two steps.
`drainCallbacks` is modelled statement by statement, including the check it makes after it
has cleared its flag. `Shutdown` is `close` or `terminate` up to `shutdownNow`, `FailAll`
what follows.

### ClientConnection, Reconnect

`ClientConnection` is `MoonLightClient`: a call is admitted, registered, written and armed
by its caller's thread in separate steps (or thrown out of them, `EnqueueThrows`), and
completed by a response, its deadline, its caller or the end of the connection. The end is
one thread's walk through `phase`: `closed` is set, then `failAll` goes over the two maps
and clears them, then the termination future completes. `drain` polls the maps on a thread
of its own.

`Reconnect` is `ReconnectingMoonLightClient`. `worker` is the scheduler's thread in
`tryReconnect` and `install`, one step per access to `closed`, `active` or the listeners;
`closer` and `drainer` are threads in `close()` and `drain()`; `Terminated` is the callback
that schedules the next attempt. The lists of listeners are numbers, so that a thread may
hold one that no map reaches any more; `remove(key, list)` compares lists by content, as
`CopyOnWriteArrayList.equals` does. Delays and telemetry are left out.

### SchemaLock, with SchemaCheck, ContractSource, RpcPolicy and RouterBuilder

A team edits Rust declarations, hand-written `.proto` files and methods; `Build` generates,
runs protoc (external), checks the lock and generates code; `UpdateLock` and `OverrideLock`
write the lock from the descriptor on disk, which may be that of an earlier build;
`StartServer` makes the registrations of the generated code. `promised` is a history
variable: everything a checked lock has recorded since the last override.
`range_is_covered` is a recursive function over the numbers instead of a sort.

A field carries what the lock compares besides its name: its label and type, and the index
of its oneof. protoc numbers the oneofs of `optional` fields in declaration order
(`OneofIndex`). The values of an enum are named by `UpperSnake`, which may give two variants
one name; protoc also refuses a name that two enums of the Rust contract share.

## Runs

| run | instance | distinct states | shows |
|---|---|---|---|
| `idempotency_cache` | 3 calls, 3 keys, capacity 2, TTL 1, clock 0..1 | 207 762 | the cache is bounded, runs a key once, serves every waiter, implements SingleFlight |
| `server_requests` | 1 connection, 2 requests, `max_in_flight` 1 | 844 211 | answers precede GOODBYE, permits are neither lost nor doubled, nothing is admitted once `drain` returned true, draining connections close |
| `frame_path` | 2 connections, scripts of up to 3 frames | 182 629 | no byte is lost, a peer accepts what it gets, an id is answered once, a healthy client is served |
| `stream_credit` | 4 items, requests of 1 or 4, 3 pending callbacks, `Long.MAX_VALUE` = 4 | 796 708 | credit, backlog, order, completeness, termination |
| `reconnect` | 2 connections, a unary call, a stream, 2 listeners | 733 357 | the supervisor is never stranded, one connection at a time, listeners survive, calls settle |
| `schema_lock` | 4 declarations, 3 methods, numbers 0..6, up to 5 edits | 343 432 | the lock keeps its promises, nothing is reused, additive edits build, the router serves the contract |
| `drain_true`, `drain_wakeup`, `drain_forced` | 2 connections, 1 request | violated | see below |
| `stream_loss`, `stream_error` | 2 items, otherwise as `stream_credit` | violated | see below |
| `schema_adding` | as `schema_lock` | violated | see below |

**Bounds.** The cache needs a third key to fill two slots and overflow them, and a third
call to join a run while another is evicted; one tick expires an entry. With two requests
and `max_in_flight` 1 one request is refused, or takes the permit of a cancelled one, and
the response queue is full. Four items exceed three pending callbacks, so credit has to be
replenished; two requests of 4 saturate the demand. Clients open each connection once and
use each request id once, except in FramePath, where one script uses an id again.

The scenes of `frame_path` each bring about one kind of trouble: a peer that stops reading
with its budget full, bodies that do not fit the request budget together, an id in use
again, batches and deferred responses under six negotiated settings, frames the loop
refuses, some 270 metadata blocks of up to three entries, and compressed requests that are
corrupt, too large or do not fit the decoded-byte budget. The lengths are scaled down
(a minimum payload of 40 and savings of 24 bytes, ratio 4, budgets of 60 to 245) so that
each limit is reached from both sides. The plans of `reconnect` combine two connections
with calls, drain and close, with listeners that come and go, or with servers without
events; two connections are what a reconnect needs. In `schema_lock` 3 stands for the
numbers Protobuf keeps, 6 for `i32::MAX`; five edits of an enum, or three of a message,
reach a removal, a reservation and a return of the name, each with builds and updates
between them.

**Deadlock** is not checked: in each model the clients may stop calling, and a program
that has answered everything is at rest.

**Fairness** is weak fairness of what a scheduler owes: tokio polls a task that was woken,
Java threads run, the executor runs what it holds, frames on an open connection arrive.
Operations and handshakes end (deadlines, HELLO timeout), clients read what they are
sent, and subscribers return from `onNext`. Nobody is obliged to call, cancel, leave,
start a drain or advance a clock, and no timeout has to elapse.

- `frame_path`: the peer in `Stalled` need not read, so its writer owes nothing; the reader
  must notice its timeout only in the middle of a body or when the writer has gone
  (`Overdue`), for an idle connection may stay open. A behaviour is finite, so weak
  fairness of any progress at all is enough.
- `reconnect`: the thread of a call, its timer and the thread that ends a connection run
  (`Settling`); the supervisor and the server owe nothing.
- `server_requests`: only what belongs to an open connection runs (`ServingFairness`: its
  loop, its writer and its tasks); the accept loop, handshakes and drain owe nothing.
- `schema_lock` and the safety properties of the others need none.

## Where the code and its documentation differ

Six disagreements have a run of their own:

- `drain_true`: `drain` is documented to wait "until every connection and request exits".
  It returns true while an accepted connection has not counted itself yet. The property
  that does hold is `NoWorkAfterDrain`: such a connection admits no request.
- `drain_wakeup`: `drain` checks the counters before it registers for `state_changed`. The
  last guard dropped in between is not noticed until the timeout, and `drain` returns false.
- `drain_forced`: a false result is documented to mean that the remaining connections were
  forced closed. One in its handshake subscribes after the force signal and stays.
- `stream_loss`: a disconnect is documented to terminate the publisher. `shutdownNow` drops
  a `drainCallbacks` run that waits for a thread; the flag stays set and the queued
  `onError` is never run. `SubscriberTold` is the guarantee without a shutdown.
- `stream_error`: the protocol says `ERROR` terminates a stream. The server replaces an item
  over the byte budget by `ERROR` and goes on. The client ignores what follows, which is
  why `CompleteMeansAll` still holds.
- `schema_adding`: adding a field with a new number is documented to be compatible. An
  `Option` member added before a locked `Option` member moves the oneof index of that one,
  and `check_lock` reports a changed field. `AdditiveEditsPass` is about edits that leave the
  `Option` members in their places.

The others are exceptions that the passing properties spell out, and behaviours the models
contain:

- *A deferred response is compressed twice* (`BatchingHarmless`; server `lib.rs:2024`). A
  response that does not fit the batch is kept after it was fitted and compressed, and goes
  through both again. If zstd can shrink its output once more, the codec is already in its
  metadata, and a successful response becomes the error "response metadata conflict",
  depending only on what was in the queue before it. `docs/performance.md:104` promises that
  each element of a batch is independent.
- *Close or drain during install* (`Reconnect`; `ReconnectingMoonLightClient.java:329`).
  `install` checks `closed` and sets `active` in two steps; a `close()` or `drain()` in
  between leaves a live connection behind a client that is closed. `OneConnection` holds
  all the same; `NeverStranded` is about clients that are not closed.
- *A server without events* (`:335`). `client.subscribe` throws inside `install` after
  `active` is set and before the connection is watched: when it ends, nobody reconnects.
  `NeverStranded` excepts it.
- *Listeners* (`:322`). A listener added while the last other one leaves is added to a list
  the map forgets; it hears its connection and is not subscribed again. One that leaves
  during `install` may stay subscribed there. `RetainedHeard` is about the listeners the
  map reaches.
- *A stream registered inside `failAll`* (`MoonLightClient.java:1249`), between the loop
  over the streams and their clear, is never failed; its deadline finds it gone, and its
  permit stays taken. `CallsSettle` excepts it.
- *An exception that is not an `IOException`* (`:758`): when an interceptor has set a metadata
  key of the runtime, `requestPrefixLength` throws `IllegalArgumentException`, which no
  handler catches. The call keeps its permit, and its entry until the connection ends.
  `NoneLeftBehind` covers it, `CallsSettle` excepts it.
- *A drain that begins before a connection subscribes* (`lib.rs:2047`): the connection is
  told GOAWAY and not sent GOODBYE while it is idle. `DrainCloses` is about connections
  that see the change. A handler that panics without middleware keeps its table entry, with
  the same effect.
- A frame that waits for more bytes than a connection's response budget waits for ever;
  `with_limits` does not rule it out, `WaitingFramesFit` does.
- With a negotiated `max_metadata` below the 19 bytes of the compression entries, a
  compressible response becomes an error. An incompressible event over `max_body` becomes
  an `ERROR` with id 0.
- The end of an enum's reserved range saturates at `i32::MAX` (`schema.rs:246`), so that
  number itself cannot be reserved, and the range of that number alone is empty in the lock;
  `Option<Vec<T>>` keeps only the outer label.

## Proofs

Six modules hold proofs, each of an inductive invariant and of the properties it implies;
`FoldLemmas` has what they need about sums and recursive functions, and
`SchemaLockLemmas` what the operators of the contract do. They assume the named
assumptions on the constants in the modules they extend and nothing else, and hold for any
number of calls, keys, connections, requests, items, listeners, declarations, methods and
edits. All invariants that the runs check are proved, except those of `frame_path`.

**Cache** (`IdempotencyCacheProofs`). `CacheBounded` is not inductive: whether an admission
keeps the bound depends on what the eviction before it removed. `IInv` adds that the map
and the results agree (`Linked`: a slot holds a run started for its key, and a run in
progress has its slot), that completion times are not in the future (`Clocked`), what a
call that waits or has returned knows (`Callers`), and the exactness and order of the
completion queue. From it follow `TypeCorrect`, `Bounded`, `QueueExact`, `QueueOrdered`,
`SingleRun`, the action properties `EarlyDrop` and `OverloadedMeansPinned`, and
`Implements`, the refinement, with one step per action of the cache.

**Stream** (`StreamCreditProofs`). `ItemsCovered` speaks about the client's counters and
follows from where each credit is. `IInv` adds to the checked invariants that the server
never holds more credit than the client counts, also after its terminal frame (`Funded`),
that credit on the wire is covered by demand (`Demanded`), that the items made are the ones
delivered, queued, on the wire or in hand (`Tallied`), and that a queued terminal callback
is behind all items (`Ordered`). From it follow `TypeCorrect`, `Conserved`, `Covered`,
`Backlog`, `Complete` and `TerminalIsLast`.

**Server** (`ServerDrainProofs`, with `OwnerType`, `FinitelyMany` and `LimitsPositive`: a
request belongs to one connection, there are finitely many of both, and the limits are not
zero). `AnsweredBeforeGoodbye` is about two positions in a queue, while GOODBYE is queued
because a table is empty. `IInv` connects them: a request that was taken stays in the table
until its frame is queued or it is aborted (`Accounted`), and GOODBYE is the last thing a
loop queues, with an empty table unless it is forced (`Stages`, `Signals`).
`NoWorkAfterDrain` needs that the counters count what they stand for (`Counters`) and that,
once drain has found no connection, whoever opens later knows that the server drains
(`Drained`). From it follow `TypeCorrect`, `PermitsKept`, `AnswersFirst` and
`DrainedForGood`. `PermitsExact` is inductive with the types: each step that ends a task,
wherever it ends, returns one permit.

**Reconnecting client** (`ReconnectProofs`, with `ClientAssumption` and `PlansAssumption`).
`NeverStranded` has to survive the window between setting `active` and watching the
connection: `Owned` says that only the scheduler's thread sets `active` and that nobody
watches what it holds, `Supervised` that `reconnectScheduled` means a queued attempt and
that an installed connection is watched and not gone. `Single` places every open connection
with `active` or the worker. `NoneLeftBehind` needs where `failAll` and a drain are with
respect to each waiting call (`Awaited`, `Draining`). From it follow
`SupervisorNeverStranded`, `SingleConnection` and `NoCallLeftBehind`.

**Listeners** (`ListenerProofs`, with `FinitenessAssumption`). `RetainedHeard` has to
survive that `subscribe` reads `active` after it has added to the list, while `install`
sets `active` before it reads the lists. `Heard` says which of the two will add a listener
that is not in the connection yet: a `subscribe` that has the connection in its hands, or
an `install` that has the listener before it. `Lists` has the types, and that nobody adds
to a list that is not there; `ReconnectTypeCorrect` needs in addition that a fresh number
for a list is always left, which is counted (`ImageBound`, `UnionBound`).
`SubscriptionsSurvive` follows.

**Contract** (`SchemaLockLemmas` has what the operators do and `SchemaLockProofs` the
invariant, with `SchemaAssumption`, `ContractAssumption` and `RouterAssumption`:
declarations are well formed, there are finitely many methods, ids are numbers). Four
arguments:

- *The walk.* `WalkIsExact`: `range_is_covered` is exact for any range and any set of ranges,
  as long as a required range that is empty comes after all of them, as `i32::MAX` does. Where
  the cursor stands after the ranges below `x`, everything before it is reserved; if the
  walk has met a gap, some number of the required range is not. The cursor is a recursive
  function; that it has the values its definition says is an induction over the numbers.
- *The lock.* `SInv` says that the source is one the team can have written, that a
  descriptor on disk was accepted by protoc (`Accepted`), that the lock was made of such a
  descriptor (`LockMade`) and that it keeps `promised`. The promises survive an update
  because a compatible schema keeps what the lock kept (`KeepsOn`, from the exact walk).
  `LockNeverForgets` and `NumbersNeverReused` follow, the second with what protoc insists
  on: nothing reserved is in use and no name is there twice.
- *Generation.* The numbers of members are injective, keep what is locked and avoid what is
  reserved (`NumbersAreGood`); so what is written is apart from what it reserves
  (`WrittenApart`), and reserves it number by number, which covers every old range by the
  exact walk. `AdditivePass` follows, for members that keep their places among the `Option`
  members and variants whose value names differ. It is about one declaration: that two enums
  share no value name is not part of it. It leaves out the largest number of an enum: when
  the value `i32::MAX` is removed, its range cannot be reserved (see above), and the next
  build fails.
- *The router.* The registrations are a fold over the declared methods in any order. After
  each of them the builder holds exactly the methods so far (`Registered`), because
  `validate_method_ids` made the ids distinct; `RouterExact` follows with the handler of
  the application and `build`.

In all of these, `Flags` and `Sorts` or `Shapes`, `Lists` and `Files` are the type
invariant in the parts the different provers can deal with.

Recursive functions, folds and sums are within reach although the induction theorems of
the library are not: a set of naturals that has 0 and with each number the next is all of
them (`NatSetInduction`, by the least number that is missing), and the induction hypothesis
is membership in such a set.

**Only model-checked.**

- Liveness (`WaiterServed`, `DrainCloses`, `SubscriberTold`, `HealthyServed`, `CallsSettle`):
  out of reach of the prover's backends.
- `FramePath`: `BytesExact` is about sums over queues and tables, `AnsweredOnce` about
  cardinalities of positions, and the choice of a batch about the maximum of a set of sums.
  The sums are within reach of `FoldLemmas`; the proof has not been written.

## Not modelled

- *The outgoing queue and the direct write of `MoonLightClient`*, its interceptors and its
  telemetry. Enqueuing succeeds, fails with an `IOException` or throws. Notes from reading it: a
  full queue at `sendCancel` ends the connection (`:859`), and a `close()` of the socket
  that throws skips `failAll` (`:1324`).
- *Backoff delays*: no step reads them but to compute the next.
- *Byte layouts* of headers, settings and metadata: lengths and order are modelled, offsets
  are not. The Java codecs mirror the Rust ones and are not mapped.
- *zstd, protoc, rustc, tokio*: external. tokio's semaphores, watch channels and `Notify`
  are modelled as they are used; zstd by how far a payload shrinks.
- *The text of generated code* and the parsing of Rust: build-time text processing. What
  generation decides (numbers, ids, refusals, registrations) is modelled.
- *Some refusals of protoc*: names that differ in case or underscores only, negative enum
  numbers, and the scopes of hand-written enums, whose packages are not modelled.
- *Middleware*: a recursion over an immutable list inside one task; what it returns or
  catches is an outcome of the handler.
- *`Revisioned`*: one comparison and increment under a lock.
- *Facade, group and Paper integration, TLS loading, telemetry, examples*: they delegate,
  do I/O or report, and share no state whose order matters.
- `max_concurrent_streams` is negotiated and read nowhere else, so there is nothing to model.
