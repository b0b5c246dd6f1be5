# A TLA+ model of the FastAPI template for Modal

The template is a FastAPI application that runs in any number of containers on
Modal, with an item catalogue, a publish/subscribe event bus behind SSE and
WebSocket streams, and signed inbound webhooks. Postgres is what the containers
share. This directory holds TLA+ modules for its concurrent parts, the TLC
configurations that check them on small instances, and TLAPS proofs of the
properties that matter most. `PROJECT.json` lists the components, runs, mutants,
hazards, findings and theorems, and maps every definition to the lines it models.

Contents: [inventory](#1-inventory), [modules](#2-modules),
[runs](#3-runs), [fairness](#4-fairness), [proofs](#5-proofs),
[findings](#6-where-the-code-and-its-words-differ), [left out](#7-what-is-not-modelled),
[plan](#8-plan).

## 1. Inventory

Paths are relative to the repository. "Hard" names what tests hardly reach.

| Component | Source | State | Operations | Correct when |
|---|---|---|---|---|
| Event bus port | `src/core/ports/event_bus.py` | none (a contract) | publish, subscribe | ids grow; a stream yields its topic's events behind its start, in order, each once; a slow consumer is ended |
| Shared event bus | `src/adapters/events/postgres.py`, `sql/002`, `sql/003` | events table; per container a cursor, subscribers and their queues, the pump and listen tasks | start, publish, subscribe, pump (drain, dispatch, prune), listen, close | keeps the contract while publishers, pumps, streams, pruning, failures, crashes and restarts interleave |
| In-memory event bus | `src/adapters/events/memory.py` | counter, bounded history, subscribers | publish, subscribe | keeps the same contract in one process |
| Webhook delivery | `src/api/webhooks.py`, the webhook stores | claimed ids | check, record_if_new, publish, forget | published once however often it is sent; a 2xx answer means it was published |
| WebSocket tickets | `src/api/auth.py`, `src/api/events.py`, the ticket stores | used ticket ids | mint, verify, consume | one connection per ticket |
| Stream endpoints | `src/api/events.py`, `src/api/streaming.py` | open streams per container, sender and receiver tasks, pending read | SSE stream, WebSocket stream, heartbeat, deadline | the connection cap holds and never leaks; no event is lost between two heartbeats; the right close code |
| Rate limiter | `src/api/ratelimit.py` | token buckets, least recently used first | check | no more than burst + rate x time per key, unless evicted |
| Items | `src/core/services/item_service.py`, `src/adapters/persistence/` | items table or dict | create, get, list, update, delete | names unique; each change announced, never failing the write |
| Schema migrations | `src/adapters/persistence/migrations.py` | schema_migrations, the schema | run, verify, status | all or nothing, serialised, drift refused, newer databases tolerated |
| Lifespan | `src/main.py`, `src/deps.py` | pool, caches | init_resources, init_dependencies, close_resources | nothing survives its pool; nothing leaks when startup fails half-way |
| Telemetry | `src/adapters/http/middleware.py`, `src/adapters/telemetry/` | gauges, per-request state | wrap a request, a socket, a service | gauges return to zero; the reason recorded is the reason |
| Authentication, models, errors, configuration, scripts | `src/api/auth.py`, `src/api/models.py`, `src/utils/`, `scripts/` | none | pure functions and one-shot tools | (tests) |

How they interact. A route handler writes through `ItemService`, which then
publishes on the bus; `receive_webhook` claims an id in the webhook store, then
publishes. A publish is one SQL statement that takes an advisory lock, inserts
and commits. Each container's pump polls the table (or is woken by NOTIFY) and
puts the rows into the queues of the streams it serves; a stream first replays
from the table and then reads its queue. The endpoints wrap a stream with a
heartbeat and a deadline and forward it to the client, who reconnects with
`Last-Event-ID`, quite possibly to another container. The application's code in
one container runs on one event loop, so it is interrupted only at an `await`;
containers run in parallel and meet in the database.

What is hard: the hand-over from replay to queue while the pump runs; commits out
of order; a full queue emptied under its reader; the failures of single queries,
each with a fallback of its own; shutdown and restart while streams are open;
three database calls of the webhook handler that can each fail before or after
their effect, with a sender that retries; containers of several releases that
migrate one database while others serve; a pool, a pump and caches that have to go
in the right order wherever a start fails; three clocks that judge one ticket; a
LISTEN connection that looks healthy and hears nothing.

## 2. Modules

| Module | Models | Used by |
|---|---|---|
| `EventStream` | the contract of the port, as an abstract log with stream positions | `PostgresEventBus`, `InMemoryEventBus` (refinement), `StreamEndpoints` (as the bus) |
| `PostgresEventBus` | the shared bus: table, publishers, pumps, subscribe(), pruning, lifecycle | `MCPostgresEventBus`, `PostgresEventBusProofs` |
| `ListenPump` | when the pump of one container fetches: waits, NOTIFY, the LISTEN connection and its probe | `MCListenPump`, `ListenPumpProofs` |
| `InMemoryEventBus` | the single-process bus | `MCInMemoryEventBus`, `InMemoryEventBusProofs` |
| `StreamEndpoints` | connection cap, with_heartbeat(), the SSE response, the three tasks of a WebSocket; composed over `EventStream` | `MCStreamEndpoints`, `StreamEndpointsProofs` |
| `Webhooks` | checks, claim, publish, forget, and the sender's retries | `MCWebhooks`, `WebhooksProofs` |
| `RateLimiter` | the token buckets | `Tickets` |
| `Tickets` | ticket minting (over `RateLimiter`), the handshake of a WebSocket, both ticket stores | `MCTickets`, `TicketsProofs` |
| `ItemRequests` | a request on items from the middleware to the repositories and the bus | `MCItemRequests`, `ItemRequestsProofs` |
| `SchemaContract` | what migrations promise of the schema | `Migrations` (refinement) |
| `Migrations` | migration runs of several programs on one database | `Lifespan`, `LifespanProofs` |
| `Lifespan` | start, service and shutdown of containers, composed over `Migrations` | `MCLifespan`, `LifespanProofs` |
| `*Proofs` | theorems about the module they are named after | |
| `MC*` | model values, small sets and symmetry for TLC | the `.cfg` files |

**EventStream.** `published` and `retained` are sets of `<<id, topic>>`, `position`
is how far a stream has come. `Deliver` yields the next retained event of the
topic and no other, which is order, no repetition and no gap in one guard. A
starting point may be anywhere in the log but not beyond its newest event.

**PostgresEventBus.** An event is its `seq`; `rowTopic[seq]` is its topic.

- `PublishInsert`, `PublishCommit`, `PublishAbort`: the body of `publish_event()`;
  a row is drawn while no other transaction is open (the advisory lock) and
  visible once it commits.
- `Start`, `Fetch`, `Resume`, `Dispatch`, `PruneAge`, `PruneCount`, `PruneFails`: the
  pump. `Fetch` is the query's snapshot; `Dispatch` is one row: `_dispatch` into
  every queue of the topic, the overflow policy, and the cursor. While the pump
  is inside a chunk nothing else of that container moves (`LoopFree`); it lets the
  loop run after `Chunk` rows. A failing fetch changes nothing and is a stutter.
- `Subscribe`, `ReadHead`, `ReadHeadFails`, `FetchReplay`, `FetchReplayFails`,
  `YieldReplay`, `GetEvent`, `GetClose`, `Disconnect`: the generator of subscribe(), one
  action from each await to the next.
- `BeginClose`, `FinishClose`, `Stop`: close() up to the await of its tasks and
  behind it, and the end of the process with or without close(); `Start` again.
- The client keeps its `lastId` when a stream ends and may send it, send 0, or send
  none, in any container.
- `committed` and `headAtCall` are history variables, read by properties only.

`Environment` says which disturbances an instance of this module allows: failing head or replay
queries, pruning, rolled back publishes, shutdown, crashes, clients that leave.
The proofs hold for every choice.

**InMemoryEventBus.** publish() and the first step of subscribe() have no await
and are one action each; `stream[s]` is a record of the generator's locals.

**ListenPump.** One container and what the network does to it. An event is a number;
the rows and the queues are those of `PostgresEventBus`.

- `Publish`, `Hear`, `Break`, `ProbeLate`: the database and the connection, which is
  live, deaf (a transaction-mode pooler), broken, or dead without the client's
  notice. A NOTIFY on its way is lost with its connection.
- `Fetch`, `PumpError`, `PumpRetry`, `Wait`, `Wake`: `_pump()`. `Wait` chooses the short or
  the long timeout by `listening`, and `Wake` clears the flag after the wait.
- `Connect`, `Ask`, `Trust`, `Distrust`, `Again`, `ListenError`, `Reconnect`: `_listen()`, with
  its finally in `Release`.
- `Close`, `EndPump`, `EndListen`: close() cancels both tasks wherever they are.
- `Tick` is the time; it passes when nobody has anything to do (`Idle`), so local
  steps take no time. `age` and `trusted` are history.

**Webhooks.** A request passes the checks of receive_webhook in their order
(`CheckOrder`; `Answer` is the answer of the first that fails) and is then a
process with three calls: `Record*`, `Publish*`, `Forget*`. Each can raise before its
effect and after it; record_if_new() raises behind its INSERT also when its
piggybacked DELETE fails. `Abandon` is the end of a request, or of its container, in
the middle of a call. The sender (`Send`) repeats an id until one try is answered 2xx
and may do so while earlier tries are being handled. `Expire` is a claim that is no
longer remembered: its time-to-live is over, or the in-memory store made room.
`excess` and `doubts` are the books the properties are stated with: what was
published, or unclaimed, without the store's knowing, and the ids with a claim that
stayed behind a failure, or that was given back after another try had been told
"duplicate". Tries that overlap are no excuse in themselves.

**RateLimiter.** `check()` with tokens and time as integers: a token is `Unit` units, a
bucket gets `Rate` of them per tick. `buckets[l]` is the ordered dict of one limiter.
`checks` is history.

**Tickets.** Containers (the limiters) and the database have clocks of their own (`Skew`).

- `Issue`: issue_ws_ticket(), scope check and limiter first.
- `Verify`: stream_ws() up to its first await; `Refusal` has its close codes in order.
- `ConsumeHere`: the in-memory store, one step. `Insert` and `Prune`: the Postgres store,
  the DELETE at most once per interval and container (`Due`). `Raises`: a database that
  fails before or after the statement, or a container that dies.
- `Acquire`: the connection cap, free or not. The ticket is spent either way, so a
  client that is turned away with 1013 needs another one.

**ItemRequests.** `req[r]` is one request; its steps go from one await to the next.

- `Arrive`, `Respond`, `Cancel`: the telemetry middleware around it, with its gauge
  and the request counter.
- `Route`: authorization and validation, in FastAPI's order (`Denial`).
- `Statement`, `Count`, `Raises`: the repository's calls. `Answer` is what either repository
  says, `_translating` is in `Raises`, and `Late` is a statement, or an event, that takes
  effect though its answer was lost or nobody waits for it.
- `Emit`: `_emit()` through `MeteredEventBus.publish`; `Return` the finally of
  `MeteredItemService._observe`.
- `Status` and `ErrorStatus`: the routes and the exception handlers.
- `ledger` and `log` are history: the writes and the events in their order.

A name stands for all spellings that the unique index folds together.

**SchemaContract** and **Migrations.** A migration file is `<<version, text>>`; its text
stands for its checksum. A program is a container, or an operator who runs
`scripts/migrate.py` (`up` is `RunMigrations`, `status` is `Problems`). `Begin`, `RefuseDrift`,
`LockTimeout`, `Execute`, `Record`, `Fail`, `Commit` are run_migrations() from one
statement to the next; `Verify` is verify_up_to_date(); `Quit` the end of the session.
`history` has the committed transactions; the answer to a COMMIT may be lost. The
repeatable files run in `Commit`: they leave no record, and a failure of theirs is
`Fail`. The contract: a release's set of files goes into the schema as a whole, or
not, and whoever is admitted finds all of its files there.

**Lifespan.** `stage[p]` is the place in lifespan() of `src/main.py`; `pool`, `cache` and
`leaving` are `deps._pool`, the four `lru_cache`s and the local of close_resources();
`open` and `pumps` what is really running. `Launch` starts a process, or runs the
lifespan once more in one (as tests and reloads do). `OpenPool`, `MigrateStep` (all of
`Migrations`), `Migrated`, `MigrationRefused`, `StartBus`, `InitDependencies`,
`RefuseMemory`: the way up. `Use` is a request that asks for an adapter, also during
the shutdown; `Shutdown`, `TakePool`, `StopBus`, `ClearCaches`, `ClosePool` the way
down; `Exit` the end of the process, anywhere. Two details of the code show in it.
If the bus does not start, nothing is given back: the pool stays in `deps._pool` and
is the pool of the next lifespan of that process. And after a refused migration
close_resources() asks for a bus that is not built yet; the factory raises for want
of a pool and the exception is swallowed.

**StreamEndpoints.** One container. The bus below the endpoints is `EventStream` itself,
with every event retained: both buses implement it, so what holds here holds over
either. `conn[c]` is one record per connection, `active` the count of `StreamLimiter`.

- `at` is where the reader of with_heartbeat() stands, the SSE body or the sender
  `_pump()`; a step goes from one await to the next. `pending` is the one `__anext__`
  task: `Subscribe` and `NextItem` are its steps, taken whatever the reader waits for. `LoopTop`, `TakeItem`, `SkipItem`, `TakeEnd`, `Heartbeat`, `TimeOut` are the
  loop; `Finally` and `FinishClosing` the finally around the await of the cancelled task.
- `Tick` is the deadline: far away, within the half second `_pump()` allows for, past.
- SSE: `StreamEvents`/`StreamRefused`, `HeadDone`, `TailDone`; `Disconnected` is Starlette
  cancelling the response's task, `WriteFails` a write that raises instead. A task that
  ends at a `yield` leaves a suspended generator (`orphan`), which the event loop closes
  in `Collect` and `FinishShutting`.
- WebSocket: `StreamWs`/`SocketRefused`; the sender's `SenderLocks`, `SenderFails`,
  `SenderCancelled`; `Receive*`, `ReceiverLocks`, `Reply*` for `_listen()`, where
  `ReceiveRaises` is a message on which json.loads raises no ValueError; `FirstDone`,
  `BothDone`, `SocketClosed` for the handler. A cancellation that reaches the sender in
  the finally of with_heartbeat() is swallowed by its `suppress`, as in the code.
- `released` is the flag of stream_events(); `reason` is what the telemetry middleware
  records at the end; `cause` and `unsent` are history, read by properties only.
- `HeadWriteFails` says whether the write of a response's head may raise.

## 3. Runs

| Run | Instance | Shows |
|---|---|---|
| `PostgresEventBus_contract` | 1 container, 1 client, 2 topics, 3 events, batch 2, queue 1, replay 1, 1 row kept; every disturbance | `TypeOK`, `InOrder`, `NothingMissed`, `NothingAfterClose`, the inductive invariant `StreamsOrdered`, and `ImplementsContract`, the refinement of `EventStream` |
| `PostgresEventBus_resume` | 2 containers that close and crash, 1 client that leaves; 3 events, batch 2, queue 2, replay 2 | `ResumeIsExact` (no repetition, no gap within `replay_size`), `NothingFromBefore` |
| `PostgresEventBus_liveness` | 1 container, 1 client, 3 events, batch 3 on queue 1; pruning, leaving, closing | `EventuallyDelivered`, `CloseEndsStreams`, `OnlyBacklogOverflows` |
| `InMemoryEventBus` | 2 clients, 2 topics, 5 events, queue 2, replay 2 | `TypeOK`, `ExactlySinceStart`, `ImplementsContract` |
| `ListenPump` | every DSN, 3 events in batches of 2, waits of 1 and 3, 3 faults | `TypeOK`, `NoticedInTime`, `SettlesDown` |
| `StreamEndpoints` | an SSE stream and a WebSocket on one slot, 2 events, one of them hidden from the user | `TypeOK`, `SlotsCounted`, `OneWriter`, `NothingSkipped`, `NothingLeft`, `ReasonIsTrue` |
| `StreamEndpoints_liveness` | the same with 1 event, hidden: it takes up the loop and lets no write notice that the client left | `StreamsEnd` |
| `StreamEndpoints_lost_slot` | the write of a head may raise | a counterexample to `SlotsCounted`, [below](#6-where-the-code-and-its-words-differ) |
| `Webhooks` | 2 ids, 4 requests for one and 1 for the other, every failure | `TypeOK`, `PublishedOnce`, `AcknowledgedIsPublished` |
| `Tickets` | 2 containers, one with a slow clock, and a database; 3 users; up to 5 requests for tickets, or 2 with 2 handshakes | `TypeOK`, `LimitIsKept`, `OneConnection` |
| `ItemRequests` | 3 requests, 2 names, both repositories | `TypeOK`, `AnswersAreTrue`, `EventsFollowWrites`, `MetricsAreTrue` |
| `Lifespan` | 2 processes, 3 lifespans, 6 releases over 4 directories | `TypeOK`, `RecordedAsApplied`, `ServesOnItsSchema`, `NothingOutlivesItsPool`, `AtomicBatches` (the refinement of `SchemaContract`), `StartsAndStopsEnd` |

*Bounds of the buses.* `MaxSeq` (events published) is 3 where a stream needs an event before,
at and behind its starting point, and so that a batch of 2 leaves a third row for
another fetch. Queues of 1 and of 2 both give chunks of 1: the first is the smallest
there is, where half a queue is no row, and a batch of 3 has to be let through it
row by row; with the second, chunks, batches and queues all end at different rows. Replays of
1 and of 2 rows are cut short and complete. Containers share the table alone and
a stream lives in one of them, so what is said of one stream needs one container;
what is said of a client that resumes needs two, the other one's pump lagging or
leading, and these are interchangeable (`SYMMETRY`, in that run and in `Webhooks`
only: the others have a temporal property or nothing to permute).
In `ListenPump` the long wait is three polls, which tells a wait that was chosen on
trust from one that was not; three faults lose a connection, its successor's probe
and a query.

*Of the endpoints.* The two transports share one slot: a slot given back twice shows
because between the finally of a body and its background task the other connection
takes it, and one that leaks shows at the first end. Two events are a pending one
behind one being sent, and the hidden one goes to the top of the loop without a
frame. A connection is used once; later ones of the same kind start from the same
state.

*Of the rest.* `Webhooks`: with four requests a claim is taken, given back, taken and
given back again, with one to see what is left; a second id shows that they do not
interfere, and the faults cover each check alone and two pairs.
`Tickets`: a bucket of two, two keys per limiter and three users make each way of
eviction happen; five checks drain, refill and evict a bucket. Handshakes come in
pairs, since `OneConnection` is about two of them; the clocks differ by a tick, and so do
a ticket's expiry in its container and in the database. `ItemRequests`: a creator, a
rival for its name or its id, and a third of any kind: the unique name, a lost
update, an order of two events and a late effect all need no more.
`Lifespan`: two releases that each miss a file of the other, one with an edited
file and one with two files of a version; one verifies what others migrate, one is
refused in prod after its migration, one has no `DATABASE_URL`. The third lifespan
is the second of one of the two processes, after its first has failed or stopped.

Runs of finite behaviours allow deadlock: everything has been used.

Each property of a passing run has a mutant in `PROJECT.json`: a plausible bug, an
operator beside the original, under which TLC finds the property violated.

## 4. Fairness

Four runs assume fairness: the two `_liveness` runs, `ListenPump` and `Lifespan`.

`PostgresEventBus`: the publisher's transaction
ends (weak fairness: the database finishes or aborts it). The pump and close()
are tasks of a running event loop, always ready when their step is enabled (weak
fairness). A stream whose consumer keeps reading waits for its turn on a loop that
the pump takes for a chunk and frees again, so its steps are enabled again and
again, not continuously: strong fairness on the stream's own steps, which is what
a fair ready queue of the loop gives. Nobody has to publish, subscribe, leave,
prune, crash or shut down. A consumer that stops reading is a stream that is not
scheduled; nothing is claimed for it, and the pump does not wait for it.

`StreamEndpoints`: the event loop runs ready tasks and closes generators nobody
holds, timers fire, and a write ends (weak fairness on the reader, the handler, a
reply, a cancellation, the collection). A write to a client that has left may
succeed into a buffer, not for ever: strong fairness on its failing. `asyncio.Lock`
serves its waiters in turn: strong fairness on the sender's taking it. Nobody has
to publish, to send a message, to leave or to be told of a client that left; time
does not have to pass, since `StreamsEnd` speaks of a deadline that has passed or a
client that is gone.

`ListenPump`: both tasks run when they can, a NOTIFY on a live connection is
delivered, and time passes (weak fairness). No fault has to happen and none has to
stop: faults are bounded by `MaxFaults`, and `SettlesDown` speaks of what follows the
last. A failing connect or query is a fault, so their success is fair.

`Lifespan`: the steps of init_resources() and close_resources() are taken (weak
fairness): each ends in an answer, an error or a timeout of the database
(`lock_timeout`, the statement timeout, the pool's command timeout). Whether they
succeed is open, a process may die anywhere, and nobody has to be launched or shut
down.

## 5. Proofs

Every safety invariant, action property and refinement that a passing run checks is
a theorem, proved by TLAPS for all values of the constants that satisfy these
assumptions, which TLC evaluates in the runs:

- `ConstantsAssumption`, `BusAssumption`, `WebhooksAssumption`: types of the constants;
  positive batch, queue and table sizes; the sentinels are not numbers.
- `StreamsAssumption`: finitely many connections, a cap that is a number.
- `RateAssumption`: a burst, a rate, a unit and a number of keys that are positive.
- `TicketsAssumption`: users have scopes, clocks differ by whole numbers.
- `ItemsAssumption`: finitely many requests, calls of the right shape, `Free` is no name.
- `WaitsAssumption`: positive waits, the poll interval not above the long wait.
- `MigrationsAssumption`: versions are numbers, and nobody is no program.
- `LifespanAssumption`: a release comes with a migration directory of `Codes` and
  AUTO_MIGRATE on or off.

`SlotsExact` and the theorems on resumption of the shared bus assume more, since
their properties fail without it; see there.

`PostgresEventBusProofs`, with every disturbance unless it is said otherwise:

- `TypeCorrect`: `Spec => []TypeOK`.
- `OrderInvariant`: `Spec => [](TypeOK /\ StreamsOrdered)`. `InOrder` alone is not
  inductive: that what is yielded next is newer than what was yielded has to come
  from what is queued, and that from what the pump dispatches. `StreamsOrdered` says
  so: rows fetched are above the cursor (`BatchInv`); a queue is increasing, not
  above the cursor, with CLOSE only at its end (`QueueInv`); what is still to be
  replayed is not above the starting point, and what was yielded is below all
  that still waits (`YieldInv`); a stream that is served has a container that runs,
  whose cursor is not reset under it (`PhaseInv`). The argument needs no lock, and so
  holds of any database. `StreamsInOrder` (`InOrder`) and `QueuesClosed`
  (`NothingAfterClose`) follow.
- `NothingIsLost`: `Spec => [](TypeOK /\ StreamsOrdered /\ NothingLost)`. Completeness
  does need the lock. `LogInv` is what it gives: the one uncommitted row is the last
  one drawn, so rows become visible in the order of their ids. Hence a fetch leaves
  out no row below its last (`BatchWhole`), and the cursor may pass what is below it.
  `MissInv` is `NothingMissed` of one stream, in a form that survives the hand-over
  from replay to queue; it needs to know that a stream which its pump has dropped holds
  CLOSE and nothing else (`ToldInv`). `GapInv` is the replay's side: between what was
  yielded and the starting point the table holds nothing but what is still to come.
  `StreamsMissNothing` (`NothingMissed`) follows.
- `BusImplementsContract`: `Spec => ImplementsContract`, each action through the
  substitutions of `Contract`. The step that matters is the yield: an event from the
  queue, or of the replay, is the next retained one of its topic because of `MissInv`
  and `GapInv`.
- `BacklogOnly`: `Spec => OnlyBacklogOverflows`, an action property: `_drain` gives the
  consumers a turn after `Chunk` rows (`ChunkInv`), and a chunk fits in an empty queue.
- `StreamsResume`, `NothingOldWhileHeadStays` (`NothingFromBefore`) and
  `ResumeExactWhileHeadStays` (`ResumeIsExact`): where head reads do not fail, and for the
  last one replays neither, `Spec /\ []HeadStays` implies the property. `HeadStays` says that
  the newest committed row is in the table. Without one of these conditions TLC finds
  the promise broken ([below](#6-where-the-code-and-its-words-differ)).
  Crashes, shutdowns, rolled back publishes and clients that leave are all allowed.
  A stream starts neither before its call nor before what its client has seen
  (`StartInv`), yields and replays only what is behind that (`FreshInv`), and a
  replay that is shorter than it may be is the whole gap (`ShortInv`).
- `OnlyAgeTakesTheHead`: no step but the pruning by age ends `HeadStays`; pruning by count
  keeps the newest row. So `NothingOldIsYielded` and `StreamsResumeExactly` are the same
  properties for instances that do not prune (`SteadyLog`), as in the run.

`InMemoryEventBusProofs`:

- `StreamsAreExact`: `Spec => [](TypeOK /\ StreamsExact)`. `ExactlySinceStart` says
  which ids came out or wait and in which order, but nothing of the replay that is
  still to come, nor of the queue of a stream that was dropped; so it does not survive
  the step that yields from either. A stream
  that is not served holds nothing or CLOSE (`ClosedInv`, `QueueInv`); its queue goes
  up, behind the start; what was yielded goes up, below the replay and that below the
  queue (`YieldInv`); no id of the topic behind the start is in neither (`NoGap`).
- `TypeCorrect`, with the bounds of queues and histories, and `StreamsMissNothing`:
  `Spec => []ExactlySinceStart`, from it, order and multiplicity included. `LatestBounded` is the deque with a `maxlen`.
- `BusImplementsContract`: `Spec => ImplementsContract`. Every action is one of
  `EventStream` seen through `Published`, `Retained`, `Open` and `Positions`. The hard
  step is the replay, which was computed when the stream opened while the history
  went on: `ReplayInv` says that what is retained behind a position is still to come.

`ListenPumpProofs`:

- `PumpTypesHold`: `Spec => []TypeOK`, and `EventsAreNoticed`: `Spec => []NoticedInTime`.
  `AgeInv` is the heart: while the pump waits, the age of what waits for it and the rest
  of its timer are within the wait that it chose, and it chose the long one only on
  trust. That an event is fetched at once while a connection hears is `HeardInv`: it is
  under way as a NOTIFY, the wake flag is up, or the pump is at it. `FlagInv` and
  `ConnInv` tie `listening` and the connection to where `_listen()` stands.

`WebhooksProofs`, with every failure of the model:

- `BooksAreKept`: `Spec => [](TypeOK /\ ClaimsPaid)`. `PublishedOnce` is not inductive,
  and the claims do not even exclude one another once one has expired. `ClaimsPaid`
  is the book-keeping behind it: the publications of an id and the requests that
  still hold a claim on it are covered by its row in the store and by what was lost
  from sight (`excess`). `BooksBalance` says that a step of one request keeps the
  books if what it publishes is covered by its claim or counted, and what it claims
  by the row; `ClaimsPaidStep` checks that of each call, and `ClaimersStep` is the
  change of a cardinality by one.
- `WebhookPublishedOnce`: `Spec => []PublishedOnce`, and `ClaimsExclude`:
  `Spec => []OneClaim`, from it: requests for one id are in the part between claim and
  answer one at a time, as long as no claim on it expired or was evicted and no
  publish of it raised behind its effect (`excess` is 0). Of other ids it says nothing.
- `AnswersAreKept`: `Spec => []AcknowledgedIsPublished`. The property speaks of ids whose
  requests are over; its invariant has to say what a row, and what a "duplicate" means
  before that. For an id without `doubts` either means that the event was published or
  that a request which claimed it is still about to publish or to forget it
  (`Accounted`, `AnswersInv`); and none forgets it once another was told "duplicate".

`TicketsProofs`, over `RateLimiter`:

- `TicketTypes`: `Spec => []TypeOK`, with one bucket per key and at most `MaxKeys`.
- `OneConnectionPerTicket`: `Spec => []OneConnection`. A ticket that has won is spent
  for good: it is in the memory of its store, or the store's own clock takes it for
  expired (`Spent`), which is also when it may be pruned. So a second winner has
  consumed an expired ticket, and was `late`.
- `LimitsAreKept`: `Spec => []LimitIsKept`. The property speaks of any two checks of
  a caller; what a step changes is its last one. `LimitInv` says of that one which
  bucket it left, that for every earlier check the tokens granted since and those left
  are within a burst and the inflow (`InLimit`), and which callers' buckets are newer:
  those who came since. A bucket that was evicted had `MaxKeys` of them in front of it
  (`Forgotten`), and that is the exception the property makes.
- `FewCallersAreLimited`: with no more keys than `MaxKeys` there is no exception, and
  `LimitIsStrict` holds in every state. That is the case of the webhook limiter, whose
  keys are the providers, and of the limiter that each WebSocket has for its messages.

`StreamEndpointsProofs`, for any number of connections and any cap:

- `StreamTypes`: `Spec => []TypeOK`, which has the bound on the count.
- `SlotsExact`: `Spec => []SlotsCounted`, if the write of a response's head does not
  raise; with it the theorem is false, see `StreamEndpoints_lost_slot`. Counting alone
  is not inductive: a release lowers the count whether or not its caller holds a slot. `SlotInv` relates the
  `released` flag to the place of the body: from the start to the finally it has not
  released, at its tail it has; and it keeps the places of the two transports apart.
  `SlotStep` is then what a step of one connection may do: leave the count and the
  holders alone, add the connection while there is room, or remove it, and
  `CountStep` turns that into the equation between count and cardinality.
- `CapHolds`: `Spec => [](Cardinality(Holders) <= MaxConnections)`, with failing heads
  too: such a failure keeps a slot that nobody holds (`SlotLost`), so the count still
  covers the streams served (`SlotsCovered`).
- `WritersExclude` (`OneWriter`), `EndedStreamsLeaveNothing` (`NothingLeft`) and
  `ReasonsAreTrue` (`ReasonIsTrue`), all three from `ConnsWhole`, with failing heads too.
  It says for each connection where its subscription and pending `__anext__` stand
  (`SourceInv`: until a finally is over it has a cancelled one), how its tasks depend on
  one another: the sender runs as long as it reads, the handler closes when both are
  done, one of them has the lock (`TaskInv`), and what each result of a task, each close
  code and each reason means for why the stream ended (`CauseInv`, `ResponseInv`,
  `CodeInv`; the last also that a new connection has no reason yet). A receiver that died
  of a message is the one exception of `ReasonIsTrue`, and of `CodeInv`.
- `EndpointsKeepContract`: `Spec => Bus!Spec`. A source is closed on every way out,
  subscribed or not, and the contract has no step for closing what is not open; that
  it is none needs `PositionInv`. Since both buses implement the contract, the
  endpoints can run over either.
- `HeartbeatsSkipNothing`: `Spec => []NothingSkipped`. The property compares what was
  framed with the position of the stream in the bus. `SourceInv` says that all but the
  item at hand was framed, `ItemInv` that this item is the event at the position.
  With `EndpointsKeepContract`, by which the position goes from one event of the log to
  the next, a client is served what the bus promises its stream.

`ItemRequestsProofs`, for any requests, names and calls, and both repositories:

- `ItemTypes` (`TypeOK`), `AnswersTellTheTruth` (`AnswersAreTrue`), `EventsTellOfWrites`
  (`EventsFollowWrites`) and `CountersAreTrue` (`MetricsAreTrue`), from one invariant,
  `ItemsInv`. The properties speak of requests that are over, and compare four things
  that are written at different steps: the answer, the table, the events and the
  counters. So `Known` says of a request in each part of its life (`Asking`, `Denied`,
  `Ended`, `Cancelled`) what it has done so far and what is still under way without it
  (`Open`: a late write has not been told, a late event tells a write that took
  effect). The books hold only what was asked for (`TrueBook`), whatever was answered
  before a request is over for good (`BeforeIsOver`), which gives the order of events
  (`InOrder`), and the gauge counts the requests in flight (`Flight`).

`LifespanProofs`, about `Migrations` for any programs and directories:

- `SchemaTypes`, and `RecordsAreTrue`: `SchemaSpec => []RecordedAsApplied`. A record is true because what a
  transaction executed and what it inserted agree at its commit, and because nothing
  of it was in the table: `BatchInv` says so of every transaction, `IdleInv` that
  nobody else has one. The versions of two batches are disjoint since all recorded
  versions are excluded under the lock that the reader of the table still has.
- `SchemaImplementsContract`: `SchemaSpec => AtomicBatches`. A commit is a `Migrate` of the
  whole directory, because the rows and the batch together are the directory
  (`BatchInv`); whoever is admitted finds its files (`AdmittedInv`), also if it only
  verified and without the lock.

and about `Lifespan` for any processes, releases and starts:

- `LifeTypesHold`: `Spec => []TypeOK`.
- `LifespanMigrates`: `Spec => SchemaSpec`, the composition; `DeploysRecordAsApplied` and
  `DeploysAreAtomic` carry the theorems of `Migrations` over.
- `ServingIsReady` and `PoolsGoLast`: `Spec => []ServesOnItsSchema` and
  `Spec => []NothingOutlivesItsPool`. Neither says what holds in the middle of a
  shutdown, when `deps._pool` is None already and the pool still open. `Held` is the
  pool a process has wherever it is kept; adapters and the pump are on that one
  (`CacheInv`, `PumpInv`), a session is open as long as there is one (`SessionInv`), and
  in the last stage nothing on it can be built (`closing_pool` in `CacheInv`).

Before it was proved, each inductive invariant was checked by TLC as an invariant of
the run of its module (`ItemsInv` in 3.6 million states, say); `StreamsOrdered` is
still one of its run. The proofs corrected the models where TLC could not: two
alternatives of an answer in `ItemRequests` applied at once, in a `CASE` whose choice TLC
makes by order and the semantics of TLA+ leaves open.

Two habits of the proofs have reasons that do not show. A step that changes several
fields of a record is written `[f EXCEPT ![k] = [f[k] EXCEPT !.a = x, !.b = y]]`, since the
prover (tlapm 1.4.5 with Z3) misreads the equivalent `[f EXCEPT ![k].a = x, ![k].b = y]` in a
way that proves anything. And what such a step does to the record is stated once, in a
lemma (`...Writes` of `StreamEndpointsProofs`), that the other proofs cite; leaves are
small enough to be proved in a tenth of the prover's usual time limits, so that they do
not depend on the speed of the machine.

Only model-checked is liveness, which needs ENABLED and is out of the prover's reach:
`EventuallyDelivered` and `CloseEndsStreams` of the shared bus, `SettlesDown` of `ListenPump`,
`StreamsEnd` of the endpoints and `StartsAndStopsEnd` of the lifespan. The modules with
proofs have no recursive operators, and no proof is by induction over data: what a
sequence or a batch holds is said by quantifiers, and steps change it at its ends.

## 6. Where the code and its words differ

One run ends in a counterexample:

- `StreamEndpoints_lost_slot`: the write of an SSE response's head raises because the
  client has left. The body never starts, so its finally does not run, and the
  exception passes the background task that was to cover "the narrow window where
  the client vanishes before the body generator ever starts". The slot stays taken.

Other sentences hold with an exception that the modules have and the properties
leave room for, without a run of their own:

- An event committed between the call of subscribe() and its read of the log head
  is not yielded, against "events published AFTER the call" of
  `core/ports/event_bus.py`. A stream starts where the head is read
  (`headAtCall` and `ReadHead` in `PostgresEventBus`).
- When the query for the head fails the pump's cursor takes its place, and it may
  lag: events from before the call come out, and a client that resumes may see
  events again ("nothing is delivered twice and nothing published before
  subscribing leaks in"). The same happens when pruning by age has emptied the table:
  the head it reads is 0 then, and a row that the pump still had at hand comes out,
  be it older than the call or known to the client. A replay that fails is left out.
  `NothingFromBefore` and `ResumeIsExact` are checked and proved
  without these; order is kept even so, and `InOrder` is proved with them.
- When forgetting fails together with publishing, when record_if_new() raises in
  the DELETE behind its INSERT, when the container dies between claim and publish, or
  when a retry that overtook the first try was told "duplicate" and then the first
  fails to publish, the sender is told 200 for a webhook nobody published.
  `AcknowledgedIsPublished` leaves out the ids this happened to (`doubts`).
- "No server-sent close code ⇒ the client left" (`api/stream_metrics.py`): `_listen()`
  catches the ValueError of json.loads only. A message nested deeply enough makes it
  raise a RecursionError (Python 3.11, which the deployment runs), also within
  `WS_MAX_MESSAGE_BYTES`; the receiver ends, the handler has no code to send, and
  `client_disconnect` is recorded of a client that is still there (`ReceiveRaises`).
  `ReasonIsTrue` names this as its only exception.
- Two handshakes can win with one ticket ("atomic: one winner") if the row of the
  first is pruned by the database's clock while a slower container still takes the
  ticket for valid. `OneConnection` says that this is the only way.

## 7. What is not modelled

Of modelled components:

- Contents of events, JSON, formatting, logging; spans, durations, gauges of
  connections, route labels, and the outcome label of the webhook metric.
- `Last-Event-ID` that is not a number: subscribe() treats it like none.
- Streams opened in a container that has run close(): the server has stopped
  taking requests by then.
- `MeteredEventBus` around the bus passes every call on and closes the inner
  generator when it is closed; its publish counter is in `ItemRequests`.
- In `ListenPump` local steps take no time. A connection that is dead without
  notice stays trusted until something is asked of it, and a pump may finish a long
  wait it chose before a loss: both cost one long wait, which `NoticedInTime` allows.
- An accept() that raises, and a WebSocket handler that is itself cancelled: the
  server does so only when the process ends.
- A second failure inside a failure path of the endpoints, such as a cancellation
  that hits the collection of a generator.
- The in-memory repository folds names with `casefold()`, the unique index with
  `lower()`: a name stands for both, so the letters they disagree on are left out.
- A list of items and its count are two snapshots; overlapping updates may publish in the
  other order than they took effect; a cancelled operation is counted "ok". The
  module does all three, and no property forbids them.
- A body that is not JSON is refused before authorization, other invalid bodies
  behind it; `Route` has the second.
- The decoding of a bearer token and of a ticket's signature: their outcome is an
  input.
- Liveness of the browser and of the database.

Components left out for good, since they keep no state a model could reach:
instrument definitions and the set-up of exporters, configuration and DSN parsing,
and the scripts, whose one operation on shared state, migrating, is in `Migrations`.

## 8. Plan

Done, in the order of importance: `EventStream` and `PostgresEventBus`;
`InMemoryEventBus`; `Webhooks`; `StreamEndpoints`; `Tickets` over `RateLimiter`; `ListenPump`;
`Migrations`; `ItemRequests`; `Lifespan` over `Migrations`; and of all of them the proofs of
their safety properties, action properties and refinements.

Left: the cancelled socket handler, and the metrics of subscriptions and of webhooks.
