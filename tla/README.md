# TGPlane in TLA+

A verification project for TGPlane, a control plane for Telegram sessions: a main
node with a REST API that places sessions on worker nodes, and workers that run
the sessions (TDLib clients) and stream their updates back.

## 1. The system

| Part | State | Operations | Talks to |
|---|---|---|---|
| Session pool, `internal/session` | id -> entry, one goroutine per entry, `p.mu` | Add, AddBot, Remove, Get, List, runLoop | TDLib client, metrics hook, update handler |
| Metrics hook, `internal/metrics` | gauges by type and status | OnAdded, OnRemoved, OnStatusChanged, OnError | pool |
| Update bus, `internal/worker/server` | subscriber channels | dispatch, Subscribe, GracefulStop | pool (handler), main node (stream) |
| TDLib client, `internal/tdlib` | authState, tdlib, authorizer channels | New, SendCode, SendPassword, RunEventLoop, Close | go-tdlib (external) |
| Worker manager, `internal/worker/manager` | id -> connection, workers table | AddWorker, RemoveWorker, RestoreWorkers, subscribeLoop; Assign*, DrainWorker, leastLoaded; SendAuthCode, SendPassword, GetAuthState | workers (gRPC), PostgreSQL |
| Update stream, `internal/stream`, `webhook`, `replication` | Redis stream, each reader's lastID, webhooks | Publish; Run, deliver/post, insertWithRetry | Redis, webhooks, PostgreSQL |
| Records and bulk, `internal/account`, `bot`, `bulk`, `crypto` | account and bot rows, tokens sealed or plain | Add, Get, List, UpdateWorkerID, Remove, AddBots, AddAccounts, RemoveSessions | manager, PostgreSQL |
| REST server, `api/rest`, `internal/auth` | requests under way, limiters, API keys | middleware, key handlers, shutdown | all of the above |

An update travels TDLib -> event loop -> `dispatch` -> subscriber channel -> gRPC
stream -> `subscribeLoop` -> `Publish` -> Redis stream -> dispatcher and replicator.
A request travels limiter -> Auth -> handler -> row -> manager -> worker -> pool ->
TDLib client.

What is hard here: event loops that outlive their session, three goroutines that
write one authorization state, check-then-act with the lock released (AddWorker,
SendCode), a store updated apart from the table it mirrors, lookups on the way of a
request that are out of date one step later, restarts (with another encryption key,
too), retries with lost answers, and a stream read position that is
symbolic until the first message. `PROJECT.json` lists the main hazards, each at its line.

## 2. Modules

| Module | Models | Variables and actions |
|---|---|---|
| `SessionRegistry` | what the pool promises | table of ids: absent, ready, disconnected |
| `SessionPool` | `pool.go`, `session.go`, `session_hook.go` | entries have identity; `add` is two steps with `p.mu` held over the factory call, any other lock section is one step; the event loop is running, delivering, returned, done |
| `UpdateBus` | `server.go` dispatch and Subscribe, `grpc.go` and the worker's shutdown | dispatch is one step per subscriber under the read lock; a stream opens, receives, leaves, closes; the worker stops when no stream is left |
| `TDLibClient` | `client.go` | NewClient goroutine, monitor, callers (test, then send), event loop, cancel, close; the authorizer is external: it prompts, takes an answer, and prompts again or ends once the answer has been checked |
| `AccountLogin` | auth-code, password and auth-state, from `handler/account.go` over manager, worker and pool | extends `TDLibClient`; each request is at the handler, the manager, the worker or the client, one lookup per step; the row, the worker and the session may go in between |
| `WorkerRegistry` | `manager.go` registry, `repository.go`, start-up order of `cmd/main` | one connection per AddWorker call: dialled, healthy, registered, persisted, done or failed; RemoveWorker is two steps under the lock; each call to the store may fail and is only logged; RestoreWorkers lists, then adds one by one; `subscribeLoop`; restart |
| `SessionPlacement` | `manager.go` placement, `bulk/service.go`, REST create and delete of accounts and bots, their rows, the restore callback of `cmd/main` | the worker table, each worker's pool as a set, rows with their worker id; a create call is row, pick, assign, record; a drain lists, then adds there and removes here for each session; `MainRestarts`, `WorkerRestarts` |
| `UpdateStream` | `publisher.go`, `dispatcher.go`, `replicator.go` | both readers follow one scheme: XREAD, take, attempts at each target |
| `MemoryRepository` | `bot/memory_repo.go` (and `account/memory_repo.go`) | rows and their two indexes |
| `BotRecords` | `bot/service.go`, `bot/postgres.go`, `crypto/token.go`, the list of `handler/bot.go`, the restore of a worker's bots | the table beside the in-memory repository, INSERTs under way, which may fail, a client that reads page after page, restarts with another secret |
| `TokenBucket` | what the rate limiter promises | one bucket per key, for good |
| `RateLimiter` | `middleware/ratelimit.go` | entries made on demand, dropped when idle; time in ticks |
| `RestServer` | `api/rest/server.go`, the middleware, API keys, the shutdown of `cmd/main` | extends `RateLimiter`; a request is at the limiter, at Auth or in its handler; main serves, is closing, overdue or exited |
| `*Proofs` | | theorems about the module of that name, see section 4; `AccountLoginProofs` has those about `TDLibClient`, `RestServerProofs` those about `RateLimiter`, `BotRecordsProofs` those about `MemoryRepository` |
| `MC*` | | modules TLC runs: symmetry sets, constant values |

Definitions named `X_...` next to a definition `X` are plausible bugs of `X`
(a dropped guard, a swapped order). `PROJECT.json` names, for each property, the one
that breaks it.

## 3. Runs

| Run | Instance | Shows |
|---|---|---|
| `pool` | 2 ids, 2 entries | gauges equal the pool's contents; no orphaned loop; status follows the session's own loop; a removed entry is frozen; cancelled loops end; refinement of `SessionRegistry`, with and without fairness |
| `bus` | 2 sessions, 2 streams (one filtered), capacity 2, 3 updates | no send on a closed channel; an open stream is cut off only by another one with its id; order kept; dispatch never waits for a reader; a worker told to stop does once no stream is open |
| `login` | 2 requests at a time, one session | an outcome is never overwritten, an answer follows its prompt, what the user is told is true, at most one answer is acknowledged in vain; the event loop returns, or listens |
| `registry` | 2 workers, 2 connections, 1 restart | a successful save lasts while the worker is registered; no closed connection in the table; the restore tries all it has listed and loses none; streams reopened; loops end with their context |
| `placement` | 2 sessions, 2 workers, 4 events (requests other than create, restarts) | but for what a drain has started, a session runs on one worker, the one its row names; a drain takes away only what another worker has started; a removal reported OK has stopped the session its row places |
| `stream_webhooks` | 2 webhooks (one filtered), 2 updates, batch 2 | at most 3 receipts, none after a confirmation, stream order, every webhook tried |
| `stream_replication` | 3 updates, stream of 2 | nothing passed unsettled unless trimmed; every update is passed |
| `records` | 3 ids, 2 tokens, 2 secrets and none, 1 worker, pages of 1 | the in-memory repository answers like the table, failures only a database has apart; with encryption on only the right token goes out; reading page after page repeats or misses a bot only for a late INSERT or a removal |
| `rest` | 2 clients, an API key and no key, burst 2, rate 1, idle time 2 | a deleted key is refused; one burst and the sustained rate at most in any interval; refinement of `TokenBucket` |

Runs expected to fail, each a disagreement between the code and its own text:

| Run | What happens |
|---|---|
| `tdlib_closed_channel` | SendCode racing the end of authorization sends on a closed channel |
| `registry_duplicate` | two overlapping AddWorker calls for one id both succeed |
| `stream_startup` | updates published between two XREADs from `"$"` are lost |

More observations have no run of their own.

- Bulk add stores no worker id, so bulk remove reports OK for such a session and it
  keeps running (`bulk/service.go:107` says that sessions are removed).
  `RemoveOKStops` is about sessions whose row names a worker.
- A drain leaves `worker_id` as it was: a drained session is looked for on the
  removed worker, and started there again when that worker registers. `OneRunner` and
  `RouteFollowsSession` exempt what a drain has started, and nothing else. A drain
  passes no phone and no token on.
- After a restart of main no session is restored by `RestoreWorkers`, since the
  callback is set later.
- Subscriber ids are clock readings, and two calls that read the same nanosecond share
  one: the later stream replaces the earlier one in the map, and whichever leaves first
  removes the other. "updateBus fans out updates to all active Subscribe streams"
  (`server.go:30`) is then false; `CutOffOnlyBySharedID` says that it is false in no
  other case.
- "Delivery: 3 retries with 1 s backoff." (`src/README.md:255`) announces up to four
  deliveries of an update to a webhook; `for attempt := range 3` (`dispatcher.go:116`)
  makes three. `ConfirmedOnce` states the bound of the code.
- `subscribeLoop` of a removed worker retries on its closed connection until the
  context ends; `LoopsEndWithContext` is about the context only.
- A worker whose `Upsert` failed is registered and gone after a restart. When the list
  of saved workers cannot be read, main serves without them; they stay in the store.
- `updatesTotal++` runs under the read lock and may lose increments; the counter is
  left out of the model.
- GracefulStop waits for streams, and the main node ends its streams only when it
  stops itself: `StopEnds` needs every stream to have ended.
- `Close` on an account that is still authorizing leaves its TDLib instance running.
- An `Upsert` that comes after the `Delete` of a concurrent RemoveWorker brings the
  worker back after a restart.
- With encryption on, the UNIQUE constraint sees different ciphertexts and a bot can
  be added twice. One row that cannot be decrypted fails the whole page and the
  whole restore of its worker. With encryption switched off, sealed tokens are passed
  on as they are, which `TokenIntact` leaves out.
- The in-memory repository departs from the table where no one compares: ids after a
  failed Create, Update and Delete of a missing row, order and offset of List. It
  accepts a token that does not fit `VARCHAR(128)` (`000001_init.up.sql:17`), as an
  encrypted one may not, and knows no lost connection: `AddFails` is not repeated there.
- A second answer to one prompt is acknowledged while the first is being checked, and
  is never read; `OneAnswerToSpare` bounds this, and does not exclude it.
- A row that was never given a worker id, because main stopped or an answer was lost,
  is exempt from `RouteFollowsSession`, an update given up or trimmed from
  `NoneSkipped`, and a request already past Auth from `DeletedKeyRefused`.

Bounds. Two entries allow an id to be removed and added again, which is where a stale
loop meets a new session; a second id gives it a neighbour (the safety parts
of this and all other modules are proved for any number, section 4). Two publishers and two streams give every pair of lock
holders, and three updates fill a channel of two. Two requests in flight let one pass the
client's test, be overtaken by the other and send late; requests are repeated without
a bound. Two connections let two AddWorker calls for one id overlap, or
two workers be saved and restored. Three updates on a stream of two make trimming
overtake a reader. Two sessions let one migrate and one fail in a drain, and four
events allow a removal, a registration, a restart and a second drain. Three ids let
an INSERT with a smaller id commit between two pages, or a creation fail and another
follow. With burst 2, rate 1 and two ticks of idle time an entry is dropped at the
earliest moment the assumption allows (an entry two ticks old may go or stay, as it is
five minutes old or a little less); intervals of up to two ticks are observed (the
proof has no such limit). In
`SessionPlacement` a worker id keeps its address, a failed call is executed before
it fails or never, and the counts `leastLoaded` compares are read together; since any
worker may fail to answer, any may be picked all the same. Deadlock is not checked: bounded
instances come to rest, and so does a stopped process.

Constants standing for larger values in the code: `Cap` 256, `Count` 100 and 200, `MaxLen` 10 000, `MaxIdle` five minutes, `Limit` 50. The
attempts (3) are the code's. `LimiterAssumption` asks that a bucket refills within
the idle time (`Burst <= Rate * MaxIdle`); the defaults do (200 tokens at 100 a second).

Fairness. Goroutines that can run do run. `sync.RWMutex` does not starve a
writer, hence strong fairness for the steps that wait for a write lock. An event
loop whose context is done leaves its select eventually (strong, since it may take
pending updates first). In `login` only the client's own goroutines are fair; in
`bus` a dispatch that has begun, a stream that leaves, and GracefulStop; in `registry`
AddWorker calls, the restore and the loops, where the delay between two attempts, at
most 32 seconds, is a step that ends. `rest` has none. Nobody has to send a code, read a stream, answer a
request or stay reachable. Redis failures are bounded in the liveness run.

## 4. Proofs

`SessionPoolProofs`, for every set of ids and entries (finite ids for the gauges):

- `TypeCorrect`, `NoOrphanLoopSafe`, `StatusMatchesLoopSafe`;
- `RemovedStatusFrozenSafe`, an action property;
- `GaugeMatchesPoolSafe`, by counting: each hook callback changes the set of
  sessions of one type and status by one element;
- `PoolImplementsRegistry`, the refinement of `SessionRegistry` without fairness.

`StatusMatchesLoop` is not inductive alone: the tail of `runLoop` must be known to
act on the entry stored under its own id. The inductive invariant `IInv` adds
`Structure`: the id of an add in progress is free, entries are born with an id, and
a held entry is one that has been born and not cancelled by Remove. The gauge proof
rests on `IInv` and on the library's theorems about cardinality. Assumptions: `Nil`
is no id and no entry, ids are finite, the error bound is a natural number.

`RestServerProofs`, for every set of keys and clients and every rate, burst and idle
time of which `LimiterAssumption` holds:

- `WindowBoundSafe`: the bound on every interval;
- `LimiterImplementsBucket`: the refinement of `TokenBucket`;
- `ServerLimits`: every step of the server is a step of the limiter or leaves it
  alone, hence both hold of the server;
- `DeletedKeyRefusedSafe`, by `ReqInv`: the key of a late request is deleted for
  good, and Auth lets no such key pass.

`WindowBound` says nothing of tokens and is not inductive: `Window` counts the tokens
left with the requests admitted. A cleanup must not add tokens; `FullAgain` says how
full an entry of a given age is at least, so that one old enough to go is full.

`AccountLoginProofs`, for every set of concurrent requests:

- `OutcomeFinalSafe`, `AnswerFollowsPromptSafe`, of the TDLib client with any callers;
- `LoginUsesClient`: a step of the sign-in over REST is a step of the client or leaves
  it alone, so both hold behind the REST API;
- `ToldIsTrueSafe`, `OneAnswerToSpareSafe`.

`OutcomeFinal` needs to know how far the monitor lags behind the authorizer (`Lag`: by
the last prompt at most), and this needs that no prompt is answered before the monitor
has passed it on (`Answers`). The answers acknowledged for a prompt are counted with
the one buffered (`Spare`).

`UpdateBusProofs`, for every set of sessions and streams, every filter, capacity and
number of updates:

- `NoSendOnClosedSafe`: the map holds only open channels (`Map`) and does not change
  under a dispatch, which holds the read lock (`Readers`);
- `SessionOrderKeptSafe`: `Numbers` bounds what each stream knows of a session by the
  session's last update, which a stream still to be served does not know yet;
- `CutOffOnlyBySharedIDSafe`, with no assumption on the clock.

`WorkerRegistryProofs`, for every set of workers and connections and any number of
restarts: `RegisteredIsSavedSafe`, `TableHoldsOpenConnsSafe`, `RestoreTriesAllSafe`.
Any call to the store may fail. RemoveWorker deletes from the store in a second step;
`Locked` says that nothing is registered under the id meanwhile. `Restoring` follows each saved worker from the
list to its registration or failure.

`SessionPlacementProofs`, for every set of sessions and workers and any number of
requests and restarts: `OneRunnerSafe`, `RouteFollowsSessionSafe`, and the action
properties `DrainHandsOverSafe` and `RemoveOKStopsSafe`. That a session runs on one
worker is not inductive: a worker picked, a row, a removal and a restore under way
all lead to a start or a stop later. `OneTie` says that all of them name one worker, and none
before one is picked. `Drains` keeps the sessions a drain has listed apart: waiting,
moving or failed.

`UpdateStreamProofs`, for every set of webhooks, filter, batch size, stream length and
number of updates and faults: `NoneSkippedSafe`, and the action properties
`ConfirmedOnceSafe`, `StreamOrderSafe`, `EveryHookTriedSafe`. The invariant says that a
batch is a run of entries right after the last one but for trimmed ones (`Reading`),
that targets still to be served have not confirmed the entry (`Handling`), and that
no target knows of an entry its reader has not come to (`Ahead`).

`BotRecordsProofs`, for every set of tokens, keys and workers, any number of bots and
any page size:

- `RepositoriesAgreeSafe`, by `Mirror`: each row of the memory has its row in the table
  and its entries in both indexes, one to one. That both accept the same tokens follows;
  the counts by worker follow from a bijection;
- `TokenIntactSafe`, an action property: ids are unique (`Table`), so the row that is
  decrypted is the bot's own;
- `WalkIsSoundSafe`, by `WalkInv`, which counts rows: no more rows than the offset are at
  or before a bot seen, hence the next page lies after it; at least the offset are
  before a bot still to be seen, hence it is not passed over, and a page is empty only
  after the last one.

The assumptions on the constants are those the modules state by `ASSUME`: the values
that stand for "none" are no members of the sets, and bounds are natural numbers.

Every safety property of a passing run is proved. Only model-checked is liveness,
which needs fairness and is out of the prover's reach: `CancelledLoopsEnd`,
`ImplementsFairRegistry`, `LoopReturns`, `LoopListens`, `StreamsKeptAlive`,
`LoopsEndWithContext`, `DispatchEnds`, `StopEnds`, `EveryUpdatePassed`. The three properties of the runs expected to fail are false, and the
counterexamples are TLC's.

## 5. Not modelled

Generated protobuf code, configuration, logging, connection set-up, migrations and
the web interface: start-up I/O, or no state that an operation changes. Health check,
static files, the counters of the HTTP metrics and `CollectMetrics`, which only read or count. The REST session
handlers act on the pool of the main node, to which nothing adds. Credentials in
`SessionPlacement`. Payloads, JSON, signatures and log lines are data that no
property tells apart. go-tdlib, Redis, PostgreSQL and AES-GCM are external, modelled
from how the code uses them: the authorizer answers one prompt at a time and closes its
channels when it is done, an id sequence advances on a failed INSERT, a sealed token
opens only with its own secret.
