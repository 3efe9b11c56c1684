# Verification of dockzilla's backend

TLA+ models of the dockzilla backend (`src/packages/backend`), the TLC
configurations that check them on small instances, and TLAPS proofs of their
main properties for instances of any size. File names below are relative to
`src/packages/backend` unless they start with `tla/`.

Reading order: this file, then `ContractService`, `DeploymentLedger`,
`AtLeastOnce` and `ImageNames` (what four of the components promise, a page
each), then
`SchemaRegistry`, `DeploymentOutbox`, `ImageStore`, `JobQueue` and
`ServiceLifecycle` (how it is done), then the compositions `SchemaListing` and
`DeploymentDelivery`, then the proof modules.

## 1. The system

dockzilla is a control plane for Docker applications. One Go binary serves an
HTTP API over PostgreSQL (through bun) and Redis; several replicas of it run
side by side over the same database and cache. Deployments are accepted by the
API and executed by background jobs, which travel through PgQue, a queue that
lives in the same PostgreSQL. Much of the worker side is not written yet: the
job engine's `Run` and `Stop` are stubs and nothing calls the queue's ticker or
consumer.

| Component | State it keeps | Operations | What is hard about it |
|---|---|---|---|
| **Schema registry** `internal/core/jobs/schemas`, its repository, cache and HTTP handler | table `job_schemas`, Redis entries with a TTL, a map of compiled schemas per replica | Bootstrap, Register, Retrieve, Latest, List, Validate | replicas publishing at once, a rolling deploy, statements that fail after taking effect, late cache writes, comparison by value of JSON documents |
| **Deployments and the outbox** `internal/core/deployments`, `internal/core/jobs/usecase.go`, the `deployment` and `jobs` repositories, `PgTransactor`, `pgqueue.Send` | table `deployments`, the queue's events, the transaction in a request's context, the connection pool | Create | the row and the job must commit together; a lost COMMIT; concurrent deletion of the application or user; the pool at its limit |
| **Application lifecycle** `internal/core/application.go`, `pkg/storage/pg`, `pkg/storage/redis` | cancel functions, wait groups, health flags, pools | Run, Stop, health loops | Stop racing Run, failing handlers, late pings |
| **Process wiring** `cmd/main.go`, `cmd/config.go` | none after start | run | the order: Bootstrap before serving; Bootstrap and the queue connection are fatal |
| **HTTP transport** `internal/infra/transport/http` | none | routes, RequireAuth (a stub: one fixed user), error mapping | draining belongs to giniservice |
| **Job engine and dispatch** `internal/core/jobs`, `pkg/domain/jobs.go` | registry of handlers by kind | Enqueue, Register, Consume, Run, Stop | Dispatch's contract (ack, retry, dead-letter); not wired yet |
| **Queue client** `pkg/queue/pgqueue` | none | Send, Consume, RunTicker | the ticker and consumer are not started by anything |
| **PgQue** `scripts/third_party/pgque` (vendored SQL) | event tables, ticks, subscriptions, retry and dead-letter tables | send, ticker, receive, ack, nack, maintenance | snapshots, batches, rotation |
| **Docker images** `pkg/docker`, `internal/core/images` | two identity maps | Load, Resolve, Inventory, Remove | a lock released around calls to Docker; never constructed outside tests |
| **The rest**: sample use case, `cmd/schemagen`, models, migrations of unused tables, telemetry, mocks, frontend | – | – | no protocol state |

How they interact: an HTTP handler calls a use case; a use case reaches the
database through a repository, and a repository picks the transaction of the
request's context or the pool (`tx.go`, `IDB`). `deployments.Create` opens the
transaction, writes its row, and has `jobs.UseCase.Enqueue` send the event on
the same transaction. The registry reads Redis before the table and writes to
Redis after either path. `main.go` publishes the built-in schemas, then hands
the HTTP server, the two storages and the job engine to one `Application`,
which the service loader (an external library) runs and stops.

What makes each component correct:

* registry – a published contract never changes; every replica's answers are
  true of the table; the cache is only ever an accelerator; a replica serves
  only contracts its peers agree with;
* outbox – a deployment and its job exist together or not at all; 201 is a
  promise; a queued job's application exists; the ledger is append-only;
* queue and delivery – a batch holds exactly the events between its ticks; a
  committed job is delivered, dead or still on its way, whatever is rotated,
  retried or stopped; a handler finds the row its job was sent with;
* images – an identifier handed out never comes to mean another image;
* lifecycle – Stop ends everything that was started, reports every failure, and
  a store that has been stopped stays down; a database that comes back is
  noticed.

## 2. The plan

| # | Modules | State |
|---|---|---|
| 1 | `ContractService`, `SchemaRegistry`, proofs | done |
| 2 | `DeploymentLedger`, `DeploymentOutbox`, proofs | done |
| 3 | `ServiceLifecycle`, proofs | done |
| 4 | `AtLeastOnce`, `JobQueue`: the queue as PgQue implements it, with its consumers and its maintenance; proofs | done |
| 5 | `DeploymentDelivery` = 2 + 4: from the POST to the end of the job; proofs | done |
| 6 | `ImageNames`, `ImageStore`, proofs | done |
| 7 | `SchemaListing` = 1 + ids: `Latest` and `List`; proofs | done |
| 8 | Dispatch by kind, validation of a payload before its handler, the worker pool | when the code exists: the engine is a stub |
| 9 | `ServiceLifecycle` composed with the open requests of module 2: a pool closed under a request still being served | later |

Every safety property a passing run checks is a theorem (section 5); liveness
stays with TLC. Still worth stating and proving: the promise of module 5 as one
abstract specification, a deployment that is accepted in one step and then owed
until its job was run or buried, which joins `DeploymentLedger` and
`AtLeastOnce`. Modules that are proved about declare no RECURSIVE operator.

## 3. The modules and the code

### SchemaRegistry (and ContractService)

A *worker* is a goroutine serving one call on the replica `Host[w]`. Every SQL
statement and every Redis command is one action, so calls of different replicas
interleave between them.

| Model | Code |
|---|---|
| `rows`, `archived` | table `job_schemas` (`sql/00002`), `archived_at` |
| `cache` | Redis, keyed by `SchemaRef.String` |
| `compiled[r]` | `UseCase.compiled` under `mu` |
| `phase[r]`, `booted[r]` | where `main.run` is; how far `Bootstrap` has come |
| `limbo` | INSERTs whose call failed or whose process died before PostgreSQL answered: each may still store its row, or never |
| `CallRegister`, `Insert`, `Reread`, `Compare`, `Fill` | `UseCase.Register`: `repo.Register` (ON CONFLICT DO NOTHING, then a SELECT), `sameDocument`, `putCompiled`, `putCached` |
| `CallRetrieve`, `CacheHit`, `CacheMiss`, `Load`, `Fill` | `UseCase.Retrieve` |
| `CallValidate`, `CompileStored` | `UseCase.Validate`, `compiledFor` |
| `Start`, `BootRegister`, `BootAdvance`, `BootFail`, `WiringFails`, `Serve` | `main.run` and `Bootstrap`; what is constructed between Bootstrap and serving may fail the start |
| `InsertFails`, `SelectFails`, `Crash`, `Land`, `Evict`, `Archive` | a statement's error, process death, an undecided INSERT that takes effect after all, TTL, an operator |

The INSERT of `Register` runs outside any transaction, so it commits by itself.
One that gets no answer has stored its row, never will, or is undecided and
stays in `limbo` until it stores it (`Land`) or another INSERT of the same
reference has (`Store`), after which it can do nothing.

Documents are compared twice in the code: by the JSON Schema compiler on exact
numbers and by `sameDocument` on `float64`. The model keeps that distinction
and nothing else of a document: `Image[d]` is `d` as `encoding/json` decodes
it, `Decodable` says whether it can, `Usable` whether it compiles. A string is
the sequence of its parts between `/`, so that the Redis key is concatenation
and two references can collide, as in the code.

Payloads are not modelled: a validation is the contract it judged by.

`SchemaListing` adds what `Latest` and `List` need, the order of the `id`
column. The IDENTITY column gives an INSERT its id while it runs, before its row
can be seen, so a row may get any place above the rows that were stored when
its INSERT began: `began` keeps those of each running INSERT and `since` those
of each undecided one, and `Place` puts the row that appears anywhere above
them. `order` is the order of the stored rows' ids. An insert that meets a row
already there leaves a gap, which no read can see. The two reads are one SELECT
each and change nothing: they are operators on the state. That `Latest` follows
a rolling deploy needs the builds to differ only in what they append to a kind
(`BuildsExtend`); `catalog.go:11-15` asks for that and nothing enforces it, so
the theorem has it as a hypothesis. The instance of `registry_reads` satisfies
it, by an `ASSUME` of `MCSchemaListing`.

`ContractService` is the promise: a write-once partial map from references to
contracts; answers are functions of it. A contract is set by an open call that
submitted it or, later, from a registration that was given up on (`undecided`).
Which answer a call may get depends on the contract it leaves behind: "immutable"
needs a comparable contract that differs, "uncomparable" one that cannot be
compared with what was submitted, "not found" a retired version where the
reference was published before. `PromiseKept` is the refinement, with the
replicas, the cache and the compiled maps hidden.

### DeploymentOutbox (and DeploymentLedger)

A worker serves one `POST /deployments`. `Begin` takes a connection of the
pool; `Insert` writes the row to the transaction, `Enqueue` sends the event on
it; `Commit` publishes both. Each has its failure; `EnqueueFails` covers errors
before and after `pgque.send`, which differ in whether PostgreSQL has aborted
the transaction. `CommitUnanswered` leaves the unit of work in `limbo`, from
where the server applies (`Land`) or drops it (`Vanish`) at any later time.
`DeleteApp` and `DeleteUser` follow the foreign keys (`ON DELETE RESTRICT`,
`ON DELETE SET NULL`) and the row locks of open transactions. A client that
disconnects and a process that dies look alike: `Disconnect`.

`DeploymentLedger` accepts a deployment and its job in one step. A request that
was answered with an error may still be accepted later: the code cannot promise
otherwise, and the abstract specification says so.

What happens to a session that lingers on the server after its client is gone
is abstracted: its locks are released when the model says the client left.

### JobQueue

The queue lives in PostgreSQL and its logic in the vendored `pgque.sql`; the
backend sends with `pgque.send` on its own transaction and consumes through
pgque-go. The module models the rows and sequences the SQL keeps, one
transaction per action unless the code has two.

| Model | Code |
|---|---|
| `next`, `horizon`, `sender[j]` | PostgreSQL's transaction ids: the next one, `xmax` of a snapshot taken now, the transaction that sends `j` |
| `events` | the event tables: job, `ev_txid`, `ev_retry`, and which table |
| `cur`, `step1`, `step2` | `queue_cur_table`, `queue_switch_step1`/`2` |
| `ticks`, `newest`, `lastTick`, `nextTick` | table `tick` with its snapshots, its sequence, `sub_last_tick`, `sub_next_tick` of the active batch |
| `retryQueue`, `mover`, `deadLetter` | `retry_queue`, `maint_retry_events` between its read and its write, `dead_letter` |
| `consumer[c]` | a process in `Consume`: its batch and the messages not yet handled |
| `Begin`, `Send`, `Commit`, `Abort` | a sender's transaction and `pgqueue.Send` in it |
| `Tick` | `RunTicker`, `ticker` |
| `InRange`, `InList`, `Selected`, `TablesOf`, `Rows` | `batch_event_sql`, `batch_event_tables`, `get_batch_events` |
| `Receive`, `ReceiveAgain`, `Handle`, `Bury`, `Retry`, `GiveUp`, `Ack`, `Stop` | the consume loop: `receive`, the handler, `nack` with its three ends, `finish_batch`, a process that ends |
| `Take`, `Move`, `RotateStep1`, `RotateStep2` | `maint_retry_events` and the two steps of a rotation |

Every process uses one consumer name, so all share the cursor and a batch that
is active is handed to whoever asks. What a delivery can come to is `Outcome`:
`decode` and the typed handler of `Register` refuse a malformed payload with a
Terminal error, any handler may fail.

Transactions that write no event are left out of the numbering. Nearness of ids
(`Nearby`, 100 in the SQL) is a constant so that both the range and the list of
`batch_event_sql` occur with few transactions.

The queue is assumed to have one ticker: `Tick` takes the snapshot and the tick's
number in one step. `pgque.ticker` takes no lock (`pgque.sql:694-796`), so two
processes in `RunTicker` could number their ticks in another order than they
took their snapshots, and what holds here would not hold there.

Two steps carry an assumption about time, marked TIMING in the module; the code
looks at neither, and what they exclude is excluded and not shown:

* `TickedSince`: a nacked job waits 60 s in the retry queue and the ticker
  forces a tick within 3 s, so a moved copy is behind a tick before the job can
  be moved again. Without it, with `MaxRetries` 2 and a process that ends once,
  two copies of a job meet in one batch and `event_retry`'s
  `ON CONFLICT DO NOTHING` loses the job.
* `RotateStep2` comes after a mover that has read the number of the current
  table has written to it (seconds against milliseconds). Without it the row
  lands in a table the next rotation truncates.

`Maintained` says whether anybody runs the maintenance functions. The vendored
README says the application has to; nothing in the backend does, nor starts the
ticker or the consumer, nor creates the queue outside tests. With FALSE a
nacked job waits for ever, which is the vendored documentation's own warning
and not listed as a finding. A batch
with more messages than one `receive` returns loses the rest at its ack; with
`MaxReturn` 1 the model shows it, the runs use the code's 100. The retry limit
is the queue's: `WithMaxAttempts` "sets the retry limit before dead-lettering"
(`pkg/domain/jobs.go:107`), but `checkSupported` neither passes it on nor
refuses it (`repository/jobs.go:157-167`), against `pkg/domain/errors/jobs.go:18-20`:
"Failing beats silently dropping the option". No caller sets it, so the models
leave the option out.

`AtLeastOnce` is what a sender and a handler may count on. A job that was
accepted is *owed* until it was run or given up; a consumer is handed only what
is owed; what is settled never comes back. A consumer may be late: two processes
can hold the same batch, and the one that comes second may still run a job the
other has settled, but a nack of its own then changes nothing. In `JobQueue` a
job is owed (`Owed`) while a copy of it waits for its retry or lies ahead of the
cursor, committed. So a tick, a rotation, a move from the retry queue and a nack
that reschedules are invisible, an ack settles the jobs of the batch that have
no other copy, and an ended process merely drops what it held.

### DeploymentDelivery

Composes `DeploymentOutbox` and `JobQueue` without changing either: a request's
insert is the sender's `Begin`, its enqueue the sender's `Send`, and one COMMIT
(or one late decision of the server) ends both. The jobs of the queue are the
requests of the outbox. What a consumer reads when it handles a job is the
ledger at that moment, while the API goes on deleting applications and users.
The constants of the queue keep the assumptions they have there
(`DeliveryAssumption`).

### ImageStore (and ImageNames)

Either implementation of the images port, chosen in `Init`: the adapter over a
Docker daemon or the fake. The adapter asks the daemon without its lock, so a
call is `List` or `Inspect` followed by `Record`, or `LookUp` followed by
`Remove`; the fake holds its lock for a whole call. `Pull` and `Prune` are the
daemon's other users. The identity maps are sets of pairs. `Load` returns an
empty digest and `Remove` zero bytes whatever the daemon did, although the port
documents both; no property is about them.

`ImageNames` is the promise: names are one-to-one, and an identifier given once
is never given to another image. Only the fake uses `Forget`: it names a
reloaded image anew where the adapter keeps the old identifier.

### ServiceLifecycle

`run`/`next` follow `Application.Run`, `boot[h]` the goroutine of each handler
(it is counted in `a.wg` from "launched" to "done"), `loop[s]` the health loop
of each store (counted in `s.wg` unless "none" or "ended"), `stop`/`at` follow
`Application.Stop`. `cancel` holds the three kinds of cancel function; `Done(s)`
is the context of a health loop, derived from the application's, derived from
the parent's. pg and Redis have the same shape and share the actions; `map` in
`tla/PROJECT.json` points at one or the other. Their wrappers under
`internal/infra/storage` only pass `Run` and `Stop` on. The job engine, whose
`Run` returns at once, is a plain handler. `raced` is a history variable:
whether a store's `Stop` began before its `Run` had returned.

`Application.Stop`'s read of `a.cancel` and its call are one step: the function
never changes once set. A ping's result and the write of the health flag are
two steps, since a ping that has succeeded can be recorded after `Stop`. The
`Run` and `Stop` of a handler that is not a store are one step each; they are
assumed to return, as `domain.Service` demands. The service loader is external:
the model lets it call `Run` and `Stop` in any order and overlap.

## 4. What the runs check

| Run | Instance | Shows |
|---|---|---|
| `registry_http` | 2 replicas, 1 reference that may be retired, 5 documents of which two are equal after rounding and one cannot be decoded | types, `CacheCoherent`, `CompiledPublished`, `AnswersHold`, `WriteOnce`, refinement of `ContractService` |
| `registry_boot` | 2 builds, the newer with an added and an edited version, and an incomplete reference, under fairness | `ServingBuildAgrees`, `CallsReturn`, `BootSettles` |
| `registry_reads` | 2 builds, the newer with a second version of a kind that may be retired; undecided INSERTs; ids in another order than rows appear | `LatestFollowsTheDeploy`, `ReadsAgree` |
| `outbox` | 3 requests, 2 connections, under fairness | types, `Paired`, `CreatedIsDurable`, `JobsHaveTheirApp`, `AppendOnly`, refinement of `DeploymentLedger`, `RequestsEnd` |
| `lifecycle` | a storage between two plain handlers, under fairness | types, `StopIsFinal`, `EveryoneStops`, `WindsDown`, `StopReturns`, `Recovers` |
| `queue` | 2 jobs, 1 consumer, 2 event tables, one retry; 2 rotations, or a process that ends within a batch | types, `BatchesAreExact`, `CursorKept`, `NothingLost`, `OnlyCommitted`, `NoReplay`, refinement of `AtLeastOnce` |
| `delivery` | 1 request, 2 consuming processes that end twice within a batch, one retry, under fairness | `HandlersFindTheirRow`, `NoJobLost`, `CreatedIsSettled`; with two processes on one batch, the queue's refinement of `AtLeastOnce` (`QueueKeepsPromise`) |
| `images` | 2 callers, 2 images, 2 references, 4 identifiers, either store | types, `MapsAgree`, `ToldStaysTrue`, `RemovesWhatWasAsked`, refinement of `ImageNames` |

The violation runs each show the code departing from a sentence of its own
documentation:

| Run | Sentence | What the code does |
|---|---|---|
| `registry_drift` | the registry answers "the same way on every replica" | two documents that differ beyond `float64` are taken for one, and each replica compiles the one it was given |
| `outbox_contract` | the job's arguments are validated against `deployment.run/v1` | nothing validates them; an empty image reference is accepted |
| `lifecycle_hang` | Stop respects its context's deadline | a Stop that overtakes Run's first lines waits for a loop nobody cancels (and Run, whose cancel function it did not find, blocks for ever) |
| `queue_terminal` | a Terminal error dead-letters a job at once | nothing between the handler and `nack` asks whether an error is Terminal; the job is retried like any other |

`lifecycle_hang` needs a Stop within the first instants of Run, such as a signal
during start. The loader's code is not part of the repository, so whether it can
do that is not decided here; `tla/PROJECT.json` gives the lines.

More departures are visible in the models. These are kept as notes, since a
property names them as exceptions or the models assume them away:

* `handler.go:31-33` says that registering an existing reference "is a no-op when
  the document is the same one". A document with a number beyond `float64`'s
  range (1e400) is stored, but submitted again it cannot be compared and answers
  500 (`usecase.go:148-151`); a version an operator has retired answers 404 when
  submitted again, since the re-read leaves retired rows out. `AgainIsNoOp`
  states the no-op for every other document and version, and `RegisterAnswer`
  allows the two answers in these cases only; both are in `registry_http`.
* `usecase.go:109-112` and `main.go:120-122` say that a boot fails on a
  disagreement with the table only when somebody edited a frozen version. A
  built-in version that an operator retires answers "not found" to Bootstrap,
  and every later boot of every build that ships it fails.
* Kinds that contain `/` can share a Redis key (`domain/schemas.go:24-25` says
  kinds hold none, nothing checks it).
* A Stop that overtakes Run's launching of the handlers returns before the last
  of them has started.

**Bounds.** In the registry, the outbox, the lifecycle and the image store there
is no counter to cap: identifiers are a finite set, a request is served by a
worker that may serve any number of them, replicas restart without limit. Two
replicas and two workers are enough for every race of one reference, since the
steps of a call touch one reference, one cache key and one replica;
`registry_boot` and `registry_reads` have more references because Bootstrap
publishes a sequence and `Latest` compares. `registry_http` has one document of
each kind the code tells apart, `registry_boot` those of an edited version.
`registry_reads` has one document, since the reads only look at references and
ids, and leaves out what the cache would add: its constraint `Uncached` keeps
the states in which Redis holds nothing, as when it is down. The outbox has three requests so that one may be in limbo,
one open and one finished, and fewer connections than requests so that some
wait. The lifecycle's handlers only meet in the sequence of Stop, which the
instance exercises with plain handlers on both sides of a store. Four image
identifiers let each image be forgotten and named again by the fake.

The queue caps rotations and the processes that end within a batch: `Budgets`
lists the pairs of both a behaviour may start with (in `queue` two rotations, so
that both tables are truncated and one is reused, or one such end; in `delivery`
two such ends, so that a batch is delivered again more than once). Retries are finite by
`MaxRetries`. A tick that would see nothing new is left out: its batch
would be empty. Two jobs put one transaction before, across and after a tick
while the other commits; `Nearby` 2 (`queue`) and 1 (`delivery`) let ids fall
inside and outside the stretched range. `batch_event_sql` joins the range and
the list by `union all`, so `BatchesAreExact` also says that no event is in both. Rotation (`queue`) and a
second consuming process (`delivery`) are checked apart, both with retries: all
at once is out of TLC's reach.

Symmetry (replicas exchanged with their workers; jobs; images, references and
callers) is used in runs without liveness properties only. The systems may stop
(no call in progress, everything shut down), so deadlock is not an error; that
nothing is stuck is what the liveness properties show.

**Fairness.** *Registry*: weak fairness of each worker's steps and of each
boot. A statement may wait for one of the pool's connections, which the
replica's calls and deployments share, and an INSERT for another's uncommitted
row of the same reference. Neither lasts: a call of the registry holds a
connection for one statement, a deployment never waits for a second one while it
holds its own (`RequestsEnd`), a registration's INSERT commits when it is
done, and the clients put a deadline on dialling, writing
and reading (`pkg/storage/pg/pg.go:110-131`, `pkg/storage/redis/redis.go:98-134`).
Nobody is obliged to call or to start a replica, and the server never has to
apply an undecided INSERT.
*Outbox*: weak fairness of each worker that holds its connection (`Advance`),
strong fairness of `Begin`: `database/sql` hands a connection that is returned
to a random waiter, so no waiter is passed over for ever. Nothing bounds the
wait for a connection, so no request is let off by a failing `BeginTx` or
enqueue.
*Lifecycle*: weak fairness of every goroutine; strong fairness of a health
loop's `ctx.Done` branch, because `select` chooses at random among ready cases
and does not choose the ticker for ever. Calls of Run and Stop, the parent's
cancellation and the servers' failures are not fair.
*Delivery*: the outbox's; and weak fairness of the ticker, of each consuming
process and of the retry mover, which is what running them means; that somebody
does run them is an assumption about the deployment, not a fact about the
backend. The server is never obliged to decide a COMMIT nobody waits for.

## 5. What is proved

All theorems hold for every value of the constants that satisfies the modules'
`ASSUME`s; TLC evaluates those on every run.

**SchemaRegistryProofs.** `TypeCorrect`; then, for references whose kind holds
no separator (`PlainKinds`, the claim of `domain/schemas.go:24-25` that
nothing enforces), `Consistent`: an
inductive invariant that ties the table to the cache, to the compiled maps, to
what each open call holds and to how far each boot has come. The safety
properties alone are not inductive: that the cache agrees with the table needs
that a call at "fill" holds the table's row, which needs that a row once read
is never rewritten. That an undecided INSERT is well formed and that its
reference has no row (`PublishedUsable`) is part of it, since any of them may
become the row. From it `CacheNeverStale`, `OnlyPublishedCompiled`,
`AnswersStayTrue`, `BootAgreement`; from the steps `PublishedForever`; and
`RegistryKeepsPromise`, the refinement, step by step: a call that fails, a boot
that fails and a crash leave their INSERTs undecided in the promise as in the
code, and `Land` is the promise's `Late`. `AnswersStayTrue` includes the no-op of
`handler.go:31-33` (`AgainIsNoOp`).

**SchemaListingProofs.** `RegistryUndisturbed`: with ids, the registry still is
`SchemaRegistry`, so everything above holds of it. `ListedAlways` proves the
invariant: `Listed`, that the ids of the stored rows form a linear order and the
table is finite; and `Tracked`, of which `InTurn` says that what every build
publishes before a version is in the table before anybody's INSERT of that
version begins, and with the lower id once both are stored. The second cannot be
said of rows alone: what an INSERT began after has to be remembered while it runs
(`began`) and for as long as it is undecided (`since`), since it may land when
everything else is over. From these `LatestIsTheNewest`
(`LatestFollowsTheDeploy`, for builds that extend each other and kinds without
separator), `ListIsInOrder` and `ReadsAlwaysAgree`; `ListsInOrder` is the lemma
about `ORDER BY id DESC`, that a row's place is the number of rows no older.

**DeploymentOutboxProofs.** `Accounted` is the invariant: every identifier is
accounted for exactly once among the open requests, the units of work in
limbo and the ledger; a transaction at "commit" has both its row and its job or
is aborted with neither able to commit; parents referred to by a row that may
still commit exist. From it `LedgerMatchesQueue`, `CreatedForGood`,
`JobsKeepTheirApp`, `LedgerAppendOnly` and `OutboxKeepsPromise` (refinement).

**ServiceLifecycleProofs.** For any list of distinct handlers and any subset of
them that are storages: `TypeCorrect`; `NobodyIsSkipped` from the invariant that
the handlers before Stop's position are exactly those stopped; `StopForGood`
from `StopSettles`, the invariant that what Stop has established of a store so
far (Run returned, loop ended, unhealthy, closed) is not undone, because a Run
that has returned and a loop that has ended write nothing, and a handler that
has been launched is not launched again.

**ImageStoreProofs.** For any images, references, identifiers and number of
callers: `TypeCorrect`, `MapsAlwaysAgree`, `TrueForGood`,
`RemovesTheRightImage`, and `StoreKeepsPromise`, the refinement of `ImageNames`
by both stores. The invariant adds to the checked ones what ties them to
history: no two entries ever given share an identifier (`Owned`), entries in
force were given and are one per image (`InForce`), the adapter keeps every one
(`Kept`), answers name only given ones (`Answered`). `NewEntries` is the lemma
all of it rests on: entries made under the lock for the images that have none
keep the union of the maps one-to-one, however old the list of images is.

**JobQueueProofs.** For any jobs, consumers, retries, number of tables, reach of
the range and number of rotations. `Invariance` proves what the batches rest on:
ids are handed out in order, an event's transaction is its sender's until the
sender commits, a later tick sees no less (`TicksOK`), rotation keeps the ticks
from the cursor on (`CursorOK`), and an event the cursor has not passed is in
the current table or the one before, on the side of the switch that
`batch_event_tables` looks at (`TablesOK`; this uses the assumption about time
in `RotateStep2`). `SelectedIsBetween` shows that the range and the list of
`batch_event_sql` together are the ids between two snapshots, and
`SelectedOnce` that no id is in both. From these
`TypeCorrect`, `CursorAlwaysKept`, `CommittedOnly` and `ExactBatches`.

`CopiesInvariance` adds that two copies of a job never meet in a batch to come:
a job waits at most once, and a copy is moved back only behind a tick that sees
the ones before it (`TickedSince`). `NothingReplayed` follows with `BegunOK`, that
whatever was ever handed out, also what is merely nacked (`HandedOut`), has its
first copy behind the batch's tick.
`NothingIsLost` needs in addition that whoever holds the active batch has every
event of it that is not settled (`HeldOK`); it assumes `[]Fits`, that no batch
holds more messages than one `receive` returns, since the code does lose the rest.
`FewAreNeverLost` needs no such assumption: a batch has at most one copy of a
job, so it fits when there are no more jobs than `MaxReturn`.

**JobPromiseProofs.** `QueueKeepsPromise`: `JobQueue` implements `AtLeastOnce`,
on the same assumption as `NothingIsLost`, and `FewKeepPromise`, without it for
few jobs. The proof goes action by action: what is owed does not change
in any step but a commit and an ack, nothing settled is owed again (`CInv`: no
copy of a settled job lies ahead, and a nack looks for its message in the batch
that is active now), and an ack settles only what was run or buried
(`NothingLost` in the next state). `HandsOK`, that a process without a batch
holds no message and with one holds no job twice, is what makes finishing one
message one step of the promise.

**DeploymentDeliveryProofs.** `OutboxUndisturbed` and `QueueUndisturbed`: a
composed step is one of the outbox's, or none, and one of the queue's, or none,
so that all the theorems of both carry over (`DeliveryKeepsPromise`,
`QueuePromiseKept`). What neither states alone needs `Lockstep`: the transaction
that sends a request's job is open exactly while the request's own unit of work
is, in a worker or in limbo, and the job's sender committed exactly when the
ledger accepted it. With it and `Paired`, `CommittedOnly` and `NothingIsLost` of
the parts, `HandlersAlwaysFindTheirRow`, `DeliveredJobsKept` and, for no more
requests than `MaxReturn`, `FewDeploymentsKept`. The theorems about the queue
speak of their own instance of `JobQueue`; the `Same...` lemmas show, definition
by definition, that it is the one the composition runs.

Only model-checked: the liveness properties (`CallsReturn`, `BootSettles`,
`RequestsEnd`, `WindsDown`, `StopReturns`, `Recovers`, `CreatedIsSettled`), since
TLAPS does not prove liveness under fairness, and the departures above. Every
other property of a passing run is proved.

## 6. What is not modelled

* Dispatch: `Engine.Run` and `Stop` are stubs and no handler is registered, so
  there is no pool, timeout or routing by kind to model. `JobQueue` has what the
  code says of a delivery: the decoding and the outcome of a typed handler.
* Of PgQue: co-operative consumers, several consumer names, batch insertion,
  trigger functions, queue administration, LISTEN/NOTIFY, grants. The backend
  calls none of them.
* `pkg/docker/docker.go`, a service around the Docker client that nothing
  constructs.
* HTTP routing and draining (gin, giniservice), the service loader: external.
* Options, constructors and configuration: straight-line code.
* Telemetry, mocks, the schema generator, the sample use case, tables nothing
  reads or writes, and the frontend: no protocol state.

Server-side timeouts appear as failing statements, without durations.
