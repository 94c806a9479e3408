# Formal models of share-trip

TLA+ modules, TLC runs and TLAPS proofs for the trip service in this
repository. Every definition is translated from the Go and SQL sources; the
file and lines behind each one are in `PROJECT.json` under `map`.

## 1. The system

share-trip lets drivers create trips, publish and start them, and tells a
Notification Service of every published trip.

| Component | State it keeps | Operations | Modelled by |
|---|---|---|---|
| HTTP API (`internal/api`) | none | parses, calls the service, turns its result into a status code | `TripApi` |
| Keycloak middleware (`internal/middleware/keycloak.go`) | none | exchanges the refresh token, reads the claims, asks for a role | `TripApi` |
| HTTP metrics (`internal/middleware`, `internal/observability/metrics`) | counters | one count per request, one per creation or publication | `TripApi` |
| `TripService`, `TripUsecase` (`internal/service`, `internal/domain`) | none of its own | `CreateTrip`, `PublishTrip`, `StartTrip`, `GetTripByID`, the transaction helper `tx` | `TripService`, `TripLifecycle` |
| Repositories (`internal/repository`), `migrations` | tables `trips`, `trip_history`, `outbox_events` in PostgreSQL | one SQL statement per method | `TripService`, `OutboxPublisher` |
| Pool (`internal/db`), readiness | at most 10 connections per replica | `Begin`, single statements, `Ping` | `ConnectionPool`; `TripService` (`PoolSize`) |
| Contract client (`internal/contractclient`) | none | `CheckService` with retries under one deadline | `ContractClient`, `PermissionCheck` |
| Outbox publisher (`internal/events`) | one goroutine and its transaction per replica, the gauge `outbox_pending` | a tick each second: lock a batch, send, mark, commit, count | `OutboxPublisher`, `OutboxDelivery` |
| Kafka producer (`internal/events`) | none | `WriteMessages` | `OutboxPublisher`, `TripDelivery` |
| Configuration and start (`internal/config`, `cmd/sharetrip`) | the configuration | `Load`, then each dependency in turn | `Startup` |
| Notification Service (another program) | inbox, notifications, consumer offset | consumes `trip.events` | `TripDelivery` (external) |
| Correlation ids, logs, traces, dashboards, deployment | - | - | not modelled |

Interactions. A handler asks the Contract Service first and opens a
transaction only when it allows the operation. Inside the transaction it locks
the trip's row (`SELECT ... FOR UPDATE`), checks driver and status, updates the
row together with `trip_history`, and for a publication inserts the event into
`outbox_events`. The publishers of all replicas share that table: each takes
unlocked pending rows (`FOR UPDATE SKIP LOCKED`), sends them to Kafka *within*
its transaction and commits the marks at the end. Replicas share nothing but
PostgreSQL and Kafka. Handlers, publisher and readiness probe of one replica
share its pool. Consumers of the Notification Service share one partition and
an inbox keyed by the event's id.

What is hard here: requests for one trip on several replicas; a transaction
whose COMMIT answer is lost; a process that ends in the middle of one (there is
no signal handling); a pool that waits without a deadline; messages that are in
Kafka before their marks are committed; publishers that do not know that their
session has ended; retries that race the deadline over all of them; a slow
Kafka that keeps a connection; views of buffers that the next request reuses;
integers that fit one type and not the next; messages redelivered after an
offset was not committed. The list with lines is `hazards` in `PROJECT.json`.

What makes each part correct:

* trip service - no lost update, each operation takes effect at most once per
  trip, trip, history and outbox agree, answers agree with what is committed,
  no access to the database before an allowed check, every request ends;
* outbox - at-least-once delivery, no two live transactions on one row,
  duplicates only after a fault, legacy rows untouched, every publishable event
  sent in the end;
* contract check - a verdict is an answer the Contract Service really gave in
  this check, attempts keep their distance, every check ends;
* delivery - exactly one notification for a published trip, with the right
  driver;
* API - only authorized calls reach the service, counters agree with answers,
  numbers are refused and not cut to size;
* pool - no connection is lost, and no request waits for Kafka;
* start - a process starts exactly in the environments `README.md` of the
  repository describes.

## 2. The modules

### TripService

One replica-independent model of all handlers. A request `q` has a program
counter `pc[q]`; its steps are the points at which the code can be interrupted
or can fail. What the code computes between two of them uses local values and
belongs to the step that read them.

| Code | Actions |
|---|---|
| route, handler (`internal/api`) | `Receive` |
| `validateCreateTripCommand` | `Validate` |
| `contracts.CheckService` | `CheckContract` |
| `pool.Begin` in `tx` | `Begin`, `BeginFails` |
| `GetForUpdateByID`, the checks after it | `SelectForUpdate` with `PublishRefusal`, `StartRefusal` |
| `Update` (row and history in one statement) | `UpdateTrip` |
| `CreateOutboxEvent` | `InsertEvent` |
| `Create` (two statements) | `InsertTrip`, `InsertHistory` |
| `GetTripByID` | `ReadTrip` |
| an error of any statement | `StatementFails` |
| `Commit`, deferred `Rollback` in `tx` | `Commit`, `CommitLost`, `Rollback`, `RollbackLost` |
| PostgreSQL after its client is gone | `SessionAborts`, `SessionCommits` |
| the end of a process | `Crash` |

Variables: `trip`, `history`, `outbox` are the committed rows; `lock` the row
locks; `session` and `write` the server's side of a transaction; `pc`, `home`,
`call`, `verdict`, `seen`, `reply` the handler's side. `applied` is a history
variable that no guard reads. A trip's event id is a function of the trip
(`newEventID`, UUIDv5), so `outbox` is a function of trips and
`ON CONFLICT (id) DO NOTHING` is "keep what is there".

Initially each id is unused or a draft with its first history row. Published
and started trips are reached by calls.

Abstractions: points, times, seats and timestamps; error texts; metrics and
logs. A statement that fails has no effect and keeps its transaction open until
the handler rolls back. A server that had executed it all the same, or had
ended the transaction at once, differs only in *when* the locks go, and locks
that stay after their client has gone are covered by `RollbackLost` and
`Crash`. Handlers of one process run concurrently without shared memory, so a
replica matters only for its pool and its end.

Two branches of the code are left out because they cannot be taken. `Update`
answers 404 when its UPDATE finds no row; the row was read under a lock its
transaction still holds, and the theorem `UpdateFindsItsRow` says that it is
there. The type `trip_status` has more labels than "draft", "published" and
"started"; nothing in the code writes them.

### TripLifecycle

What clients may rely on: every call acts at one instant, or is refused for
what the trip is at that instant, or fails without effect, or its answer is
lost and its effect comes at most once, then or later. No transactions, locks,
replicas or pools. `TripService!ImplementsLifecycle` says that the service
implements it, with `sent` (the answer is on its way for good) mapped to
`pc[q] = "done"` and every other variable to its namesake.

### OutboxPublisher

`events.OutboxPublisher` on every replica. `pc[p]` follows `publishBatch`:
`OpenBatch` (or `BeginFails`) begins the transaction and the SELECT, which takes
its snapshot of the pending rows (`scan`); `LockRow` comes to one of them after
the other, oldest first, and locks it or skips it, so the SELECTs of two
publishers can alternate and either can get fewer rows than there are;
`LockPending` returns the batch (`LockPendingFails`, `LockPendingLost`). Then per
event `Send`, `SendRepeated`, `SendFails`, `SendUnacknowledged` or `DecodeFails`
and `Mark` or `MarkFails`, then `Commit`, `CommitLost`, `Rollback`, `RollbackLost` or `FindBroken`, at last
`CountPending` or `CountFails`. `Crash` and `Restart` are the process,
`Break`, `SessionAborts`, `SessionCommits` the database server, `Insert` the
commit of a `PublishTrip`. `kafka[e]` counts how often `e` was appended to the
topic; it changes at once, while `marks[s]` wait for the COMMIT of session `s`.

One call of kafka-go's writer makes up to `WriterAttempts` attempts (10 unless
it is configured, and `producer.go` does not), each of which may append the
message without being acknowledged. In `SendRepeated` the last of n appends is
acknowledged, in `SendUnacknowledged` none of n, and the call reports an error;
each lost acknowledgement is a fault. `Poison` rows are those whose
payload is not a `TripPublished`: the code has a branch for them. Rows written
by this version can always be decoded; other writers of the table are not
excluded. A message the broker always rejects behaves the same way.

Rows are committed in any order and `created_at` is the time their transaction
began, so a row may appear that is older than rows already taken.

Not modelled: the cancellation of `Run`'s context (nothing cancels it while the
process lives: the deferred `stopPublisher` runs only if `app.Listen` returns
without an error). That the publisher competes with the handlers for pooled
connections is `ConnectionPool`'s subject.

### OutboxDelivery

The promise: an event is delivered only after its transaction has committed,
any number of times, up to `WriterAttempts` at once; results are recorded for whole batches at one instant,
"sent" only after a delivery and for good; legacy rows stay as they are.
`OutboxPublisher!ImplementsDelivery` says that the publishers implement it.

### ContractClient and PermissionCheck

One check after another; checks of different requests share only idle
connections. `Start` sends the first attempt; `Handle` is the external Contract
Service answering with what it holds at that moment, `Change` a contract that is
signed or ends meanwhile. `Receive` and `Fail` end an attempt: both are `End`,
which applies resty's retry condition (`Retryable`), the number of retries and
the wait, or returns `Verdict`. `Expire` is the deadline of the context over all
attempts, `Tick` the clock, which never passes a timer. What a 200 whose body
lacks `allowed` means is part of `Verdict` ("invalid", never "denied").

`PermissionCheck` is the promise: a verdict "allowed" or "denied" was true at
some moment between question and answer, and a check that cannot tell says so.
`ContractClient!ImplementsPermissionCheck` is the refinement; all its variables
are namesakes.

### TripDelivery

The way from `PublishTrip` to the notification. It is a composition of promises:
`Api == INSTANCE TripLifecycle` makes the calls, and `Send` and `Settle` are
steps of `Delivery == INSTANCE OutboxDelivery` over the same `outbox`; the runs
of `TripService` and `OutboxPublisher` show that the code keeps both. Between
them `topic` is the log of `trip.events` (one partition, as `README.md` of the
repository creates it), into which an event may go several times.

The consumers are external and follow `docs/consistency.md` and
`docs/microservices-review.md`: `Fetch`, `Process` (inbox and notification in
one transaction, duplicates by id skipped), `Commit` of the offset afterwards.
`Stop`, `Restart`, `Take` and the reassignment in `Fault` are failures and
rebalances; a consumer that lost its partition finds out at its commit
(`Fenced`), after it has processed a message another one processes as well.

What the code of this repository contributes, and what the mutants distort, is
the event's id (a UUIDv5 of trip and type, the same in every copy and another
for every trip), that nothing is sent before the trip is committed, and that
nothing is recorded as sent that was not. The properties are about notifications
of ShareTrip's trips; none is about the consumers alone.

### TripApi

One request after another on one Fiber context, whose buffers are reused.
`Arrive` takes the request; `Authenticate` is the Keycloak middleware with each
way the exchange and the reading of the token can go; `RequireRole`, the
handlers (`CreateTrip`, `MoveTripDraftToPublished`, `StartTrip`, `GetTripByID`,
`Ready`, `MetricsHandler`, `Unmatched`) with the order of their checks, `Return`
with the result of the service, the counter's label and the status, `Count` in
the metrics middleware, and `Answer`, where Fiber's error handler writes what
the chain returned (`ErrorHandler`). A result of the service is any that
`TripService` can give. An answer with a trip whose departure lies in the year
10000 of the server's time zone cannot be encoded as JSON (`Unwritable`); the
handler then returns an error that is not Fiber's, which is counted and answered
as 500 although the trip is stored. `TripService` leaves the encoding of answers
out.

Integers are scaled: an `int` holds up to `Int8Max`, the column
`available_seats` up to `Int4Max`; the body of a request may ask for more than
either. pgx refuses what the column cannot hold (`Storable`).

### ConnectionPool

A replica's pool and those who wait in its queue. A handler reserves a
connection for its transaction only after the contract check (`Begin`,
`Checked`), writes and ends; the publisher keeps its connection through all
sends of a batch (`SendNext`, `Sent`, `EndBatch`) and asks for another to count;
the readiness probe gives up after three seconds (`TimesOut`). `Release` covers
the ends that fail, where the rollback runs. `NoConnectionLost` is the accounting:
those given out are those somebody holds. The pool itself (pgxpool) is
external: it serves in order.

### Startup

`ReadConfig` is `config.Load` for *any* texts in the environment: empty, no
number, a number no `int` holds; `TimeoutFits` and `Duration` are the check and
the product that make a `time.Duration`. Then `NewLogger`, `NewProvider`,
`NewPool`, `StartPublisher` and `Listen` in the order of `main`, each of which
may end the process. Numbers are scaled; the proof is for any width.

### MC and proof modules

`MCTripService`, `MCOutboxPublisher` and `MCTripDelivery` give constants and
symmetry sets to the runs; the other modules need none. `TripServiceProofs`,
`OutboxPublisherProofs`, `ContractClientProofs`, `TripDeliveryProofs`,
`TripApiProofs`, `ConnectionPoolProofs` and `StartupProofs` extend the module
they are named after with its theorems; `OutboxDuplicatesProofs` extends `OutboxPublisherProofs` with the
bound on duplicates. Definitions marked *Mutant* stand before the definition
they distort; no specification uses them. They are plausible bugs (a plain
`SELECT`, an ignored commit error, a check in the wrong order) on which the
corresponding property must fail.

## 3. The runs

| Run | Instance | States | Shows |
|---|---|---|---|
| `trip_safety` | 3 requests of any kind, 1 trip, 2 clients, 2 replicas, pool 2, 1 crash | 650 000 | all safety properties of `TripService` |
| `trip_refinement` | as `trip_safety`, pool 1 | 610 000 | `ImplementsLifecycle` |
| `trip_liveness` | 3 requests to publish or start, 1 trip, 1 replica, pool 2 | 142 000 | `EveryRequestEnds`, `LocksAreReleased` |
| `outbox_batches` | 4 rows (one legacy, one undecodable), 2 publishers, 3 sessions, batches of 2, 3 attempts of the writer, 1 fault | 312 000 | `OnlyPublishedIsDelivered`, `BatchesAreExclusive` |
| `outbox_faults` | 3 rows (one legacy), 2 publishers, 3 sessions, batches of 2, 3 attempts of the writer, 3 faults | 986 000 | `SentImpliesDelivered`, `DuplicatesNeedFaults`, `ImplementsDelivery` |
| `outbox_liveness` | 3 rows (one legacy, one undecodable), 2 publishers, 3 sessions, 1 fault | 390 000 | `PendingIsSent`, `GaugeSettles` |
| `contract_client` | timeout 2 s, 2 retries, waits of 0.2 to 1 s, in units of 200 ms | 27 000 | `VerdictIsExplained`, `RetriesArePaced`, `ImplementsPermissionCheck`, `EveryCheckEnds` |
| `trip_delivery_safety` | 2 trips, 2 drivers, 2 calls, 2 consumers, up to 2 messages per event, 2 faults | 2 480 000 | `OneTrueNotification`, `NotificationStaysInReach` |
| `trip_delivery_liveness` | 2 trips of one driver, 2 consumers, up to 2 messages per event, 1 fault | 664 000 | `EveryPublishedTripIsNotified` |
| `trip_api` | 2 requests on one context, every target, user and number of seats up to one more than an int holds | 418 000 | the five properties of `TripApi` |
| `connection_pool` | 2 connections, 3 handlers, publisher, probe | 4 800 | `NoConnectionLost`, `RequestsDoNotNeedKafka` |
| `startup` | every combination of texts, numbers from -9 to 8, 3 units to a millisecond | 258 000 | `StartsAsDocumented` |

Why the bounds are enough. Rows of different trips never meet in a statement,
so one trip carries all conflicts; what a pool couples of several trips is left
to the proofs of `TripService`, `NoCircularWaitHolds` and the refinement among
them, which are for any set of trips. `trip_delivery_safety` composes two.
Three requests are a publish, a start and a competitor or a retry of either:
the longest useful history is create, publish, start. Two connections and three
requests make a handler wait for the pool while a holder waits for the row.
Calls to the database may fail everywhere and without a bound in `TripService`;
only process ends are counted, because one ends any number of requests of a
replica and a second replica sees it. In `outbox_batches` three pending rows
exceed a batch of two, two publishers compete row by row, and the third session
is the one a lost publisher left on the server. In `outbox_faults` three faults
are enough for a message that is in the topic twice or three times with an error
reported, and for a lost COMMIT and a crash of the publisher that repeats the
batch. Three attempts of the writer instead of ten: an attempt differs from the
one before by one more copy, and the proofs are for any number. `MaxAttempts` caps the recorded
value of `attempts`, which no guard reads.

TripService's deadlock check is on: `Quiet` stutters only when all requests
have been answered and no transaction is left, so a state in which handlers
wait for one another would be reported. The outbox publishers tick for ever and
never stop. The deadlock check is on for `ContractClient`, `TripDelivery` and
`ConnectionPool`, too. It is off for `TripApi`, which stops after `MaxRequests`
requests, and for `Startup`, which ends with a process that serves or has
exited.

`contract_client` has the default configuration of the program. Two requests on
a context are enough for the second to overwrite what the first has left, and
two calls, two copies and two consumers for every pair of messages the inbox can
mistake for one another. In `connection_pool` three handlers exceed the pool
while the publisher keeps one of its two connections. `MaxSends`, `MaxFaults`
and `MaxRequests` are bounds of the models; the program has no such limits, and
the safety proofs hold for any of them.

Symmetry is used in the safety and refinement runs only. It permutes the
model values the specifications never distinguish.

## 4. Fairness

`TripService`: weak fairness of each handler's next step and of the server's
end of an abandoned transaction. Goroutines that can run do run. A request that
waits for a connection or a row is the only case in which weak fairness could
be too little to assume: pgxpool and PostgreSQL serve waiters in order, so
with finitely many requests a waiter is served; here too the models need no
more than weak fairness, since what a waiter waits for stays free once the
finitely many others are done. Arrivals, failures and crashes are not fair: they need not
happen. PostgreSQL notices a dead client by TCP keepalive or at the next write.

`OutboxPublisher`: weak fairness of each publisher (the ticker ticks, the
process is restarted by its deployment) and of the server's end of an abandoned
session. Faults are bounded (`MaxFaults`): the liveness properties say what
happens once faults cease.

`PendingIsSent` has a condition: fewer rows that cannot be published than a
batch takes. `LockPending` takes the oldest rows first and `MarkFailed` leaves
a row pending for ever, so a full batch of such rows starves all newer events.

`ContractClient`: timers fire (`Tick`, `Retry`, `Expire`). Nothing is assumed of
the Contract Service, which may stay silent.

`TripDelivery`: an event that is pending is sent or settled at last. This is
weak fairness of `Send` while the event is pending and no more; that it does not
stay pending is `PendingIsSent` of the publishers, under its condition, and that
it is not settled unsent `SentImpliesDelivered`. A consumer goes on with what it
does, and its deployment restarts it. Settling, repeated sends, offsets lost and
rebalances are not fair.

`ConnectionPool`: PostgreSQL answers (handlers, publisher and probe go on), and
a contract check ends, by `EveryCheckEnds`. Nothing is assumed of Kafka: `Sent`
may never happen.

`TripApi` and `Startup` state safety only.

## 5. Proofs

### The trip service

`TripServiceProofs` is checked by TLAPS for all values of the constants: any
sets of trips, clients, requests and replicas, any pool size and any number of
crashes. The assumptions are those named in `TripService`: the bounds are
natural numbers, calls are well formed, and the null values are not members of
the sets they stand beside.

The properties are not inductive. That answers agree with effects, for example,
depends on what an open transaction has written; that depends on what it has
read under the lock; and that read is still current only because the holder of
a lock is the only writer. `IInv` makes this explicit:

* `ControlInv` - how far a handler is, by operation: which steps have a
  session, that an answer exists exactly from the ROLLBACK or the end on, that
  `applied` comes with `done`;
* `TxInv` - what a transaction has locked, read and written at each step; after
  the last write it is complete (`AllWritten`), also when the COMMIT is with
  the server and the client has gone;
* `LockInv` - the holder of a lock has a session and has read the committed row;
* `TripInv` - status, event and history of a trip agree, and the event's cause
  is a publication of the driver that took effect;
* `EffectInv`, `AnswerInv` - what a request that took effect has left behind,
  and what an answer implies;
* `FreshIds` - `gen_random_uuid()` repeats no id.

`InvNext` has one lemma per action; `RequestFrame`, `TripFrame` and `LockFrame`
carry over what an action does not touch, and `ApplyStep` is the one place where
committed rows change. IInv itself was first checked by TLC on the
instance of `trip_safety`. From `Invariance` follow the safety theorems and the
action property `MovesForwardHolds`. Two need something more:

* `OneEffectHolds`, for starts: `StartedOnce`, that a second start would need a
  published trip, which the first has left started;
* `NoCircularWaitHolds`: `HolderInv`, that who has locked a row is past all its
  waiting. So a request that waits for a connection waits for one whose holder
  runs, or waits for a row whose holder runs. This is the safety on which
  `EveryRequestEnds` and `LocksAreReleased` rest; TLC checks those for small
  pools, the theorem holds for every `PoolSize`.

`ImplementsLifecycleHolds` is the refinement of `TripLifecycle`. `LifecycleStep`
has one lemma per kind of step: a COMMIT the handler learns of is `Succeed`
(`CommitRefines`), one that comes after it is `LateEffect`
(`LateCommitRefines`, where `AnswerInv` and `ControlInv` leave only "500" and
"lost" as answers), the SELECT that refuses is `Refuse` (`RefusalIsRefused`
compares the checks under the lock with what the API refuses), what fails is
`Fail`, the ROLLBACK after it is `Send`, the end of a process is `Lose`, and the
statements in between are hidden. `Sent` is the image of `sent`.

### The outbox

`OutboxPublisherProofs` and `OutboxDuplicatesProofs` prove all safety of the
publishers, for any rows, replicas, sessions, batch size and number of faults.
The assumptions are those named in `OutboxPublisher`; that the rows are finitely
many is one of them, since they are counted.

A row is marked in one transaction, by a publisher that may lose it, and
committed by the server, perhaps when the publisher is gone. `OInv` says what
holds at every point between:

* `RowInv` - a "sent" row is in Kafka, what is in Kafka is pending or sent, and
  only pending rows are locked, by transactions the server has not ended;
* `MarkInv` - a session has marked only rows it has locked, "sent" only what
  Kafka has;
* `PubInv` - what a publisher has still to send or to mark was pending when it
  was locked, and is locked still while the server keeps its session;
* `Separate` - no session belongs to two publishers.

Type correctness, `SentImpliesDelivered`, `OnlyPublishedIsDelivered` and
`BatchesAreExclusive` follow; `StepRefines` maps each step to a step of
`OutboxDelivery` or to none, and `ImplementsDeliveryHolds` is the refinement.

`DuplicatesNeedFaults` needs more: the bound is an account. A publisher whose
session was ended may still deliver what is left of its batch, so each such
*late* delivery is already due; an event that is not *on course* to become
"sent" has one delivery due as well. `Budget` says that deliveries made and
deliveries due never exceed faults plus one. `Fresh` says that a live
transaction comes to each event once. Every step that delivers nothing is shown
to be `Quiet`; `BreakStep` and `SendStep` are the ones that move the account.
`DInv` was first checked by TLC on the instance of `outbox_faults`.

### The other parts

All for any values of the constants, under the assumptions their modules name;
each `Inv` was first checked by TLC.

`ContractClientProofs`: `Inv` adds to the properties what they leave open while
a check is under way. `AttemptsInv`: all attempts so far have failed
transiently, and one retry is left for a check that waits; `PaceInv`: the next
attempt lies far enough from the first; `HeldInv`: an answer under way is one
the Contract Service has held. `Refinement` maps each step to one of
`PermissionCheck` or to none.

`TripDeliveryProofs`: `ApiInv` is what the lifecycle promises of a published
trip and its event; `TopicInv` says that every message in Kafka is `True`, the
image of a committed event, which stays what it is; `NotesInv` that the inbox
has the id of each notification and no trip has two. Then a second consumer, a
repeated send or a lost offset can only repeat an id the inbox has. For
`NotificationsStayInReach`, `SettledInv` says that an event recorded as sent has
a message in the topic, `OffsetInv` that each message before the committed
offset has its id in the inbox (`ConsumerInv`: a consumer has processed all before
its position), and `IdNamesTrip` that this id is of no other trip: so its
notification is there.

`TripApiProofs`: `ChainInv` follows the one request in hand through the chain
(claims come from its own user, a call from its own target, and from `Return` on
the label agrees with the status); `LogInv` is about the requests answered,
`TripInv` ties every row to the request it is from. `WidthsAssumption`, that an
`int` is wider than the column, is all that is assumed of the integers.

`ConnectionPoolProofs`: to count who holds a connection, the holders must be
finitely many, which `PoolInv` adds to `TypeOK` and `NoConnectionLost` (the
handlers need not be).
`JoinQueue`, `ServeQueue` and `LeaveQueue` are the facts about a queue in which
nobody stands twice; each step then moves one user into or out of `Holders` and
`Waiters` (`GotoSets`). `RoleInv` says what each user may be doing, and
`WaitersDoNotNeedKafkaHolds` follows: since the pool has more than one
connection and the publisher holds at most one, who waits finds one free or one
held by a user that needs no Kafka. That is what `RequestsDoNotNeedKafka`
rests on.

`StartupProofs`: `LoadIsDocumented` shows by arithmetic that `Load` accepts
exactly what the repository's `README.md` documents and that the product never
overflows then; the rest follows the steps of `main`.

### What is only model-checked

The liveness properties `EveryRequestEnds`, `LocksAreReleased`, `PendingIsSent`,
`GaugeSettles`, `EveryCheckEnds`, `EveryPublishedTripIsNotified` and
`RequestsDoNotNeedKafka`: liveness under fairness is out of the prover's reach.
`NoCircularWaitHolds` and `WaitersDoNotNeedKafkaHolds` prove, for all values of
the constants, that what is waited for in three of them can be given back. All
other properties of the runs are proved.

## 6. Plan

Done: all modules of section 2, and proofs of every property of the runs but
the liveness properties. What is left:

1. The safety under the other liveness properties, as `NoCircularWait` is under
   `EveryRequestEnds`: that a batch of the publisher moves on with each of its
   steps (`PendingIsSent`), and that a check is never without a timer
   (`EveryCheckEnds`).

## 7. Not modelled, and why

Logs, traces, correlation ids, durations and the bodies of answers (other than
whether they can be encoded) have no effect on what the program does next. Of
the metrics, the requests counted, the results of creations and publications,
and the gauge `outbox_pending` are modelled, since they must agree with what clients and the table see; the
counters of queries, contract checks and sent events are not.

The rules of `validateCreateTripCommand` for points and departure are one
choice: each rejects by itself and they share no state. The number of seats is
followed as a number, since its type changes on the way.

Contract Service, Notification Service, Kafka, Keycloak, PostgreSQL, and the
libraries (Fiber, resty, kafka-go, pgxpool) are not in this repository. They
appear as choices of the environment, or as what this code relies on, and are
marked `external` in `map`.

The deferred calls of `main` and the cancellation of the publisher's context run
only if `app.Listen` returns without an error, which nothing in the program
brings about; a process ends by being killed (`Crash`).

`docs/trip-approval-design.md` and `api/operations` describe operations that no
code implements yet. Dashboards and deployment files configure other programs.

No disagreement between the code and the repository's documents was found in the
parts modelled.
