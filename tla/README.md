# Verification of the order pickup point

TLA+ specifications of the order pickup point server (gRPC and HTTP over
Postgres, Redis and Kafka), the TLC configurations that check them, and proofs
that TLAPS checks.

## 1. The system

A pickup point accepts orders from a courier, hands them to their recipients,
takes refunds back and returns expired orders to the courier. Every change of an
order is announced through a transactional outbox and ends up in an audit log.

| Component | Source | State | Operations |
|---|---|---|---|
| Order entity | `internal/domain/order` | an `Order` in memory | `NewOrder`, `Received`, `Deliver`, `Expire`, `Refund`, `CanBeRefunded`, `IsExpired`, `ApplyPackaging` |
| Order service | `internal/service/order/service.go` | none of its own | `AcceptFromCourier`, `ServeRecipient` (deliver, refund), `ReturnToCourier`, `GetOrderByID`; listings |
| Transaction manager | `internal/infra/tx_manager` | the open transaction, in the context | `RunRepeatableRead`, `RunReadCommitted` |
| Order repository | `internal/infra/repository/order/order_repo.go` | tables `orders`, `order_records` | one statement per method |
| Order cache | `internal/infra/repository/order/order_cache.go` | Redis keys `order:<id>`, no expiry | `GetOrder`, `SetOrder`, `DeleteOrder` |
| Outbox | `internal/infra/order_outbox` | table `orders_statuses_outbox`, a channel of 5 batches | `AddTask`, `LockPending`, `DeleteTask`, `MarkTaskAsFailed`, the poller `Run` |
| Audit producer | `internal/service/order_audit/producer.go` | the batch it works on | `Run`, `work` |
| Audit consumer | `internal/service/order_audit/consumer.go` | its offset | `Run`, `log` |
| Server | `cmd/server/main.go` | the signal context, the wait group, the two listening servers | start, signal, `GracefulStop`, `Shutdown`, `wg.Wait` |
| Handlers | `internal/handlers` | none | check the input, make one call |

How they interact: a handler goroutine calls the service. The service runs one
database transaction per order; inside it the repository writes the row and its
history record, and `AddTask` the outbox task, through the same `ctxTx`. After
the commit it writes or deletes the cached order. The poller goroutine of every
server claims tasks from the shared table every 60 seconds and passes them
through the channel to the producer goroutine, which sends them to Kafka and
deletes each row or marks it failed. The consumer goroutine reads the topic and
logs.

What is hard about it:

* calls for one order race, in one server or in several, and only the isolation
  level and row locks of Postgres keep them apart;
* the row, the history, the outbox task, the cache, the message and the log line
  are six places for one fact, written in five steps, each of which can fail, be
  lost, or be cut off by a crash or a shutdown;
* several servers poll one table;
* a signal arrives while calls run and three goroutines hold work between them;
  main, two servers and the goroutines wait for each other.

What makes each component correct:

* service and repository: a row, its history and its tasks never disagree, an
  order goes forward through its life only and each step happens once, whatever
  races and fails; a call that says it succeeded has succeeded;
* cache: never shows a state the order never had; agrees with the row unless its
  last change has come apart from the command that caches it;
* relay: a task is sent once, never lost without a trace, in order per order as
  far as one relay goes, and is eventually settled;
* server: a shutdown ends, answers the calls that run, and loses nothing.

`PROJECT.json` lists the hazards at their lines, with the properties that cover
each, and says of every component how far it is modelled.

## 2. The modules

| Module | What it is |
|---|---|
| `OrderDomain` | the entity: statuses, transitions, checks. Pure operators; `time.Now()` is an argument |
| `Packaging` | which parcels the strategies accept: the error of `ApplyPackaging`. Pure operators |
| `OrderLifecycle` | the abstract specification: the life of each order and the statuses announced for it |
| `OrderService` | the service over repository, transaction manager, outbox table and cache; extends `OrderDomain` and `Packaging` |
| `OrderServiceProofs` | types, row against history, and the refinement of `OrderLifecycle` |
| `OrderCallsProofs` | what follows for tasks, row locks, dates and deletions; extends `OrderServiceProofs` |
| `OrderAnswersProofs` | what callers and the cache are told; extends `OrderCallsProofs` |
| `OrderCache` | `OrderService` with a history variable: whose last change may have come apart from the command that caches it |
| `OrderCacheProofs` | the cache against the table; extends `OrderCache` and `OrderCallsProofs` |
| `AuditRelay` | the abstract specification of the relay: the fate of each task |
| `OrderOutbox` | the relay: poller, channel, producer, broker, consumer, and the life of a server |
| `OrderOutboxProofs` | types, `SentOnce`, and the refinement of `AuditRelay` |
| `OutboxOrderProofs` | the order of the changes of one order, with one server; extends `OrderOutboxProofs` |
| `OrderServer` | the composition: calls over two transports, main and the HTTP server around `OrderOutbox` |
| `OrderServerProofs` | the theorems about `OrderServer`; extends `OutboxOrderProofs` |
| `OrderListing` | the listings: routes, `paginate` and `GetList`, beside the writers of `OrderLifecycle` |
| `OrderListingProofs` | the theorems about `OrderListing` |
| `MCOrderService`, `MCOrderCache`, `MCOrderOutbox`, `MCOrderServer`, `MCOrderListing` | constants for TLC |

### OrderService

A worker is the goroutine of one call. Its `pc` names the statement or command
it is about to send, and one action is one statement: the code between two
statements touches local memory only and belongs to the action before or after
it. The state and the code correspond as follows.

| Variable | Code |
|---|---|
| `orders` | table `orders`; weight, worth and `returned_date` are left out |
| `version` | how often the row was written: what tells Postgres that it has changed |
| `history` | statuses of the `order_records` of an order |
| `enqueued` | `order_status` of all tasks `AddTask` has committed for an order, whatever the relay has done with them since |
| `nextId` | the sequence of `orders.id`; not part of any transaction |
| `cache` | Redis |
| `now` | the day |
| `pc`, `req`, `pos`, `mem`, `tx` | the call: next statement, arguments, index in the loop over ids, the `*Order` in memory, the open transaction |

The order of the statements is that of the code, and differs between the
operations:

| Call | Statements |
|---|---|
| accept | `Add`, `AddHistoryRecord` (and `GetByID`), `AddTask`, `Commit`, `CacheSet` |
| deliver, for each id | `Read`, `Update`, `AddHistoryRecord`, `AddTask`, `Commit`, `CacheSet` |
| refund, for each id | `Read`, `AddHistoryRecord`, `Update`, `AddTask`, `Commit`, `CacheSet` |
| return | `Read`, `Delete`, `Commit`, `CacheDel` |
| get | `CacheGet`, then `DbRead`, `CacheSet` on a miss |

Postgres is modelled by what the code relies on. A REPEATABLE READ transaction
sees the row as its first statement did; its UPDATE or DELETE waits for the
other writers of the row and fails when the row has changed since (`Conflict`).
Inserting a history record takes a key-share lock on the order, which an UPDATE
does not conflict with and a DELETE does (`Conflicting`, `WaitsFor`). Deleting an order deletes
its records. A failed statement ends the call and rolls everything back
(`Fail`). The writes of a transaction are collected in `tx` and `mem` and
applied by `Commit`.

Failures, switched by `Faults`: a statement returns an error (`FailStatement`;
a shutdown cancels the context of every transaction, which looks the same);
COMMIT takes effect and its answer is lost (`CommitUnacknowledged`); a Redis
command returns an error, executed or not (`FailCacheWrite`, `FailCacheGet`);
the process dies (`Crash`).

### OrderCache

COMMIT and the command to Redis that follows it are two steps of one call, and
nothing orders them against the steps of other calls. `OrderCache` adds one
history variable to `OrderService`, without touching its actions: `disturbed`
holds the orders whose last change was committed while the command of another
call for the same order was on its way (`CommitCached`), or whose call never
carried out its own: the answer of COMMIT was lost (`CommitUncached`), the
command returned an error (`FailCacheWriteOf`), or the process died
(`CrashUncached`). A change that is committed undisturbed takes the order out
again. Every other action of `OrderService` is in `OtherStep`.

### OrderOutbox

One copy of poller, producer, consumer and channel per server; the table and the
topic are shared. `LockPending` is one SQL statement but two steps here: it
locks rows, skipping those locked by others (`PickTasks`), and its update of
them becomes visible when it commits (`LockPending`, or `FailLockPending`, with
or without effect). `SendBatch` is the blocking send, `ReceiveBatch` the
producer's select, which may choose either ready case. `SendMessage` may fail
with the message stored, fail with it lost, or succeed with it stored twice. An
error of `DeleteTask` or `MarkTaskAsFailed` leaves the row or not. After a
signal the context is cancelled, so statements may fail. `Exit` is `wg.Wait`
returning, `Start` a new process whose consumer attaches to the end of the
topic. `sent` and `batches` are history variables. `Faults` switches what the
environment does: errors of the database and of the broker, signals, crashes and
restarts.

`AuditRelay` is the promise without the machinery: a task is claimed once,
handed to the broker at most once, deleted only when the topic has it, and given
up only after it was tried. `OrderOutbox` maps to it by reading a task's fate
from its row and the topic from the ids in `log`; locks, batches, the channel,
consumers and the lives of servers are stutters.

### OrderServer

`OrderService` and `OrderOutbox` meet in one table and one process, and this
module is about the process. It extends `OrderOutbox` and keeps all its actions;
a call is seen as the one task it adds, so `c` numbers the call and its task,
and the statements between are `OrderService`'s subject. These calls are
`CreateOrder` and `UpdateOrders` of one order. `DeleteOrder` adds no task: how
it behaves beside other calls is in `OrderService`, how a shutdown meets it is
not modelled.

| Variable | Code |
|---|---|
| `call` | nothing, running (`open`, `committing`, `executed`), its answer, or `cut` when the process ended before it |
| `place` | which server serves it, over HTTP or gRPC |
| `main` | `main`: `serving`, in `GracefulStop` (`draining`), in `wg.Wait` (`waiting`) |
| `httpSrv` | `HTTPHandler.Serve`: `serving`, in `Shutdown` (`draining`), after it (`drained`, or `timedOut` after five seconds) |

The transactions run under the signal's context and not under the request's
(`tx_manager`), which is what makes the shutdown interesting: both servers let
running calls finish, but a transaction that has not begun when the signal comes
fails, and a COMMIT on its way may be applied or not. `GrpcStopped` waits without
limit, `ShutdownReturns` may give up at any time, and `MainReturns` needs both
servers and the three goroutines. The module follows one life of each process
and calls that change one order; calls over lists are sequences of those.

### OrderListing

One reader beside writers. The writers are the actions of `OrderLifecycle`,
which stands for `OrderService` by theorem `ServiceImplementsLifecycle`: a
commit changes one order by one step, and the records in the tables are those
announced (`AuditCorrect`). The reader runs `GetList`: `SelectOrders` is the
page (`ORDER BY id LIMIT OFFSET`), `SelectRecords` all records, `Answer` the
join, with the filter of `GetAllRefunds`. The two SELECTs are sent outside any
transaction, so `Change` comes in between. Records come `ORDER BY order_id,
TIMESTAMP`, and the time is that of the server that made the change; with
several servers it need not follow the commits, so the records of an order are
read in any arrangement (`Arrangements`).

`ListOrders` is `GET /orders` behind `paginate`, with an offset and a limit that
may be missing, no number, negative or too large; `ListUnpaginated` is the two
routes without it, `GetOrders` the gRPC method, which passes any numbers on.
`AskOrders` is a client that asks for any page. The client that reads page after
page (`AskNextPage`, `walk`) is not in the repository: it is the use that
`offset` is for. `walk.due` are the orders that were there when it began and
that it has not received, `walk.lost` counts the returns since.

## 3. What is checked

| Run | Instance | Properties |
|---|---|---|
| `order_races` | 3 workers, 1 order, 2 expiration dates, all faults | `IInv`, `HistoryMatchesStatus`, `AuditComplete`, `DatesMatchStatus`, `CacheOnlyAudited`, `ReturnsOnlyExpired`, `NoDeadlock`, `ImplementsLifecycle` |
| `order_lists` | 2 workers, 2 orders, lists of up to 2 ids with repetitions, all faults | `TypeOK`, `OkMeansAudited`, `ServedOnce`, `CacheFollowsRow` |
| `order_progress` | 2 workers, 1 order, all faults, fairness | `CallsComplete` |
| `outbox_relay` | 2 servers, 2 tasks of one order, database errors, signals, crashes, restarts | `IInv`, `TypeOK`, `SentOnce`, `ImplementsRelay` |
| `outbox_progress` | 2 servers, 2 tasks, broker faults, fairness | `ClaimsHeld`, `DeletedMeansPublished`, `ImplementsRelay`, `TaskSettles` |
| `server_shutdown` | 1 server, 2 calls for one order over both transports, `LIMIT` 1, channel of 1, database errors and the signal, fairness | `ServerTypeOK`, `OkMeansAdded`, `OrderAcrossBatches`, `CutOnlyOverdue`, `StuckOnlyInSend`, `ClaimedWhilePolled` |
| `listing_races` | all routes, 2 orders, limits and offsets -1, 0, 1, 3 and none | `TypeOK`, `HistoryNeverLags`, `WalkComplete` |

The properties, by what they protect:

* `HistoryMatchesStatus`, `AuditComplete`: row, history and tasks agree at every
  moment anybody can look. They fail if the isolation level were weaker, if the
  record did not follow the branch taken, or if the task were added outside the
  transaction.
* `ImplementsLifecycle`: `OrderService` refines `OrderLifecycle` under the
  mapping that reads an order's place from its row, and from `version` when the
  row is gone. It says that no order goes back, none is delivered or refunded
  twice, no id is used twice, and each step is announced once, in order.
* `ReturnsOnlyExpired`: a row is deleted only as the transaction that checked it
  has seen it.
* `ServedOnce`, `OkMeansAudited`: what the caller of the API may conclude from
  an answer. A call that answers with an error may have made its change all the
  same, for one id or for all of its list; nothing is claimed of it.
* `DatesMatchStatus`: the nil pointer `CanBeRefunded` would follow is never nil,
  in rows, cached copies and memory.
* `CacheOnlyAudited`: the cache never shows what was not committed.
* `CacheFollowsRow`: a cached order is its row, unless the call that changed the
  row last has yet to write the cache or the change was disturbed. So a lookup
  never leaves an old row behind unless a change was committed under its eyes, a
  call that fails before COMMIT takes nothing away, a returned order is not found
  in the cache, and an entry that is stale is put right by the next undisturbed
  change. The exceptions are real: an overtaken or a lost command leaves an old
  state, without expiry, and the code promises nothing else.
* `NoDeadlock`: `RefundOrder` locks its row in share, by the record it inserts,
  before it updates it; the other operations take one lock. That no calls wait
  for each other in a circle rests on the UPDATE leaving the key alone: were it to
  take the stronger lock, two refunds of one order would deadlock.
* `CallsComplete`: waiting for row locks always ends.
* `SentOnce`, `DeletedMeansPublished`, `OrderAcrossBatches`: what the relay keeps
  through overlaps, crashes and restarts. Note what is absent: with two servers,
  or within one batch, changes of one order may be published out of order.
* `ImplementsRelay`: `OrderOutbox` refines `AuditRelay`. It says in one formula
  what the invariants say of single states: a row that was claimed never comes
  back to `created`, a settled one never changes again, and each step is in its
  order.
* `ClaimsHeld`, `TaskSettles`: nothing is forgotten, as long as servers run and
  the database answers.
* `ClaimedWhilePolled`: the only thing between a waiting task and its claim is a
  missing poller. A single error of `LockPending` ends `Run` for good, and a full
  channel may stop it, so the exception is real; failed statements elsewhere,
  failed messages and rows in `processing` hold nobody up.
* `OkMeansAdded`, `CutOnlyOverdue`: what the shutdown keeps of the calls it meets.
  A call that is answered without error is in the database; the exit cuts nothing
  but HTTP calls that outlast `Shutdown`'s five seconds. That a call which the
  servers let finish succeeds is not claimed, and false.
* `StuckOnlyInSend`: the blocking send of the poller, which `outbox_shutdown`
  exhibits, is the only way in which a shutdown can hang.
* `HistoryNeverLags`: what the order of the two SELECTs buys. A listed history
  has every record its status calls for and may have more; it is empty only when
  the order has left by the time of the answer. That status and history are of
  one moment, or that the records come in the order of the changes, is not
  claimed, and false.
* `WalkComplete`: what a client may conclude from having read all pages, although
  `OFFSET` counts rows that come and go. Rows that are added never hide others.
  Each row that is returned may hide one order that is still there, and no more:
  of the orders that were there all along, no more are missed than were returned.

Five runs end in a violation, and each is a finding in `PROJECT.json`:

* `refund_window`: a refund is accepted at any later day, because
  `CanBeRefunded` compares the delivery date with itself plus two days.
* `outbox_shutdown`: with a full channel the poller does not notice the signal,
  and the server never exits.
* `outbox_stranded`: a shutdown leaves claimed tasks in status `processing`,
  which nothing ever takes up again.
* `outbox_message`: `LockPending` returns three of the six columns, so no audit
  message says which status the order got.
* `listing_routes`: `/orders/refunds` and `/orders-history` have no `paginate`,
  ask for zero orders and get none, whatever there is to list
  (`EmptyMeansNothing`).

Bounds. `MaxOrders`, `MaxTime` and `NumTasks` bound what would grow without end.
One order suffices for `order_races`, because rows interact only inside one call
(a loop over ids), which `order_lists` covers with two. Three workers are one
more than any conflict needs: two transactions and a reader or a third loser.
Day 1 with expirations 0 and 1 gives orders that expire while a call runs and
orders that do not. `outbox_relay` needs two servers and two tasks for
overlapping polls. Broker faults together with crashes and restarts are beyond
what TLC can enumerate for two servers in minutes, so `outbox_relay` takes the
faults of the servers and `outbox_progress` those of the broker; the theorems of
section 4 cover all of them together. In `server_shutdown` `LIMIT` is 1, so that
the two changes of the order are always in two batches and one is waiting while
the other is on its way, and a channel of 1 is full early. `JobsCount` is 1 where a full channel must come early and 5, the
value in the code, in the violations.
In `listing_races` pages of one and of two orders are what it takes to shift a
row from one page to another and to lose one by a return; with more orders the
state space is beyond TLC, and theorem `WalkMissesFew` covers any number; numbers below zero, zero, inside and above
`MaxLimit` are the cases `paginate` and Postgres tell apart. Workers and servers
are symmetric and the safety runs use that symmetry.

Fairness. `OrderService`: a worker whose next statement can be executed again and
again is eventually served (strong fairness of `Advance`), since Postgres queues
the waiters of a lock; nothing is assumed of new calls, faults or the clock.
`OrderOutbox`: weak fairness of each goroutine and of `Exit`, since the Go
scheduler runs every goroutine that can run, the ticker ticks, and statements
and `SendMessage` return; nothing is assumed of new tasks, signals, crashes or
restarts. `OrderServer`: weak fairness of the calls together, of main and the
HTTP server together, and of the relay of a server together, which is less than
the scheduler and the timers promise. `outbox_shutdown` and `server_shutdown` set
`CHECK_DEADLOCK FALSE`, because the blocked server the first is about, and a
server that has exited or hangs, have no step left.

## 4. What is proved

The theorems hold for all values of the constants that satisfy the named
assumptions (`DomainAssumption`, `ServiceAssumption`, `OutboxAssumption`,
`ListingAssumption`): any number of workers, servers, orders, tasks and days, and
any set of faults.

### The service

`OrderServiceProofs`: `TypeCorrect` (`TypeOK`), `AuditCorrect`
(`HistoryMatchesStatus` and `AuditComplete`), `ServiceImplementsLifecycle`
(`ImplementsLifecycle`).

The two audit properties are not inductive: at `Commit` they need to know that
the transaction's record, task and new status are the same, and that the row is
still in the status the call has checked. `IInv` adds this: `TxShape` (what a
transaction holds is determined by the operation and by how far it has come),
`CallShape` (which operation reaches which statement), `Snapshots` (as long as
`version` is the one that was read, the row is in the status it was checked for,
and under an exclusive lock `version` stays), `LocksExclude` (one exclusive lock
per row) and `RowsNumbered` (a row inserted by an open transaction is unknown to
everyone else). The local part is proved action by action first; then the
actions that leave the tables alone; then `Commit`, by operation. TLC checks
`IInv` in `order_races`. The refinement uses `IInv` for `Commit` and
`CommitUnacknowledged`, the only steps that are not stutters of
`OrderLifecycle`.

`OrderCallsProofs` draws on `IInv` (`ServiceInvariant`, `AuditIsComplete`):

* `DatesCorrect` (`DatesMatchStatus`). An order in a row, in the cache or in
  memory comes from another of these places or from a transition of the entity,
  and each transition keeps the dates in step with the status.
* `OnlyExpiredLeave` (`ReturnsOnlyExpired`). As long as the row has the version
  that a returning call has read, it is the very order the call found expired;
  the lock at `Delete` and `LocksExclude` keep it so until `Commit`.
* `NoCircularWait` (`NoDeadlock`). Who holds a lock and waits is a refund between
  its record and its UPDATE (`WaitingHolder`). It waits for a call that holds the
  row for update or delete, and such a call waits for nobody; so a chain of waits
  has at most two links.

`OrderCacheProofs`: `CacheIsRow` (`CacheFollowsRow`). The property alone is not
inductive: a fill that is under way could undo it. `CacheInv` adds that, for an
order that is not disturbed, whatever a call is about to write to the cache is
the row as it is now (`PendingIsRow`). A lookup establishes it when it reads the
row (`DbReadStep`); a commit does for its own call, and disturbs the order if any
other command is under way (`CommitCachedStep`); a step that is neither leaves
row and commands alone (`Bystanders`). That a commit deletes the row exactly when
`DeleteOrder` follows it is part of `IInv`. `CacheIsService` shows that the
history variable adds no behaviour, so `IInv` may be used.

`OrderAnswersProofs`:

* `CacheIsAudited` (`CacheOnlyAudited`). The invariant `CacheInv` follows a status
  on its way from the commit, or from the row, through the memory of a call into
  the cache; announced statuses only grow.
* `AnswersAreAudited` (`OkMeansAudited`). `CallInv` says that an answered call
  stands at the end of its list, and that for every id it has served
  (`Served`) the work is done (`Done`): announced, and the order past the status
  the call started from (`Past`). Both halves are stable under every step of the
  others, since an order only goes forward. A call's own step serves nothing, what
  it has served before, the id it commits, or the id it looks up
  (`OwnStepServes`).
* `ServedByOne` (`ServedOnce`). A commit needs the row in the status that `Past`
  denies of every id another call of the kind has served.

### The relay

`OrderOutboxProofs`: `RelayTypeCorrect` (`TypeOK`), `RelayInvariant` (`IInv`),
`RelaySendsOnce` (`SentOnce`), `RelayDeletesPublished` (`DeletedMeansPublished`),
`OutboxImplementsRelay` (`ImplementsRelay`), and, for servers that keep running
over a database that answers (`Steady`), `ClaimedIsHeld` (`ClaimsHeld`).

`SentOnce` needs to know where a task can be. `IInv` says that row locks are on
created rows and exclude each other (`LocksExclude`), that a claimed task is in
one place of one server (`OneHand`), and that what is in hand is in status
`processing` and unsent, but for the task whose answer the producer is dealing
with (`Progress`). It is checked by TLC in `outbox_relay`.

`OutboxOrderProofs`: `OrderIsKept`, `OrderAcrossBatches` for a single server. Two
tasks of one order that were claimed apart must go in their order (`Precedes`);
`NotBehind` and `InLine` say so of every two places on the way from the table to
the broker. Claims enter it because `LockPending` takes the first rows in the
order of `created_at`, and because a change becomes visible after those it
follows from (`AddedInOrder`). That there is one server is used once, where a row
that is created and not locked by its poller is free to be locked. TLC checks the
property with `LIMIT` 1 in `server_shutdown`.

### The server and the listings

`OrderServerProofs`: `ServerTypeCorrect` (`ServerTypeOK`), `OkIsAdded`
(`OkMeansAdded`), `OnlyOverdueCallsAreCut` (`CutOnlyOverdue`) and
`ServerKeepsOrder` (`OrderAcrossBatches`). The first three follow from
`Drained` (a transport that says it is done has no call) and `Added` (a call past
COMMIT has its task in the outbox). That the steps of the composed server are,
for the relay, steps of `OrderOutbox` is a matter of how they are defined; it is
the lemma `ServerIsOutbox`, which carries what is proved of the relay over.

`OrderListingProofs`: `ListedHistoryNeverLags` (`HistoryNeverLags`). The records
of an order are those its status calls for and are only added to; so the records
that are read after the page are enough for the status on the page, and when
they are missing the order has left in between.

`ListingTypeCorrect` (`TypeOK`): no page is longer than the limit, because rows
have different ranks and a page takes the ranks of an interval (`PageFits`).

`WalkMissesFew` (`WalkComplete`). The invariant `WalkInv` counts the orders that
are due and that the offset has already passed: no more than have been returned
since the walk began. A row that enters raises ranks and hides none
(`EnterHidesNone`); a row that leaves lowers each rank by one at most, and only
one row can then cross the offset (`LeaveHidesOne`); reading a page moves the
offset by just the rows that are on it; and a page is empty only when no row is
at or after the offset (`RankReached`), so that all that is still due is among
those passed.

### Only model-checked

The liveness properties `CallsComplete`, `TaskSettles`, `StuckOnlyInSend` and
`ClaimedWhilePolled`, which are beyond the prover. Every invariant and action
property of a passing run is a theorem. `OrderAcrossBatches` is one for a single
server only, which is all it is claimed for, and `ClaimsHeld` for servers that
keep running.

## 5. What is not modelled

* `GetHistory`, `GetOrdersByIDs`, `GetAll`: no routed caller.
* The worth of an order: the strategies compute it, the code stores it, returns
  it in answers and decides nothing by it.
* `DeleteOrder` during a shutdown: it adds no task and is left out of
  `OrderServer`.
* Time zones: dates are written to `TIMESTAMP` columns without a zone, a day
  here is a day everywhere.
* Weights are hundredths; floating point rounding is below what the limits tell
  apart.
* Parsing and validation in the handlers: a refused request changes nothing, and
  `Refuse` of `OrderServer` is all of them.
* Start-up errors, configuration, logging, metrics, tracing, the seed command,
  migrations as a process, generated code. `RunSerializable` and `DeleteTasks`
  have no caller.
* Several lives of one process with their calls: `OrderServer` stops at the exit;
  crashes and restarts are in `OrderService` and `OrderOutbox`.

## 6. Possible extensions

1. Calls over lists in `OrderServer`, so that a shutdown falls between two ids of
   one call.
2. Calls to `DeleteOrder` in `OrderServer`.
3. The properties of the relay (`SentOnce`, `DeletedMeansPublished`) stated and
   proved of several lives of a server with its calls.
