# Gophermart: specification and verification

TLA+ modules, TLC configurations and TLAPS proofs for the loyalty service
"gophermart" (Go, `internal/gophermart`, `internal/accrual`, `pkg/luhn`). Users
register, upload the numbers of their orders, collect accrual points for them
and pay for other orders with the points. An asynchronous order processor asks
an external accrual system about every uploaded order and credits the result.

Paths below are relative to the repository; `P` stands for
`internal/gophermart`, `W` for `P/service/workers`, `D` for
`P/repository/sqldatabase`.

## 1. Inventory

### Components, their state, their operations

| Component | State | Operations | Talks to |
|---|---|---|---|
| HTTP handlers and API (`P/handler`) | none | register, authenticate, upload order, list orders, balance, withdraw, list withdrawals | managers, token manager |
| Managers (`P/service/*_mgr.go`) | none | `CreateOrder`, `PayForOrderFromBalance`, `Register`, `Authenticate`, ... | storage, order processor (`NewOrderArrived`) |
| Token manager (`P/service/token_mgr.go`) | secret key, lifetime | `IssueToken`, `ValidateToken` | secret key provider |
| Storage (`D`) | tables `users`, `balances`, `orders`, `accruals`, `processable_orders`, `withdrawals` | `CreateUser`, `CreateOrder`, `WithdrawFunds`, `MarkOrder...`, reads | PostgreSQL or SQLite through GORM |
| Order queue (`D/store_processable_order.go`) | `processable_orders` | `GetNextProcessableOrder`, `PostponeOrderProcessing` | same database |
| Order processor (`W`) | orders in flight, pending orders, wake-up timer, notification channel, work and callback channels, pause of the pool | `NewOrderArrived`, `Run`, `HasFinished` | queue, storage, accrual client |
| Accrual client (`internal/accrual`) | none | `GetOrderStatus` | accrual system over HTTP |
| Order number check (`pkg/luhn`, `P/handler/api/op_order.go`) | none | `Validate` | handlers |
| Application (`P/app`) | two threads in an errgroup, one context | start, cancel, wait | HTTP server, order processor |

Handlers run in their own goroutines and call the managers synchronously. An
upload commits the order and its row in the queue, then notifies the processor
over a channel of capacity one. The processor's `Run` goroutine selects between
notification, wake-up timer and cancellation, fetches due orders and sends them
over a bounded channel to the workers; each worker reads the order's status,
asks the accrual system, writes the answer to the storage and sends a result
over a channel of capacity one to the callback goroutine, which postpones the
order or forgets it. Handlers and workers meet again in the balance rows of
the database.

### What is hard here

- *Interleavings.* `TriggerQueueProcessing` is called by any number of handlers
  and by `Run`; the processor's state is shared by `Run` and the callback
  goroutine under a mutex that is released between related steps; the set of
  orders in flight is copied before the query that uses it.
- *Transactions.* Payments and accruals of one user run concurrently; look-ups
  before an `INSERT` are outside its transaction.
- *Failure.* Any database call may fail after it was committed; the process may
  die at any step and finds only the database again; the accrual system may
  refuse, fail or ask for a pause.
- *Ordering.* Two channels are closed during shutdown while goroutines still
  send on one of them; a timer is armed before the order it is for can be
  fetched.
- *Numbers.* Sums are floats that `numeric(16,4)` columns round; a coarse check
  on truncated parts precedes the exact one; delays and pauses are computed in
  64 bits.

`PROJECT.json` lists each of these hazards at its line, with the property that
would notice it going wrong or the reason why none does yet.

### What makes each component correct

| Component | Properties |
|---|---|
| Order processor | an order is in one place at a time; the record of orders in flight is exact; each accrual is credited once; an order that needs work is in the durable queue; shutdown ends and leaves nothing behind; nobody sends on a closed channel; a notification serves every due order |
| Storage | no negative balance, no lost update, money is conserved, rows that belong together are seen together, no deadlock, a refusal has its reason, transactions amount to whole operations |
| Order number check | agrees with Luhn's algorithm; notices single mistakes and swaps; never indexes an empty slice |
| Accrual client and retries | a pause asked for holds the whole pool back; an event ends only with a final status, as long as the processor runs; the delay follows the back-off and never wraps round |
| HTTP handlers and API | what a client was told is so and stays so; no two clients are told that the same thing is theirs; pages read by two queries add up; no request waits for ever for the storage |
| Token manager | a token names a user who exists |
| Application | when one thread ends with an error the other is cancelled, and both are waited for; success means that every request was served |

## 2. Modules

| Module | Role |
|---|---|
| `OrderLifecycle` | abstract: what happens to one order and its accrual |
| `OrderProcessor` | the processor, goroutine by goroutine, with the queue, timer and faults |
| `OrderProcessorProofs` | the inductive invariant and the theorems about `OrderProcessor` |
| `MCOrderProcessor` | small instances of `OrderProcessor` |
| `Ledger` | abstract: users, orders, accruals, payments changed in whole operations |
| `Storage` | the writing calls of the storage, SQL statement by SQL statement |
| `StorageProofs` | the inductive invariant, the theorems about `Storage` and its refinement of `Ledger` |
| `MoneyProofs` | that the storage accounts for all the money, on top of `StorageProofs` |
| `MCStorage` | small instances of `Storage` |
| `Api` | requests, reads, responses, tokens and restarts on top of `Storage` |
| `ApiProofs` | what clients were told stays true: the theorems about `Api`, on top of `MoneyProofs` |
| `MCApi` | a small instance of `Api` |
| `Application` | the two threads and the end of the process, around `OrderProcessor` |
| `ApplicationProofs` | the theorems about the process, on top of `OrderProcessorProofs` |
| `MCApplication` | a small instance of `Application` |
| `AccrualClient` | the accrual client, the pause of the pool and the delays of retries |
| `AccrualClientProofs` | the theorems about the pause, the answers and the back-off |
| `MCAccrualClient` | small instances of `AccrualClient` |
| `Luhn` | the order number check, against a textbook form of the algorithm |
| `LuhnProofs` | the theorems about the check, for numbers of any length |
| `InductionFacts` | what these proofs need by induction: recursive functions, sums over finite sets, powers of two |

`OrderProcessor` implements `OrderLifecycle`, and `Storage` implements
`Ledger`; both are stated as properties with a refinement mapping. The two
detailed modules share the database: `OrderProcessor` takes each transaction as
one step, which is what `Storage` shows the transactions to be; `Storage` lets
workers call it only as the processor does (one goroutine per order, and only
for an order whose status was read as processable), which is what
`OrderProcessor` shows with `HandledOnce`. `Api` extends `Storage` and
`Application` extends `OrderProcessor`: each adds variables and composes its own
actions with those of the module below.

### OrderProcessor

A goroutine's step is the code between two points where another goroutine can
be observed: a channel operation, a database or HTTP call, a critical section
of the state's mutex. `runPc`, `workerPc`, `callbackPc` and `uploadPc` are the
program counters.

| Variables | Code |
|---|---|
| `status`, `queued`, `due`, `credits` | `orders.status`, rows of `processable_orders`, their `process_after`, increments of the balance |
| `notifyCh`, `ordersInFlight`, `pendingOrders`, `nextWakeupTime`, `wakeupTimer`, `isRunning`, `hasStarted` | `orderProcessorState` |
| `workCh`, `workClosed`, `callbackCh`, `callbackClosed` | the channels of the pool (capacity: its size) and of the callbacks (capacity one) |
| `workerEvent`, `workerAnswer`, `workerErr`, `workerWait`, `pausedUntil` | locals of the workers and `orderEventWorkerContext` |
| `excludeIDs`, `runEvent`, `callbackEvent`, `processAfter` | locals of `NextEvent`, `processQueue`, `processCallback` |

One action per step: `RunTrigger`, `RunNotify`, `StartWorkers`, the three
`Select...`, `NextEvent`, `GetNextProcessableOrder`, `AdmitEvent`, `TakeEvent`,
`Stop`, `CloseWorkCh`, `WaitWorkers`, `WaitCallbacks` for `Run`;
`WorkerReceive`, `ShouldProcessEvent`, `WaitInterrupted`,
`MakeAccrualClientRequest`, `ProcessAccrualClientOrder`, `CallbackOnDone`,
`WorkerExit` for a worker; `CallbackReceive`, `PostponeOrderProcessing`,
`AddPendingOrder`, `DecrementEventsInFlight`, `CallbackExit` for the callback
goroutine; `Upload`, `UploadTrigger`, `UploadNotify` for the handlers; `Tick`,
`Cancel`, `Rerun`, `Crash` for the world.

Abstractions. An instant is the number of ticks until it comes, so states do
not grow with time. A retry delay is any number of ticks up to `MaxDelay`; a
pause any number up to `MaxPause`. The `retries` column, `NumWakeups` and
logging are left out, and so is `shutdownTimeout`, which is only logged.
`REGISTERED` is treated like `PROCESSING` and an unknown status like `INVALID`,
as the code does. The accrual system answers for the order it was asked about.
`domain.ErrOrderNotFound` and `ErrOrderEventDiscarded`, which `getDelayFn` does
not retry, do not occur: rows of orders are never deleted, nobody returns the
second, and the accrual client's "not found" is another error value. An upload
of an order that exists changes nothing and is not an action. `ORDER BY` picks
among due orders: safety is checked for any choice, and liveness with
`OldestFirst`. One processor runs at a time (`compose.yaml` starts one).

### Storage

A step is one SQL statement on PostgreSQL at READ COMMITTED. `db` holds the
committed rows; `trx[c]` the rows the open transaction of client `c` has locked
or written, each with its value after the commit. `Write` waits while another
transaction holds the row; `Insert` also fails on a key that is there. `call`
and `pc` are the call being executed and its next statement or answer. `Begin`
starts any call at any time; `Fail` breaks off any statement, and `Commit` may
lose its answer.

Abstractions. The look-ups that precede the transaction of a worker or of a
payment (`findUser`, `getOrderBelongingToUser`) are part of `MayBegin`: users
and orders are never deleted, a user who calls has a token and hence a row. The
look-ups whose result can be out of date, `FindUser` and `FindOrder`, are steps
of their own. A `SELECT ... FOR UPDATE` and the write it prepares in the same
function are one step where nothing else is decided in between (accrual row,
queue row), and so are `UPDATE balances` and the reading of the row it has
locked. `process_after` and `retries` are not kept. Foreign keys take
shared locks that conflict with no other lock taken here. Money is in the
finest unit a client can name; a column holds multiples of `Grid` of them and
rounds halves away from zero, and an accrual point is `Point` units of a column
(10000 in the database). SQLite, which serialises writers, is not modelled.

### Api

A client is a goroutine of the HTTP server with one request, or a worker of the
order processor (`BeginWork`, `EndWork`). `Receive` is the way of a request through
`JWTAuth` and the validation of its body to the manager; `Refuse` ends it there.
A request that writes is one call of `Storage`, whose answer `Respond` turns
into a status; `UploadStatus`, `RegisterStatus`, `WithdrawStatus`,
`AuthenticateStatus` and `ListStatus` are the `process...Error` functions of the
handlers and the errors of the managers. A request that reads makes the reads of
`Reads` in order, each a query of its own (`Read`); the last one is one step with
the response, which uses nothing else that is shared but the tokens. `Issued` is
`issueUserToken`; `Restart` ends the process and begins it anew.

| Variable | Code |
|---|---|
| `request`, `seen` | the operation and the locals of its handler |
| `response` | the status written to the client |
| `tokens` | users who hold a token that `ValidateToken` accepts |
| `credited` | history: the credits of a user when a `GetBalance` arrived |

A request and its response stay with the client until it goes on (`Close`) when
the response says something lasting (`Remembered`), so that `ToldTheTruth` and
`AcceptedOnce` hold it against everything that happens later, restarts included;
of other responses only the status is kept.

Abstractions. A password's hash matches that password and no other. A body is
valid or not; which of 400, 422 and 500 an invalid one gets is a choice
(`BadBody`; 500 is for a password that is short enough for the API and too long
for bcrypt). Lists have no order. An accepted upload notifies the processor after
its commit and before its response (`P/service/order_mgr.go:42`), and that send may
block for ever (divergence 1). How it comes to that is in `OrderProcessor` and
`Application`; here `Notifying` names the requests that are at this point, and
nothing makes them go on: `AnsweredOrNotifying` promises a response to every other
request, and to an accepted upload no more than that the storage has answered. A
handler that is blocked there holds no row. A token expires at any time:
its lifetime, the leeway and its format are left out. An upload or a payment that
loses the race for a unique key is answered with 500.

### Application

`OrderProcessor` with the server around it. `Accept`, `Handle` and `Finish` are
an upload request from its acceptance to its response, and contain `Upload` and
`NotifyStep` of the processor; `ListenFails`, `ServerError`, `ServerDone`,
`ShutdownDone` and `ShutdownTimeout` are `HTTPServer.Run`; `ThreadReturns` is the
errgroup, whose context is `ctxDone`; `Exit` is the end of `App.Run`, after
which nothing moves. `ServerError` and `ServerDone` may both be ready, as in the
`select`. Crashes and a second `Run` are not part of it: the program calls
`Run` once. Requests other than uploads end by themselves and are left out.

### AccrualClient

`OrderProcessor` lets pauses and delays be any number of ticks; this module
computes them. It follows events from the queue through a worker and back:
`TakeEvent`, `WaitUntilUnpaused` (the worker reads `pausedUntil` once),
`SendRequest`, `ReceiveResponse`, and `Interrupted` for a failed read of the
status, the timeout of the event or the end of the context during the wait.
`Cancel` is the end of the context, which may come at any point. From then on
`NothingToAsk` lets a worker report an event without asking (`handleIncoming`), no
request is sent, and `Report` (`processCallback`) forgets failed events with the
others. `settled` holds the orders whose final status is stored, by a write that
may have been reported as failed (`Settle`); such an order has left the queue and
cannot be postponed. `NothingToAsk` also stands for the worker that finds its order
closed already; the run shows that this does not happen, since `settled` orders are
over (`OnlyFinalAnswersEnd`). `GetOrderStatus` and
`ProcessRetryAfterHeader` are the client; `MaxBackOffN`, `DelayFn` and
`NextDelays` the configuration of delays and `getNextProcessingTime`;
`BackOffDelay`, `RandomDelays` and `CombineDelay` stand for the retry-go library,
which is not in the repository and is taken from the use the code makes of it.
Products and shifts are those of a machine word, `Half` being half of its values
(2^63 in the code).

Abstractions. An event is due again, or forgotten, in the step that ends it: the
way through the callback goroutine is in `OrderProcessor`. So is a
`PostponeOrderProcessing` that fails for an order in the queue
(`W/order_processor_state.go:55-58`): that order is due at once, with its old
`process_after`, so `BackOffHolds` speaks of the delay that is computed and stored.
An answer "too many requests" and the pause it sets (`W/order_event_worker.go:128`
and `134`) are one step: `quietUntil` counts from the moment the answer is
recorded, and requests that other workers send between the two lines count as sent
before the answer. `retries` is not
counted beyond `MaxRetries`, where the shift has long reached its limit. The
accrual system answers for the order it was asked about: the code writes the
status to the order named in the answer and does not compare. Initial delay
and jitter are positive (`retry-go` draws from an empty range, and the limit of the
shift is the logarithm of 0, if they are not; the defaults are 100 ms).
`quietUntil` and `sentTooEarly` are history: what the system asked for in
arithmetic without limit, and how often it was asked before. `seconds *
time.Second` overflows for 9223372037 seconds and more, although the client caps
only numbers above 2^63-1: for those the pause may be negative, so the history
asks for nothing, and the run includes such a header.

### Luhn

The functions of `pkg/luhn` on mathematical integers; numbers have at most 20
digits in the code and no intermediate result is larger than the sum of 20
digits, so 64 bits do not matter. `Validate` is `OrderID.Validate` of the API, which
rejects 0 before it comes to `luhn.Validate` (`ChecksumMatches`).

## 3. Runs

All runs switch deadlock checking off: the program may be told to stop, and
users may stop calling.

| Run | Instance | Shows |
|---|---|---|
| `OrderProcessor_safety` | 2 orders, 2 workers, delays and pauses up to 1, preloading, all faults, symmetry; about 780,000 states | the safety properties of the processor and `ImplementsLifecycle` |
| `OrderProcessor_liveness` | 2 orders, 1 worker, no delay, failing writes, cancellation, oldest first; about 166,000 states | `ShutdownCompletes`, `InFlightDrains`, `NotificationServesDueOrders` |
| `Application` | 1 order, 1 worker, delays and pauses up to 1, preloading, failing reads and writes, cancellation, a failing listener; about 53,000 states | `CleanExit`, `ApplicationStops` |
| `Storage_money` | 2 users, 2 passwords, 2 orders, 2 payments, 2 clients, half units to round, failures, symmetry; about 331,000 states | the safety properties of the storage and `ImplementsLedger` |
| `Api` | 2 users, 1 order, 1 payment, 2 clients, failures, restarts, expiring tokens; about 223,000 states | `ToldTheTruth`, `AcceptedOnce`, `TokensNameUsers`, `BalanceShowsEveryPayment`, `ProcessedShowsAccrual`, `AnsweredOrNotifying` |
| `AccrualClient` | 3 events, 2 workers, words of 4 bits, 2 ticks to a second, 5 kinds of Retry-After, 2 delay configurations, a context that expires, symmetry; about 2,064,000 states | `QuietDuringPause`, `PauseCoversQuiet`, `OnlyFinalAnswersEnd`, `BackOffHolds` |
| `Luhn` | all numbers up to 99999 | the three properties of the check |
| `OrderProcessor_trigger` | 1 order, 1 worker, preloading, no fault | *violated*: `TriggerReturns` |
| `OrderProcessor_wakeup` | 1 order, 1 worker, no fault | *violated*: `PendingOrderPickedUp` |
| `OrderProcessor_enqueue` | 1 order, 1 worker, failing writes | *violated*: `FailedEnqueuePickedUp` |
| `OrderProcessor_preload` | 1 order, 1 worker, crashes | *violated*: `PreloadedOrderPickedUp` |
| `Storage_register` | 1 user, 2 clients, no failure | *violated*: `TakenLoginIsConflict` |

Why the bounds are enough. Two orders make the bounded channels fill (with one
worker `workCh` and `callbackCh` both hold one element, so all three goroutines
can be blocked at once) and let one order be put back while another is fetched;
two workers can hold two events of what would be the same order. One tick of
delay tells "due", "not yet due" and, with `Lag` 0, "fires at once" apart. Two
clients are enough for every race of two transactions, the longest conflicts
being between pairs; two payments and two orders of one user let a payment race
a payment, a payment an accrual and an accrual an accrual, and two users show
that nothing leaks from one balance to another. With `Grid` 2, sums of 3 and
accruals of 5 fall exactly between two values of a column, in both directions;
a sum of 6 is the largest that the coarse check must let through. In words of 4
bits a shift, a product and a sum each pass the largest duration; three events and
two workers let one event wait for a worker while a pause is set by one worker and
read by the other, before or after. Five digits
contain two doubled positions, and every pair of neighbours of either parity.

In `Api` two clients are two requests, or a request and a worker; two users let
one be told that the order is the other's. One payment and one accrual are enough
to fall between the two reads of a page. `Application` has one order, because a
second one makes its states too many for liveness: two orders compete for the
channels during a shutdown in `OrderProcessor_liveness`, and what `Application`
adds, the handler that is blocked while the processor goes, needs one.

Each property is also run against a mutated definition (an uncounted order, an
upsert, a missing check, a position counted from zero, ...), named in
`PROJECT.json` and kept beside the original in the module, and found violated.

### Fairness

- `Fairness`: weak fairness of `Run`, each worker, the callback goroutine, each
  handler inside `NewOrderArrived`, and the clock. The Go scheduler runs what
  can run, and database and HTTP calls return because of their deadlines.
  Nothing is assumed of uploads, cancellations, second runs and crashes.
  `OrderProcessor_liveness` runs without preloading, although the program preloads
  by default: a `Run` that blocks in its start-up notification never reaches the
  main loop (divergence 1), and neither serves an order nor shuts down.
- `OldestFirst`: strong fairness of choosing an order in
  `GetNextProcessableOrder`. The query is `ORDER BY process_after`, and an order
  that is put back gets a later `process_after` than every order that is due.
- `FairApiSpec`: strong fairness of what a client's goroutine does once it has
  begun, except for the return from the notification after an accepted upload.
  PostgreSQL queues the waiters of a row in order of arrival, so a
  statement that can run again and again is not overtaken for ever. With weak
  fairness two clients could starve a third call by handing a row to each other.
  Nothing is assumed of requests, notifications, failures, restarts and of the
  client's going on.
- `FairAppSpec`: weak fairness of the goroutines of the processor, of a handler
  inside `NewOrderArrived`, of the clock and of the server's thread, whose
  shutdown timeout passes, as long as the process runs. Nothing is assumed of
  signals, of a listener's failure, of requests and of when they end.
  `ApplicationStops` leaves out a `Run` that is still to send its start-up
  notification: that send may block for ever (divergence 1), and no signal ends
  the process then.

### Divergences the runs show

1. `TriggerQueueProcessing` can block although its comment says it never does:
   draining and sending are two steps. If `Run` is the one that blocks, while
   preloading, the processor never starts.
2. A wake-up can come before the order has left the set of orders in flight;
   nothing wakes the processor again.
3. An order whose postponing failed is not "picked up again" unless something
   else triggers the queue.
4. After a restart, an order that was postponed into the future has no timer.
5. Two registrations of one login at the same time: the second is answered with
   a server error and not with a conflict.

Two more, of the same kind, were met and are not separate runs: two uploads of
one order at the same time (the second gets an error instead of the owner,
`D/store_order.go:15-18`; in `Api` its client is answered with 500), and `shutdown`, whose comment
(`W/order_processor.go:272`) speaks of processing the remaining events although
they are only reported back.

## 4. Proofs

### Order processor

`OrderProcessorProofs` proves, for every finite pool of workers, every set of
orders, every bound on delays and every set of faults allowed by
`ConstantsAssumption`: `TypeOK`, `InFlightExact`, `HandledOnce`, `CreditedOnce`,
`QueueMatchesStatus`, `PendingOrdersWait`, `IdleWhenReturned`,
`NoSendOnClosedChannel` and `ImplementsLifecycle`.

None of these is inductive alone. That a credit happens once needs the order to
be open when the answer is applied; that needs that nobody else works on it
(`HandledOnce`); that needs the query's exclude list to be recent enough, which
needs the list in memory to be exact (`InFlightExact`), which needs to know who
holds an event at each point of start-up and shutdown. The invariant is

    IInv == Typed /\ Placed /\ Recorded

- `Typed`: `TypeOK`, `EventsHeld` (a goroutine holds an event exactly at certain
  points), `ShutdownOrder` (what is closed and who has ended at each stage);
- `Placed`: `InFlightExact`, `HandledOnce` and `FetchFresh` (between the
  snapshot and the query orders only *leave* the set of orders in flight, because
  `Run` alone adds to it: so a stale exclude list excludes too much, never too
  little);
- `Recorded`: `QueueMatchesStatus`, `CreditedOnce`, `WorkedOn` (an order whose
  answer is about to be applied is still processable), `PutBack` (an order about
  to be recorded as pending is in the queue), `PendingOrdersWait`.

`Typed` is preserved by itself, `Placed` given `Typed`, `Recorded` given both;
each is proved with one step per action. `IInvInductive` combines them,
`Invariant` lifts them to the specification, and the theorems follow. The
refinement needs `WorkedOn`: the step that applies an answer is a step of the
abstract life cycle only because the status it replaces is still open.

### Accrual client

`AccrualClientProofs` proves `QuietDuringPause` for every number of workers, every
width of a word and every set of headers (`AccrualAssumption`). The count of
requests alone is not inductive: the invariant adds the waits that will end
before the system wants requests again (`EarlyWaiters`), which together with the
requests already sent stay fewer than the workers (`PauseCoversQuiet`). A new
pause starts the count afresh, with at most one such wait for every other
worker; whoever reads `pausedUntil` later waits long enough, because the pause is
never shorter than what was asked (`PauseLongEnough`, which rests on the product
being exact while it fits the word, `WrapExact`). It also proves
`OnlyFinalAnswersEnd`, with a context that expires at any point: every answer but a
final status ends in an error that is retried (`OtherAnswersRetried`), only a final
status closes an order (`OnlyFinalCloses`), and a report ends an event only when its
order is closed or the context has expired (`ReportEnds`). After that an event is
forgotten without an answer; that its order stays in the queue is
`QueueMatchesStatus` of the processor.

`BackOffHolds` and `TypeOK` are proved for every initial delay, jitter and cap and
any number of retries. `BackOffExact` is the argument: an initial delay between
`2^k` and `2^(k+1)` stays, shifted by at most `MaxBackOffN`, between two powers of
two of which the larger is at most `Half`, so the product is exact; and where the
shift stops at `MaxBackOffN`, the delay is at least half of the largest duration
already. `CombineLonger` adds that the sum with the jitter, which is computed
without sign, is no shorter. The invariant is `TypeOK` with the one of the pause
(`QuietInv`), which counts the events that are with workers. What this needs of the
constants is what a machine word is: `Half` is a power of two, and a second is
representable as a duration (`AccrualAssumption`).

### Storage

`StorageProofs` proves, for any users, orders, payments and clients, any sums and
accruals, any precision of the columns and any size of a point
(`StorageAssumption`, and `NoRowAssumption`: "no row" is not a value of any
table): `TypeOK`, `BalanceNeverNegative`, `RowsTogether`, `RegistrationHolds`,
`RefusedOnlyForLackOfFunds` and `ImplementsLedger`. The invariant is

    IInv == TypeOK /\ RowsTogether /\ OwnersRegistered /\ BalanceNeverNegative
              /\ LocksExclusive /\ WorkersApart /\ \A c : Working(c)

`Working(c)` says, statement by statement, which rows the open transaction of `c`
has locked and with which values (`Registering`, `Uploading`, `Paying`,
`MarkingProcessing`, `MarkingInvalid`, `MarkingProcessed`, `Postponing`). It is
what a commit needs: the values a transaction will write were computed from rows
it has locked since, and a locked row's committed value does not change under its
holder (`LocksExclusive`). A worker reads its order before it locks anything: that
the order is still processable when it is locked is due to the processor, which
gives an order to one goroutine at a time (`WorkersApart`). That an `INSERT` under
a unique key does not overwrite is in `Registering`, `Uploading` and `Paying`:
the row is absent until its transaction commits.

A statement other than `COMMIT` leaves the committed rows alone and moves one
client; `MovePreserves`, `WritePreserves` and `FailurePreserves` reduce each of
them to the new `Working(c)`. A `COMMIT` is described once for each kind of call
(`CommitRegisters`, `CommitUploads`, `CommitPays`, `CommitMarks`,
`CommitCredits`, `CommitPostpones`): its effect is used to preserve the
invariant, and again to map it to an operation of `Ledger`. The arithmetic of
columns is in `ColumnAdds` and `ColumnSubtracts` (an accrual adds to a balance what
it is rounded to alone; a payment costs what is recorded for it, or one unit less),
and in `CoarseCheck`, which shows that truncating to points refuses nothing that
the exact sum would allow.

`MoneyProofs` proves `MoneyAccountedFor`: the balance of each user is the sum of the
accruals less the sum of the payments, but for the rounding. It is stated over the
committed rows, with folds over sets of them, so it needs

    MoneyInv == PayersRegistered /\ FinitelyMany
                  /\ \A u : Exists(BalanceRow(u)) => Accounted(u)

A user's rows are finitely many although the sets of orders and payments need
not be (`FinitelyMany`), and who has payments is registered (`PayersRegistered`),
so that a new user starts with no payment. The transactions need no second look:
`LedgerStep`, the core of the refinement, says that every step changes the visible
rows as one operation of `Ledger` does, or not at all, and each of those operations
adds at most one summand to one user's sums, by as much as it changes the balance.

### Api

`ApiProofs` proves, on the same assumptions and `ApiAssumption`, with failures, expiring
tokens and restarts at any point: `ToldTheTruth`, `AcceptedOnce`,
`TokensNameUsers`, `ProcessedShowsAccrual`, `BalanceShowsEveryPayment`, the type of
the variables, and that `BalanceNeverNegative`, `RowsTogether` and
`MoneyAccountedFor` survive restarts. Three facts carry it from the database to the
client:

- `Grown`: users and payments never change, an order keeps its owner and, once
  final, its status (from the effects of the commits above). So what was true
  when it was told stays true.
- `Kept`: between the storage's answer and the response, the database contains
  what the answer says.
- `ToldApart`: no two clients have been told, or are about to be, that they added
  the same row. Neither look-up prevents this; a client comes to be told only by its
  commit, before which the row was absent (`CommitAdds`), while the row of everybody
  told is present.

`Restart` loses all calls and transactions; `RestartIInv` shows that the
invariant of the storage holds again of what is left.

The balance page reads the current balance first and the total withdrawn after
it. `Balanced` says of a request between the two reads that what it read, with what
is withdrawn *now*, is no less than what the user was credited with at its arrival;
that stays so because credits and withdrawals only grow (`MoneyGrows`), and holds at
the first read because the money is accounted for (`MoneyInv`).

### Order number check

`LuhnProofs` proves `AcceptsLuhnNumbers`, `MistypedDigitNoticed` and
`SwappedDigitsNoticed` for numbers of any length (`MaxNumber` is any number). The
code reads the digits one after the other into a list, the algorithm speaks of the
digit at a position: `DigitsAre` relates them, by induction on the number.
`Sum(n, k)` is what both add up over the first `k` positions; positions beyond the
last digit add nothing (`SumPadded`), so an accepted number and a mistaken one are
compared over the same positions even if the mistake leaves a leading zero. A mistake
replaces one digit or two (`DigitReplaced`), and the rest of the sum is the same. It
is noticed because doubling permutes the digits (`ValuesDiffer`), and because a swap
changes the sum by a multiple of ten only for 0 and 9 (`SwapDiffers`).

### Application

`ApplicationProofs` proves `CleanExit` and the type of the variables, and that
`CreditedOnce`, `QueueMatchesStatus` and `NoSendOnClosedChannel` hold in the
process. Every step of the process is a step of the processor, leaves the
processor alone, or is the return of the server's thread, which may end the
processor's context; `CancelledIInv` shows that the invariant of the processor does not
depend on when that happens. The invariant adds `Drained` (a listener that is not
open accepts nothing more, so a shutdown that saw every request end stays
complete) and `Ended` (only when both threads have returned is there an exit). What
the processor has left then is `IdleAtReturn`.

### Induction over data

The library's induction theorems take the property as an operator, which no
available prover can instantiate. `InductionFacts` states a property as the set of the
values that have it and derives induction on numbers and on finite sets from the
theorem that a nonempty set has a minimal element in a well-founded order (`Minimal`).
From that it shows that a recursion that goes back to smaller numbers has a solution
(`Recursion`), so that a recursive function satisfies its equation; that the fold
`MapThenSumSet` is a sum that does not depend on the order of its elements
(`SumOfElement`); and the recursion of the powers of two (`PowerDoubles`), counting
subsets, since the provers know nothing of exponents.

### What is only model-checked

Liveness (`ShutdownCompletes`, `InFlightDrains`, `NotificationServesDueOrders`,
`ApplicationStops`, `AnsweredOrNotifying`), which needs fairness and `ENABLED` and
is out of the proof system's reach; and the divergences, which are
counterexamples. Every other property of a passing run is a theorem.

## 5. Not modelled, and why

- Late commits: a transaction whose connection broke is taken to have committed
  or not when the call returns.
- Several processors on one database: `FOR UPDATE SKIP LOCKED` outside a
  transaction would not keep them apart; one is deployed.
- Lifetime, leeway, signature and format of a token: arithmetic and cryptography
  of a library. That a token of a lost key is refused is the choice `KeyFile`.
- Validation of bodies beyond the number of an order, bcrypt, rendering of lists:
  data that no property tells apart.
- Command line, wiring, logging, migrations, generated code, mocks: no
  behaviour over time.
- The accrual system itself: a binary without source, taken as any answer.

## 6. Plan

The modules of the first plan are written: the order processor, the storage, the
accrual client, the API, tokens and the application, each with its proofs. What is
left, in order:

1. Late commits in `Storage`: a transaction whose connection breaks during its
   `COMMIT` would stay open, without a client, and commit or not at any later time.
   `WorkersApart` then no longer separates it from the next attempt at the same
   order, so the invariant needs a case for a transaction without a client.
2. Several processors on one database, for the day more than one is deployed:
   `GetNextProcessableOrder` in each, with the row lock that ends with its query.
