# TLA+ verification of the order management system

This directory models the order management system in `src/app`: a FastAPI
service over PostgreSQL that validates client orders, reserves cash for them,
routes them to a broker, applies the broker's fills, rejections and
cancellations, and keeps positions and P&L. TLC checks the models on small
instances and TLAPS proves the central results for every instance.

## The system

| Component | State it keeps | Operations | Model |
|---|---|---|---|
| Order state machine (`domain/order_state_machine.py`) | none | transition table, status sets | `OrderStateMachine` |
| Order service (`services/order_service.py`) | `orders`, `order_events`, `accounts.reserved_cash`; the ORM session a request runs on | `create_order`, `_mark_routing_failure` | `OrderManagement` |
| Cancellation service | `orders`, `order_events` | `request_cancellation` | `OrderManagement` |
| Execution service | `orders`, `fills`, `processed_broker_events`, `accounts`, `positions`, `order_events` | `process_event` | `OrderManagement` |
| Lifecycle / audit | `order_events` | `transition`, `append_event` | `OrderManagement` (`SaveOrder`) |
| Accounts | `accounts` with CHECK constraints | `create_account` | `OrderManagement` |
| Position service and rules | `positions` | `apply_execution` | `Positions` |
| Market data service | `market_prices`, `positions` marks | `apply_tick` | `Positions`, `RowLocks` |
| Repositories (`repositories/`) | rows and the locks on them | lookups, `SELECT ... FOR UPDATE`, inserts, commits | `Tables`, `RowLocks` |
| Decimal amounts | NUMERIC(24,8) columns | multiply exactly, round on store | `Money` |
| Fake broker (`broker/fake.py`) | background tasks, in memory | `submit_order`, `cancel_order`, `_simulate_order`, `_simulate_cancellation`, `close` | `FakeBroker`; any broker in `OrderManagement` |
| Queue and workers (`broker/worker.py`, `main.py`) | in-memory queue | deliver events, expire DAY orders, start and stop | `OmsRuntime` |
| Websocket client, HTTP API, schemas, P&L reads, configuration, migrations | none of the order life cycle | | not modelled |

**How they interact.** A request handler locks the account row, inserts an order
with its audit events, reserves cash and commits; only then it calls the broker.
The broker answers through a queue that a worker empties, one transaction per
event. A transaction of an event locks the order row, then the account, then the
position. The expiry worker scans for expired DAY orders and calls the
cancellation service like a client. Ticks arrive from a feed and lock the
positions of their symbol.

**What is hard.** The code is written for many transactions on shared rows: two
orders competing for the same cash, a fill racing a cancellation, events that
arrive twice or out of order, a handler that goes on after its commit while
others run, a session that remembers rows others have changed, and amounts that
do not fit a column. `PROJECT.json` lists each hazard at its line together with
the properties that cover it, or why none does yet.

**What makes it correct**, component by component:

- orders: status and quantities agree; a terminal order rests; the audit trail is
  an unbroken path of allowed transitions;
- accounts: `reserved_cash` is what open buy orders hold; cash is the deposit and
  the fills; nothing is overdrawn and no order spends another one's reservation;
- events: each takes effect at most once, whatever is delivered;
- cancellation: the broker is asked once;
- positions: net quantity and P&L balance against the executions; marks follow
  the latest accepted tick;
- transactions: interleaved statement by statement, they are serial, never wait
  in a circle, and what a lookup did not find is still absent at the insert;
- the process: every order ends, unless it is a GTC order or there is a cause
  that can be named (a restart, a dropped event); a cancellation is never lost
  by itself; broker and service agree on what is left of an order.

## The modules

| Module | What it is |
|---|---|
| `Money`, `Tables` | columns and their rounding; a table as a function from keys to rows |
| `OrderStateMachine` | the status sets and transition table |
| `Positions` | the position book and market prices as operators and actions |
| `OrderManagement` | the core: all services and the tables they share, one action per transaction |
| `OrderProperties` | invariants and action properties of one order or one step |
| `OrderLedger` | invariants that add up whole tables |
| `PositionBook` | the position book alone, driven by arbitrary executions and ticks |
| `Escrow` | abstract specification: free money, held money, and how they change together |
| `OrderEscrow` | the refinement mapping from the core to `Escrow` |
| `FakeBroker` | the fake broker's tasks and the queue of its events |
| `OmsRuntime` | composes the core with the fake broker, the handlers, the workers, outages and restarts |
| `RuntimeProperties` | what the running process promises |
| `RowLocks` | `create_order`, `_mark_routing_failure`, `request_cancellation`, `process_event` and `apply_tick` statement by statement, under row locks |
| `MCOrders`, `MCPositionBook`, `MCEscrow`, `MCRuntime`, `MCRowLocks` | instances for TLC: requests, calls, symmetry |
| `PositionTheorems` | lemmas about products and rounding, sums over tables, position rows and the position actions |
| `OrderTheorems` | type correctness; positions follow the market |
| `SafetyTheorems` | the inductive invariant and the safety theorems |
| `EscrowTheorems` | cash moves only with fills; the core implements `Escrow`; reservations follow orders |
| `LedgerTheorems` | orders, positions, cash and reservations are the sums `OrderLedger` says |
| `RuntimeTheorems` | the runtime implements the core; cancellations are not lost; broker and service agree on what is left of an order |
| `LockTheorems` | lookups stay true and transactions are serial, for every set of calls |
| `BookTheorems` | what any sequence of executions and ticks leaves in the position book |

### State and actions of the core

`accounts`, `orders`, `fills`, `processed`, `history`, `positions` and
`marketPrices` are the tables. `submission`, `cancellation` and `atBroker` are
what lies outside the database: where each `create_order` call stands, which
cancel calls are pending or made, and which orders the broker accepted.

| Action | Code |
|---|---|
| `CreateAccount` | `AccountService.create_account` |
| `RejectNewOrder`, `RouteNewOrder` | the transaction of `create_order`, by the outcome of the buying power check |
| `Submit`, `SubmitRaises` | `submit_order` after the commit: accepted, refused, or accepted with the reply lost |
| `MarkRoutingFailure` | `_mark_routing_failure`, on the session of the same request |
| `RequestCancellation`, `NotifyCancel` | `request_cancellation` and its `cancel_order` after the commit |
| `CompleteFill`, `PartialFill`, `IocPartialFill` | `_apply_fill`, by its three endings |
| `BrokerRejects`, `BrokerCancels`, `IgnoreEvent` | `_apply_rejection`, `_apply_cancellation`, and an event recorded as ignored |
| `MarketTick` | `MarketDataService.apply_tick` |

### State and actions of the runtime

`OmsRuntime` adds to the core what is in memory. `handlers` are the broker calls
that a live handler is about to make after its commit (the `await` in
`create_order` and `request_cancellation`); `tasks` and `queue` are the fake
broker's; `dayOrders` are the DAY orders by `expires_at`, the first `expired` of
which are past it, and `scan` is what is left of the list the expiry worker goes
through. `dropped`, `interrupted` and `faults` only record what happened, for the
properties to refer to.

| Action | Code |
|---|---|
| `OpenAccount`, `PlaceOrder`, `Cancel` | requests: the core's transactions, which leave a handler to call the broker; `PlaceOrder` draws the order's place in `dayOrders` (`DrawExpiry`) |
| `CallSubmit`, `CallCancel` | `submit_order` and `cancel_order`, which start a task |
| `RunTask` | a task whose sleep is over: `_simulate_order` (a rejection, a complete or a partial fill), its second part, `_simulate_cancellation` |
| `ProcessEvent` | the broker event worker takes the oldest event and `process_event` commits |
| `DropUnsettled`, `DropInOutage` | `process_event` raises, because the account cannot settle the event or the database is away; the worker logs it and goes on |
| `Expire` | time passes the `expires_at` of one more order |
| `Scan`, `ExpireNext` | the expiry worker reads its list (`list_expired_day_order_ids`, with its limit) and requests the cancellations one by one |
| `Restart` | the process stops, by shutdown or crash, and starts on the same tables: tasks, queue, handlers and list are gone |

### State and actions of the transactions

`RowLocks` takes the transactions apart. A call is a request, a cancellation, a
broker event, a tick or the `_mark_routing_failure` that follows a `submit_order`
that raised; `Scenarios` are the sets of calls made in one behaviour. `seen` holds
what the statements of a call have returned, `held` the rows it has locked,
`ended` the calls that are over or never made. `RunStatement` runs the next
`SELECT` of a call: it waits if it is `FOR UPDATE` and another call holds the row,
returns the latest committed row and keeps it. `Commit` writes what the session
changed, computed from what it *read* and not from the tables as they are, and
releases the locks; an event that cannot be settled (`~CanSettle`) raises, rolls
back and releases them too. `_mark_routing_failure` runs both its locked reads
and writes what its session remembers (`MarkRoutingFailure`, as in the core).
`CallBroker` is the call after a commit, which may raise if the failure call of
its order is made. `Locks` says which of the repositories' statements are `FOR
UPDATE`. `create_order` looks for the idempotency key and then for the client
order id, in two statements. `create_account` stays whole: it inserts a row that
nothing can refer to before its commit.

### Choices behind the models

- *One transaction, one action.* Each transaction first locks a row that every
  conflicting transaction locks too (account for `create_order`, order for the
  others, then account and position). That committed transactions are therefore
  serial is checked and not assumed: run `row_locks`, `TransactionsAreSerial`.
  One pair is not: a tick concurrent with the fill that inserts the first
  position of an account in its symbol. The core treats that fill as one step;
  run `stale_mark` shows what the code does. Two ticks never overlap: one feed
  task applies them one after another.
- *An exception rolls back*, so a transaction that raises is no step. That holds
  of a violated CHECK or unique constraint too.
- *The stale session.* `AsyncSessionFactory` sets `expire_on_commit=False`, and a
  `SELECT ... FOR UPDATE` without `populate_existing` does not overwrite objects
  the session already holds. `_mark_routing_failure` therefore sees the order and
  the account as `create_order` left them; SQLAlchemy writes only the columns it
  changed (`status`, `reserved_cash`). `reservedBefore` is the one remembered
  value that matters.
- *The core's broker is arbitrary.* It may send any event about an order it was
  told of, with any quantity, price and execution id, in any order and
  repeatedly. That everything the fake broker does is among that is the theorem
  `RuntimeImplementsCore`.
- *The fake broker* draws delays and outcomes at random: tasks take their steps
  in any order, and any outcome with a positive probability may occur. Its calls
  only start a task and never raise, so the runtime has `SubmitFailures = {}`.
  Its event and execution ids are fresh UUIDs; the order and the step that sent
  the event name it.
- *Expiry.* How long a DAY order lives is configuration, so `Expire` may happen at
  any time. `expires_at` is drawn under the account's lock and before the commit:
  orders of one account expire in the order they commit, those of different
  accounts in any order, and one may commit after a later one has expired. An
  order the expiry worker fails to cancel is read by the next scan.
- *The feed* touches only prices and positions. `OmsRuntime` leaves it out;
  `PositionBook`, the core and `RowLocks` have it.
- *Amounts.* A column counts 1/`Scale` units; products are "wide" and rounded only
  when stored, half away from zero. Quotients (average prices) are rounded once;
  the 28 digits Python first rounds them to, and the 24 digits of a column, are
  left out.
- *Left out:* order type (the services do not look at it), `version` columns
  (never compared), reasons, timestamps (of `expires_at` the order and what is
  past), `currency` and `user_id` (an account is its id).
- *`...Mistake` operators* are plausible wrong versions of the operator that
  follows them. No action uses them; put in the place of that operator, each
  makes the property it is aimed at fail, which shows that the property can fail.

## What TLC checks

All core runs have two orders (by symmetry any two), three broker events and two
or three execution ids. Ids bound the behaviours, so all of them end; the runs of
the core, and those of `RowLocks` whose calls are made once, therefore do not
check deadlock: a system whose orders are all terminal and whose ids and calls
are used up has really stopped. The runtime never stops, as the expiry worker
goes on scanning, and is checked for deadlock. Two orders are what it takes to
contend for one account or to overwrite one another; three events are what it
takes for a fill, a racing cancellation and a late duplicate.

| Run | Shows |
|---|---|
| `core_contention` | two buy orders that together exceed the deposit and a sell order, fills below, at and above the limit: reservation, coverage, status and quantities, audit trail, finality, cancel requests |
| `core_positions` | two accounts whose orders open, grow, close and reverse positions between ticks: orders, positions and cash are sums of the fills |
| `core_faults` | `submit_order` refused or its reply lost: what still holds afterwards |
| `core_rounding` | `Scale` 10 with amounts that do not fit a column: what still holds |
| `position_book` | four executions of two accounts at prices that do not divide, with ticks in and out of order |
| `core_implements_escrow` | every step of the core is a step of `Escrow` or a stutter |
| `runtime` | the process with the fake broker, both workers, one outage or restart: orders end, and what may stay behind or be ignored has a cause |
| `row_locks` | twenty-one calls in four scenarios, interleaved by statements: serial, no circle of waiting, lookups stay true |
| `routing_failure_terminal`, `routing_failure_reservation`, `rounded_reservation`, `stale_mark` | four disagreements with the documentation, below |

`Scale` is 1 in most runs, so that columns are exact, and 10 or 2 where rounding is
the subject: the deployment has 10^8, and rounding acts alike at any scale above 1.
Prices are chosen so that fills occur below, at and above the limit.

Symmetry permutes orders, events, executions (and accounts of the position book);
no property names one of them. The runs with a liveness property use none.

**Bounds of `runtime`.** A scan reads one order (`ScanLimit`; the deployment has
100), so that one order nothing will end is enough to starve a later one, which
is what a hundred are there. Two orders are thus the least that shows it, and they
are of two accounts, so that either may expire first. One
fault (`MaxFaults`: a restart or an outage that drops one event) reaches every
loss: before the broker call, in a task, on the queue, in the worker. An order is
a DAY purchase, which may be filled in parts, or an IOC purchase; the other is a
DAY purchase at a cost no column holds, whose settlement is refused: an event
can be dropped without a fault too. Requests, cancellations and events are not
otherwise bounded.

**Bounds of `row_locks`.** A call is made at most once, and `After` makes some wait
for others to keep the interleavings to those that can conflict. There are four
scenarios:

- *Contention*: a request, its retry and another for the same cash; two
  deliveries of one fill, the fill that closes the order, the client's and the
  broker's cancellation; on the other order a fill that cannot be paid, an IOC
  fill and a late rejection; two ticks against the fills of one position.
- *Lost reply*: the reply to a submission is lost, and `_mark_routing_failure`
  races the fill of its order, while another order of the account is placed,
  filled and cancelled by two callers at once.
- *Failed or cancelled*: `_mark_routing_failure` races a cancellation and the fill
  of its own order.
- *Two positions*: a tick that locks the positions of two accounts one after the
  other races the fills of both.

Every two kinds of transaction that lock a row in common meet in one of them. The
ticks wait for the first fills, as the pair that is not serial is `stale_mark`'s
subject.

### Fairness

The core, the position book and the escrow state no fairness: their properties are
safety properties and hold of a system that may stop anywhere.

`OmsRuntime!Fairness` is weak fairness of `EventLoop` and of `ExpiryWorker`. The
first is asyncio's: the loop does not idle while a handler can go on, a task's sleep
is over (all sleeps are finite) or the queue has an event. It does not say which of
them goes first, and `Expire` is among them because time passes. The second: the
expiry worker is a task of that loop that never returns and catches what a scan or a cancellation raises. Clients need not do
anything, and no fault has to occur; a restart is an action after which the
same loop runs again, so fairness says that a process that stopped is started again.

`RowLocks!LocksFairness` is weak fairness of `LocksNext`: the system does not stop
while some statement waits for no lock or some handler is past its commit. Nothing
is assumed of which goes first: every call is made at most once and has a bounded
number of steps, so only calls that wait for one another could keep one from ending.

`OrdersEnd` is then true of a DAY order without any assumption on the broker's
answers: every scan that finds it requests its cancellation. It lists what may
rest: a GTC order, an orphaned cancellation, a DAY order with a whole scan of
older orphans before it, an IOC order whose only event was lost.

### Disagreements with the documentation

1. `_mark_routing_failure` can turn a filled or cancelled order into a rejected
   one (`routing_failure_terminal`): its guard tests a status remembered from
   before the commit.
2. It also writes back the reserved cash remembered from then, so that the
   reservation of other orders is lost or doubled (`routing_failure_reservation`).
3. A reservation whose exact amount does not fit a column is stored rounded, and
   the exact amount can no longer be released from it: such an order can be
   neither filled, rejected nor cancelled (`rounded_reservation`).

4. The first fill of an account in a symbol finds no position row to lock and
   reads the market price without a lock. A tick that commits before it re-marks
   the positions it can see, and the new position is inserted with the price
   from before the tick (`stale_mark`), where the documentation promises the
   latest known one. The next tick repairs it.

`core_faults` and `core_rounding` show what is true in spite of the first three,
`row_locks` what is true once the position exists.

## What is proved

| Theorem | Property | Assumes |
|---|---|---|
| `OrderTheorems!TypeCorrect` | `TypeOK`, including `reserved_cash <= cash_balance` | nothing |
| `SafetyTheorems!StatusAgreesWithQuantities` | `StatusMatchesQuantities` | `ReliableSubmission` |
| `SafetyTheorems!AuditTrailIsComplete` | `AuditTrailExplainsStatus` | `ReliableSubmission` |
| `SafetyTheorems!TerminalOrdersAreFinal` | `TerminalIsFinal` | `ReliableSubmission` |
| `SafetyTheorems!EveryFillHasItsEvent` | `FillsBelongToEvents` | nothing |
| `SafetyTheorems!CancelIsAskedOnce` | `BrokerAskedOnceToCancel` | nothing |
| `EscrowTheorems!CashOnlyMovesWithFills` | `CashMovesWithFills` | nothing |
| `OrderTheorems!PositionsFollowTheMarket` | `PositionsAreMarkedToMarket` | nothing |
| `EscrowTheorems!CoreImplementsEscrow` | `ImplementsEscrow` | `ReliableSubmission`, `ExactCash` |
| `EscrowTheorems!ReservationsFollowOrders` | `ReservationFollowsOrders` | `ReliableSubmission`, `ExactCash` |
| `RuntimeTheorems!RuntimeImplementsCore` | `Spec`, for every behaviour of `RuntimeSpec` | nothing |
| `RuntimeTheorems!CancellationsAreNotLost` | `OrphansHaveACause` | nothing |
| `RuntimeTheorems!IgnoredEventsAreExplained` | `IgnoredEventsHaveACause` | nothing |
| `LedgerTheorems!OrdersAreSumsOfFills` | `FilledQuantityIsSumOfFills` | nothing |
| `LedgerTheorems!PositionsAddUp` | `PositionsAreSumsOfFills` | nothing |
| `LedgerTheorems!CashAddsUp` | `CashIsDepositAndFills` | `ExactCash` |
| `LedgerTheorems!ReservationsAddUp` | `ReservedIsOpenBuys` | `ReliableSubmission`, `ExactCash` |
| `LedgerTheorems!ReservationsCoverOpenOrders` | `OpenOrdersAreCovered` | `ReliableSubmission`, `ExactCash` |
| `BookTheorems!NetIsTheSum` | `NetIsSumOfExecutions` | nothing |
| `BookTheorems!ProfitAddsUp` | `ProfitIsCashFlow` | nothing |
| `BookTheorems!AverageIsTraded` | `AverageIsBetweenPrices` | nothing |
| `BookTheorems!PricesOnlyMoveForward` | `PricesMoveForward` | nothing |
| `BookTheorems!BookIsMarked` | `PositionsAreMarkedToMarket`, of the book alone | nothing |
| `LockTheorems!LookupsAreStable` | `LookupsStayTrue` | nothing |
| `LockTheorems!TransactionsSerialise` | `TransactionsAreSerial` | `[]FirstFillAlone` |
| `LockTheorems!LockedPositionsAreMarked` | `PositionsAreMarkedToMarket`, of `RowLocks` | `[]FirstFillAlone` |

"Nothing" means only the named ASSUMEs on the constants: a positive `Scale`, and
requests, deposits, fills and prices of the types the schemas demand; for the
runtime, that the sets of ids and amounts of the core contain those the fake
broker uses; for `PositionBook`, positive quantities and prices
(`ExecutionsAssumption`); for `RowLocks`, calls whose arguments are those of the
core, an event id that the broker never uses for two orders
(`EventIdsAssumption`), one failing `submit_order` of an order at most
(`FailuresAssumption`), one feed task that applies its ticks in turn
(`TicksAssumption`) and at least one possible deposit (`OpenedAssumption`).
`ReliableSubmission` (`SubmitFailures = {}`), `ExactCash` (`Scale = 1`) and
`[]FirstFillAlone` (no tick overlaps the first fill of an account in its symbol)
are the hypotheses without which the results are false: the violation runs are
the counterexamples. `FirstFillAlone` holds throughout `row_locks`, whose `After`
makes the ticks wait for the first fills, and is what `stale_mark` breaks.

**The argument.** Finality is not inductive: that a terminal order is not filled
again follows from the execution statuses, but that it has nothing left to release
needs the quantities. `OrdersInv` is `TypeOK`, "no `create_order` call is in its
failure branch", `StatusMatchesQuantities` and `AuditTrailExplainsStatus`; it is
inductive under `ReliableSubmission`. Each action is one lemma: it writes one order
row (or adds one), the new row matches its status (`RowMatches`), and its history
is the old one with a path of allowed transitions appended, which gives an
explanation of the new status. `FillsBelongToEvents` and the cancel requests are
inductive together with `TypeOK` alone, so they hold with failures too.

**The refinement** maps `cash_balance - reserved_cash` to free money and
`remaining * price` of an open buy order to what the order holds. Routing is a
`Hold`, a fill of a buy order, a rejection and a cancellation are a `Settle` of
that one order, a fill of a sell order is a `Credit`, and everything else stutters.
That a fill is covered is the CHECK `reserved_cash <= cash_balance`, which the
row must satisfy in order to be committed.

`ReservationsFollowOrders` follows the same cases: each action moves the
reservation of one account by what its lemma says the order's holding moved.

**Marking.** That every position carries the stored price is a matter of which
rows an action rewrites. That its stored unrealized P&L is the one of that price
is true only up to rounding, and the lemmas of `PositionTheorems` bound it: a stored
average is within half a unit of the quotient, a profit from a rounded average is
off by at most the quantity times that, and storing it adds half a unit. The
statement quantifies over the scale, so it holds of the deployment's eight
decimals.

**The process.** `RuntimeImplementsCore` is a refinement by inclusion: the core's
variables are the runtime's. Its content is that whatever the fake broker puts on
the queue is an event the core's arbitrary broker may send about an order it was
told of, and it carries every theorem about `Spec` over to the process, outages
and restarts included. `CancellationsAreNotLost` follows one cancellation from its
handler to the broker's task, to the queue and to the end of the order; its
invariant says that a cancel event is only for an order that asked for it, and that
it is admitted when it arrives. `IgnoredEventsAreExplained` needs to know where an
order stands that nobody asked to cancel and that lost no event (`Quiet`):
waiting for its submission, worked on, answered by one event, answered in part
with the rest in a task or on the queue, or over (`Waiting`, `Working`,
`Answered`, `PartAnswered`, `PartDone`, `BothAnswered`, `Over`). Each stage names the task and the events that
exist and ties their quantities to the row. Only with that does an event at the
head of the queue fit the row (`HeadFits`), so that the service cannot ignore it.

**Sums over tables.** `SumFunction` is a fold whose value is defined by
recursion over sets. The library's induction over finite sets takes an operator
parameter; the lemmas of `PositionTheorems` use the fact it rests on instead, that
the strict subsets of a finite set are well ordered, with a set of subsets in the
place of the operator. From it: the fold satisfies its recursive equation, any
element may be taken out first, and so adding or changing one row adds or changes
one summand (`SumAdded`, `SumChanged`). `LedgerTheorems` then has one step per
transaction: a fill inserts one row and moves the order, the position and the cash
by its quantity and notional, everything else changes no summand. An average price
needs more than that: each fill adds at most the new filled quantity to twice the
drift `|avg * filled - value|`, the rounding of the new average. For reservations
each transaction touches one order, and what that row needs changes by what the
account row does. (`CashIsDepositAndFills` says "a possible deposit": it pins the
deposit when `Deposits` has one member, as in the runs. With more, that cash does
not pass from one to another is the step property, `CashOnlyMovesWithFills`.)
A summand that is not negative is at most its sum
(`SumBounds`): that is `ReservationsCoverOpenOrders`.

**The position book.** `BookInv` ties every row to its executions: the net quantity
is their signed sum, the profit balances with their cash, and the average lies
between two of their prices. The second is inductive only together with a bound on
what is held (`|net|` is at most the traded quantity), because each rounded average
is off by half a unit for every unit held. `AfterFillCases` splits
`calculate_position_after_fill` into its three effects (increase, reduction,
reversal); `CashIdentity` says that before rounding none of them makes or loses
money, `DriftGrows` what one execution's rounding adds, and `AverageBetween` that a
weighted, rounded average stays within the prices it is made of.

**Row locks.** `LocksInv` says that no two calls hold one row, that what a call has
read is a beginning of its statements, and that a row it read `FOR UPDATE` is still
as it was read; commits write only rows their call has locked (or inserts, whose
absence the lock of the account or order protects). `LookupsAreStable` follows: who
inserts a request or a delivery holds the lock its lookup was made under.
`_mark_routing_failure` writes stale values, but to the two rows it has locked, so
that it disturbs no other call's reads; it is the core's action by itself. For
serializability a commit must be a step of the core from the tables as they are
*then*. Account, order and position were read under a lock, so they are current; the
price and the set of positions were not. `SerialInv` adds that the price a fill has
read is current while its position exists, because a tick needs that position's
lock, and that the positions a tick has read are all there are of its symbol.
Both fail for a first fill, and only for it: hence `FirstFillAlone`. With that,
each commit is matched with the action of `OrderManagement` it is.

**Only model-checked:** the liveness properties `OrdersEnd` and `EveryCallEnds`,
which rest on fairness and are out of the prover's reach. Every other property of
a passing run is also proved. That the violation runs fail is TLC's to show.

## Not modelled

- *The websocket client* reconnects, parses a JSON feed and calls `apply_tick`. It
  keeps no state of the system; what it can deliver, ticks with any price and
  time, with gaps and out of order but one at a time, is what the models take as
  input. That a tick without a timestamp gets the local time cannot be told from
  the feed's own time by anything in the program.
- *The HTTP API, schemas and dependency wiring.* Each endpoint calls one service
  method. What the schemas admit is the type of the requests.
- *P&L reads and listings* change nothing.
- *Configuration, logging, migrations, packaging, tests.* The migration declares
  the constraints the models have.
- *Connections.* A lost connection is an exception like any other: the
  transaction is rolled back, and an event of it is dropped (`DropInOutage`). A
  commit whose acknowledgement is lost is not modelled.

## Plan

Done: the core, the position book, the escrow refinement, the runtime, the
statement-level transactions, and the theorems above. What is left is to prove more:

1. What `CashAddsUp` and `ReservationsCoverOpenOrders` become at a scale above 1:
   the bounds on what rounding may add up to.
2. The stages of `IgnoredEventsAreExplained` for orders with a cancellation
   requested: which events may then be ignored.
