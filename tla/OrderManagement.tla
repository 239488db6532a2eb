-------------------------- MODULE OrderManagement --------------------------
(* The order management core: OrderService, CancellationService,            *)
(* ExecutionService, OrderLifecycleService and the tables they share.        *)
(*                                                                           *)
(* Every database transaction is one action.  create_order holds the account *)
(* row from its first statement, request_cancellation and process_event hold *)
(* the order row, and all of them lock an account or position row before     *)
(* they write it, so committed transactions on common rows are serial.  A    *)
(* handler that goes on after its commit (submit_order, cancel_order,        *)
(* _mark_routing_failure) continues in an action of its own, and any other   *)
(* handler may run in between.  An exception rolls its transaction back: the *)
(* action is not enabled.  One pair of transactions is not serial: a tick    *)
(* that commits while the first fill of an account in its symbol is under    *)
(* way does not lock the position that fill inserts, and the new position    *)
(* keeps the older mark until the next tick.                                 *)
(*                                                                           *)
(* A few operators stand before the one they are a broken variant of: they   *)
(* are called ...Mistake, no action uses them, and substituted for that      *)
(* operator they show which property notices the mistake.                    *)
EXTENDS OrderStateMachine, Positions, Sequences, FiniteSets

CONSTANTS
    OrderIds,         \* ids create_order may draw
    RequestKeys,      \* idempotency keys and client order ids
    Requests,         \* the OrderCreate payloads clients may send
    Deposits,         \* initial cash balances
    EventIds,         \* broker event ids
    ExecIds,          \* broker execution ids
    FillQuantities,   \* quantities a fill event may report
    FillPrices,       \* prices a fill event may report
    SubmitFailures    \* how submit_order may raise: subset of {"refused", "lost_reply"}

Request == [account: Accounts, key: RequestKeys, client: RequestKeys, symbol: Symbols,
            side: {"BUY", "SELL"}, tif: {"DAY", "GTC", "IOC"},
            quantity: Nat \ {0}, price: Nat \ {0}]

ASSUME RequestsAssumption == Requests \subseteq Request
ASSUME DepositsAssumption == Deposits \subseteq Nat
ASSUME FillsAssumption ==
    /\ FillQuantities \subseteq Nat \ {0}
    /\ FillPrices \subseteq Nat \ {0}
ASSUME SubmitFailuresAssumption == SubmitFailures \subseteq {"refused", "lost_reply"}

VARIABLES
    accounts,       \* account -> row
    orders,         \* order -> row
    fills,          \* the fills table
    processed,      \* broker event id -> row of processed_broker_events
    history,        \* order -> its order_events, oldest first
    submission,     \* order -> where its create_order call stands
    cancellation,   \* order -> broker cancel calls pending and made
    atBroker        \* orders the broker has accepted

orderVars == <<orders, history, submission, cancellation, atBroker>>
ledgerVars == <<accounts, fills, processed>>
vars == <<orderVars, ledgerVars, bookVars>>

Account == [cash: Nat, reserved: Nat]
Order == [req: Requests, status: OrderStatus,
          filled: Nat, cancelled: Nat, remaining: Nat, avgFill: Nat]
Fill == [order: OrderIds, event: EventIds, exec: ExecIds, quantity: Nat, price: Nat]
BrokerEventType == {"FULL_FILL", "PARTIAL_FILL", "REJECTED", "CANCELLED"}
ProcessedEvent == [order: OrderIds, type: BrokerEventType, outcome: {"APPLIED", "IGNORED"}]
OrderEventType == {"ORDER_CREATED", "VALIDATION_FAILED", "ORDER_VALIDATED", "ORDER_ROUTED",
                   "PARTIAL_FILL_RECEIVED", "FULL_FILL_RECEIVED", "CANCEL_REQUESTED",
                   "ORDER_CANCELLED", "ORDER_REJECTED", "BROKER_EVENT_IGNORED"}
OrderEvent == [type: OrderEventType, previous: OrderStatus \cup {"NONE"}, new: OrderStatus]
Submission == [stage: {"submitting", "failing", "done"}, reservedBefore: Nat]
Cancellation == [pending: Nat, sent: Nat]

AccountsTypeOK ==
    /\ DOMAIN accounts \subseteq Accounts
    /\ accounts \in [DOMAIN accounts -> Account]
    /\ \A a \in DOMAIN accounts : accounts[a].reserved <= accounts[a].cash

OrdersTypeOK ==
    /\ DOMAIN orders \subseteq OrderIds
    /\ orders \in [DOMAIN orders -> Order]
    /\ \A o \in DOMAIN orders : orders[o].req.account \in DOMAIN accounts
    /\ history \in [DOMAIN orders -> Seq(OrderEvent)]

EventsTypeOK ==
    /\ fills \subseteq Fill
    /\ DOMAIN processed \subseteq EventIds
    /\ processed \in [DOMAIN processed -> ProcessedEvent]

HandlersTypeOK ==
    /\ submission \in [DOMAIN orders -> Submission]
    /\ cancellation \in [DOMAIN orders -> Cancellation]
    /\ atBroker \subseteq DOMAIN orders

(* The tables hold rows of their types, every order belongs to an account,    *)
(* and no transaction commits an account whose reservation exceeds its cash.  *)
TypeOK == AccountsTypeOK /\ OrdersTypeOK /\ EventsTypeOK /\ HandlersTypeOK /\ PositionsTypeOK

-----------------------------------------------------------------------------
(* Accounts.  A row is written only if it satisfies the CHECK constraints;   *)
(* otherwise the transaction aborts.                                         *)

(* The constraint reserved_cash <= cash_balance missing.                     *)
AccountChecksMistake(row) == 0 <= row.reserved
AccountChecks(row) == 0 <= row.reserved /\ row.reserved <= row.cash

StoredAccount(cashWide, reservedWide) ==
    [cash |-> Stored(cashWide), reserved |-> Stored(reservedWide)]

SaveAccount(account, row) ==
    /\ AccountChecks(row)
    /\ accounts' = [accounts EXCEPT ![account] = row]

CreateAccount(account, deposit) ==
    /\ account \notin DOMAIN accounts
    /\ accounts' = Put(accounts, account, [cash |-> deposit, reserved |-> 0])
    /\ UNCHANGED <<orderVars, fills, processed, bookVars>>

-----------------------------------------------------------------------------
(* Order creation.  A request that repeats an idempotency key returns the    *)
(* stored order or raises DuplicateOrder, and one that repeats only a client *)
(* order id raises: neither changes a table.                                 *)

IsNewRequest(req) ==
    \A o \in DOMAIN orders :
        orders[o].req.account = req.account =>
            /\ orders[o].req.key # req.key
            /\ orders[o].req.client # req.client

RequiredBuyingPower(req) == IF req.side = "BUY" THEN req.quantity * req.price ELSE 0

AvailableCash(account) == accounts[account].cash - accounts[account].reserved

HasBuyingPower(req) == RequiredBuyingPower(req) <= Wide(AvailableCash(req.account))

NewOrder(req, status) ==
    [req |-> req, status |-> status,
     filled |-> 0, cancelled |-> 0, remaining |-> req.quantity, avgFill |-> 0]

Created == [type |-> "ORDER_CREATED", previous |-> "NONE", new |-> "NEW"]

(* The previous status read after the order was updated.                     *)
TransitionMistake(type, previous, new) == [type |-> type, previous |-> new, new |-> new]
Transition(type, previous, new) == [type |-> type, previous |-> previous, new |-> new]

(* An order row is rewritten together with its audit events:                  *)
(* OrderLifecycleService.transition and append_event.                         *)
SaveOrder(o, row, audit) ==
    /\ orders' = [orders EXCEPT ![o] = row]
    /\ history' = [history EXCEPT ![o] = @ \o audit]

(* What remains of a create_order call whose handler has returned.           *)
Finished == [stage |-> "done", reservedBefore |-> 0]

AddOrder(o, req, status, audit, call) ==
    /\ o \notin DOMAIN orders
    /\ req.account \in DOMAIN accounts
    /\ IsNewRequest(req)
    /\ orders' = Put(orders, o, NewOrder(req, status))
    /\ history' = Put(history, o, audit)
    /\ submission' = Put(submission, o, call)
    /\ cancellation' = Put(cancellation, o, [pending |-> 0, sent |-> 0])
    /\ UNCHANGED <<fills, processed, atBroker, bookVars>>

RejectNewOrder(o, req) ==
    /\ AddOrder(o, req, "REJECTED",
                <<Created, Transition("VALIDATION_FAILED", "NEW", "REJECTED")>>, Finished)
    /\ ~HasBuyingPower(req)
    /\ UNCHANGED accounts

RouteNewOrder(o, req) ==
    /\ AddOrder(o, req, "ROUTED",
                <<Created, Transition("ORDER_VALIDATED", "NEW", "VALIDATED"),
                  Transition("ORDER_ROUTED", "VALIDATED", "ROUTED")>>,
                [stage |-> "submitting", reservedBefore |-> accounts[req.account].reserved])
    /\ HasBuyingPower(req)
    /\ LET account == accounts[req.account]
       IN  SaveAccount(req.account,
               StoredAccount(Wide(account.cash),
                             Wide(account.reserved) + RequiredBuyingPower(req)))

(* submit_order, called after the commit.                                    *)
Submit(o) ==
    /\ submission[o].stage = "submitting"
    /\ submission' = [submission EXCEPT ![o] = Finished]
    /\ atBroker' = atBroker \cup {o}
    /\ UNCHANGED <<orders, history, cancellation, ledgerVars, bookVars>>

(* submit_order raises: the broker refused the order, or accepted it and the *)
(* reply was lost.                                                           *)
SubmitRaises(o, failure) ==
    /\ submission[o].stage = "submitting"
    /\ submission' = [submission EXCEPT ![o].stage = "failing"]
    /\ atBroker' = IF failure = "lost_reply" THEN atBroker \cup {o} ELSE atBroker
    /\ UNCHANGED <<orders, history, cancellation, ledgerVars, bookVars>>

(* _mark_routing_failure runs on the session that created the order, whose   *)
(* identity map still holds the order and the account as create_order left   *)
(* them (expire_on_commit=False, no populate_existing).  It therefore always *)
(* sees ROUTED with nothing filled, and the reserved cash it writes is the   *)
(* value that session had loaded.  A violated CHECK aborts the transaction.  *)
MarkRoutingFailure(o) ==
    LET req == orders[o].req
        row == IF req.side = "BUY"
               THEN [accounts[req.account] EXCEPT !.reserved = submission[o].reservedBefore]
               ELSE accounts[req.account]
    IN  /\ submission[o].stage = "failing"
        /\ submission' = [submission EXCEPT ![o] = Finished]
        /\ \/ /\ SaveAccount(req.account, row)
              /\ SaveOrder(o, [orders[o] EXCEPT !.status = "REJECTED"],
                           <<Transition("ORDER_REJECTED", "ROUTED", "REJECTED")>>)
           \/ /\ ~AccountChecks(row)
              /\ UNCHANGED <<accounts, orders, history>>
        /\ UNCHANGED <<cancellation, atBroker, fills, processed, bookVars>>

-----------------------------------------------------------------------------
(* Cancellation, requested by a client or by the DAY expiry worker.  An      *)
(* order already CANCEL_PENDING is returned as it is; any other status       *)
(* raises InvalidCancellation.                                               *)

RequestCancellation(o) ==
    /\ orders[o].status \in CANCELLABLE_ORDER_STATUSES
    /\ SaveOrder(o, [orders[o] EXCEPT !.status = "CANCEL_PENDING"],
                 <<Transition("CANCEL_REQUESTED", orders[o].status, "CANCEL_PENDING")>>)
    /\ cancellation' = [cancellation EXCEPT ![o].pending = @ + 1]
    /\ UNCHANGED <<submission, atBroker, ledgerVars, bookVars>>

(* cancel_order, called after the commit.                                    *)
NotifyCancel(o) ==
    /\ cancellation[o].pending > 0
    /\ cancellation' = [cancellation EXCEPT ![o] =
            [pending |-> @.pending - 1, sent |-> @.sent + 1]]
    /\ UNCHANGED <<orders, history, submission, atBroker, ledgerVars, bookVars>>

-----------------------------------------------------------------------------
(* Broker events.  process_event applies an event once: a second delivery of *)
(* its id returns before changing anything, and an event that raises leaves  *)
(* no trace.  The broker is free to send any event of an order it knows, in  *)
(* any order; it need not be right about quantities, prices or execution ids. *)

FillEvent == [id: EventIds, order: OrderIds, type: {"FULL_FILL", "PARTIAL_FILL"},
              quantity: FillQuantities, price: FillPrices, exec: ExecIds]
StatusEvent == [id: EventIds, order: OrderIds, type: {"REJECTED", "CANCELLED"}]

KnownToBroker(o, type) ==
    \/ o \in atBroker
    \/ type = "CANCELLED" /\ o \in DOMAIN orders /\ cancellation[o].sent > 0

(* The processed_broker_events lookup missing.                               *)
FreshMistake(e) == KnownToBroker(e.order, e.type)
Fresh(e) == KnownToBroker(e.order, e.type) /\ e.id \notin DOMAIN processed

Record(e, outcome) ==
    processed' = Put(processed, e.id, [order |-> e.order, type |-> e.type, outcome |-> outcome])

FillAccepted(row, e) ==
    /\ row.status \in EXECUTABLE_STATUSES
    /\ e.quantity <= row.remaining
    /\ e.type = "FULL_FILL" => e.quantity = row.remaining

(* The fill replaces what was filled before.                                 *)
FilledOrderMistake(row, e) ==
    [row EXCEPT !.avgFill = e.price, !.filled = e.quantity, !.remaining = @ - e.quantity]
FilledOrder(row, e) ==
    [row EXCEPT !.avgFill = RoundDiv(@ * row.filled + e.quantity * e.price,
                                     row.filled + e.quantity),
                !.filled = @ + e.quantity,
                !.remaining = @ - e.quantity]

(* The cancelled quantity not counted.                                       *)
CancelledOrderMistake(row) == [row EXCEPT !.remaining = 0, !.status = "CANCELLED"]
CancelledOrder(row) ==
    [row EXCEPT !.cancelled = @ + row.remaining, !.remaining = 0, !.status = "CANCELLED"]

(* The whole order's reservation released by every fill.                     *)
ReleaseMistake(req, quantity) == IF req.side = "BUY" THEN req.quantity * req.price ELSE 0

(* The fill paid for at the limit price.                                     *)
PaymentMistake(req, e) ==
    IF req.side = "BUY" THEN -(e.quantity * req.price) ELSE e.quantity * req.price

(* The wide amount a fill releases from the reservation, and what it pays.   *)
Release(req, quantity) == IF req.side = "BUY" THEN quantity * req.price ELSE 0
Payment(req, e) == IF req.side = "BUY" THEN -(e.quantity * e.price) ELSE e.quantity * e.price

CashAfter(account, req, e) == Wide(account.cash) + Payment(req, e)
ReservedAfter(account, req, quantity) == Wide(account.reserved) - Release(req, quantity)

(* The account row the fill is first flushed with: by the insert of its      *)
(* position or, at the latest, of its audit event.                           *)
SettledAccount(account, req, e) ==
    StoredAccount(CashAfter(account, req, e), ReservedAfter(account, req, e.quantity))

FillSettles(account, req, e) ==
    /\ ReservedAfter(account, req, e.quantity) >= 0
    /\ CashAfter(account, req, e) >= 0
    /\ AccountChecks(SettledAccount(account, req, e))

(* The part of _apply_fill every applied fill shares.                        *)
ApplyFill(e) ==
    LET req == orders[e.order].req
    IN  /\ Fresh(e)
        /\ FillAccepted(orders[e.order], e)
        /\ \A f \in fills : f.event # e.id /\ f.exec # e.exec
        /\ fills' = fills \cup {[order |-> e.order, event |-> e.id, exec |-> e.exec,
                                 quantity |-> e.quantity, price |-> e.price]}
        /\ FillSettles(accounts[req.account], req, e)
        /\ ApplyExecution(req.account, req.symbol, req.side, e.quantity, e.price)
        /\ Record(e, "APPLIED")
        /\ UNCHANGED <<submission, cancellation, atBroker>>

FillAccount(e) ==
    LET req == orders[e.order].req
    IN  SaveAccount(req.account, SettledAccount(accounts[req.account], req, e))

(* A fill that leaves nothing open.                                          *)
CompleteFill(e) ==
    LET row == orders[e.order]
    IN  /\ ApplyFill(e)
        /\ e.quantity = row.remaining
        /\ FillAccount(e)
        /\ SaveOrder(e.order, [FilledOrder(row, e) EXCEPT !.status = "FILLED"],
                     <<Transition("FULL_FILL_RECEIVED", row.status, "FILLED")>>)

(* A fill that leaves a remainder resting.                                   *)
PartialFill(e) ==
    LET row    == orders[e.order]
        status == IF row.status = "ROUTED" THEN "PARTIALLY_FILLED" ELSE row.status
    IN  /\ ApplyFill(e)
        /\ e.quantity < row.remaining
        /\ row.req.tif # "IOC"
        /\ FillAccount(e)
        /\ SaveOrder(e.order, [FilledOrder(row, e) EXCEPT !.status = status],
                     <<Transition("PARTIAL_FILL_RECEIVED", row.status, status)>>)

(* A partial fill of an IOC order, whose remainder is cancelled in the same  *)
(* transaction: both releases are taken from the unrounded reservation.      *)
IocPartialFill(e) ==
    LET row     == orders[e.order]
        req     == row.req
        account == accounts[req.account]
    IN  /\ ApplyFill(e)
        /\ e.quantity < row.remaining
        /\ req.tif = "IOC"
        /\ ReservedAfter(account, req, row.remaining) >= 0
        /\ SaveAccount(req.account,
                StoredAccount(CashAfter(account, req, e),
                              ReservedAfter(account, req, row.remaining)))
        /\ SaveOrder(e.order, CancelledOrder(FilledOrder(row, e)),
                     <<Transition("PARTIAL_FILL_RECEIVED", row.status, row.status),
                       Transition("ORDER_CANCELLED", row.status, "CANCELLED")>>)

(* The ordered quantity released instead of the remaining one.               *)
ReleaseRemainingMistake(row) ==
    LET account  == accounts[row.req.account]
        reserved == ReservedAfter(account, row.req, row.req.quantity)
    IN  /\ reserved >= 0
        /\ SaveAccount(row.req.account, StoredAccount(Wide(account.cash), reserved))

(* _release_remaining_reservation.                                           *)
ReleaseRemaining(row) ==
    LET account  == accounts[row.req.account]
        reserved == ReservedAfter(account, row.req, row.remaining)
    IN  /\ reserved >= 0
        /\ SaveAccount(row.req.account, StoredAccount(Wide(account.cash), reserved))

BrokerRejects(e) ==
    LET row == orders[e.order]
    IN  /\ Fresh(e)
        /\ e.type = "REJECTED"
        /\ row.status = "ROUTED"
        /\ ReleaseRemaining(row)
        /\ SaveOrder(e.order, [row EXCEPT !.status = "REJECTED"],
                     <<Transition("ORDER_REJECTED", "ROUTED", "REJECTED")>>)
        /\ Record(e, "APPLIED")
        /\ UNCHANGED <<fills, submission, cancellation, atBroker, bookVars>>

BrokerCancels(e) ==
    LET row == orders[e.order]
    IN  /\ Fresh(e)
        /\ e.type = "CANCELLED"
        /\ row.status \in EXECUTABLE_STATUSES
        /\ ReleaseRemaining(row)
        /\ SaveOrder(e.order, CancelledOrder(row),
                     <<Transition("ORDER_CANCELLED", row.status, "CANCELLED")>>)
        /\ Record(e, "APPLIED")
        /\ UNCHANGED <<fills, submission, cancellation, atBroker, bookVars>>

(* An event the order's state does not admit is recorded as ignored.         *)
NotAdmitted(row, e) ==
    \/ e.type \in {"FULL_FILL", "PARTIAL_FILL"} /\ ~FillAccepted(row, e)
    \/ e.type = "REJECTED" /\ row.status # "ROUTED"
    \/ e.type = "CANCELLED" /\ row.status \notin EXECUTABLE_STATUSES

IgnoreEvent(e) ==
    LET row == orders[e.order]
    IN  /\ Fresh(e)
        /\ NotAdmitted(row, e)
        /\ SaveOrder(e.order, row, <<Transition("BROKER_EVENT_IGNORED", row.status, row.status)>>)
        /\ Record(e, "IGNORED")
        /\ UNCHANGED <<accounts, fills, submission, cancellation, atBroker, bookVars>>

MarketTick == Tick /\ UNCHANGED <<orderVars, ledgerVars>>

-----------------------------------------------------------------------------
Init ==
    /\ BookInit
    /\ accounts = NoRows /\ orders = NoRows /\ processed = NoRows
    /\ history = NoRows /\ submission = NoRows /\ cancellation = NoRows
    /\ fills = {} /\ atBroker = {}

OrderStep(o) ==
    \/ Submit(o)
    \/ \E failure \in SubmitFailures : SubmitRaises(o, failure)
    \/ MarkRoutingFailure(o)
    \/ RequestCancellation(o)
    \/ NotifyCancel(o)

FillStep(e) == CompleteFill(e) \/ PartialFill(e) \/ IocPartialFill(e) \/ IgnoreEvent(e)
StatusStep(e) == BrokerRejects(e) \/ BrokerCancels(e) \/ IgnoreEvent(e)

Next ==
    \/ \E a \in Accounts, d \in Deposits : CreateAccount(a, d)
    \/ \E o \in OrderIds, req \in Requests : RejectNewOrder(o, req) \/ RouteNewOrder(o, req)
    \/ \E o \in DOMAIN orders : OrderStep(o)
    \/ \E e \in FillEvent : FillStep(e)
    \/ \E e \in StatusEvent : StatusStep(e)
    \/ MarketTick

Spec == Init /\ [][Next]_vars
=============================================================================
