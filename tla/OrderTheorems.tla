--------------------------- MODULE OrderTheorems ---------------------------
(* Type correctness of the order management core, the lemmas about its        *)
(* operators that the other theorems rest on, and marking to market.          *)
EXTENDS OrderProperties, PositionTheorems

(* The amounts a fill or a release is computed from are whole numbers.        *)
LEMMA RequestType ==
    ASSUME NEW req \in Requests
    PROVE  /\ req \in Request
           /\ req.quantity \in Nat \ {0} /\ req.price \in Nat \ {0}
           /\ RequiredBuyingPower(req) \in Nat
<1>1. req \in Request /\ req.quantity \in Nat \ {0} /\ req.price \in Nat \ {0}
  BY RequestsAssumption DEF Request
<1>2. req.quantity * req.price \in Nat
  BY <1>1, ProductNat
<1> QED
  BY <1>1, <1>2 DEF RequiredBuyingPower

LEMMA ReleaseType ==
    ASSUME NEW req \in Requests, NEW quantity \in Nat
    PROVE  Release(req, quantity) \in Nat
<1>1. quantity * req.price \in Nat
  BY RequestType, ProductNat
<1> QED
  BY <1>1 DEF Release

LEMMA EventType ==
    ASSUME NEW e \in FillEvent
    PROVE  /\ e.id \in EventIds /\ e.order \in OrderIds /\ e.exec \in ExecIds
           /\ e.type \in {"FULL_FILL", "PARTIAL_FILL"}
           /\ e.quantity \in Nat \ {0} /\ e.price \in Nat \ {0}
           /\ e.quantity * e.price \in Nat
<1>1. /\ e.id \in EventIds /\ e.order \in OrderIds /\ e.exec \in ExecIds
      /\ e.type \in {"FULL_FILL", "PARTIAL_FILL"}
      /\ e.quantity \in Nat \ {0} /\ e.price \in Nat \ {0}
  BY FillsAssumption DEF FillEvent
<1> QED
  BY <1>1, ProductNat

(* A known event is about an order in the table.                              *)
LEMMA FreshKnown ==
    ASSUME TypeOK, NEW e, Fresh(e)
    PROVE  e.order \in DOMAIN orders
  BY DEF TypeOK, HandlersTypeOK, Fresh, KnownToBroker

(* A transaction that stores an account row it computed keeps the accounts    *)
(* table well typed, because the CHECK constraints admitted the row.          *)
LEMMA SaveAccountType ==
    ASSUME AccountsTypeOK, NEW a \in DOMAIN accounts,
           NEW row \in [cash: Int, reserved: Int], SaveAccount(a, row)
    PROVE  AccountsTypeOK' /\ DOMAIN accounts' = DOMAIN accounts
<1>1. row \in Account /\ row.reserved <= row.cash
  BY DEF SaveAccount, AccountChecks, Account
<1>2. accounts' = [accounts EXCEPT ![a] = row]
  BY DEF SaveAccount
<1> QED
  BY <1>1, <1>2 DEF AccountsTypeOK

LEMMA StoredAccountType ==
    ASSUME NEW c \in Int, NEW r \in Int
    PROVE  StoredAccount(c, r) \in [cash: Int, reserved: Int]
  BY StoredType DEF StoredAccount

LEMMA AfterType ==
    ASSUME NEW account \in Account, NEW req \in Requests, NEW e \in FillEvent, NEW quantity \in Nat
    PROVE  /\ CashAfter(account, req, e) \in Int
           /\ ReservedAfter(account, req, quantity) \in Int
           /\ Wide(account.cash) \in Int /\ Wide(account.reserved) \in Int
<1>1. account.cash \in Nat /\ account.reserved \in Nat /\ Scale \in Nat
  BY ScaleAssumption DEF Account
<1>2. Wide(account.cash) \in Int /\ Wide(account.reserved) \in Int
  BY <1>1 DEF Wide
<1>3. Payment(req, e) \in Int
  BY EventType DEF Payment
<1> QED
  BY <1>2, <1>3, ReleaseType DEF CashAfter, ReservedAfter

(* An accepted fill leaves a row of the right type.                           *)
LEMMA FilledOrderType ==
    ASSUME NEW row \in Order, NEW e \in FillEvent, FillAccepted(row, e)
    PROVE  /\ FilledOrder(row, e) \in Order
           /\ FilledOrder(row, e).filled = row.filled + e.quantity
           /\ FilledOrder(row, e).remaining = row.remaining - e.quantity
           /\ FilledOrder(row, e).cancelled = row.cancelled
           /\ FilledOrder(row, e).status = row.status
           /\ FilledOrder(row, e).req = row.req
<1>1. /\ row.filled \in Nat /\ row.avgFill \in Nat /\ row.remaining \in Nat
      /\ e.quantity \in Nat \ {0} /\ e.quantity * e.price \in Nat /\ e.quantity <= row.remaining
  BY EventType DEF Order, FillAccepted
<1>2. row.avgFill * row.filled \in Nat
  BY <1>1, ProductNat
<1>3. RoundDiv(row.avgFill * row.filled + e.quantity * e.price, row.filled + e.quantity) \in Nat
  BY <1>1, <1>2, RoundDivType
<1> DEFINE x == FilledOrder(row, e)
           avg == RoundDiv(row.avgFill * row.filled + e.quantity * e.price,
                           row.filled + e.quantity)
<1>4. x = [req |-> row.req, status |-> row.status, filled |-> row.filled + e.quantity,
           cancelled |-> row.cancelled, remaining |-> row.remaining - e.quantity,
           avgFill |-> avg]
  <2>1. /\ DOMAIN x = {"req", "status", "filled", "cancelled", "remaining", "avgFill"}
        /\ x = [k \in DOMAIN x |-> x[k]]
    BY DEF FilledOrder, Order
  <2>2. /\ x.req = row.req /\ x.status = row.status /\ x.filled = row.filled + e.quantity
        /\ x.cancelled = row.cancelled /\ x.remaining = row.remaining - e.quantity
        /\ x.avgFill = avg
    <3> HIDE DEF avg
    <3>1. FilledOrder(row, e) = [row EXCEPT !.avgFill = avg, !.filled = @ + e.quantity,
                                            !.remaining = @ - e.quantity]
      BY DEF FilledOrder, avg
    <3> QED
      BY <3>1 DEF Order
  <2> HIDE DEF x, avg
  <2> QED
    BY <2>1, <2>2
<1>5. /\ row.req \in Requests /\ row.status \in OrderStatus /\ row.cancelled \in Nat
      /\ row.filled + e.quantity \in Nat /\ row.remaining - e.quantity \in Nat
  BY <1>1 DEF Order
<1> QED
  BY <1>3, <1>4, <1>5 DEF Order

LEMMA CancelledOrderType ==
    ASSUME NEW row \in Order
    PROVE  /\ CancelledOrder(row) =
                 [req |-> row.req, status |-> "CANCELLED", filled |-> row.filled,
                  cancelled |-> row.cancelled + row.remaining, remaining |-> 0,
                  avgFill |-> row.avgFill]
           /\ CancelledOrder(row) \in Order
<1> DEFINE x == CancelledOrder(row)
<1>1. x = [req |-> row.req, status |-> "CANCELLED", filled |-> row.filled,
           cancelled |-> row.cancelled + row.remaining, remaining |-> 0,
           avgFill |-> row.avgFill]
  <2>1. /\ DOMAIN x = {"req", "status", "filled", "cancelled", "remaining", "avgFill"}
        /\ x = [k \in DOMAIN x |-> x[k]]
    BY DEF CancelledOrder, Order
  <2>2. /\ x.req = row.req /\ x.status = "CANCELLED" /\ x.filled = row.filled
        /\ x.cancelled = row.cancelled + row.remaining /\ x.remaining = 0
        /\ x.avgFill = row.avgFill
    BY DEF CancelledOrder, Order
  <2> HIDE DEF x
  <2> QED
    BY <2>1, <2>2
<1> QED
  BY <1>1 DEF Order, OrderStatus

LEMMA NewOrderType ==
    ASSUME NEW req \in Requests, NEW status \in OrderStatus
    PROVE  NewOrder(req, status) \in Order
  BY RequestType DEF NewOrder, Order, Request

(* Events built by Transition are audit events.                               *)
LEMMA TransitionType ==
    ASSUME NEW type \in OrderEventType, NEW previous \in OrderStatus, NEW new \in OrderStatus
    PROVE  /\ Transition(type, previous, new) \in OrderEvent
           /\ Transition(type, previous, new).previous = previous
           /\ Transition(type, previous, new).new = new
  BY DEF Transition, OrderEvent

(* A transaction that rewrites one order row and appends to its history.      *)
LEMMA SaveOrderType ==
    ASSUME TypeOK, NEW o \in DOMAIN orders, NEW row \in Order, row.req = orders[o].req,
           NEW audit \in Seq(OrderEvent), SaveOrder(o, row, audit),
           DOMAIN accounts' = DOMAIN accounts
    PROVE  OrdersTypeOK' /\ DOMAIN orders' = DOMAIN orders
<1>1. orders' = [orders EXCEPT ![o] = row] /\ history' = [history EXCEPT ![o] = @ \o audit]
  BY DEF SaveOrder
<1>2. history[o] \o audit \in Seq(OrderEvent)
  BY DEF TypeOK, OrdersTypeOK
<1>3. history' \in [DOMAIN orders -> Seq(OrderEvent)]
  BY <1>1, <1>2 DEF TypeOK, OrdersTypeOK
<1>4. orders' \in [DOMAIN orders -> Order] /\ DOMAIN orders' = DOMAIN orders
  BY <1>1 DEF TypeOK, OrdersTypeOK
<1>5. \A p \in DOMAIN orders' : orders'[p].req = orders[p].req
  BY <1>1, <1>4 DEF TypeOK, OrdersTypeOK
<1> QED
  BY <1>3, <1>4, <1>5 DEF TypeOK, OrdersTypeOK

LEMMA RecordType ==
    ASSUME TypeOK, NEW e, e.id \in EventIds, e.order \in OrderIds, e.type \in BrokerEventType,
           NEW outcome \in {"APPLIED", "IGNORED"}, Record(e, outcome)
    PROVE  /\ DOMAIN processed' = DOMAIN processed \cup {e.id}
           /\ DOMAIN processed' \subseteq EventIds
           /\ processed' \in [DOMAIN processed' -> ProcessedEvent]
<1> DEFINE new == [order |-> e.order, type |-> e.type, outcome |-> outcome]
<1>1. new \in ProcessedEvent
  BY DEF ProcessedEvent
<1>2. processed' = Put(processed, e.id, new)
  BY DEF Record
<1> HIDE DEF new
<1> QED
  BY <1>1, <1>2 DEF Put, TypeOK, EventsTypeOK

(* What every applied fill knows of its order and its account.                *)
LEMMA FillContext ==
    ASSUME TypeOK, NEW e \in FillEvent, ApplyFill(e)
    PROVE  /\ e.order \in DOMAIN orders
           /\ orders[e.order] \in Order
           /\ orders[e.order].req \in Requests
           /\ orders[e.order].req.account \in DOMAIN accounts
           /\ accounts[orders[e.order].req.account] \in Account
           /\ FillAccepted(orders[e.order], e)
<1>1. Fresh(e) /\ FillAccepted(orders[e.order], e)
  BY DEF ApplyFill
<1>2. e.order \in DOMAIN orders
  BY <1>1, FreshKnown
<1> QED
  BY <1>1, <1>2 DEF TypeOK, OrdersTypeOK, AccountsTypeOK, Order

LEMMA ApplyFillType ==
    ASSUME TypeOK, NEW e \in FillEvent, ApplyFill(e), DOMAIN orders' = DOMAIN orders
    PROVE  EventsTypeOK' /\ PositionsTypeOK' /\ HandlersTypeOK'
<1> DEFINE req == orders[e.order].req
           f == [order |-> e.order, event |-> e.id, exec |-> e.exec,
                 quantity |-> e.quantity, price |-> e.price]
<1>1. /\ fills' = fills \cup {f}
      /\ ApplyExecution(req.account, req.symbol, req.side, e.quantity, e.price)
      /\ Record(e, "APPLIED")
      /\ UNCHANGED <<submission, cancellation, atBroker>>
  BY DEF ApplyFill
<1>2. f \in Fill
  BY EventType DEF Fill
<1>3. EventsTypeOK'
  <2>1. e.type \in BrokerEventType
    BY EventType DEF BrokerEventType
  <2>2. DOMAIN processed' \subseteq EventIds /\ processed' \in [DOMAIN processed' -> ProcessedEvent]
    BY <1>1, <2>1, EventType, RecordType
  <2> QED
    BY <1>1, <1>2, <2>2 DEF TypeOK, EventsTypeOK
<1>4. req.account \in Accounts /\ req.symbol \in Symbols
  BY FillContext, RequestType DEF Request
<1>5. PositionsTypeOK'
  BY <1>1, <1>4, EventType, ApplyExecutionType DEF TypeOK
<1>6. HandlersTypeOK'
  BY <1>1 DEF TypeOK, HandlersTypeOK
<1> QED
  BY <1>3, <1>5, <1>6

(* The account row a complete or partial fill saves.                          *)
LEMMA FillAccountType ==
    ASSUME TypeOK, NEW e \in FillEvent, ApplyFill(e), FillAccount(e)
    PROVE  AccountsTypeOK' /\ DOMAIN accounts' = DOMAIN accounts
<1> DEFINE req == orders[e.order].req
           row == SettledAccount(accounts[req.account], req, e)
<1>1. SaveAccount(req.account, row) /\ req.account \in DOMAIN accounts
  BY FillContext DEF FillAccount
<1>2. row \in [cash: Int, reserved: Int]
  BY FillContext, EventType, AfterType, StoredAccountType DEF SettledAccount
<1> HIDE DEF row
<1> QED
  BY <1>1, <1>2, SaveAccountType DEF TypeOK

(* The account row a rejection or cancellation saves.                         *)
LEMMA ReleaseRemainingType ==
    ASSUME TypeOK, NEW o \in DOMAIN orders, ReleaseRemaining(orders[o])
    PROVE  AccountsTypeOK' /\ DOMAIN accounts' = DOMAIN accounts
<1> DEFINE row == orders[o]
           account == accounts[row.req.account]
           reserved == ReservedAfter(account, row.req, row.remaining)
<1>1. row \in Order /\ row.req.account \in DOMAIN accounts /\ account \in Account
  BY DEF TypeOK, OrdersTypeOK, AccountsTypeOK
<1>2. row.req \in Requests /\ row.remaining \in Nat
  BY <1>1 DEF Order
<1>3. reserved \in Int /\ Wide(account.cash) \in Int
  <2>1. account.cash \in Nat /\ account.reserved \in Nat /\ Scale \in Nat
    BY <1>1, ScaleAssumption DEF Account
  <2>2. Wide(account.cash) \in Int /\ Wide(account.reserved) \in Int
    BY <2>1 DEF Wide
  <2>3. Release(row.req, row.remaining) \in Nat
    BY <1>2, ReleaseType
  <2> QED
    BY <2>2, <2>3 DEF ReservedAfter
<1>4. SaveAccount(row.req.account, StoredAccount(Wide(account.cash), reserved))
  BY DEF ReleaseRemaining
<1> HIDE DEF row, account, reserved
<1>5. StoredAccount(Wide(account.cash), reserved) \in [cash: Int, reserved: Int]
  BY <1>3, StoredAccountType
<1> QED
  BY <1>1, <1>4, <1>5, SaveAccountType DEF TypeOK

-----------------------------------------------------------------------------
(* Every action keeps the types.                                              *)

LEMMA CreateAccountType ==
    ASSUME TypeOK, NEW a \in Accounts, NEW d \in Deposits, CreateAccount(a, d)
    PROVE  TypeOK'
<1> DEFINE new == [cash |-> d, reserved |-> 0]
<1>1. new \in Account /\ new.reserved <= new.cash
  BY DepositsAssumption DEF Account
<1>2. accounts' = Put(accounts, a, new)
  BY DEF CreateAccount
<1> HIDE DEF new
<1>3. AccountsTypeOK' /\ DOMAIN accounts \subseteq DOMAIN accounts'
  BY <1>1, <1>2 DEF Put, TypeOK, AccountsTypeOK
<1> QED
  BY <1>3 DEF CreateAccount, TypeOK, OrdersTypeOK, EventsTypeOK, HandlersTypeOK,
              PositionsTypeOK, orderVars, bookVars

LEMMA AddOrderType ==
    ASSUME TypeOK, NEW o \in OrderIds, NEW req \in Requests, NEW status \in OrderStatus,
           NEW audit \in Seq(OrderEvent), NEW call \in Submission,
           AddOrder(o, req, status, audit, call),
           AccountsTypeOK', DOMAIN accounts' = DOMAIN accounts
    PROVE  TypeOK'
<1> DEFINE row == NewOrder(req, status)
           calls == [pending |-> 0, sent |-> 0]
<1>1. row \in Order /\ row.req = req /\ calls \in Cancellation
  BY NewOrderType DEF NewOrder, Cancellation
<1>2. /\ orders' = Put(orders, o, row)
      /\ history' = Put(history, o, audit)
      /\ submission' = Put(submission, o, call)
      /\ cancellation' = Put(cancellation, o, calls)
      /\ req.account \in DOMAIN accounts
      /\ UNCHANGED <<fills, processed, atBroker, bookVars>>
  BY DEF AddOrder
<1> HIDE DEF row, calls
<1>3. DOMAIN orders' = DOMAIN orders \cup {o} /\ orders' \in [DOMAIN orders' -> Order]
  BY <1>1, <1>2 DEF Put, TypeOK, OrdersTypeOK
<1>4. \A p \in DOMAIN orders' : orders'[p].req.account \in DOMAIN accounts'
  BY <1>1, <1>2 DEF Put, TypeOK, OrdersTypeOK
<1>5. history' \in [DOMAIN orders' -> Seq(OrderEvent)]
  BY <1>2, <1>3 DEF Put, TypeOK, OrdersTypeOK
<1>6. submission' \in [DOMAIN orders' -> Submission]
  BY <1>2, <1>3 DEF Put, TypeOK, HandlersTypeOK
<1>7. cancellation' \in [DOMAIN orders' -> Cancellation]
  BY <1>1, <1>2, <1>3 DEF Put, TypeOK, HandlersTypeOK
<1> QED
  BY <1>2, <1>3, <1>4, <1>5, <1>6, <1>7
     DEF TypeOK, OrdersTypeOK, EventsTypeOK, HandlersTypeOK, PositionsTypeOK, bookVars

LEMMA RejectNewOrderType ==
    ASSUME TypeOK, NEW o \in OrderIds, NEW req \in Requests, RejectNewOrder(o, req)
    PROVE  TypeOK'
<1> DEFINE audit == <<Created, Transition("VALIDATION_FAILED", "NEW", "REJECTED")>>
<1>1. audit \in Seq(OrderEvent)
  BY DEF Created, Transition, OrderEvent, OrderEventType, OrderStatus
<1>2. Finished \in Submission
  BY DEF Finished, Submission
<1>3. AddOrder(o, req, "REJECTED", audit, Finished) /\ UNCHANGED accounts
  BY DEF RejectNewOrder
<1> HIDE DEF audit
<1> QED
  BY <1>1, <1>2, <1>3, AddOrderType DEF TypeOK, AccountsTypeOK, OrderStatus

LEMMA RouteNewOrderType ==
    ASSUME TypeOK, NEW o \in OrderIds, NEW req \in Requests, RouteNewOrder(o, req)
    PROVE  TypeOK'
<1> DEFINE audit == <<Created, Transition("ORDER_VALIDATED", "NEW", "VALIDATED"),
                      Transition("ORDER_ROUTED", "VALIDATED", "ROUTED")>>
           account == accounts[req.account]
           call == [stage |-> "submitting", reservedBefore |-> account.reserved]
           row == StoredAccount(Wide(account.cash),
                                Wide(account.reserved) + RequiredBuyingPower(req))
<1>1. audit \in Seq(OrderEvent)
  BY DEF Created, Transition, OrderEvent, OrderEventType, OrderStatus
<1>2. AddOrder(o, req, "ROUTED", audit, call) /\ SaveAccount(req.account, row)
  BY DEF RouteNewOrder
<1>3. req.account \in DOMAIN accounts /\ account \in Account
  BY <1>2 DEF AddOrder, TypeOK, AccountsTypeOK
<1>4. call \in Submission
  BY <1>3 DEF Account, Submission
<1>5. row \in [cash: Int, reserved: Int]
  <2>1. account.cash \in Nat /\ account.reserved \in Nat /\ Scale \in Nat
    BY <1>3, ScaleAssumption DEF Account
  <2>2. Wide(account.cash) \in Int /\ Wide(account.reserved) \in Int
    BY <2>1 DEF Wide
  <2>3. Wide(account.reserved) + RequiredBuyingPower(req) \in Int
    BY <2>2, RequestType
  <2> HIDE DEF account
  <2> QED
    BY <2>2, <2>3, StoredAccountType
<1> HIDE DEF audit, account, call, row
<1>6. AccountsTypeOK' /\ DOMAIN accounts' = DOMAIN accounts
  BY <1>2, <1>3, <1>5, SaveAccountType DEF TypeOK
<1> QED
  BY <1>1, <1>2, <1>4, <1>6, AddOrderType DEF OrderStatus

LEMMA SubmissionType ==
    ASSUME TypeOK, NEW o \in DOMAIN orders,
           Submit(o) \/ \E failure \in SubmitFailures : SubmitRaises(o, failure)
    PROVE  TypeOK'
<1>1. /\ submission' \in [DOMAIN orders -> Submission]
      /\ atBroker' \subseteq DOMAIN orders
  <2>1. Finished \in Submission
    BY DEF Finished, Submission
  <2>2. CASE Submit(o)
    BY <2>1, <2>2 DEF Submit, TypeOK, HandlersTypeOK
  <2>3. CASE \E failure \in SubmitFailures : SubmitRaises(o, failure)
    <3>1. [submission[o] EXCEPT !.stage = "failing"] \in Submission
      BY DEF TypeOK, HandlersTypeOK, Submission
    <3>2. submission' = [submission EXCEPT ![o].stage = "failing"]
          /\ atBroker' \subseteq atBroker \cup {o}
      BY <2>3 DEF SubmitRaises
    <3> QED
      BY <3>1, <3>2 DEF TypeOK, HandlersTypeOK
  <2> QED
    BY <2>2, <2>3
<1>2. UNCHANGED <<orders, history, cancellation, ledgerVars, bookVars>>
  BY DEF Submit, SubmitRaises
<1> QED
  BY <1>1, <1>2 DEF TypeOK, AccountsTypeOK, OrdersTypeOK, EventsTypeOK, HandlersTypeOK,
                    PositionsTypeOK, ledgerVars, bookVars

LEMMA MarkRoutingFailureType ==
    ASSUME TypeOK, NEW o \in DOMAIN orders, MarkRoutingFailure(o)
    PROVE  TypeOK'
<1> DEFINE req == orders[o].req
           row == IF req.side = "BUY"
                  THEN [accounts[req.account] EXCEPT !.reserved = submission[o].reservedBefore]
                  ELSE accounts[req.account]
           new == [orders[o] EXCEPT !.status = "REJECTED"]
           audit == <<Transition("ORDER_REJECTED", "ROUTED", "REJECTED")>>
<1>1. req.account \in DOMAIN accounts /\ accounts[req.account] \in Account
  BY DEF TypeOK, OrdersTypeOK, AccountsTypeOK
<1>2. row \in [cash: Int, reserved: Int]
  BY <1>1 DEF TypeOK, HandlersTypeOK, Submission, Account
<1>3. submission' \in [DOMAIN orders -> Submission]
  BY DEF MarkRoutingFailure, TypeOK, HandlersTypeOK, Finished, Submission
<1>4. UNCHANGED <<cancellation, atBroker, fills, processed, bookVars>>
  BY DEF MarkRoutingFailure
<1>5. AccountsTypeOK' /\ OrdersTypeOK' /\ DOMAIN orders' = DOMAIN orders
  <2>1. CASE ~AccountChecks(row) /\ UNCHANGED <<accounts, orders, history>>
    BY <2>1 DEF TypeOK, AccountsTypeOK, OrdersTypeOK
  <2>2. CASE /\ SaveAccount(req.account, row)
             /\ SaveOrder(o, new, audit)
    <3>1. AccountsTypeOK' /\ DOMAIN accounts' = DOMAIN accounts
      <4> HIDE DEF row, req
      <4> QED
        BY <1>1, <1>2, <2>2, SaveAccountType DEF TypeOK
    <3>2. new \in Order /\ new.req = req
      BY DEF TypeOK, OrdersTypeOK, Order, OrderStatus
    <3>3. audit \in Seq(OrderEvent)
      BY DEF Transition, OrderEvent, OrderEventType, OrderStatus
    <3> HIDE DEF new, audit
    <3> QED
      BY <2>2, <3>1, <3>2, <3>3, SaveOrderType
  <2> QED
    BY <2>1, <2>2 DEF MarkRoutingFailure
<1> QED
  BY <1>3, <1>4, <1>5 DEF TypeOK, EventsTypeOK, HandlersTypeOK, PositionsTypeOK, bookVars

LEMMA CancellationType ==
    ASSUME TypeOK, NEW o \in DOMAIN orders, RequestCancellation(o) \/ NotifyCancel(o)
    PROVE  TypeOK'
<1>1. CASE RequestCancellation(o)
  <2> DEFINE new == [orders[o] EXCEPT !.status = "CANCEL_PENDING"]
             audit == <<Transition("CANCEL_REQUESTED", orders[o].status, "CANCEL_PENDING")>>
  <2>1. orders[o] \in Order /\ new \in Order /\ new.req = orders[o].req
    BY DEF TypeOK, OrdersTypeOK, Order, OrderStatus
  <2>2. audit \in Seq(OrderEvent)
    BY <2>1 DEF Transition, OrderEvent, OrderEventType, OrderStatus, Order
  <2>3. /\ SaveOrder(o, new, audit)
        /\ cancellation' = [cancellation EXCEPT ![o].pending = @ + 1]
        /\ UNCHANGED <<submission, atBroker, ledgerVars, bookVars>>
    BY <1>1 DEF RequestCancellation
  <2> HIDE DEF new, audit
  <2>4. OrdersTypeOK' /\ DOMAIN orders' = DOMAIN orders
    BY <2>1, <2>2, <2>3, SaveOrderType DEF ledgerVars
  <2>5. cancellation' \in [DOMAIN orders -> Cancellation]
    <3>1. [cancellation[o] EXCEPT !.pending = @ + 1] \in Cancellation
      BY DEF TypeOK, HandlersTypeOK, Cancellation
    <3> QED
      BY <2>3, <3>1 DEF TypeOK, HandlersTypeOK
  <2> QED
    BY <2>3, <2>4, <2>5
       DEF TypeOK, AccountsTypeOK, EventsTypeOK, HandlersTypeOK, PositionsTypeOK,
           ledgerVars, bookVars
<1>2. CASE NotifyCancel(o)
  <2>1. cancellation' \in [DOMAIN orders -> Cancellation]
    <3>1. cancellation[o].pending - 1 \in Nat /\ cancellation[o].sent + 1 \in Nat
      BY <1>2 DEF NotifyCancel, TypeOK, HandlersTypeOK, Cancellation
    <3> QED
      BY <1>2, <3>1 DEF NotifyCancel, TypeOK, HandlersTypeOK, Cancellation
  <2>2. UNCHANGED <<orders, history, submission, atBroker, ledgerVars, bookVars>>
    BY <1>2 DEF NotifyCancel
  <2> QED
    BY <2>1, <2>2 DEF TypeOK, AccountsTypeOK, OrdersTypeOK, EventsTypeOK, HandlersTypeOK,
                      PositionsTypeOK, ledgerVars, bookVars
<1> QED
  BY <1>1, <1>2

LEMMA FillTypes ==
    ASSUME TypeOK, NEW e \in FillEvent,
           CompleteFill(e) \/ PartialFill(e) \/ IocPartialFill(e)
    PROVE  TypeOK'
<1> DEFINE row == orders[e.order]
           req == row.req
           filled == FilledOrder(row, e)
<1>1. ApplyFill(e)
  BY DEF CompleteFill, PartialFill, IocPartialFill
<1>2. /\ e.order \in DOMAIN orders /\ row \in Order /\ req \in Requests
      /\ req.account \in DOMAIN accounts /\ accounts[req.account] \in Account
      /\ FillAccepted(row, e)
  BY <1>1, FillContext
<1>3. filled \in Order /\ filled.req = req /\ row.status \in OrderStatus
  BY <1>2, FilledOrderType DEF Order
<1>4. AccountsTypeOK' /\ DOMAIN accounts' = DOMAIN accounts
  <2>1. CASE FillAccount(e)
    BY <1>1, <2>1, FillAccountType
  <2>2. CASE IocPartialFill(e)
    <3> DEFINE saved == StoredAccount(CashAfter(accounts[req.account], req, e),
                                      ReservedAfter(accounts[req.account], req, row.remaining))
    <3>1. SaveAccount(req.account, saved)
      BY <2>2 DEF IocPartialFill
    <3>2. row.remaining \in Nat
      BY <1>2 DEF Order
    <3>3. saved \in [cash: Int, reserved: Int]
      BY <1>2, <3>2, AfterType, StoredAccountType
    <3> HIDE DEF saved, req
    <3> QED
      BY <1>2, <3>1, <3>3, SaveAccountType DEF TypeOK
  <2> QED
    BY <2>1, <2>2 DEF CompleteFill, PartialFill
<1>5. OrdersTypeOK' /\ DOMAIN orders' = DOMAIN orders
  <2>1. CASE CompleteFill(e)
    <3> DEFINE saved == [filled EXCEPT !.status = "FILLED"]
               audit == <<Transition("FULL_FILL_RECEIVED", row.status, "FILLED")>>
    <3>1. SaveOrder(e.order, saved, audit)
      BY <2>1 DEF CompleteFill
    <3>2. saved \in Order /\ saved.req = req
      <4> HIDE DEF filled
      <4> QED
        BY <1>3 DEF Order, OrderStatus
    <3>3. audit \in Seq(OrderEvent)
      BY <1>3 DEF Transition, OrderEvent, OrderEventType, OrderStatus
    <3> HIDE DEF saved, audit
    <3> QED
      BY <1>2, <1>4, <3>1, <3>2, <3>3, SaveOrderType
  <2>2. CASE PartialFill(e)
    <3> DEFINE status == IF row.status = "ROUTED" THEN "PARTIALLY_FILLED" ELSE row.status
               saved == [filled EXCEPT !.status = status]
               audit == <<Transition("PARTIAL_FILL_RECEIVED", row.status, status)>>
    <3>1. SaveOrder(e.order, saved, audit)
      BY <2>2 DEF PartialFill
    <3>2. status \in OrderStatus
      BY <1>3 DEF OrderStatus
    <3>3. saved \in Order /\ saved.req = req
      <4> HIDE DEF filled, status
      <4> QED
        BY <1>3, <3>2 DEF Order
    <3>4. audit \in Seq(OrderEvent)
      <4> HIDE DEF status
      <4> QED
        BY <1>3, <3>2, TransitionType DEF OrderEventType
    <3> HIDE DEF saved, audit
    <3> QED
      BY <1>2, <1>4, <3>1, <3>3, <3>4, SaveOrderType
  <2>3. CASE IocPartialFill(e)
    <3> DEFINE saved == CancelledOrder(filled)
               audit == <<Transition("PARTIAL_FILL_RECEIVED", row.status, row.status),
                          Transition("ORDER_CANCELLED", row.status, "CANCELLED")>>
    <3>1. SaveOrder(e.order, saved, audit)
      BY <2>3 DEF IocPartialFill
    <3>2. saved \in Order /\ saved.req = req
      BY <1>3, CancelledOrderType
    <3>3. audit \in Seq(OrderEvent)
      BY <1>3 DEF Transition, OrderEvent, OrderEventType, OrderStatus
    <3> HIDE DEF saved, audit
    <3> QED
      BY <1>2, <1>4, <3>1, <3>2, <3>3, SaveOrderType
  <2> QED
    BY <2>1, <2>2, <2>3
<1> QED
  BY <1>1, <1>4, <1>5, ApplyFillType DEF TypeOK

LEMMA StatusEventTypes ==
    ASSUME TypeOK, NEW e \in StatusEvent, BrokerRejects(e) \/ BrokerCancels(e)
    PROVE  TypeOK'
<1> DEFINE row == orders[e.order]
<1>1. /\ e.id \in EventIds /\ e.order \in OrderIds /\ e.type \in BrokerEventType
      /\ e.order \in DOMAIN orders /\ row \in Order /\ row.status \in OrderStatus
  <2>1. e.order \in DOMAIN orders
    BY FreshKnown DEF BrokerRejects, BrokerCancels
  <2> QED
    BY <2>1 DEF StatusEvent, BrokerEventType, TypeOK, OrdersTypeOK, Order
<1>2. /\ ReleaseRemaining(row) /\ Record(e, "APPLIED")
      /\ UNCHANGED <<fills, submission, cancellation, atBroker, bookVars>>
  BY DEF BrokerRejects, BrokerCancels
<1>3. AccountsTypeOK' /\ DOMAIN accounts' = DOMAIN accounts
  BY <1>1, <1>2, ReleaseRemainingType
<1>4. EventsTypeOK'
  BY <1>1, <1>2, RecordType DEF TypeOK, EventsTypeOK
<1>5. OrdersTypeOK' /\ DOMAIN orders' = DOMAIN orders
  <2>1. CASE BrokerRejects(e)
    <3> DEFINE saved == [row EXCEPT !.status = "REJECTED"]
               audit == <<Transition("ORDER_REJECTED", "ROUTED", "REJECTED")>>
    <3>1. SaveOrder(e.order, saved, audit)
      BY <2>1 DEF BrokerRejects
    <3>2. saved \in Order /\ saved.req = row.req
      BY <1>1 DEF Order, OrderStatus
    <3>3. audit \in Seq(OrderEvent)
      BY TransitionType DEF OrderEventType, OrderStatus
    <3> HIDE DEF saved, audit
    <3> QED
      BY <1>1, <1>3, <3>1, <3>2, <3>3, SaveOrderType
  <2>2. CASE BrokerCancels(e)
    <3> DEFINE saved == CancelledOrder(row)
               audit == <<Transition("ORDER_CANCELLED", row.status, "CANCELLED")>>
    <3>1. SaveOrder(e.order, saved, audit)
      BY <2>2 DEF BrokerCancels
    <3>2. saved \in Order /\ saved.req = row.req
      BY <1>1, CancelledOrderType
    <3>3. audit \in Seq(OrderEvent)
      BY <1>1 DEF Transition, OrderEvent, OrderEventType, OrderStatus
    <3> HIDE DEF saved, audit
    <3> QED
      BY <1>1, <1>3, <3>1, <3>2, <3>3, SaveOrderType
  <2> QED
    BY <2>1, <2>2
<1> QED
  BY <1>2, <1>3, <1>4, <1>5 DEF TypeOK, HandlersTypeOK, PositionsTypeOK, bookVars

LEMMA IgnoreEventType ==
    ASSUME TypeOK, NEW e, e \in FillEvent \/ e \in StatusEvent, IgnoreEvent(e)
    PROVE  TypeOK'
<1> DEFINE row == orders[e.order]
           audit == <<Transition("BROKER_EVENT_IGNORED", row.status, row.status)>>
<1>1. e.id \in EventIds /\ e.order \in OrderIds /\ e.type \in BrokerEventType
  BY DEF FillEvent, StatusEvent, BrokerEventType
<1>2. e.order \in DOMAIN orders
  BY FreshKnown DEF IgnoreEvent
<1>3. row \in Order /\ row.status \in OrderStatus
  BY <1>2 DEF TypeOK, OrdersTypeOK, Order
<1>4. /\ SaveOrder(e.order, row, audit) /\ Record(e, "IGNORED")
      /\ UNCHANGED <<accounts, fills, submission, cancellation, atBroker, bookVars>>
  BY DEF IgnoreEvent
<1>5. audit \in Seq(OrderEvent)
  BY <1>3, TransitionType DEF OrderEventType
<1>6. OrdersTypeOK' /\ DOMAIN orders' = DOMAIN orders
  <2> HIDE DEF audit
  <2> QED
    BY <1>2, <1>3, <1>4, <1>5, SaveOrderType
<1>7. EventsTypeOK'
  BY <1>1, <1>4, RecordType DEF TypeOK, EventsTypeOK
<1> QED
  BY <1>4, <1>6, <1>7 DEF TypeOK, AccountsTypeOK, HandlersTypeOK, PositionsTypeOK, bookVars

LEMMA MarketTickType ==
    ASSUME TypeOK, MarketTick
    PROVE  TypeOK'
<1>1. PositionsTypeOK'
  BY TickType DEF MarketTick, TypeOK
<1> QED
  BY <1>1 DEF MarketTick, TypeOK, AccountsTypeOK, OrdersTypeOK, EventsTypeOK, HandlersTypeOK,
              orderVars, ledgerVars

LEMMA TypeCorrectInit ==
    ASSUME Init
    PROVE  TypeOK
<1>1. PositionsTypeOK
  BY BookInitType DEF Init
<1>2. DOMAIN NoRows = {}
  BY DEF NoRows
<1> QED
  BY <1>1, <1>2 DEF Init, TypeOK, AccountsTypeOK, OrdersTypeOK, EventsTypeOK, HandlersTypeOK

LEMMA TypeCorrectStep ==
    ASSUME TypeOK, [Next]_vars
    PROVE  TypeOK'
<1>1. ASSUME NEW a \in Accounts, NEW d \in Deposits, CreateAccount(a, d) PROVE TypeOK'
  BY <1>1, CreateAccountType
<1>2. ASSUME NEW o \in OrderIds, NEW req \in Requests,
             RejectNewOrder(o, req) \/ RouteNewOrder(o, req)
      PROVE  TypeOK'
  BY <1>2, RejectNewOrderType, RouteNewOrderType
<1>3. ASSUME NEW o \in DOMAIN orders, OrderStep(o) PROVE TypeOK'
  BY <1>3, SubmissionType, MarkRoutingFailureType, CancellationType DEF OrderStep
<1>4. ASSUME NEW e \in FillEvent, FillStep(e) PROVE TypeOK'
  BY <1>4, FillTypes, IgnoreEventType DEF FillStep
<1>5. ASSUME NEW e \in StatusEvent, StatusStep(e) PROVE TypeOK'
  BY <1>5, StatusEventTypes, IgnoreEventType DEF StatusStep
<1>6. ASSUME MarketTick PROVE TypeOK'
  BY <1>6, MarketTickType
<1>7. ASSUME UNCHANGED vars PROVE TypeOK'
  BY <1>7 DEF TypeOK, AccountsTypeOK, OrdersTypeOK, EventsTypeOK, HandlersTypeOK,
              PositionsTypeOK, vars, orderVars, ledgerVars, bookVars
<1> QED
  BY <1>1, <1>2, <1>3, <1>4, <1>5, <1>6, <1>7 DEF Next

(* Every behaviour of the core keeps the tables well typed: in particular no  *)
(* transaction commits a negative cash balance, a negative reservation, a     *)
(* negative remaining quantity or a reservation above the cash it reserves.   *)
THEOREM TypeCorrect == Spec => []TypeOK
  BY TypeCorrectInit, TypeCorrectStep, PTL DEF Spec
-----------------------------------------------------------------------------
(* What a step does to positions and market prices.                           *)
LEMMA BookShape ==
    ASSUME TypeOK, [Next]_vars
    PROVE  \/ UNCHANGED bookVars
           \/ Tick
           \/ \E e \in FillEvent : ApplyFill(e)
<1> DEFINE Goal == UNCHANGED bookVars \/ Tick \/ \E e \in FillEvent : ApplyFill(e)
<1>1. ASSUME NEW a \in Accounts, NEW d \in Deposits, CreateAccount(a, d) PROVE Goal
  BY <1>1 DEF CreateAccount
<1>2. ASSUME NEW o \in OrderIds, NEW req \in Requests,
             RejectNewOrder(o, req) \/ RouteNewOrder(o, req)
      PROVE  Goal
  BY <1>2 DEF RejectNewOrder, RouteNewOrder, AddOrder, bookVars
<1>3. ASSUME NEW o \in DOMAIN orders, OrderStep(o) PROVE Goal
  BY <1>3 DEF OrderStep, Submit, SubmitRaises, MarkRoutingFailure, RequestCancellation,
              NotifyCancel, bookVars
<1>4. ASSUME NEW e \in FillEvent, CompleteFill(e) \/ PartialFill(e) \/ IocPartialFill(e)
      PROVE  Goal
  BY <1>4 DEF CompleteFill, PartialFill, IocPartialFill
<1>5. ASSUME NEW e, IgnoreEvent(e) \/ BrokerRejects(e) \/ BrokerCancels(e) PROVE Goal
  BY <1>5 DEF IgnoreEvent, BrokerRejects, BrokerCancels, bookVars
<1>6. CASE MarketTick \/ UNCHANGED vars
  BY <1>6 DEF MarketTick, vars
<1> QED
  BY <1>1, <1>2, <1>3, <1>4, <1>5, <1>6 DEF Next, FillStep, StatusStep

LEMMA MarkedStep ==
    ASSUME TypeOK, PositionsAreMarkedToMarket, [Next]_vars
    PROVE  PositionsAreMarkedToMarket'
<1>1. PositionsTypeOK
  BY DEF TypeOK
<1>2. CASE UNCHANGED bookVars
  BY <1>2 DEF bookVars, PositionsAreMarkedToMarket
<1>3. CASE Tick
  BY <1>1, <1>3, ApplyTickMarks DEF Tick
<1>4. ASSUME NEW e \in FillEvent, ApplyFill(e) PROVE PositionsAreMarkedToMarket'
  <2> DEFINE req == orders[e.order].req
  <2>1. req.account \in Accounts /\ req.symbol \in Symbols
    BY <1>4, FillContext, RequestType DEF Request
  <2>2. ApplyExecution(req.account, req.symbol, req.side, e.quantity, e.price)
    BY <1>4 DEF ApplyFill
  <2> HIDE DEF req
  <2> QED
    BY <1>1, <2>1, <2>2, EventType, ApplyExecutionMarks
<1> QED
  BY <1>2, <1>3, <1>4, BookShape

(* At every scale and in every order of fills and ticks, a position carries   *)
(* the stored price of its symbol and the unrealized P&L of that mark, to the *)
(* rounding of the stored average and P&L: each handler that moves a position *)
(* or a price computes the P&L anew and never from what rounding left of it.  *)
THEOREM PositionsFollowTheMarket == Spec => []PositionsAreMarkedToMarket
<1>1. Init => PositionsAreMarkedToMarket
  BY DEF Init, BookInit, NoRows, PositionsAreMarkedToMarket
<1> QED
  BY <1>1, TypeCorrect, MarkedStep, PTL DEF Spec
=============================================================================
