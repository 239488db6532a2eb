--------------------------- MODULE SafetyTheorems ---------------------------
(* The safety properties of the order management core, for every set of       *)
(* accounts, requests, broker events and prices.                              *)
EXTENDS OrderTheorems

(* Without submission failures no create_order call is ever in its failure    *)
(* handler.                                                                   *)
NoCallFails == \A o \in DOMAIN orders : submission[o].stage # "failing"

(* How a transaction may rewrite an order row.                                *)
FillsPart(row, new) ==
    /\ row.status \in EXECUTABLE_STATUSES
    /\ row.filled < new.filled /\ new.filled <= row.filled + row.remaining
    /\ new.remaining = row.remaining - (new.filled - row.filled)
    /\ new.cancelled = row.cancelled
    /\ new.status = IF new.remaining = 0 THEN "FILLED"
                    ELSE IF row.status = "ROUTED" THEN "PARTIALLY_FILLED" ELSE row.status

Closes(row, new) ==
    /\ row.status \in EXECUTABLE_STATUSES
    /\ row.filled <= new.filled /\ new.filled < row.filled + row.remaining
    /\ new.remaining = 0
    /\ new.cancelled = row.cancelled + row.remaining - (new.filled - row.filled)
    /\ new.status = "CANCELLED"

KeepsQuantities(row, new) ==
    new.filled = row.filled /\ new.cancelled = row.cancelled /\ new.remaining = row.remaining

RowChange(row, new) ==
    /\ new.req = row.req
    /\ \/ FillsPart(row, new)
       \/ Closes(row, new)
       \/ /\ KeepsQuantities(row, new)
          /\ \/ row.status = "ROUTED" /\ new.status = "REJECTED"
             \/ row.status \in CANCELLABLE_ORDER_STATUSES /\ new.status = "CANCEL_PENDING"

(* A sequence of audit events that leads from one status to another.          *)
Leads(audit, from, to) ==
    /\ audit # <<>>
    /\ audit[1].previous = from
    /\ audit[Len(audit)].new = to
    /\ \A i \in 1 .. Len(audit) :
           /\ i > 1 => audit[i].previous = audit[i - 1].new
           /\ audit[i].previous # audit[i].new =>
                  TransitionAllowed(audit[i].previous, audit[i].new)

LEMMA LeadsOne ==
    ASSUME NEW type, NEW from, NEW to, from = to \/ TransitionAllowed(from, to)
    PROVE  Leads(<<Transition(type, from, to)>>, from, to)
  BY DEF Leads, Transition

LEMMA LeadsTwo ==
    ASSUME NEW first, NEW second, NEW from, NEW to, TransitionAllowed(from, to)
    PROVE  Leads(<<Transition(first, from, from), Transition(second, from, to)>>, from, to)
  BY DEF Leads, Transition

LEMMA AllowedFacts ==
    /\ TransitionAllowed("ROUTED", "REJECTED")
    /\ \A s \in CANCELLABLE_ORDER_STATUSES : TransitionAllowed(s, "CANCEL_PENDING")
    /\ \A s \in EXECUTABLE_STATUSES : TransitionAllowed(s, "CANCELLED") /\ TransitionAllowed(s, "FILLED")
    /\ TransitionAllowed("ROUTED", "PARTIALLY_FILLED")
    /\ TransitionAllowed("NEW", "REJECTED") /\ TransitionAllowed("NEW", "VALIDATED")
    /\ TransitionAllowed("VALIDATED", "ROUTED")
  BY DEF TransitionAllowed, ALLOWED_TRANSITIONS, OrderStatus, CANCELLABLE_ORDER_STATUSES,
         EXECUTABLE_STATUSES

(* A step that concerns an order in the table, as a rewriting of its row.     *)
Rewrites(o, new, audit) ==
    /\ SaveOrder(o, new, audit)
    /\ audit \in Seq(OrderEvent)
    /\ new \in Order
    /\ new = orders[o] \/ RowChange(orders[o], new)
    /\ Leads(audit, orders[o].status, new.status)

LEMMA CancellationRewrites ==
    ASSUME TypeOK, NEW o \in DOMAIN orders, RequestCancellation(o)
    PROVE  \E new, audit : Rewrites(o, new, audit)
<1> DEFINE row == orders[o]
           new == [row EXCEPT !.status = "CANCEL_PENDING"]
           audit == <<Transition("CANCEL_REQUESTED", row.status, "CANCEL_PENDING")>>
<1>1. row.status \in CANCELLABLE_ORDER_STATUSES /\ SaveOrder(o, new, audit)
  BY DEF RequestCancellation
<1>2. row \in Order /\ new \in Order
  BY DEF TypeOK, OrdersTypeOK, Order, OrderStatus
<1>3. RowChange(row, new) /\ new.status = "CANCEL_PENDING"
  BY <1>1, <1>2 DEF RowChange, KeepsQuantities, Order
<1>4. Leads(audit, row.status, "CANCEL_PENDING")
  BY <1>1, AllowedFacts, LeadsOne
<1>5. audit \in Seq(OrderEvent)
  BY <1>2 DEF Transition, OrderEvent, OrderEventType, OrderStatus, Order
<1> HIDE DEF new, audit
<1> QED
  BY <1>1, <1>2, <1>3, <1>4, <1>5 DEF Rewrites

LEMMA CompleteFillRewrites ==
    ASSUME TypeOK, NEW e \in FillEvent, CompleteFill(e)
    PROVE  \E new, audit : Rewrites(e.order, new, audit)
<1> DEFINE row == orders[e.order]
           filled == FilledOrder(row, e)
           new == [filled EXCEPT !.status = "FILLED"]
           audit == <<Transition("FULL_FILL_RECEIVED", row.status, "FILLED")>>
<1>1. ApplyFill(e) /\ e.quantity = row.remaining /\ SaveOrder(e.order, new, audit)
  BY DEF CompleteFill
<1>2. row \in Order /\ FillAccepted(row, e)
  BY <1>1, FillContext
<1>3. /\ filled \in Order /\ filled.filled = row.filled + e.quantity
      /\ filled.remaining = row.remaining - e.quantity
      /\ filled.cancelled = row.cancelled /\ filled.req = row.req
  BY <1>2, FilledOrderType
<1>4. e.quantity \in Nat \ {0} /\ row.filled \in Nat /\ row.remaining \in Nat /\ row.status \in OrderStatus
  BY <1>2, EventType DEF Order
<1>5. /\ new \in Order /\ new.status = "FILLED" /\ new.filled = filled.filled
      /\ new.remaining = filled.remaining /\ new.cancelled = filled.cancelled /\ new.req = filled.req
  <2> HIDE DEF filled
  <2> QED
    BY <1>3 DEF Order, OrderStatus
<1>6. row.status \in EXECUTABLE_STATUSES
  BY <1>2 DEF FillAccepted
<1>7. Leads(audit, row.status, "FILLED")
  BY <1>6, AllowedFacts, LeadsOne
<1>8. audit \in Seq(OrderEvent)
  BY <1>4 DEF Transition, OrderEvent, OrderEventType, OrderStatus
<1> HIDE DEF new, audit, filled
<1>9. FillsPart(row, new)
  BY <1>1, <1>3, <1>4, <1>5, <1>6 DEF FillsPart
<1> QED
  BY <1>1, <1>3, <1>5, <1>7, <1>8, <1>9 DEF Rewrites, RowChange

LEMMA PartialFillRewrites ==
    ASSUME TypeOK, NEW e \in FillEvent, PartialFill(e)
    PROVE  \E new, audit : Rewrites(e.order, new, audit)
<1> DEFINE row == orders[e.order]
           filled == FilledOrder(row, e)
           status == IF row.status = "ROUTED" THEN "PARTIALLY_FILLED" ELSE row.status
           new == [filled EXCEPT !.status = status]
           audit == <<Transition("PARTIAL_FILL_RECEIVED", row.status, status)>>
<1>1. ApplyFill(e) /\ e.quantity < row.remaining /\ SaveOrder(e.order, new, audit)
  BY DEF PartialFill
<1>2. row \in Order /\ FillAccepted(row, e)
  BY <1>1, FillContext
<1>3. /\ filled \in Order /\ filled.filled = row.filled + e.quantity
      /\ filled.remaining = row.remaining - e.quantity
      /\ filled.cancelled = row.cancelled /\ filled.req = row.req
  BY <1>2, FilledOrderType
<1>4. e.quantity \in Nat \ {0} /\ row.filled \in Nat /\ row.remaining \in Nat /\ row.status \in OrderStatus
  BY <1>2, EventType DEF Order
<1>5. row.status \in EXECUTABLE_STATUSES /\ status \in OrderStatus
  BY <1>2, <1>4 DEF FillAccepted, OrderStatus
<1>6. /\ new \in Order /\ new.status = status /\ new.filled = filled.filled
      /\ new.remaining = filled.remaining /\ new.cancelled = filled.cancelled /\ new.req = filled.req
  <2> HIDE DEF filled, status
  <2> QED
    BY <1>3, <1>5 DEF Order
<1>7. Leads(audit, row.status, status)
  <2>1. row.status = status \/ TransitionAllowed(row.status, status)
    BY AllowedFacts
  <2> QED
    BY <2>1, LeadsOne
<1>8. audit \in Seq(OrderEvent)
  <2> HIDE DEF status
  <2> QED
    BY <1>4, <1>5 DEF Transition, OrderEvent, OrderEventType
<1> HIDE DEF new, audit, filled
<1>9. FillsPart(row, new)
  BY <1>1, <1>3, <1>4, <1>5, <1>6 DEF FillsPart
<1> QED
  BY <1>1, <1>3, <1>6, <1>7, <1>8, <1>9 DEF Rewrites, RowChange

LEMMA IocFillRewrites ==
    ASSUME TypeOK, NEW e \in FillEvent, IocPartialFill(e)
    PROVE  \E new, audit : Rewrites(e.order, new, audit)
<1> DEFINE row == orders[e.order]
           filled == FilledOrder(row, e)
           new == CancelledOrder(filled)
           audit == <<Transition("PARTIAL_FILL_RECEIVED", row.status, row.status),
                      Transition("ORDER_CANCELLED", row.status, "CANCELLED")>>
<1>1. ApplyFill(e) /\ e.quantity < row.remaining /\ SaveOrder(e.order, new, audit)
  BY DEF IocPartialFill
<1>2. row \in Order /\ FillAccepted(row, e)
  BY <1>1, FillContext
<1>3. /\ filled \in Order /\ filled.filled = row.filled + e.quantity
      /\ filled.remaining = row.remaining - e.quantity
      /\ filled.cancelled = row.cancelled /\ filled.req = row.req
  BY <1>2, FilledOrderType
<1>4. /\ e.quantity \in Nat \ {0} /\ row.filled \in Nat /\ row.remaining \in Nat
      /\ row.cancelled \in Nat /\ row.status \in OrderStatus
  BY <1>2, EventType DEF Order
<1>5. /\ new \in Order /\ new.status = "CANCELLED" /\ new.filled = filled.filled /\ new.remaining = 0
      /\ new.cancelled = filled.cancelled + filled.remaining /\ new.req = filled.req
  BY <1>3, CancelledOrderType
<1>6. row.status \in EXECUTABLE_STATUSES
  BY <1>2 DEF FillAccepted
<1>7. Leads(audit, row.status, "CANCELLED")
  BY <1>6, AllowedFacts, LeadsTwo
<1>8. audit \in Seq(OrderEvent)
  BY <1>4 DEF Transition, OrderEvent, OrderEventType, OrderStatus
<1> HIDE DEF new, audit, filled
<1>9. Closes(row, new)
  BY <1>1, <1>3, <1>4, <1>5, <1>6 DEF Closes
<1> QED
  BY <1>1, <1>3, <1>5, <1>7, <1>8, <1>9 DEF Rewrites, RowChange

LEMMA StatusEventRewrites ==
    ASSUME TypeOK, StatusMatchesQuantities,
           NEW e \in StatusEvent, BrokerRejects(e) \/ BrokerCancels(e)
    PROVE  \E new, audit : Rewrites(e.order, new, audit)
<1> DEFINE row == orders[e.order]
<1>1. e.order \in DOMAIN orders
  BY FreshKnown DEF BrokerRejects, BrokerCancels
<1>2. row \in Order /\ row.status \in OrderStatus
  BY <1>1 DEF TypeOK, OrdersTypeOK, Order
<1>3. CASE BrokerRejects(e)
  <2> DEFINE new == [row EXCEPT !.status = "REJECTED"]
             audit == <<Transition("ORDER_REJECTED", "ROUTED", "REJECTED")>>
  <2>1. row.status = "ROUTED" /\ SaveOrder(e.order, new, audit)
    BY <1>3 DEF BrokerRejects
  <2>2. new \in Order /\ RowChange(row, new) /\ new.status = "REJECTED"
    BY <1>2, <2>1 DEF RowChange, KeepsQuantities, Order, OrderStatus
  <2>3. Leads(audit, row.status, "REJECTED")
    BY <2>1, AllowedFacts, LeadsOne
  <2>4. audit \in Seq(OrderEvent)
    BY DEF Transition, OrderEvent, OrderEventType, OrderStatus
  <2> HIDE DEF new, audit
  <2> QED
    BY <2>1, <2>2, <2>3, <2>4 DEF Rewrites
<1>4. CASE BrokerCancels(e)
  <2> DEFINE new == CancelledOrder(row)
             audit == <<Transition("ORDER_CANCELLED", row.status, "CANCELLED")>>
  <2>1. row.status \in EXECUTABLE_STATUSES /\ SaveOrder(e.order, new, audit)
    BY <1>4 DEF BrokerCancels
  <2>2. /\ new \in Order /\ new.status = "CANCELLED" /\ new.filled = row.filled
        /\ new.remaining = 0 /\ new.cancelled = row.cancelled + row.remaining /\ new.req = row.req
    BY <1>2, CancelledOrderType
  <2>3. row.remaining \in Nat /\ row.filled \in Nat /\ row.cancelled \in Nat /\ 0 < row.remaining
    <3>1. row.req \in Requests /\ row.remaining \in Nat /\ row.filled \in Nat /\ row.cancelled \in Nat
      BY <1>2 DEF Order
    <3>2. row.req.quantity \in Nat \ {0}
      BY <3>1, RequestType
    <3> QED
      BY <1>1, <2>1, <3>1, <3>2 DEF StatusMatchesQuantities, RowMatches, EXECUTABLE_STATUSES
  <2>4. Leads(audit, row.status, "CANCELLED")
    BY <2>1, AllowedFacts, LeadsOne
  <2>5. audit \in Seq(OrderEvent)
    BY <1>2 DEF Transition, OrderEvent, OrderEventType, OrderStatus
  <2> HIDE DEF new, audit
  <2>6. Closes(row, new)
    BY <2>1, <2>2, <2>3 DEF Closes
  <2> QED
    BY <2>1, <2>2, <2>4, <2>5, <2>6 DEF Rewrites, RowChange
<1> QED
  BY <1>3, <1>4

LEMMA IgnoreEventRewrites ==
    ASSUME TypeOK, NEW e, IgnoreEvent(e)
    PROVE  e.order \in DOMAIN orders /\ \E new, audit : Rewrites(e.order, new, audit)
<1> DEFINE row == orders[e.order]
           audit == <<Transition("BROKER_EVENT_IGNORED", row.status, row.status)>>
<1>1. e.order \in DOMAIN orders
  BY FreshKnown DEF IgnoreEvent
<1>2. row \in Order /\ row.status \in OrderStatus
  BY <1>1 DEF TypeOK, OrdersTypeOK, Order
<1>3. SaveOrder(e.order, row, audit)
  BY DEF IgnoreEvent
<1>4. Leads(audit, row.status, row.status)
  BY LeadsOne
<1>5. audit \in Seq(OrderEvent)
  BY <1>2 DEF Transition, OrderEvent, OrderEventType, OrderStatus
<1> HIDE DEF audit
<1>6. Rewrites(e.order, row, audit)
  BY <1>2, <1>3, <1>4, <1>5 DEF Rewrites
<1> QED
  BY <1>1, <1>6

-----------------------------------------------------------------------------
(* What a step does to the order table and the audit history.                 *)

Inserts(o, req, status, audit) ==
    /\ o \notin DOMAIN orders
    /\ orders' = Put(orders, o, NewOrder(req, status))
    /\ history' = Put(history, o, audit)
    /\ status \in {"REJECTED", "ROUTED"}
    /\ Explains(audit, status)

LEMMA NewOrderInserts ==
    ASSUME TypeOK, NEW o \in OrderIds, NEW req \in Requests,
           RejectNewOrder(o, req) \/ RouteNewOrder(o, req)
    PROVE  \E status, audit : Inserts(o, req, status, audit)
<1>1. CASE RejectNewOrder(o, req)
  <2> DEFINE audit == <<Created, Transition("VALIDATION_FAILED", "NEW", "REJECTED")>>
  <2>1. Explains(audit, "REJECTED")
    BY AllowedFacts DEF Explains, Created, Transition
  <2>2. AddOrder(o, req, "REJECTED", audit, Finished)
    BY <1>1 DEF RejectNewOrder
  <2> HIDE DEF audit
  <2>3. Inserts(o, req, "REJECTED", audit)
    BY <2>1, <2>2 DEF AddOrder, Inserts
  <2> QED
    BY <2>3
<1>2. CASE RouteNewOrder(o, req)
  <2> DEFINE audit == <<Created, Transition("ORDER_VALIDATED", "NEW", "VALIDATED"),
                        Transition("ORDER_ROUTED", "VALIDATED", "ROUTED")>>
             call == [stage |-> "submitting", reservedBefore |-> accounts[req.account].reserved]
  <2>1. Explains(audit, "ROUTED")
    BY AllowedFacts DEF Explains, Created, Transition
  <2>2. AddOrder(o, req, "ROUTED", audit, call)
    BY <1>2 DEF RouteNewOrder
  <2> HIDE DEF audit, call
  <2>3. Inserts(o, req, "ROUTED", audit)
    BY <2>1, <2>2 DEF AddOrder, Inserts
  <2> QED
    BY <2>3
<1> QED
  BY <1>1, <1>2

LEMMA StepShape ==
    ASSUME TypeOK, NoCallFails, StatusMatchesQuantities, [Next]_vars
    PROVE  \/ UNCHANGED <<orders, history>>
           \/ \E o \in OrderIds, req \in Requests : \E status, audit : Inserts(o, req, status, audit)
           \/ \E o \in DOMAIN orders : \E new, audit : Rewrites(o, new, audit)
<1> DEFINE Goal == \/ UNCHANGED <<orders, history>>
                   \/ \E o \in OrderIds, req \in Requests :
                          \E status, audit : Inserts(o, req, status, audit)
                   \/ \E o \in DOMAIN orders : \E new, audit : Rewrites(o, new, audit)
<1>1. ASSUME NEW a \in Accounts, NEW d \in Deposits, CreateAccount(a, d) PROVE Goal
  BY <1>1 DEF CreateAccount, orderVars
<1>2. ASSUME NEW o \in OrderIds, NEW req \in Requests,
             RejectNewOrder(o, req) \/ RouteNewOrder(o, req)
      PROVE  Goal
  BY <1>2, NewOrderInserts
<1>3. ASSUME NEW o \in DOMAIN orders, OrderStep(o) PROVE Goal
  <2>1. ~MarkRoutingFailure(o)
    BY DEF MarkRoutingFailure, NoCallFails
  <2>2. CASE RequestCancellation(o)
    BY <2>2, CancellationRewrites
  <2>3. CASE Submit(o) \/ NotifyCancel(o) \/ \E failure \in SubmitFailures : SubmitRaises(o, failure)
    BY <2>3 DEF Submit, NotifyCancel, SubmitRaises
  <2> QED
    BY <1>3, <2>1, <2>2, <2>3 DEF OrderStep
<1>4. ASSUME NEW e \in FillEvent, FillStep(e) PROVE Goal
  <2>1. CASE IgnoreEvent(e)
    BY <2>1, IgnoreEventRewrites
  <2>2. CASE CompleteFill(e) \/ PartialFill(e) \/ IocPartialFill(e)
    <3>1. e.order \in DOMAIN orders
      BY <2>2, FillContext DEF CompleteFill, PartialFill, IocPartialFill
    <3> QED
      BY <2>2, <3>1, CompleteFillRewrites, PartialFillRewrites, IocFillRewrites
  <2> QED
    BY <1>4, <2>1, <2>2 DEF FillStep
<1>5. ASSUME NEW e \in StatusEvent, StatusStep(e) PROVE Goal
  <2>1. CASE IgnoreEvent(e)
    BY <2>1, IgnoreEventRewrites
  <2>2. CASE BrokerRejects(e) \/ BrokerCancels(e)
    <3>1. e.order \in DOMAIN orders
      BY <2>2, FreshKnown DEF BrokerRejects, BrokerCancels
    <3> QED
      BY <2>2, <3>1, StatusEventRewrites
  <2> QED
    BY <1>5, <2>1, <2>2 DEF StatusStep
<1>6. CASE MarketTick \/ UNCHANGED vars
  BY <1>6 DEF MarketTick, vars, orderVars
<1> QED
  BY <1>1, <1>2, <1>3, <1>4, <1>5, <1>6 DEF Next

(* Without submission failures no step enters the failure handler.            *)
LEMMA NoCallFailsStep ==
    ASSUME ReliableSubmission, TypeOK, NoCallFails, [Next]_vars
    PROVE  NoCallFails'
<1>1. ASSUME NEW a \in Accounts, NEW d \in Deposits, CreateAccount(a, d) PROVE NoCallFails'
  BY <1>1 DEF CreateAccount, NoCallFails, orderVars
<1>2. ASSUME NEW o \in OrderIds, NEW req \in Requests,
             RejectNewOrder(o, req) \/ RouteNewOrder(o, req)
      PROVE  NoCallFails'
  <2>1. PICK call : submission' = Put(submission, o, call) /\ call.stage # "failing"
    BY <1>2 DEF RejectNewOrder, RouteNewOrder, AddOrder, Finished
  <2>2. DOMAIN orders' = DOMAIN orders \cup {o}
    BY <1>2 DEF RejectNewOrder, RouteNewOrder, AddOrder, Put
  <2> QED
    BY <2>1, <2>2 DEF NoCallFails, Put, TypeOK, HandlersTypeOK
<1>3. ASSUME NEW o \in DOMAIN orders, OrderStep(o) PROVE NoCallFails'
  <2>1. CASE RequestCancellation(o) \/ NotifyCancel(o)
    <3>1. submission' = submission /\ DOMAIN orders' = DOMAIN orders
      BY <2>1 DEF RequestCancellation, NotifyCancel, SaveOrder, TypeOK, OrdersTypeOK
    <3> QED
      BY <3>1 DEF NoCallFails
  <2>2. CASE Submit(o)
    BY <2>2 DEF Submit, NoCallFails, Finished, TypeOK, HandlersTypeOK
  <2>3. ~MarkRoutingFailure(o)
    BY DEF MarkRoutingFailure, NoCallFails
  <2> QED
    BY <1>3, <2>1, <2>2, <2>3 DEF OrderStep, ReliableSubmission
<1>4. ASSUME NEW e, CompleteFill(e) \/ PartialFill(e) \/ IocPartialFill(e) \/ IgnoreEvent(e)
                    \/ BrokerRejects(e) \/ BrokerCancels(e)
      PROVE  NoCallFails'
  <2>1. submission' = submission
    BY <1>4 DEF CompleteFill, PartialFill, IocPartialFill, ApplyFill, IgnoreEvent,
                BrokerRejects, BrokerCancels
  <2>2. DOMAIN orders' = DOMAIN orders
    BY <1>4 DEF CompleteFill, PartialFill, IocPartialFill, IgnoreEvent, BrokerRejects,
                BrokerCancels, SaveOrder, TypeOK, OrdersTypeOK
  <2> QED
    BY <2>1, <2>2 DEF NoCallFails
<1>5. CASE MarketTick \/ UNCHANGED vars
  BY <1>5 DEF MarketTick, vars, orderVars, NoCallFails
<1> QED
  BY <1>1, <1>2, <1>3, <1>4, <1>5 DEF Next, FillStep, StatusStep

-----------------------------------------------------------------------------
(* Row changes and audit events preserve what the invariants say of them.     *)

LEMMA RowMatchesChange ==
    ASSUME NEW row \in Order, NEW new \in Order, RowMatches(row), RowChange(row, new)
    PROVE  RowMatches(new)
<1>1. /\ row.filled \in Nat /\ row.cancelled \in Nat /\ row.remaining \in Nat
      /\ new.filled \in Nat /\ new.cancelled \in Nat /\ new.remaining \in Nat
      /\ row.req \in Requests /\ new.req = row.req
  BY DEF Order, RowChange
<1>2. row.req.quantity \in Nat \ {0}
  BY <1>1, RequestType
<1>3. CASE FillsPart(row, new)
  <2>1. row.status \in {"ROUTED", "PARTIALLY_FILLED", "CANCEL_PENDING"}
    BY <1>3 DEF FillsPart, EXECUTABLE_STATUSES
  <2>2. row.cancelled = 0 /\ row.filled + row.remaining = row.req.quantity
    BY <1>1, <1>2, <2>1 DEF RowMatches
  <2>3. new.cancelled = 0 /\ 0 < new.filled /\ new.filled + new.remaining = row.req.quantity
    BY <1>1, <1>2, <1>3, <2>2 DEF FillsPart
  <2>4. CASE new.remaining = 0
    <3>1. new.status = "FILLED"
      BY <1>3, <2>4 DEF FillsPart
    <3> QED
      BY <1>1, <1>2, <2>3, <2>4, <3>1 DEF RowMatches
  <2>5. CASE new.remaining # 0
    <3>1. new.status \in {"PARTIALLY_FILLED", "CANCEL_PENDING"}
      BY <1>3, <2>1, <2>5 DEF FillsPart
    <3>2. 0 < new.remaining
      BY <1>1, <2>5
    <3> QED
      BY <1>1, <1>2, <2>3, <3>1, <3>2 DEF RowMatches
  <2> QED
    BY <2>4, <2>5
<1>4. CASE Closes(row, new)
  <2>1. /\ row.cancelled = 0
        /\ row.filled + row.remaining = row.req.quantity
    BY <1>1, <1>2, <1>4 DEF Closes, RowMatches, EXECUTABLE_STATUSES
  <2>2. /\ new.filled + new.cancelled = row.req.quantity
        /\ 0 < new.cancelled /\ new.remaining = 0 /\ new.status = "CANCELLED"
    BY <1>1, <1>2, <1>4, <2>1 DEF Closes
  <2> QED
    BY <1>1, <2>2 DEF RowMatches
<1>5. CASE KeepsQuantities(row, new) /\ row.status = "ROUTED" /\ new.status = "REJECTED"
  BY <1>1, <1>2, <1>5 DEF KeepsQuantities, RowMatches
<1>6. CASE /\ KeepsQuantities(row, new)
           /\ row.status \in CANCELLABLE_ORDER_STATUSES /\ new.status = "CANCEL_PENDING"
  BY <1>1, <1>2, <1>6 DEF KeepsQuantities, RowMatches, CANCELLABLE_ORDER_STATUSES
<1> QED
  BY <1>3, <1>4, <1>5, <1>6 DEF RowChange

LEMMA RowMatchesNew ==
    ASSUME NEW req \in Requests, NEW status \in {"REJECTED", "ROUTED"}
    PROVE  RowMatches(NewOrder(req, status))
<1>1. req.quantity \in Nat \ {0}
  BY RequestType
<1> QED
  BY <1>1 DEF RowMatches, NewOrder

LEMMA StoryContinues ==
    ASSUME NEW story \in Seq(OrderEvent), NEW audit \in Seq(OrderEvent), NEW from, NEW to,
           Explains(story, from), Leads(audit, from, to)
    PROVE  Explains(story \o audit, to)
<1> DEFINE whole == story \o audit
           m == Len(story)
           n == Len(audit)
<1>1. /\ m \in Nat \ {0} /\ n \in Nat \ {0} /\ Len(whole) = m + n
      /\ \A i \in 1 .. m : whole[i] = story[i]
      /\ \A i \in m + 1 .. m + n : whole[i] = audit[i - m]
  BY DEF Explains, Leads
<1>2. whole # <<>> /\ whole[1] = Created /\ whole[Len(whole)].new = to
  BY <1>1 DEF Explains, Leads
<1>3. ASSUME NEW i \in 2 .. m + n
      PROVE  /\ whole[i].previous = whole[i - 1].new
             /\ whole[i].previous # whole[i].new =>
                    TransitionAllowed(whole[i].previous, whole[i].new)
  <2>1. CASE i <= m
    <3>1. whole[i] = story[i] /\ whole[i - 1] = story[i - 1] /\ i \in 2 .. m
      BY <1>1, <2>1
    <3> QED
      BY <3>1 DEF Explains
  <2>2. CASE i = m + 1
    <3>1. whole[i] = audit[1] /\ whole[i - 1] = story[m] /\ 1 \in 1 .. n
      BY <1>1, <2>2
    <3>2. audit[1].previous = story[m].new
      BY DEF Explains, Leads
    <3>3. audit[1].previous # audit[1].new =>
              TransitionAllowed(audit[1].previous, audit[1].new)
      BY <3>1 DEF Leads
    <3> HIDE DEF whole
    <3> QED
      BY <3>1, <3>2, <3>3
  <2>3. CASE i > m + 1
    <3>1. /\ whole[i] = audit[i - m] /\ whole[i - 1] = audit[i - m - 1]
          /\ i - m \in 1 .. n /\ i - m > 1
      BY <1>1, <2>3
    <3> HIDE DEF whole
    <3> QED
      BY <3>1 DEF Leads
  <2> QED
    BY <1>1, <2>1, <2>2, <2>3
<1> QED
  BY <1>1, <1>2, <1>3 DEF Explains

-----------------------------------------------------------------------------
(* The order table and its audit trail.                                       *)

(* What is inductive together: the quantities justify the guards the rows     *)
(* went through, and no failure handler can write from a stale session.       *)
OrdersInv == TypeOK /\ NoCallFails /\ StatusMatchesQuantities /\ AuditTrailExplainsStatus

LEMMA SavedOrder ==
    ASSUME TypeOK, NEW o \in DOMAIN orders, NEW new, NEW audit, SaveOrder(o, new, audit)
    PROVE  /\ DOMAIN orders' = DOMAIN orders
           /\ \A p \in DOMAIN orders : orders'[p] = IF p = o THEN new ELSE orders[p]
           /\ \A p \in DOMAIN orders :
                  history'[p] = IF p = o THEN history[o] \o audit ELSE history[p]
  BY DEF SaveOrder, TypeOK, OrdersTypeOK

LEMMA InsertedOrder ==
    ASSUME TypeOK, NEW o, NEW req, NEW status, NEW audit, Inserts(o, req, status, audit)
    PROVE  /\ DOMAIN orders' = DOMAIN orders \cup {o}
           /\ \A p \in DOMAIN orders' :
                  orders'[p] = IF p = o THEN NewOrder(req, status) ELSE orders[p]
           /\ \A p \in DOMAIN orders' :
                  history'[p] = IF p = o THEN audit ELSE history[p]
  BY DEF Inserts, Put, TypeOK, OrdersTypeOK

LEMMA OrdersInvStep ==
    ASSUME OrdersInv, [Next]_vars
    PROVE  StatusMatchesQuantities' /\ AuditTrailExplainsStatus'
<1> USE DEF OrdersInv
<1>1. ASSUME UNCHANGED <<orders, history>>
      PROVE  StatusMatchesQuantities' /\ AuditTrailExplainsStatus'
  BY <1>1 DEF StatusMatchesQuantities, AuditTrailExplainsStatus
<1>2. ASSUME NEW o \in OrderIds, NEW req \in Requests, NEW status, NEW audit,
             Inserts(o, req, status, audit)
      PROVE  StatusMatchesQuantities' /\ AuditTrailExplainsStatus'
  <2>1. /\ RowMatches(NewOrder(req, status)) /\ Explains(audit, status)
        /\ NewOrder(req, status).status = status
    BY <1>2, RowMatchesNew DEF Inserts, NewOrder
  <2>2. /\ DOMAIN orders' = DOMAIN orders \cup {o}
        /\ \A p \in DOMAIN orders' :
               /\ orders'[p] = IF p = o THEN NewOrder(req, status) ELSE orders[p]
               /\ history'[p] = IF p = o THEN audit ELSE history[p]
    BY <1>2, InsertedOrder
  <2>3. StatusMatchesQuantities'
    BY <2>1, <2>2 DEF StatusMatchesQuantities
  <2>4. AuditTrailExplainsStatus'
    BY <2>1, <2>2 DEF AuditTrailExplainsStatus
  <2> QED
    BY <2>3, <2>4
<1>3. ASSUME NEW o \in DOMAIN orders, NEW new, NEW audit, Rewrites(o, new, audit)
      PROVE  StatusMatchesQuantities' /\ AuditTrailExplainsStatus'
  <2>1. /\ SaveOrder(o, new, audit) /\ audit \in Seq(OrderEvent) /\ new \in Order
        /\ new = orders[o] \/ RowChange(orders[o], new)
        /\ Leads(audit, orders[o].status, new.status)
    BY <1>3 DEF Rewrites
  <2>2. orders[o] \in Order /\ history[o] \in Seq(OrderEvent)
    BY DEF TypeOK, OrdersTypeOK
  <2>3. RowMatches(new)
    BY <2>1, <2>2, RowMatchesChange DEF StatusMatchesQuantities
  <2>4. Explains(history[o] \o audit, new.status)
    BY <2>1, <2>2, StoryContinues DEF AuditTrailExplainsStatus
  <2>5. StatusMatchesQuantities'
    BY <2>1, <2>3, SavedOrder DEF StatusMatchesQuantities
  <2>6. AuditTrailExplainsStatus'
    BY <2>1, <2>4, SavedOrder DEF AuditTrailExplainsStatus
  <2> QED
    BY <2>5, <2>6
<1> QED
  BY <1>1, <1>2, <1>3, StepShape

LEMMA OrdersInvInductive ==
    ASSUME ReliableSubmission
    PROVE  Spec => []OrdersInv
<1>1. Init => OrdersInv
  <2> SUFFICES ASSUME Init PROVE NoCallFails /\ StatusMatchesQuantities /\ AuditTrailExplainsStatus
    BY TypeCorrectInit DEF OrdersInv
  <2> QED
    BY DEF Init, NoRows, NoCallFails, StatusMatchesQuantities, AuditTrailExplainsStatus
<1>2. OrdersInv /\ [Next]_vars => OrdersInv'
  BY TypeCorrectStep, NoCallFailsStep, OrdersInvStep DEF OrdersInv
<1> QED
  BY <1>1, <1>2, PTL DEF Spec

(* If submit_order never raises, the quantities of every order agree with its *)
(* status whatever the broker sends and however handlers interleave.          *)
THEOREM StatusAgreesWithQuantities ==
    ASSUME ReliableSubmission
    PROVE  Spec => []StatusMatchesQuantities
<1>1. OrdersInv => StatusMatchesQuantities
  BY DEF OrdersInv
<1> QED
  BY <1>1, OrdersInvInductive, PTL

(* Under the same condition the audit events of an order always lead, by      *)
(* transitions the state machine allows, to the status in its row.            *)
THEOREM AuditTrailIsComplete ==
    ASSUME ReliableSubmission
    PROVE  Spec => []AuditTrailExplainsStatus
<1>1. OrdersInv => AuditTrailExplainsStatus
  BY DEF OrdersInv
<1> QED
  BY <1>1, OrdersInvInductive, PTL

-----------------------------------------------------------------------------
(* Fills and broker events.  These need no assumption on the broker.          *)

(* What a step does to the fills and to the processed events.                 *)
LEMMA LedgerShape ==
    ASSUME TypeOK, [Next]_vars
    PROVE  /\ DOMAIN orders \subseteq DOMAIN orders'
           /\ \/ UNCHANGED <<fills, processed>>
              \/ UNCHANGED fills /\ \E e, outcome : Fresh(e) /\ Record(e, outcome)
              \/ \E e \in FillEvent : ApplyFill(e)
<1> DEFINE Goal == /\ DOMAIN orders \subseteq DOMAIN orders'
                   /\ \/ UNCHANGED <<fills, processed>>
                      \/ UNCHANGED fills /\ \E e, outcome : Fresh(e) /\ Record(e, outcome)
                      \/ \E e \in FillEvent : ApplyFill(e)
<1>1. ASSUME NEW a \in Accounts, NEW d \in Deposits, CreateAccount(a, d) PROVE Goal
  BY <1>1 DEF CreateAccount, orderVars
<1>2. ASSUME NEW o \in OrderIds, NEW req \in Requests,
             RejectNewOrder(o, req) \/ RouteNewOrder(o, req)
      PROVE  Goal
  BY <1>2 DEF RejectNewOrder, RouteNewOrder, AddOrder, Put
<1>3. ASSUME NEW o \in DOMAIN orders, OrderStep(o) PROVE Goal
  BY <1>3 DEF OrderStep, Submit, SubmitRaises, MarkRoutingFailure, RequestCancellation,
              NotifyCancel, SaveOrder, ledgerVars, TypeOK, OrdersTypeOK
<1>4. ASSUME NEW e \in FillEvent, CompleteFill(e) \/ PartialFill(e) \/ IocPartialFill(e)
      PROVE  Goal
  <2>1. ApplyFill(e)
    BY <1>4 DEF CompleteFill, PartialFill, IocPartialFill
  <2>2. DOMAIN orders' = DOMAIN orders
    BY <1>4 DEF CompleteFill, PartialFill, IocPartialFill, SaveOrder, TypeOK, OrdersTypeOK
  <2> QED
    BY <2>1, <2>2
<1>5. ASSUME NEW e, IgnoreEvent(e) \/ BrokerRejects(e) \/ BrokerCancels(e) PROVE Goal
  <2>1. Fresh(e) /\ UNCHANGED fills /\ \E outcome : Record(e, outcome)
    BY <1>5 DEF IgnoreEvent, BrokerRejects, BrokerCancels
  <2>2. DOMAIN orders' = DOMAIN orders
    BY <1>5 DEF IgnoreEvent, BrokerRejects, BrokerCancels, SaveOrder, TypeOK, OrdersTypeOK
  <2> QED
    BY <2>1, <2>2
<1>6. CASE MarketTick \/ UNCHANGED vars
  BY <1>6 DEF MarketTick, vars, orderVars, ledgerVars
<1> QED
  BY <1>1, <1>2, <1>3, <1>4, <1>5, <1>6 DEF Next, FillStep, StatusStep

(* Recording a fresh event leaves what is recorded of the others.             *)
LEMMA RecordKeeps ==
    ASSUME NEW e, NEW outcome, e.id \notin DOMAIN processed, Record(e, outcome)
    PROVE  /\ DOMAIN processed' = DOMAIN processed \cup {e.id}
           /\ \A id \in DOMAIN processed : processed'[id] = processed[id]
           /\ processed'[e.id].order = e.order /\ processed'[e.id].type = e.type
           /\ processed'[e.id].outcome = outcome
<1> DEFINE row == [order |-> e.order, type |-> e.type, outcome |-> outcome]
<1>1. processed' = Put(processed, e.id, row)
  BY DEF Record
<1>2. row.order = e.order /\ row.type = e.type /\ row.outcome = outcome
  OBVIOUS
<1> HIDE DEF row
<1> QED
  BY <1>1, <1>2 DEF Put

LEMMA FillsBelongStep ==
    ASSUME TypeOK, FillsBelongToEvents, [Next]_vars
    PROVE  FillsBelongToEvents'
<1>1. ASSUME UNCHANGED <<fills, processed>>, DOMAIN orders \subseteq DOMAIN orders'
      PROVE  FillsBelongToEvents'
  BY <1>1 DEF FillsBelongToEvents
<1>2. ASSUME UNCHANGED fills, NEW e, NEW outcome, Fresh(e), Record(e, outcome),
             DOMAIN orders \subseteq DOMAIN orders'
      PROVE  FillsBelongToEvents'
  <2>1. e.id \notin DOMAIN processed
    BY <1>2 DEF Fresh
  <2>2. \A id \in DOMAIN processed : id \in DOMAIN processed' /\ processed'[id] = processed[id]
    BY <1>2, <2>1, RecordKeeps
  <2> QED
    BY <1>2, <2>2 DEF FillsBelongToEvents
<1>3. ASSUME NEW e \in FillEvent, ApplyFill(e), DOMAIN orders \subseteq DOMAIN orders'
      PROVE  FillsBelongToEvents'
  <2> DEFINE new == [order |-> e.order, event |-> e.id, exec |-> e.exec,
                     quantity |-> e.quantity, price |-> e.price]
  <2>1. /\ e.id \notin DOMAIN processed /\ e.order \in DOMAIN orders
        /\ fills' = fills \cup {new} /\ Record(e, "APPLIED")
        /\ \A f \in fills : f.event # e.id /\ f.exec # e.exec
    BY <1>3, FreshKnown DEF ApplyFill, Fresh
  <2>2. /\ \A id \in DOMAIN processed : id \in DOMAIN processed' /\ processed'[id] = processed[id]
        /\ e.id \in DOMAIN processed'
        /\ processed'[e.id].order = e.order /\ processed'[e.id].type = e.type
        /\ processed'[e.id].outcome = "APPLIED"
    BY <2>1, RecordKeeps
  <2>3. new.order = e.order /\ new.event = e.id /\ new.exec = e.exec
    OBVIOUS
  <2>4. e.type \in {"FULL_FILL", "PARTIAL_FILL"}
    BY EventType
  <2> HIDE DEF new
  <2>5. ASSUME NEW f \in fills'
        PROVE  /\ f.event \in DOMAIN processed'
               /\ processed'[f.event].order = f.order
               /\ processed'[f.event].outcome = "APPLIED"
               /\ processed'[f.event].type \in {"FULL_FILL", "PARTIAL_FILL"}
               /\ f.order \in DOMAIN orders'
    <3>1. CASE f \in fills
      BY <1>3, <2>2, <3>1 DEF FillsBelongToEvents
    <3>2. CASE f = new
      <4>1. f.event = e.id /\ f.order = e.order /\ e.order \in DOMAIN orders'
        BY <1>3, <2>1, <2>3, <3>2
      <4> QED
        BY <2>2, <2>4, <4>1
    <3> QED
      BY <2>1, <3>1, <3>2
  <2>6. ASSUME NEW f \in fills', NEW g \in fills', f.event = g.event \/ f.exec = g.exec
        PROVE  f = g
    BY <2>1, <2>3, <2>6 DEF FillsBelongToEvents
  <2> QED
    BY <2>5, <2>6 DEF FillsBelongToEvents
<1> QED
  BY <1>1, <1>2, <1>3, LedgerShape

(* However often and in whatever order the broker delivers its events, every  *)
(* fill belongs to one applied fill event of its order.                       *)
THEOREM EveryFillHasItsEvent == Spec => []FillsBelongToEvents
<1>1. Init => FillsBelongToEvents
  BY DEF Init, FillsBelongToEvents
<1> QED
  BY <1>1, TypeCorrect, FillsBelongStep, PTL DEF Spec

(* If submit_order never raises, nothing happens to a terminal order: its row *)
(* and its fills are final.                                                   *)
THEOREM TerminalOrdersAreFinal ==
    ASSUME ReliableSubmission
    PROVE  Spec => TerminalIsFinal
<1>1. ASSUME OrdersInv, [Next]_vars PROVE TerminalOrdersRest
  <2> SUFFICES ASSUME NEW o \in DOMAIN orders, orders[o].status \in TERMINAL_ORDER_STATUSES
               PROVE  /\ orders'[o] = orders[o]
                      /\ {f \in fills' : f.order = o} = {f \in fills : f.order = o}
    BY DEF TerminalOrdersRest
  <2>1. TypeOK /\ NoCallFails /\ StatusMatchesQuantities
    BY <1>1 DEF OrdersInv
  <2>2. orders[o].status \notin EXECUTABLE_STATUSES \cup CANCELLABLE_ORDER_STATUSES \cup {"ROUTED"}
    BY DEF TERMINAL_ORDER_STATUSES, EXECUTABLE_STATUSES, CANCELLABLE_ORDER_STATUSES
  <2>3. orders'[o] = orders[o]
    <3>1. ASSUME NEW p \in OrderIds, NEW req \in Requests, NEW status, NEW audit,
                 Inserts(p, req, status, audit)
          PROVE  orders'[o] = orders[o]
      <4>1. p # o
        BY <3>1 DEF Inserts
      <4> QED
        BY <2>1, <3>1, <4>1, InsertedOrder
    <3>2. ASSUME NEW p \in DOMAIN orders, NEW new, NEW audit, Rewrites(p, new, audit)
          PROVE  orders'[o] = orders[o]
      <4>1. SaveOrder(p, new, audit) /\ (new = orders[p] \/ RowChange(orders[p], new))
        BY <3>2 DEF Rewrites
      <4>2. p = o => new = orders[p]
        BY <2>2, <4>1 DEF RowChange, FillsPart, Closes
      <4> QED
        BY <2>1, <4>1, <4>2, SavedOrder
    <3> QED
      BY <1>1, <2>1, <3>1, <3>2, StepShape
  <2>4. {f \in fills' : f.order = o} = {f \in fills : f.order = o}
    <3>1. ASSUME NEW e \in FillEvent, ApplyFill(e)
          PROVE  {f \in fills' : f.order = o} = {f \in fills : f.order = o}
      <4>1. e.order # o
        BY <2>2, <3>1 DEF ApplyFill, FillAccepted
      <4> QED
        BY <3>1, <4>1 DEF ApplyFill
    <3> QED
      BY <1>1, <2>1, <3>1, LedgerShape
  <2> QED
    BY <2>3, <2>4
<1> QED
  BY <1>1, OrdersInvInductive, PTL DEF Spec, TerminalIsFinal

-----------------------------------------------------------------------------
(* Cancellation calls.                                                        *)

(* A broker event moves the order it is about to one of these statuses and    *)
(* makes no call.                                                             *)
MovesTo(e, statuses) ==
    /\ e.order \in DOMAIN orders /\ cancellation' = cancellation
    /\ \E new, audit : SaveOrder(e.order, new, audit) /\ new.status \in statuses

LEMMA FillStatuses ==
    ASSUME TypeOK, NEW e \in FillEvent, CompleteFill(e) \/ PartialFill(e) \/ IocPartialFill(e)
    PROVE  \/ MovesTo(e, {"FILLED", "CANCELLED", orders[e.order].status})
           \/ orders[e.order].status = "ROUTED" /\ MovesTo(e, {"PARTIALLY_FILLED"})
<1> DEFINE row == orders[e.order]
           filled == FilledOrder(row, e)
<1>1. ApplyFill(e) /\ e.order \in DOMAIN orders /\ row \in Order /\ cancellation' = cancellation
  <2>1. ApplyFill(e)
    BY DEF CompleteFill, PartialFill, IocPartialFill
  <2> QED
    BY <2>1, FillContext DEF ApplyFill
<1>2. filled \in Order
  BY <1>1, FillContext, FilledOrderType
<1>3. CASE CompleteFill(e)
  <2>1. [filled EXCEPT !.status = "FILLED"].status = "FILLED"
    BY <1>2 DEF Order
  <2> QED
    BY <1>1, <1>3, <2>1 DEF CompleteFill, MovesTo
<1>4. CASE PartialFill(e)
  <2> DEFINE status == IF row.status = "ROUTED" THEN "PARTIALLY_FILLED" ELSE row.status
             new == [filled EXCEPT !.status = status]
  <2>1. new.status = status
    BY <1>2 DEF Order
  <2>2. \E audit : SaveOrder(e.order, new, audit)
    BY <1>4 DEF PartialFill
  <2> HIDE DEF new
  <2>3. MovesTo(e, {status})
    BY <1>1, <2>1, <2>2 DEF MovesTo
  <2> QED
    BY <2>3 DEF MovesTo
<1>5. CASE IocPartialFill(e)
  <2>1. CancelledOrder(filled).status = "CANCELLED"
    BY <1>2, CancelledOrderType
  <2> QED
    BY <1>1, <1>5, <2>1 DEF IocPartialFill, MovesTo
<1> QED
  BY <1>3, <1>4, <1>5

LEMMA StatusEventStatuses ==
    ASSUME TypeOK, NEW e, IgnoreEvent(e) \/ BrokerRejects(e) \/ BrokerCancels(e)
    PROVE  \/ IgnoreEvent(e) /\ MovesTo(e, {orders[e.order].status})
           \/ BrokerRejects(e) /\ MovesTo(e, {"REJECTED"})
           \/ BrokerCancels(e) /\ MovesTo(e, {"CANCELLED"})
<1> DEFINE row == orders[e.order]
<1>1. e.order \in DOMAIN orders /\ cancellation' = cancellation /\ row \in Order
  BY FreshKnown DEF IgnoreEvent, BrokerRejects, BrokerCancels, TypeOK, OrdersTypeOK
<1>2. CASE IgnoreEvent(e)
  BY <1>1, <1>2 DEF IgnoreEvent, MovesTo
<1>3. CASE BrokerRejects(e)
  <2>1. [row EXCEPT !.status = "REJECTED"].status = "REJECTED"
    BY <1>1 DEF Order
  <2> QED
    BY <1>1, <1>3, <2>1 DEF BrokerRejects, MovesTo
<1>4. CASE BrokerCancels(e)
  <2>1. CancelledOrder(row).status = "CANCELLED"
    BY <1>1, CancelledOrderType
  <2> QED
    BY <1>1, <1>4, <2>1 DEF BrokerCancels, MovesTo
<1> QED
  BY <1>2, <1>3, <1>4

(* A step other than a cancellation request never makes an order cancellable  *)
(* again, and leaves the calls as they are.                                   *)
CallsRest(o) ==
    /\ cancellation'[o] = cancellation[o]
    /\ orders'[o].status \in CANCELLABLE_ORDER_STATUSES =>
           orders[o].status \in CANCELLABLE_ORDER_STATUSES

LEMMA AskedOnceStep ==
    ASSUME TypeOK, BrokerAskedOnceToCancel, [Next]_vars
    PROVE  BrokerAskedOnceToCancel'
<1>1. ASSUME DOMAIN orders' = DOMAIN orders, \A o \in DOMAIN orders : CallsRest(o)
      PROVE  BrokerAskedOnceToCancel'
  BY <1>1 DEF CallsRest, BrokerAskedOnceToCancel
<1>2. ASSUME NEW a \in Accounts, NEW d \in Deposits, CreateAccount(a, d)
      PROVE  BrokerAskedOnceToCancel'
  BY <1>2 DEF CreateAccount, orderVars, BrokerAskedOnceToCancel
<1>3. ASSUME NEW o \in OrderIds, NEW req \in Requests,
             RejectNewOrder(o, req) \/ RouteNewOrder(o, req)
      PROVE  BrokerAskedOnceToCancel'
  <2> DEFINE none == [pending |-> 0, sent |-> 0]
  <2>1. /\ o \notin DOMAIN orders /\ cancellation' = Put(cancellation, o, none)
        /\ \E row : orders' = Put(orders, o, row)
    BY <1>3 DEF RejectNewOrder, RouteNewOrder, AddOrder
  <2>2. none.pending + none.sent = 0
    OBVIOUS
  <2> HIDE DEF none
  <2> QED
    BY <2>1, <2>2 DEF Put, BrokerAskedOnceToCancel, TypeOK, OrdersTypeOK, HandlersTypeOK
<1>4. ASSUME NEW o \in DOMAIN orders, OrderStep(o) PROVE BrokerAskedOnceToCancel'
  <2>1. CASE Submit(o) \/ \E failure \in SubmitFailures : SubmitRaises(o, failure)
    BY <2>1 DEF Submit, SubmitRaises, BrokerAskedOnceToCancel
  <2>2. CASE MarkRoutingFailure(o)
    <3>1. cancellation' = cancellation
      BY <2>2 DEF MarkRoutingFailure
    <3>2. \/ UNCHANGED orders
          \/ \E audit : SaveOrder(o, [orders[o] EXCEPT !.status = "REJECTED"], audit)
      BY <2>2 DEF MarkRoutingFailure
    <3>3. [orders[o] EXCEPT !.status = "REJECTED"].status \notin CANCELLABLE_ORDER_STATUSES
      BY DEF CANCELLABLE_ORDER_STATUSES, TypeOK, OrdersTypeOK, Order
    <3>4. DOMAIN orders' = DOMAIN orders /\ \A p \in DOMAIN orders : CallsRest(p)
      BY <3>1, <3>2, <3>3, SavedOrder DEF CallsRest
    <3> QED
      BY <1>1, <3>4
  <2>3. CASE RequestCancellation(o)
    <3> DEFINE new == [orders[o] EXCEPT !.status = "CANCEL_PENDING"]
               calls == [cancellation[o] EXCEPT !.pending = @ + 1]
    <3>1. /\ orders[o].status \in CANCELLABLE_ORDER_STATUSES
          /\ cancellation' = [cancellation EXCEPT ![o] = calls]
          /\ orders' = [orders EXCEPT ![o] = new]
      BY <2>3 DEF RequestCancellation, SaveOrder
    <3>2. cancellation[o].pending + cancellation[o].sent = 0
      BY <3>1 DEF BrokerAskedOnceToCancel
    <3>3. /\ calls.pending + calls.sent = 1
          /\ new.status \notin CANCELLABLE_ORDER_STATUSES
      BY <3>2 DEF CANCELLABLE_ORDER_STATUSES, TypeOK, OrdersTypeOK, HandlersTypeOK, Order,
                  Cancellation
    <3> HIDE DEF new, calls
    <3> QED
      BY <3>1, <3>3 DEF BrokerAskedOnceToCancel, TypeOK, OrdersTypeOK, HandlersTypeOK
  <2>4. CASE NotifyCancel(o)
    <3> DEFINE calls == [pending |-> cancellation[o].pending - 1, sent |-> cancellation[o].sent + 1]
    <3>1. cancellation' = [cancellation EXCEPT ![o] = calls] /\ orders' = orders
      BY <2>4 DEF NotifyCancel
    <3>2. calls.pending + calls.sent = cancellation[o].pending + cancellation[o].sent
      BY DEF TypeOK, HandlersTypeOK, Cancellation
    <3> HIDE DEF calls
    <3> QED
      BY <3>1, <3>2 DEF BrokerAskedOnceToCancel, TypeOK, HandlersTypeOK
  <2> QED
    BY <1>4, <2>1, <2>2, <2>3, <2>4 DEF OrderStep
<1>5. ASSUME NEW o \in DOMAIN orders, NEW new, NEW audit, SaveOrder(o, new, audit),
             cancellation' = cancellation,
             new.status \in CANCELLABLE_ORDER_STATUSES =>
                 orders[o].status \in CANCELLABLE_ORDER_STATUSES
      PROVE  BrokerAskedOnceToCancel'
  <2>1. DOMAIN orders' = DOMAIN orders /\ \A p \in DOMAIN orders : CallsRest(p)
    BY <1>5, SavedOrder DEF CallsRest
  <2> QED
    BY <1>1, <2>1
<1>6. ASSUME NEW e \in FillEvent, CompleteFill(e) \/ PartialFill(e) \/ IocPartialFill(e)
      PROVE  BrokerAskedOnceToCancel'
  BY <1>5, <1>6, FillStatuses DEF MovesTo, CANCELLABLE_ORDER_STATUSES
<1>7. ASSUME NEW e, IgnoreEvent(e) \/ BrokerRejects(e) \/ BrokerCancels(e)
      PROVE  BrokerAskedOnceToCancel'
  BY <1>5, <1>7, StatusEventStatuses DEF MovesTo, CANCELLABLE_ORDER_STATUSES
<1>8. CASE MarketTick \/ UNCHANGED vars
  BY <1>8 DEF MarketTick, vars, orderVars, BrokerAskedOnceToCancel
<1> QED
  BY <1>2, <1>3, <1>4, <1>6, <1>7, <1>8 DEF Next, FillStep, StatusStep

(* Whatever the broker does and whether or not submissions fail, clients and  *)
(* expiry scans together ask it at most once to cancel an order.              *)
THEOREM CancelIsAskedOnce == Spec => []BrokerAskedOnceToCancel
<1>1. Init => BrokerAskedOnceToCancel
  BY DEF Init, NoRows, BrokerAskedOnceToCancel
<1> QED
  BY <1>1, TypeCorrect, AskedOnceStep, PTL DEF Spec
=============================================================================
