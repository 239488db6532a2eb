-------------------------- MODULE RuntimeTheorems --------------------------
(* The running process does nothing the core does not allow, and what its     *)
(* handlers, the broker's tasks and the queue keep true together.             *)
EXTENDS RuntimeProperties, SafetyTheorems, SequenceTheorems

BrokerEvent == FillEvent \cup StatusEvent

(* The queue holds events of orders, and a remainder the broker will report   *)
(* is a quantity a fill may have.                                             *)
QueueTypeOK ==
    /\ queue \in Seq(BrokerEvent)
    /\ \A task \in tasks : task.step = "rest" => task.quantity \in FillQuantities

RuntimeTypeOK == TypeOK /\ QueueTypeOK

LEMMA EventKinds ==
    ASSUME NEW e \in BrokerEvent
    PROVE  /\ IsFill(e) => e \in FillEvent
           /\ ~IsFill(e) => e \in StatusEvent
  BY DEF BrokerEvent, IsFill, FillEvent, StatusEvent

(* A partial fill takes something and no more than there is.                  *)
LEMMA PartialBounds ==
    ASSUME NEW n \in Nat \ {0}, NEW quantity \in PartialQuantities(n)
    PROVE  quantity \in 1 .. n
<1>1. n \div 4 \in Nat /\ (3 * n) \div 4 \in Nat /\ (3 * n) \div 4 <= n
  OBVIOUS
<1>2. PICK k \in n \div 4 .. (3 * n) \div 4 : quantity = IF k = 0 THEN n ELSE k
  BY DEF PartialQuantities
<1> QED
  BY <1>1, <1>2

(* The names the broker gives its events are names of events, and the order's *)
(* price and any part of its quantity may be reported.                        *)
LEMMA ReportType ==
    ASSUME TypeOK, NEW o \in DOMAIN orders, NEW step \in {"order", "rest"},
           NEW type \in {"FULL_FILL", "PARTIAL_FILL"}, NEW quantity \in FillQuantities
    PROVE  FillReport(BrokerOrder(o), step, type, quantity) \in FillEvent
<1>1. o \in OrderIds /\ orders[o].req \in Requests
  BY DEF TypeOK, OrdersTypeOK, Order
<1>2. <<o, step>> \in EventIds /\ <<o, step>> \in ExecIds /\ orders[o].req.price \in FillPrices
  BY <1>1, FakeBrokerAssumption
<1> QED
  BY <1>1, <1>2 DEF FillReport, BrokerOrder, FillEvent

LEMMA StatusReportType ==
    ASSUME TypeOK, NEW o \in DOMAIN orders, NEW step \in {"order", "cancel"},
           NEW type \in {"REJECTED", "CANCELLED"}
    PROVE  StatusReport(o, step, type) \in StatusEvent
<1>1. o \in OrderIds
  BY DEF TypeOK, OrdersTypeOK
<1>2. <<o, step>> \in EventIds
  BY <1>1, FakeBrokerAssumption
<1> QED
  BY <1>1, <1>2 DEF StatusReport, StatusEvent

LEMMA QuantitiesFit ==
    ASSUME TypeOK, NEW o \in DOMAIN orders
    PROVE  /\ orders[o].req.quantity \in Nat \ {0}
           /\ 1 .. orders[o].req.quantity \subseteq FillQuantities
<1>1. orders[o].req \in Requests
  BY DEF TypeOK, OrdersTypeOK, Order
<1> QED
  BY <1>1, RequestType, FakeBrokerAssumption

-----------------------------------------------------------------------------
(* What a task of the broker puts on the queue, and as what it goes on.       *)

OrderReported(o, task, e, next) ==
    LET req == orders[o].req
    IN  /\ task = Task("order", o, req.quantity)
        /\ \/ e.type = "REJECTED" /\ next = {}
           \/ e.type = "FULL_FILL" /\ e.quantity = req.quantity /\ next = {}
           \/ /\ e.type = "PARTIAL_FILL" /\ e.quantity \in 1 .. req.quantity
              /\ \/ next = {}
                 \/ /\ next = {Task("rest", o, req.quantity - e.quantity)}
                    /\ e.quantity < req.quantity /\ req.tif # "IOC"

RestReported(task, e, next) ==
    task.step = "rest" /\ e.type = "FULL_FILL" /\ e.quantity = task.quantity /\ next = {}

CancelReported(o, task, e, next) ==
    task = Task("cancel", o, 0) /\ e = StatusReport(o, "cancel", "CANCELLED") /\ next = {}

Reported(o, task, e, next) ==
    /\ Send(task, e, next) /\ task.id = o /\ e.order = o
    /\ \/ OrderReported(o, task, e, next)
       \/ RestReported(task, e, next)
       \/ CancelReported(o, task, e, next)

LEMMA OrderTaskReports ==
    ASSUME TypeOK, NEW o \in DOMAIN orders, SimulateOrder(BrokerOrder(o))
    PROVE  \E task \in tasks, e \in BrokerEvent : \E next : Reported(o, task, e, next)
<1> DEFINE order == BrokerOrder(o)
           n == orders[o].req.quantity
           task == Task("order", o, n)
<1>1. /\ order.id = o /\ order.remaining = n
      /\ order.tif = orders[o].req.tif /\ order.price = orders[o].req.price
      /\ Task("order", order.id, order.remaining) = task
  BY DEF BrokerOrder
<1>2. n \in Nat \ {0} /\ 1 .. n \subseteq FillQuantities
  BY QuantitiesFit
<1>3. task.id = o
  BY DEF Task
<1> HIDE DEF order
<1>4. CASE Send(task, StatusReport(o, "order", "REJECTED"), {})
  <2> DEFINE e == StatusReport(o, "order", "REJECTED")
  <2>1. e \in StatusEvent /\ e.order = o /\ e.type = "REJECTED"
    BY StatusReportType DEF StatusReport
  <2> HIDE DEF e
  <2>2. Send(task, e, {})
    BY <1>4 DEF e
  <2> QED
    BY <1>3, <2>1, <2>2 DEF Reported, OrderReported, BrokerEvent, Send
<1>5. CASE Send(task, FillReport(order, "order", "FULL_FILL", n), {})
  <2> DEFINE e == FillReport(order, "order", "FULL_FILL", n)
  <2>1. e \in FillEvent
    BY <1>2, ReportType DEF order
  <2>2. e.order = o /\ e.type = "FULL_FILL" /\ e.quantity = n
    BY <1>1 DEF FillReport
  <2> HIDE DEF e
  <2>3. Send(task, e, {})
    BY <1>5 DEF e
  <2> QED
    BY <1>3, <2>1, <2>2, <2>3 DEF Reported, OrderReported, BrokerEvent, Send
<1>6. ASSUME NEW quantity \in PartialQuantities(n), NEW next \in AfterPartial(order, quantity),
             Send(task, FillReport(order, "order", "PARTIAL_FILL", quantity), next)
      PROVE  \E t \in tasks, e \in BrokerEvent : \E rest : Reported(o, t, e, rest)
  <2> DEFINE e == FillReport(order, "order", "PARTIAL_FILL", quantity)
  <2>1. quantity \in 1 .. n
    BY <1>2, PartialBounds
  <2>2. e \in FillEvent
    BY <1>2, <2>1, ReportType DEF order
  <2>3. e.order = o /\ e.type = "PARTIAL_FILL" /\ e.quantity = quantity
    BY <1>1 DEF FillReport
  <2>4. \/ next = {}
        \/ /\ next = {Task("rest", o, n - quantity)}
           /\ quantity < n /\ orders[o].req.tif # "IOC"
    <3>1. Task("rest", o, n - quantity).quantity = n - quantity
      BY DEF Task
    <3>2. CASE next # {}
      <4>1. /\ order.tif # "IOC"
            /\ n - quantity # 0
            /\ next = {Task("rest", o, n - quantity)}
        BY <1>1, <3>1, <3>2 DEF AfterPartial
      <4> QED
        BY <1>1, <1>2, <2>1, <4>1
    <3> QED
      BY <3>2
  <2> HIDE DEF e
  <2>5. Send(task, e, next)
    BY <1>6 DEF e
  <2> QED
    BY <1>3, <2>1, <2>2, <2>3, <2>4, <2>5 DEF Reported, OrderReported, BrokerEvent, Send
<1> QED
  BY <1>1, <1>4, <1>5, <1>6 DEF SimulateOrder, order

LEMMA TaskReports ==
    ASSUME RuntimeTypeOK, NEW o \in DOMAIN orders, RunTask(o)
    PROVE  \E task \in tasks, e \in BrokerEvent : \E next : Reported(o, task, e, next)
<1>1. CASE SimulateOrder(BrokerOrder(o))
  BY <1>1, OrderTaskReports DEF RuntimeTypeOK
<1>2. CASE SimulateRest(BrokerOrder(o))
  <2>1. PICK task \in tasks :
            /\ task.step = "rest" /\ task.id = o
            /\ Send(task, FillReport(BrokerOrder(o), "rest", "FULL_FILL", task.quantity), {})
    BY <1>2 DEF SimulateRest, BrokerOrder
  <2> DEFINE e == FillReport(BrokerOrder(o), "rest", "FULL_FILL", task.quantity)
  <2>2. e \in FillEvent
    BY <2>1, ReportType DEF RuntimeTypeOK, QueueTypeOK
  <2>3. e.order = o /\ e.type = "FULL_FILL" /\ e.quantity = task.quantity
    BY DEF FillReport, BrokerOrder
  <2> HIDE DEF e
  <2>4. Send(task, e, {})
    BY <2>1 DEF e
  <2> QED
    BY <2>1, <2>2, <2>3, <2>4 DEF Reported, RestReported, BrokerEvent
<1>3. CASE SimulateCancellation(o)
  <2> DEFINE task == Task("cancel", o, 0)
             e == StatusReport(o, "cancel", "CANCELLED")
  <2>1. Send(task, e, {}) /\ task \in tasks
    BY <1>3 DEF SimulateCancellation, Send
  <2>2. e \in StatusEvent /\ e.order = o /\ task.id = o
    BY StatusReportType DEF StatusReport, Task, RuntimeTypeOK
  <2>3. CancelReported(o, task, e, {})
    BY DEF CancelReported
  <2> HIDE DEF task, e
  <2> QED
    BY <2>1, <2>2, <2>3 DEF Reported, BrokerEvent
<1> QED
  BY <1>1, <1>2, <1>3 DEF RunTask

-----------------------------------------------------------------------------
(* Every step of the process is a step of the core or leaves it alone.        *)

LEMMA HeadType ==
    ASSUME QueueTypeOK, queue # <<>>
    PROVE  /\ Head(queue) \in BrokerEvent /\ Tail(queue) \in Seq(BrokerEvent)
           /\ Head(queue) = queue[1] /\ 1 \in DOMAIN queue
           /\ Len(Tail(queue)) = Len(queue) - 1
           /\ \A i \in 1 .. Len(Tail(queue)) : Tail(queue)[i] = queue[i + 1]
           /\ DOMAIN queue = 1 .. Len(queue) /\ DOMAIN Tail(queue) = 1 .. Len(Tail(queue))
<1>1. queue \in Seq(BrokerEvent)
  BY DEF QueueTypeOK
<1> QED
  BY <1>1, HeadTailProperties

LEMMA OrderPlaced ==
    ASSUME TypeOK, NEW req \in Requests, PlaceOrder(req)
    PROVE  \E o \in OrderIds :
               \/ RejectNewOrder(o, req) /\ UNCHANGED handlers
               \/ /\ RouteNewOrder(o, req)
                  /\ handlers' = handlers \cup {Handler("submit", o, "client")}
<1> DEFINE o == CHOOSE p \in OrderIds : p \notin DOMAIN orders
<1>1. o \in OrderIds
  BY DEF PlaceOrder, TypeOK, OrdersTypeOK
<1>2. \/ RejectNewOrder(o, req) /\ UNCHANGED handlers
      \/ RouteNewOrder(o, req) /\ handlers' = handlers \cup {Handler("submit", o, "client")}
  BY DEF PlaceOrder
<1> HIDE DEF o
<1> QED
  BY <1>1, <1>2

LEMMA CoreStep ==
    ASSUME RuntimeTypeOK, [RuntimeNext]_allVars
    PROVE  [Next]_vars
<1> USE DEF RuntimeTypeOK
<1>1. CASE OpenAccount
  BY <1>1 DEF OpenAccount, Next
<1>2. ASSUME NEW req \in Requests, PlaceOrder(req) PROVE [Next]_vars
  BY <1>2, OrderPlaced DEF Next
<1>3. ASSUME NEW o \in DOMAIN orders,
             \/ Cancel(o, "client")
             \/ CallSubmit(o) \/ CallCancel(o) \/ RunTask(o)
      PROVE  [Next]_vars
  BY <1>3 DEF Cancel, CallSubmit, CallCancel, RunTask, OrderStep, Next
<1>4. CASE ProcessEvent
  <2>1. /\ Head(queue) \in BrokerEvent
        /\ IF IsFill(Head(queue)) THEN FillStep(Head(queue)) ELSE StatusStep(Head(queue))
    BY <1>4, HeadType DEF ProcessEvent
  <2>2. \/ Head(queue) \in FillEvent /\ FillStep(Head(queue))
        \/ Head(queue) \in StatusEvent /\ StatusStep(Head(queue))
    BY <2>1, EventKinds
  <2> QED
    BY <2>2 DEF Next
<1>5. CASE ExpireNext
  BY <1>5 DEF ExpireNext, OrderStep, Next
<1>6. CASE DropUnsettled \/ DropInOutage \/ Scan \/ Expire \/ Restart \/ UNCHANGED allVars
  BY <1>6 DEF DropUnsettled, DropInOutage, DropEvent, Scan, Expire, Restart, allVars
<1> QED
  BY <1>1, <1>2, <1>3, <1>4, <1>5, <1>6
     DEF RuntimeNext, Client, EventLoop, ExpiryWorker, Fault

(* What a step does to the broker's tasks and the queue.                      *)
BrokerRests == UNCHANGED brokerVars

StartsTask ==
    /\ \E o \in DOMAIN orders :
           \/ CallSubmit(o) /\ tasks' = tasks \cup {Task("order", o, orders[o].req.quantity)}
           \/ CallCancel(o) /\ tasks' = tasks \cup {Task("cancel", o, 0)}
    /\ UNCHANGED queue

TaskReported ==
    /\ UNCHANGED <<vars, handlers, faultVars>>
    /\ \E o \in DOMAIN orders, task \in tasks, e \in BrokerEvent :
           \E next : Reported(o, task, e, next)

TakesEvent ==
    /\ ProcessEvent \/ DropEvent(Head(queue))
    /\ queue # <<>> /\ queue' = Tail(queue)
    /\ UNCHANGED <<tasks, handlers, interrupted>>

LEMMA BrokerShape ==
    ASSUME RuntimeTypeOK, [RuntimeNext]_allVars
    PROVE  \/ BrokerRests /\ UNCHANGED faultVars
           \/ StartsTask /\ UNCHANGED faultVars
           \/ TaskReported
           \/ TakesEvent
           \/ Restart
<1>1. CASE OpenAccount \/ (\E req \in Requests : PlaceOrder(req))
  BY <1>1 DEF OpenAccount, PlaceOrder, BrokerRests, runtimeVars
<1>2. ASSUME NEW o \in DOMAIN orders, Cancel(o, "client")
      PROVE  BrokerRests /\ UNCHANGED faultVars
  BY <1>2 DEF Cancel, BrokerRests
<1>3. ASSUME NEW o \in DOMAIN orders, CallSubmit(o)
      PROVE  StartsTask /\ UNCHANGED faultVars
  BY <1>3 DEF CallSubmit, StartOrder, BrokerOrder, StartsTask
<1>4. ASSUME NEW o \in DOMAIN orders, CallCancel(o)
      PROVE  StartsTask /\ UNCHANGED faultVars
  BY <1>4 DEF CallCancel, StartCancel, StartsTask
<1>5. ASSUME NEW o \in DOMAIN orders, RunTask(o) PROVE TaskReported
  BY <1>5, TaskReports DEF RunTask, TaskReported
<1>6. CASE ProcessEvent
  BY <1>6 DEF ProcessEvent, TakesEvent, faultVars
<1>7. CASE DropUnsettled \/ DropInOutage
  BY <1>7 DEF DropUnsettled, DropInOutage, DropEvent, TakesEvent
<1>8. CASE Scan \/ Expire \/ ExpireNext \/ UNCHANGED allVars
  BY <1>8 DEF Scan, Expire, ExpireNext, BrokerRests, allVars, runtimeVars
<1> QED
  BY <1>1, <1>2, <1>3, <1>4, <1>5, <1>6, <1>7, <1>8
     DEF RuntimeNext, Client, EventLoop, ExpiryWorker, Fault

LEMMA QueueTypeStep ==
    ASSUME RuntimeTypeOK, [RuntimeNext]_allVars
    PROVE  QueueTypeOK'
<1> USE DEF RuntimeTypeOK
<1>1. CASE BrokerRests
  BY <1>1 DEF BrokerRests, brokerVars, QueueTypeOK
<1>2. CASE StartsTask
  <2>1. ASSUME NEW o, NEW n
        PROVE  Task("order", o, n).step # "rest" /\ Task("cancel", o, n).step # "rest"
    BY DEF Task
  <2> QED
    BY <1>2, <2>1 DEF StartsTask, QueueTypeOK
<1>3. CASE TaskReported
  <2>1. PICK o \in DOMAIN orders, task \in tasks, e \in BrokerEvent :
                \E next : Reported(o, task, e, next)
    BY <1>3 DEF TaskReported
  <2>2. PICK next : Reported(o, task, e, next)
    BY <2>1
  <2>3. queue' = Append(queue, e) /\ tasks' = (tasks \ {task}) \cup next
    BY <2>2 DEF Reported, Send
  <2>4. \A t \in next : t.quantity \in FillQuantities
    <3>1. CASE next # {}
      <4>1. /\ next = {Task("rest", o, orders[o].req.quantity - e.quantity)}
            /\ e.quantity \in 1 .. orders[o].req.quantity /\ e.quantity < orders[o].req.quantity
        BY <2>2, <3>1 DEF Reported, OrderReported, RestReported, CancelReported
      <4>2. orders[o].req.quantity - e.quantity \in FillQuantities
        BY <4>1, QuantitiesFit
      <4> QED
        BY <4>1, <4>2 DEF Task
    <3> QED
      BY <3>1
  <2> QED
    BY <2>3, <2>4, AppendProperties DEF QueueTypeOK
<1>4. CASE TakesEvent
  BY <1>4, HeadType DEF TakesEvent, QueueTypeOK
<1>5. CASE Restart
  BY <1>5 DEF Restart, Stop, QueueTypeOK
<1> QED
  BY <1>1, <1>2, <1>3, <1>4, <1>5, BrokerShape

LEMMA RuntimeTypeInductive == RuntimeSpec => []RuntimeTypeOK
<1>1. RuntimeInit => RuntimeTypeOK
  BY TypeCorrectInit DEF RuntimeInit, BrokerInit, RuntimeTypeOK, QueueTypeOK
<1>2. RuntimeTypeOK /\ [RuntimeNext]_allVars => RuntimeTypeOK'
  BY CoreStep, QueueTypeStep, TypeCorrectStep DEF RuntimeTypeOK
<1> QED
  BY <1>1, <1>2, PTL DEF RuntimeSpec

(* The process that main.py runs is an instance of the core: whatever its     *)
(* broker, its workers and its restarts do, the tables change by the          *)
(* transactions of OrderManagement alone, so that what is proved of the core  *)
(* holds of it.                                                               *)
THEOREM RuntimeImplementsCore == RuntimeSpec => Spec
<1>1. RuntimeInit => Init
  BY DEF RuntimeInit
<1>2. RuntimeTypeOK /\ [RuntimeNext]_allVars => [Next]_vars
  BY CoreStep
<1> QED
  BY <1>1, <1>2, RuntimeTypeInductive, PTL DEF RuntimeSpec, Spec

-----------------------------------------------------------------------------
(* Cancellations under way.                                                   *)

LEMMA EventMoves ==
    ASSUME RuntimeTypeOK, ProcessEvent
    PROVE  LET e == Head(queue)
           IN  \/ MovesTo(e, {"FILLED", "CANCELLED", "REJECTED", orders[e.order].status})
               \/ orders[e.order].status = "ROUTED" /\ MovesTo(e, {"PARTIALLY_FILLED"})
<1> DEFINE e == Head(queue)
<1>1. /\ e \in BrokerEvent
      /\ IF IsFill(e) THEN FillStep(e) ELSE StatusStep(e)
  BY HeadType DEF ProcessEvent, RuntimeTypeOK
<1>2. TypeOK
  BY DEF RuntimeTypeOK
<1> HIDE DEF e
<1>3. CASE IgnoreEvent(e) \/ BrokerRejects(e) \/ BrokerCancels(e)
  BY <1>2, <1>3, StatusEventStatuses DEF MovesTo, e
<1>4. CASE IsFill(e) /\ (CompleteFill(e) \/ PartialFill(e) \/ IocPartialFill(e))
  BY <1>1, <1>2, <1>4, EventKinds, FillStatuses DEF MovesTo, e
<1> QED
  BY <1>1, <1>3, <1>4 DEF FillStep, StatusStep

(* An order becomes CANCEL_PENDING by a request that goes on to the broker.   *)
LEMMA PendingComes ==
    ASSUME RuntimeTypeOK, [RuntimeNext]_allVars,
           NEW o \in DOMAIN orders', orders'[o].status = "CANCEL_PENDING"
    PROVE  /\ o \in DOMAIN orders
           /\ \/ orders[o].status = "CANCEL_PENDING"
              \/ \E by : Handler("cancel", o, by) \in handlers'
<1> DEFINE Goal == /\ o \in DOMAIN orders
                   /\ \/ orders[o].status = "CANCEL_PENDING"
                      \/ \E by : Handler("cancel", o, by) \in handlers'
<1>1. TypeOK
  BY DEF RuntimeTypeOK
<1>2. CASE UNCHANGED orders
  BY <1>2
<1>3. ASSUME NEW req \in Requests, PlaceOrder(req) PROVE Goal
  <2>1. PICK new \in OrderIds : RejectNewOrder(new, req) \/ RouteNewOrder(new, req)
    BY <1>1, <1>3, OrderPlaced
  <2>2. PICK status, audit : Inserts(new, req, status, audit)
    BY <1>1, <2>1, NewOrderInserts
  <2>3. status \in {"REJECTED", "ROUTED"} /\ NewOrder(req, status).status = status
    BY <2>2 DEF Inserts, NewOrder
  <2>4. /\ DOMAIN orders' = DOMAIN orders \cup {new}
        /\ orders'[o] = IF o = new THEN NewOrder(req, status) ELSE orders[o]
    BY <1>1, <2>2, InsertedOrder
  <2> QED
    BY <2>3, <2>4
<1>4. ASSUME NEW p \in DOMAIN orders, NEW by, RequestCancellation(p),
             handlers' = handlers \cup {Handler("cancel", p, by)}
      PROVE  Goal
  <2>1. \E row, audit : SaveOrder(p, row, audit)
    BY <1>4 DEF RequestCancellation
  <2> QED
    BY <1>1, <1>4, <2>1, SavedOrder
<1>5. CASE ProcessEvent
  <2> DEFINE e == Head(queue)
  <2>1. \/ MovesTo(e, {"FILLED", "CANCELLED", "REJECTED", orders[e.order].status})
        \/ orders[e.order].status = "ROUTED" /\ MovesTo(e, {"PARTIALLY_FILLED"})
    BY <1>5, EventMoves
  <2> HIDE DEF e
  <2> QED
    BY <1>1, <2>1, SavedOrder DEF MovesTo
<1>6. CASE OpenAccount
  BY <1>2, <1>6 DEF OpenAccount, CreateAccount, orderVars
<1>7. ASSUME NEW p \in DOMAIN orders, CallSubmit(p) \/ CallCancel(p) \/ RunTask(p) PROVE Goal
  BY <1>2, <1>7 DEF CallSubmit, CallCancel, RunTask, Submit, NotifyCancel, vars, orderVars
<1>8. CASE DropUnsettled \/ DropInOutage \/ Scan \/ Expire \/ Restart \/ UNCHANGED allVars
  BY <1>2, <1>8 DEF DropUnsettled, DropInOutage, DropEvent, Scan, Expire, Restart, allVars, vars,
                    orderVars
<1>9. ASSUME NEW p \in DOMAIN orders, Cancel(p, "client") PROVE Goal
  BY <1>4, <1>9 DEF Cancel
<1>10. CASE ExpireNext
  BY <1>2, <1>4, <1>10 DEF ExpireNext, vars, orderVars
<1> QED
  BY <1>3, <1>5, <1>6, <1>7, <1>8, <1>9, <1>10
     DEF RuntimeNext, Client, EventLoop, ExpiryWorker, Fault

Excused(o) ==
    \/ o \in interrupted
    \/ \E e \in dropped : e.order = o /\ e.type = "CANCELLED"

LEMMA ExcusesStay ==
    ASSUME [RuntimeNext]_allVars, NEW o, Excused(o)
    PROVE  Excused(o)'
  BY DEF RuntimeNext, Client, EventLoop, ExpiryWorker, Fault, OpenAccount, PlaceOrder, Cancel,
         CallSubmit, CallCancel, RunTask, ProcessEvent, DropUnsettled, DropInOutage, DropEvent,
         Scan, Expire, ExpireNext, Restart, faultVars, runtimeVars, allVars, Excused

(* A cancellation under way goes on, from the handler to a task of the        *)
(* broker, to the queue, to the order's end, unless a stop of the process or  *)
(* a dropped event excuses it.                                                *)
LEMMA HandlerGoesOn ==
    ASSUME [RuntimeNext]_allVars, NEW o \in DOMAIN orders,
           orders[o].status = "CANCEL_PENDING",
           NEW handler \in handlers, handler.call = "cancel", handler.order = o
    PROVE  CancelUnderWay(o)' \/ Excused(o)'
<1>1. CASE handlers \subseteq handlers'
  BY <1>1 DEF CancelUnderWay
<1>2. ASSUME NEW p \in DOMAIN orders, CallSubmit(p) PROVE handler \in handlers'
  BY <1>2 DEF CallSubmit, Handler
<1>3. ASSUME NEW p \in DOMAIN orders, CallCancel(p) PROVE CancelUnderWay(o)'
  <2>1. handler \in handlers' \/ p = o
    BY <1>3 DEF CallCancel
  <2>2. Task("cancel", p, 0) \in tasks'
    BY <1>3 DEF CallCancel, StartCancel
  <2> QED
    BY <2>1, <2>2 DEF CancelUnderWay
<1>4. CASE Restart
  BY <1>4 DEF Restart, Excused, OPEN_ORDER_STATUSES
<1>5. CASE OpenAccount \/ (\E req \in Requests : PlaceOrder(req))
           \/ (\E p \in DOMAIN orders : Cancel(p, "client") \/ RunTask(p))
  BY <1>1, <1>5 DEF OpenAccount, PlaceOrder, Cancel, RunTask, runtimeVars
<1>6. CASE ProcessEvent \/ DropUnsettled \/ DropInOutage \/ Scan \/ Expire \/ ExpireNext
           \/ UNCHANGED allVars
  BY <1>1, <1>6 DEF ProcessEvent, DropUnsettled, DropInOutage, DropEvent, Scan, Expire, ExpireNext,
                    allVars, runtimeVars
<1> QED
  BY <1>2, <1>3, <1>4, <1>5, <1>6 DEF RuntimeNext, Client, EventLoop, ExpiryWorker, Fault,
                                      CancelUnderWay

LEMMA TaskGoesOn ==
    ASSUME RuntimeTypeOK, [RuntimeNext]_allVars, NEW o \in DOMAIN orders,
           orders[o].status = "CANCEL_PENDING", Task("cancel", o, 0) \in tasks
    PROVE  CancelUnderWay(o)' \/ Excused(o)'
<1> DEFINE task == Task("cancel", o, 0)
<1>1. task.id = o /\ task.step = "cancel"
  BY DEF Task
<1>2. CASE task \in tasks'
  BY <1>2 DEF CancelUnderWay
<1>3. CASE TaskReported
  <2>1. PICK p \in DOMAIN orders, t \in tasks, e \in BrokerEvent :
                \E next : Reported(p, t, e, next)
    BY <1>3 DEF TaskReported
  <2>2. PICK next : Reported(p, t, e, next)
    BY <2>1
  <2>3. tasks' = (tasks \ {t}) \cup next /\ queue' = Append(queue, e) /\ t.id = p
    BY <2>2 DEF Reported, Send
  <2>4. CASE t = task
    <3>1. p = o /\ e = StatusReport(o, "cancel", "CANCELLED")
      BY <1>1, <2>2, <2>3, <2>4 DEF Reported, OrderReported, RestReported, CancelReported, Task
    <3>2. Len(queue) + 1 \in DOMAIN queue' /\ queue'[Len(queue) + 1] = e
      BY <2>3, AppendProperties DEF RuntimeTypeOK, QueueTypeOK
    <3> QED
      BY <3>1, <3>2 DEF CancelUnderWay
  <2> QED
    BY <1>2, <2>3, <2>4
<1>4. CASE Restart
  BY <1>4 DEF Restart, Excused, OPEN_ORDER_STATUSES
<1>5. CASE BrokerRests \/ StartsTask \/ TakesEvent
  BY <1>2, <1>5 DEF BrokerRests, brokerVars, StartsTask, TakesEvent
<1> QED
  BY <1>3, <1>4, <1>5, BrokerShape

LEMMA EventGoesOn ==
    ASSUME RuntimeTypeOK, [RuntimeNext]_allVars, NEW o \in DOMAIN orders,
           orders[o].status = "CANCEL_PENDING",
           NEW i \in DOMAIN queue, queue[i] = StatusReport(o, "cancel", "CANCELLED")
    PROVE  CancelUnderWay(o)' \/ Excused(o)' \/ orders'[o].status # "CANCEL_PENDING"
<1> DEFINE report == StatusReport(o, "cancel", "CANCELLED")
<1>1. report.order = o /\ report.type = "CANCELLED"
  BY DEF StatusReport
<1> HIDE DEF report
<1>2. ASSUME NEW j \in DOMAIN queue', queue'[j] = report PROVE CancelUnderWay(o)'
  BY <1>2 DEF CancelUnderWay, report
<1>3. CASE BrokerRests \/ StartsTask
  BY <1>2, <1>3 DEF BrokerRests, brokerVars, StartsTask, report
<1>4. CASE TaskReported
  <2>1. PICK e \in BrokerEvent : queue' = Append(queue, e)
    BY <1>4 DEF TaskReported, Reported, Send
  <2>2. i \in DOMAIN queue' /\ queue'[i] = queue[i]
    BY <2>1, AppendProperties DEF RuntimeTypeOK, QueueTypeOK
  <2> QED
    BY <1>2, <2>2 DEF report
<1>5. CASE TakesEvent
  <2>1. queue # <<>> /\ queue' = Tail(queue) /\ QueueTypeOK
    BY <1>5 DEF TakesEvent, RuntimeTypeOK
  <2>2. CASE i # 1
    <3>1. i - 1 \in DOMAIN queue' /\ queue'[i - 1] = queue[i]
      BY <2>1, <2>2, HeadType
    <3> QED
      BY <1>2, <3>1 DEF report
  <2>3. CASE i = 1 /\ DropEvent(Head(queue))
    BY <1>1, <2>1, <2>3, HeadType DEF DropEvent, Excused, report
  <2>4. CASE i = 1 /\ ProcessEvent
    <3>1. Head(queue) = report /\ StatusStep(report)
      BY <1>1, <2>1, <2>4, HeadType DEF ProcessEvent, IsFill, report
    <3>2. ~NotAdmitted(orders[o], report) /\ report.order = o
      BY <1>1 DEF NotAdmitted, EXECUTABLE_STATUSES
    <3>3. BrokerCancels(report)
      BY <1>1, <3>1, <3>2 DEF StatusStep, IgnoreEvent, BrokerRejects
    <3>4. CancelledOrder(orders[o]).status = "CANCELLED"
      <4>1. orders[o] \in Order
        BY DEF RuntimeTypeOK, TypeOK, OrdersTypeOK
      <4> QED
        BY <4>1, CancelledOrderType
    <3>5. orders'[o] = CancelledOrder(orders[o])
      BY <1>1, <3>3, SavedOrder DEF BrokerCancels, RuntimeTypeOK
    <3> QED
      BY <3>4, <3>5
  <2> QED
    BY <1>5, <2>2, <2>3, <2>4 DEF TakesEvent
<1>6. CASE Restart
  BY <1>6 DEF Restart, Excused, OPEN_ORDER_STATUSES
<1> QED
  BY <1>3, <1>4, <1>5, <1>6, BrokerShape

LEMMA OrphansStep ==
    ASSUME RuntimeTypeOK, OrphansHaveACause, [RuntimeNext]_allVars
    PROVE  OrphansHaveACause'
<1> SUFFICES ASSUME NEW o \in DOMAIN orders', orders'[o].status = "CANCEL_PENDING"
             PROVE  CancelUnderWay(o)' \/ Excused(o)'
  BY DEF OrphansHaveACause, Orphaned, Excused
<1>1. CASE \E by : Handler("cancel", o, by) \in handlers'
  BY <1>1 DEF CancelUnderWay, Handler
<1>2. CASE o \in DOMAIN orders /\ orders[o].status = "CANCEL_PENDING"
  <2>1. CancelUnderWay(o) \/ Excused(o)
    BY <1>2 DEF OrphansHaveACause, Orphaned, Excused
  <2> QED
    BY <1>2, <2>1, HandlerGoesOn, TaskGoesOn, EventGoesOn, ExcusesStay DEF CancelUnderWay
<1> QED
  BY <1>1, <1>2, PendingComes

(* However calls, tasks and events interleave, an order waits for a           *)
(* cancellation nobody will deliver only if the process stopped while it was  *)
(* open or the worker dropped the event that would have ended it.             *)
THEOREM CancellationsAreNotLost == RuntimeSpec => []OrphansHaveACause
<1>1. RuntimeInit => OrphansHaveACause
  BY DEF RuntimeInit, Init, NoRows, OrphansHaveACause
<1>2. RuntimeTypeOK /\ OrphansHaveACause /\ [RuntimeNext]_allVars => OrphansHaveACause'
  BY OrphansStep
<1> QED
  BY <1>1, <1>2, RuntimeTypeInductive, PTL DEF RuntimeSpec

-----------------------------------------------------------------------------
(* The fake broker and the service agree on what is left of an order.         *)

(* An order that nobody has asked to cancel and none of whose events is lost. *)
Quiet(o) ==
    /\ cancellation[o].pending + cancellation[o].sent = 0
    /\ \A e \in dropped : e.order # o

Submitting(o) == Handler("submit", o, "client") \in handlers
TasksOf(o) == {task \in tasks : task.id = o}
EventsOf(o) == {i \in DOMAIN queue : queue[i].order = o}

Untouched(o) == orders[o].status = "ROUTED" /\ orders[o].remaining = orders[o].req.quantity

(* A partial fill that is to be followed by a fill of the rest.               *)
FirstPart(o, e, rest) ==
    /\ orders[o].status = "ROUTED" /\ orders[o].req.tif # "IOC"
    /\ e.type = "PARTIAL_FILL" /\ e.quantity + rest = orders[o].remaining

(* Where a quiet order stands between its submission and its last event.      *)
Waiting(o) == Untouched(o) /\ TasksOf(o) = {} /\ EventsOf(o) = {}

Working(o) ==
    /\ Untouched(o)
    /\ TasksOf(o) = {Task("order", o, orders[o].req.quantity)}
    /\ EventsOf(o) = {}

Answered(o) ==
    /\ TasksOf(o) = {}
    /\ \E i \in EventsOf(o) : EventsOf(o) = {i} /\ ~NotAdmitted(orders[o], queue[i])

PartAnswered(o) ==
    \E task \in TasksOf(o), i \in EventsOf(o) :
        /\ TasksOf(o) = {task} /\ task.step = "rest"
        /\ EventsOf(o) = {i}
        /\ FirstPart(o, queue[i], task.quantity)

PartDone(o) ==
    \E task \in TasksOf(o) :
        /\ TasksOf(o) = {task} /\ task.step = "rest"
        /\ EventsOf(o) = {}
        /\ orders[o].status = "PARTIALLY_FILLED" /\ orders[o].remaining = task.quantity

BothAnswered(o) ==
    /\ TasksOf(o) = {}
    /\ \E i, j \in EventsOf(o) :
           /\ i < j /\ EventsOf(o) = {i, j}
           /\ queue[j].type = "FULL_FILL"
           /\ FirstPart(o, queue[i], queue[j].quantity)

Over(o) == TasksOf(o) = {} /\ EventsOf(o) = {}

Agreed(o) ==
    \/ Waiting(o)
    \/ /\ ~Submitting(o)
       /\ \/ Working(o) \/ Answered(o) \/ PartAnswered(o)
          \/ PartDone(o) \/ BothAnswered(o) \/ Over(o)

QuietOrdersAgree == \A o \in DOMAIN orders : Quiet(o) => Agreed(o)

(* Calls, tasks and events are about orders in the table.                     *)
AboutOrders ==
    /\ \A task \in tasks : task.id \in DOMAIN orders
    /\ \A handler \in handlers : handler.order \in DOMAIN orders
    /\ \A i \in DOMAIN queue : queue[i].order \in DOMAIN orders

BrokerInv == RuntimeTypeOK /\ AboutOrders /\ QuietOrdersAgree

LEMMA EventQuantity ==
    ASSUME QueueTypeOK, NEW i \in DOMAIN queue, IsFill(queue[i])
    PROVE  queue[i].quantity \in Nat \ {0}
<1>1. queue[i] \in BrokerEvent
  BY ElementOfSeq DEF QueueTypeOK
<1> QED
  BY <1>1, EventKinds, EventType

(* The oldest event of a quiet order fits its row.                            *)
LEMMA HeadFits ==
    ASSUME RuntimeTypeOK, NEW o \in DOMAIN orders, Agreed(o), 1 \in EventsOf(o)
    PROVE  ~NotAdmitted(orders[o], queue[1])
<1>1. orders[o].remaining \in Nat /\ QueueTypeOK
  BY DEF RuntimeTypeOK, TypeOK, OrdersTypeOK, Order
<1>2. EventsOf(o) \subseteq DOMAIN queue /\ DOMAIN queue \subseteq Nat \ {0}
  <2>1. DOMAIN queue = 1 .. Len(queue) /\ Len(queue) \in Nat
    BY <1>1 DEF QueueTypeOK
  <2> QED
    BY <2>1 DEF EventsOf
<1>3. ASSUME NEW n \in Nat \ {0}, FirstPart(o, queue[1], n)
      PROVE  ~NotAdmitted(orders[o], queue[1])
  <2>1. queue[1].quantity \in Nat \ {0}
    BY <1>1, <1>2, <1>3, EventQuantity DEF FirstPart, IsFill
  <2> QED
    BY <1>1, <1>3, <2>1 DEF FirstPart, NotAdmitted, FillAccepted, EXECUTABLE_STATUSES
<1>4. CASE Answered(o)
  BY <1>4 DEF Answered
<1>5. CASE PartAnswered(o)
  <2>1. PICK task \in TasksOf(o) : task.step = "rest" /\ FirstPart(o, queue[1], task.quantity)
    BY <1>5 DEF PartAnswered
  <2>2. task.quantity \in Nat \ {0}
    BY <1>1, <2>1, FillsAssumption DEF TasksOf, QueueTypeOK
  <2> QED
    BY <1>3, <2>1, <2>2
<1>6. CASE BothAnswered(o)
  <2>1. PICK i, j \in EventsOf(o) :
                /\ i < j /\ EventsOf(o) = {i, j}
                /\ queue[j].type = "FULL_FILL"
                /\ FirstPart(o, queue[i], queue[j].quantity)
    BY <1>6 DEF BothAnswered
  <2>2. i = 1
    BY <1>2, <2>1
  <2>3. queue[j].quantity \in Nat \ {0}
    BY <1>1, <1>2, <2>1, EventQuantity DEF IsFill
  <2> QED
    BY <1>3, <2>1, <2>2, <2>3
<1> QED
  BY <1>4, <1>5, <1>6 DEF Agreed, Waiting, Working, PartDone, Over

-----------------------------------------------------------------------------
(* An order that is quiet was quiet.                                          *)

CallsOnlyGrow ==
    \A o \in DOMAIN orders :
        /\ o \in DOMAIN orders'
        /\ cancellation'[o].pending + cancellation'[o].sent = 0 =>
               cancellation[o].pending + cancellation[o].sent = 0

LEMMA RequestCounts ==
    ASSUME TypeOK, NEW o \in DOMAIN orders, RequestCancellation(o)
    PROVE  /\ CallsOnlyGrow
           /\ cancellation'[o].pending + cancellation'[o].sent # 0
           /\ \A p \in DOMAIN orders \ {o} : orders'[p] = orders[p]
<1> DEFINE calls == [cancellation[o] EXCEPT !.pending = @ + 1]
<1>1. /\ cancellation' = [cancellation EXCEPT ![o] = calls]
      /\ \E row : orders' = [orders EXCEPT ![o] = row]
  BY DEF RequestCancellation, SaveOrder
<1>2. calls.pending + calls.sent # 0
  BY DEF TypeOK, HandlersTypeOK, Cancellation
<1> HIDE DEF calls
<1> QED
  BY <1>1, <1>2 DEF CallsOnlyGrow, TypeOK, OrdersTypeOK, HandlersTypeOK

LEMMA NotifyCounts ==
    ASSUME TypeOK, NEW o \in DOMAIN orders, NotifyCancel(o)
    PROVE  /\ CallsOnlyGrow
           /\ cancellation'[o].pending + cancellation'[o].sent # 0
<1> DEFINE calls == [pending |-> cancellation[o].pending - 1, sent |-> cancellation[o].sent + 1]
<1>1. cancellation' = [cancellation EXCEPT ![o] = calls] /\ orders' = orders
  BY DEF NotifyCancel
<1>2. /\ calls.pending + calls.sent = cancellation[o].pending + cancellation[o].sent
      /\ cancellation[o].pending + cancellation[o].sent # 0
  BY DEF NotifyCancel, TypeOK, HandlersTypeOK, Cancellation
<1> HIDE DEF calls
<1> QED
  BY <1>1, <1>2 DEF CallsOnlyGrow, TypeOK, OrdersTypeOK, HandlersTypeOK

LEMMA PlacedOrder ==
    ASSUME TypeOK, NEW req \in Requests, PlaceOrder(req)
    PROVE  \E o \in OrderIds :
               /\ o \notin DOMAIN orders /\ DOMAIN orders' = DOMAIN orders \cup {o}
               /\ \A p \in DOMAIN orders :
                      orders'[p] = orders[p] /\ cancellation'[p] = cancellation[p]
               /\ \/ handlers' = handlers
                  \/ /\ handlers' = handlers \cup {Handler("submit", o, "client")}
                     /\ orders'[o].status = "ROUTED"
                     /\ orders'[o].remaining = orders'[o].req.quantity
<1>1. PICK o \in OrderIds :
          \/ RejectNewOrder(o, req) /\ UNCHANGED handlers
          \/ /\ RouteNewOrder(o, req)
             /\ handlers' = handlers \cup {Handler("submit", o, "client")}
  BY OrderPlaced
<1>2. ASSUME NEW status, NEW audit, NEW call, AddOrder(o, req, status, audit, call)
      PROVE  /\ o \notin DOMAIN orders /\ DOMAIN orders' = DOMAIN orders \cup {o}
             /\ \A p \in DOMAIN orders :
                    orders'[p] = orders[p] /\ cancellation'[p] = cancellation[p]
             /\ orders'[o] = NewOrder(req, status)
  BY <1>2 DEF AddOrder, Put, TypeOK, OrdersTypeOK, HandlersTypeOK
<1>3. /\ NewOrder(req, "ROUTED").status = "ROUTED"
      /\ NewOrder(req, "ROUTED").remaining = NewOrder(req, "ROUTED").req.quantity
  BY DEF NewOrder
<1>4. CASE RejectNewOrder(o, req) /\ UNCHANGED handlers
  BY <1>2, <1>4 DEF RejectNewOrder
<1>5. CASE RouteNewOrder(o, req) /\ handlers' = handlers \cup {Handler("submit", o, "client")}
  BY <1>2, <1>3, <1>5 DEF RouteNewOrder
<1> QED
  BY <1>1, <1>4, <1>5

LEMMA QuietBefore ==
    ASSUME RuntimeTypeOK, [RuntimeNext]_allVars
    PROVE  CallsOnlyGrow /\ dropped \subseteq dropped'
<1>1. dropped \subseteq dropped'
  BY DEF RuntimeNext, Client, EventLoop, ExpiryWorker, Fault, OpenAccount, PlaceOrder, Cancel,
         CallSubmit, CallCancel, RunTask, ProcessEvent, DropUnsettled, DropInOutage, DropEvent,
         Scan, Expire, ExpireNext, Restart, faultVars, runtimeVars, allVars
<1> SUFFICES CallsOnlyGrow
  BY <1>1
<1>2. TypeOK
  BY DEF RuntimeTypeOK
<1>3. CASE UNCHANGED <<orders, cancellation>>
  BY <1>3 DEF CallsOnlyGrow
<1>4. ASSUME NEW req \in Requests, PlaceOrder(req) PROVE CallsOnlyGrow
  <2>1. \A p \in DOMAIN orders : p \in DOMAIN orders' /\ cancellation'[p] = cancellation[p]
    BY <1>2, <1>4, PlacedOrder
  <2> QED
    BY <2>1 DEF CallsOnlyGrow
<1>5. ASSUME NEW o \in DOMAIN orders, RequestCancellation(o) \/ NotifyCancel(o)
      PROVE  CallsOnlyGrow
  BY <1>2, <1>5, RequestCounts, NotifyCounts
<1>6. CASE ProcessEvent
  <2> DEFINE e == Head(queue)
  <2>1. \E row, audit : SaveOrder(e.order, row, audit) /\ e.order \in DOMAIN orders
    BY <1>6, EventMoves DEF MovesTo
  <2>2. cancellation' = cancellation
    BY <1>6, EventMoves DEF MovesTo
  <2> HIDE DEF e
  <2> QED
    BY <1>2, <2>1, <2>2, SavedOrder DEF CallsOnlyGrow
<1>7. CASE OpenAccount
  BY <1>3, <1>7 DEF OpenAccount, CreateAccount, orderVars
<1>8. ASSUME NEW p \in DOMAIN orders, CallSubmit(p) \/ RunTask(p) PROVE CallsOnlyGrow
  BY <1>3, <1>8 DEF CallSubmit, RunTask, Submit, vars, orderVars
<1>9. CASE DropUnsettled \/ DropInOutage \/ Scan \/ Expire \/ Restart \/ UNCHANGED allVars
  BY <1>3, <1>9 DEF DropUnsettled, DropInOutage, DropEvent, Scan, Expire, Restart, allVars, vars,
                    orderVars
<1>10. CASE ExpireNext
  BY <1>3, <1>5, <1>10 DEF ExpireNext, vars, orderVars
<1> QED
  BY <1>4, <1>5, <1>6, <1>7, <1>8, <1>9, <1>10
     DEF RuntimeNext, Client, EventLoop, ExpiryWorker, Fault, Cancel, CallCancel

-----------------------------------------------------------------------------
(* Steps that are not about the order: what is on the queue for it stays, but *)
(* may move by one place when the head is taken.                              *)

Elsewhere(o, shift) ==
    /\ orders'[o] = orders[o]
    /\ TasksOf(o)' = TasksOf(o)
    /\ Submitting(o)' => Submitting(o)
    /\ \A i \in Nat : i \in EventsOf(o)' <=> i + shift \in EventsOf(o)
    /\ \A i \in EventsOf(o) : i - shift \in Nat /\ queue'[i - shift] = queue[i]

LEMMA EventIndices ==
    ASSUME QueueTypeOK, NEW o
    PROVE  EventsOf(o) \subseteq Nat \ {0}
<1>1. DOMAIN queue = 1 .. Len(queue) /\ Len(queue) \in Nat
  BY DEF QueueTypeOK
<1> QED
  BY <1>1 DEF EventsOf

LEMMA AgreedElsewhere ==
    ASSUME QueueTypeOK, QueueTypeOK', NEW o, Agreed(o), NEW shift \in {0, 1}, Elsewhere(o, shift)
    PROVE  Agreed(o)'
<1>1. EventsOf(o) \subseteq Nat /\ EventsOf(o)' \subseteq Nat
  <2>1. /\ DOMAIN queue = 1 .. Len(queue) /\ Len(queue) \in Nat
        /\ DOMAIN queue' = 1 .. Len(queue') /\ Len(queue') \in Nat
    BY DEF QueueTypeOK
  <2> QED
    BY <2>1 DEF EventsOf
<1>2. /\ orders'[o] = orders[o] /\ TasksOf(o)' = TasksOf(o)
      /\ Submitting(o)' => Submitting(o)
  BY DEF Elsewhere
<1>3. EventsOf(o) = {} => EventsOf(o)' = {}
  BY <1>1 DEF Elsewhere
<1>4. ASSUME NEW i \in EventsOf(o), EventsOf(o) = {i}
      PROVE  /\ i - shift \in EventsOf(o)' /\ EventsOf(o)' = {i - shift}
             /\ queue'[i - shift] = queue[i]
  BY <1>1, <1>4 DEF Elsewhere
<1>5. CASE Waiting(o) \/ Working(o) \/ PartDone(o) \/ Over(o)
  BY <1>2, <1>3, <1>5 DEF Agreed, Waiting, Working, Untouched, PartDone, Over
<1>6. CASE ~Submitting(o) /\ Answered(o)
  <2>1. Answered(o)'
    BY <1>2, <1>4, <1>6 DEF Answered, NotAdmitted, FillAccepted
  <2> QED
    BY <1>2, <1>6, <2>1 DEF Agreed
<1>7. CASE ~Submitting(o) /\ PartAnswered(o)
  <2>1. PartAnswered(o)'
    BY <1>2, <1>4, <1>7 DEF PartAnswered, FirstPart
  <2> QED
    BY <1>2, <1>7, <2>1 DEF Agreed
<1>8. CASE ~Submitting(o) /\ BothAnswered(o)
  <2>1. PICK i, j \in EventsOf(o) :
                /\ i < j /\ EventsOf(o) = {i, j}
                /\ queue[j].type = "FULL_FILL"
                /\ FirstPart(o, queue[i], queue[j].quantity)
    BY <1>8 DEF BothAnswered
  <2>2. /\ i - shift < j - shift
        /\ i - shift \in EventsOf(o)' /\ j - shift \in EventsOf(o)'
        /\ EventsOf(o)' = {i - shift, j - shift}
    BY <1>1, <2>1 DEF Elsewhere
  <2>3. queue'[i - shift] = queue[i] /\ queue'[j - shift] = queue[j]
    BY DEF Elsewhere
  <2>4. BothAnswered(o)'
    BY <1>2, <1>8, <2>1, <2>2, <2>3 DEF BothAnswered, FirstPart
  <2> QED
    BY <1>2, <1>8, <2>4 DEF Agreed
<1> QED
  BY <1>5, <1>6, <1>7, <1>8 DEF Agreed

LEMMA QueueRests ==
    ASSUME QueueTypeOK, NEW o, UNCHANGED queue,
           orders'[o] = orders[o], TasksOf(o)' = TasksOf(o), Submitting(o)' => Submitting(o)
    PROVE  Elsewhere(o, 0)
  BY EventIndices DEF Elsewhere, EventsOf

LEMMA QueueGrows ==
    ASSUME QueueTypeOK, NEW o, NEW e \in BrokerEvent, queue' = Append(queue, e)
    PROVE  /\ \A i \in EventsOf(o) : queue'[i] = queue[i]
           /\ EventsOf(o)' = IF e.order = o THEN EventsOf(o) \cup {Len(queue) + 1} ELSE EventsOf(o)
           /\ queue'[Len(queue) + 1] = e
           /\ \A i \in EventsOf(o) : i < Len(queue) + 1
<1>1. /\ DOMAIN queue = 1 .. Len(queue) /\ Len(queue) \in Nat
      /\ DOMAIN queue' = 1 .. Len(queue) + 1
      /\ \A i \in 1 .. Len(queue) : queue'[i] = queue[i]
      /\ queue'[Len(queue) + 1] = e
  BY AppendProperties DEF QueueTypeOK
<1> QED
  BY <1>1 DEF EventsOf

LEMMA QueueMoves ==
    ASSUME QueueTypeOK, NEW o, queue # <<>>, queue' = Tail(queue)
    PROVE  /\ \A i \in Nat \ {0} : i \in EventsOf(o)' <=> i + 1 \in EventsOf(o)
           /\ \A i \in EventsOf(o) \ {1} : i - 1 \in EventsOf(o)' /\ queue'[i - 1] = queue[i]
           /\ EventsOf(o) \subseteq Nat \ {0} /\ EventsOf(o)' \subseteq Nat \ {0}
           /\ 1 \in EventsOf(o) <=> Head(queue).order = o
<1>1. /\ DOMAIN queue = 1 .. Len(queue) /\ Len(queue) \in Nat \ {0}
      /\ DOMAIN queue' = 1 .. Len(queue) - 1
      /\ \A i \in 1 .. Len(queue) - 1 : queue'[i] = queue[i + 1]
      /\ Head(queue) = queue[1]
  BY HeadType DEF QueueTypeOK
<1> QED
  BY <1>1 DEF EventsOf

-----------------------------------------------------------------------------
(* Steps that are about the order.                                            *)

LEMMA SubmitAgrees ==
    ASSUME RuntimeTypeOK, QueueTypeOK', NEW o \in DOMAIN orders, Agreed(o),
           NEW p \in DOMAIN orders, CallSubmit(p)
    PROVE  Agreed(o)'
<1> DEFINE task == Task("order", p, orders[p].req.quantity)
<1>1. /\ tasks' = tasks \cup {task} /\ UNCHANGED <<orders, queue>>
      /\ Handler("submit", p, "client") \in handlers
      /\ handlers' = handlers \ {Handler("submit", p, "client")}
  BY DEF CallSubmit, Submit, StartOrder, BrokerOrder
<1>2. task.id = p
  BY DEF Task
<1> HIDE DEF task
<1>3. CASE p # o
  <2>1. TasksOf(o)' = TasksOf(o) /\ (Submitting(o)' => Submitting(o))
    BY <1>1, <1>2, <1>3 DEF TasksOf, Submitting
  <2>2. Elsewhere(o, 0)
    BY <1>1, <2>1, QueueRests DEF RuntimeTypeOK
  <2> QED
    BY <2>2, AgreedElsewhere DEF RuntimeTypeOK
<1>4. CASE p = o
  <2>1. Waiting(o) /\ ~Submitting(o)'
    BY <1>1, <1>4 DEF Agreed, Submitting
  <2>2. TasksOf(o)' = {task} /\ EventsOf(o)' = {}
    BY <1>1, <1>2, <1>4, <2>1 DEF Waiting, TasksOf, EventsOf
  <2>3. Working(o)'
    BY <1>1, <1>4, <2>1, <2>2 DEF Waiting, Working, Untouched, task
  <2> QED
    BY <2>1, <2>3 DEF Agreed
<1> QED
  BY <1>3, <1>4

LEMMA CancelAgrees ==
    ASSUME RuntimeTypeOK, QueueTypeOK', NEW o \in DOMAIN orders, Agreed(o), Quiet(o)',
           NEW p \in DOMAIN orders, CallCancel(p)
    PROVE  Agreed(o)'
<1>1. p # o
  BY NotifyCounts DEF CallCancel, Quiet, RuntimeTypeOK
<1>2. /\ tasks' = tasks \cup {Task("cancel", p, 0)} /\ UNCHANGED <<orders, queue>>
      /\ handlers' \subseteq handlers
  BY DEF CallCancel, NotifyCancel, StartCancel
<1>3. Task("cancel", p, 0).id = p
  BY DEF Task
<1>4. TasksOf(o)' = TasksOf(o) /\ (Submitting(o)' => Submitting(o))
  BY <1>1, <1>2, <1>3 DEF TasksOf, Submitting
<1>5. Elsewhere(o, 0)
  BY <1>2, <1>4, QueueRests DEF RuntimeTypeOK
<1> QED
  BY <1>5, AgreedElsewhere DEF RuntimeTypeOK

(* A step that neither the broker nor its queue takes part in.                *)
LEMMA OthersAgree ==
    ASSUME RuntimeTypeOK, QueueTypeOK', NEW o \in DOMAIN orders, Agreed(o), Quiet(o)',
           \/ OpenAccount \/ (\E req \in Requests : PlaceOrder(req))
           \/ (\E p \in DOMAIN orders : Cancel(p, "client"))
           \/ Scan \/ Expire \/ ExpireNext \/ UNCHANGED allVars
    PROVE  Agreed(o)'
<1>1. ASSUME UNCHANGED brokerVars, orders'[o] = orders[o], Submitting(o)' => Submitting(o)
      PROVE  Agreed(o)'
  <2>1. Elsewhere(o, 0)
    BY <1>1, QueueRests DEF RuntimeTypeOK, brokerVars, TasksOf
  <2> QED
    BY <2>1, AgreedElsewhere DEF RuntimeTypeOK
<1>2. CASE OpenAccount \/ Scan \/ Expire \/ UNCHANGED allVars
  BY <1>1, <1>2 DEF OpenAccount, CreateAccount, Scan, Expire, Submitting, runtimeVars, allVars,
                    vars, orderVars
<1>3. ASSUME NEW req \in Requests, PlaceOrder(req) PROVE Agreed(o)'
  <2>1. PICK new \in OrderIds :
            /\ new \notin DOMAIN orders /\ orders'[o] = orders[o]
            /\ handlers' \subseteq handlers \cup {Handler("submit", new, "client")}
    BY <1>3, PlacedOrder DEF RuntimeTypeOK
  <2>2. Submitting(o)' => Submitting(o)
    BY <2>1 DEF Submitting, Handler
  <2> QED
    BY <1>1, <1>3, <2>1, <2>2 DEF PlaceOrder
<1>4. ASSUME NEW p \in DOMAIN orders, NEW by, RequestCancellation(p), UNCHANGED brokerVars,
             handlers' = handlers \cup {Handler("cancel", p, by)}
      PROVE  Agreed(o)'
  <2>1. orders'[o] = orders[o]
    BY <1>4, RequestCounts DEF Quiet, RuntimeTypeOK
  <2>2. Submitting(o)' => Submitting(o)
    BY <1>4 DEF Submitting, Handler
  <2> QED
    BY <1>1, <1>4, <2>1, <2>2
<1>5. CASE \E p \in DOMAIN orders : Cancel(p, "client")
  BY <1>4, <1>5 DEF Cancel
<1>6. CASE ExpireNext
  BY <1>1, <1>4, <1>6 DEF ExpireNext, Submitting, vars, orderVars
<1> QED
  BY <1>2, <1>3, <1>5, <1>6

LEMMA TaskFields ==
    ASSUME NEW step, NEW id, NEW quantity
    PROVE  /\ Task(step, id, quantity).step = step
           /\ Task(step, id, quantity).id = id
           /\ Task(step, id, quantity).quantity = quantity
  BY DEF Task

LEMMA NextTasks ==
    ASSUME NEW o, NEW task, NEW e, NEW next, Reported(o, task, e, next)
    PROVE  \A t \in next : t.id = o
<1>1. next = {} \/ next = {Task("rest", o, orders[o].req.quantity - e.quantity)}
  BY DEF Reported, OrderReported, RestReported, CancelReported
<1> QED
  BY <1>1, TaskFields

LEMMA OrderAnswered ==
    ASSUME RuntimeTypeOK, NEW o \in DOMAIN orders, NEW task \in tasks, NEW e \in BrokerEvent, NEW next,
           Reported(o, task, e, next), OrderReported(o, task, e, next),
           Working(o), UNCHANGED orders, TasksOf(o)' = next,
           NEW i, EventsOf(o)' = {i}, queue'[i] = e
    PROVE  Answered(o)' \/ PartAnswered(o)'
<1> DEFINE row == orders[o]
           n == row.req.quantity
<1>1. n \in Nat \ {0} /\ row.remaining = n /\ row.status = "ROUTED" /\ orders'[o] = row
  BY QuantitiesFit DEF RuntimeTypeOK, Working, Untouched
<1>2. ASSUME next = {}, ~NotAdmitted(row, e) PROVE Answered(o)'
  BY <1>1, <1>2 DEF Answered, NotAdmitted, FillAccepted
<1>3. CASE e.type = "REJECTED" /\ next = {}
  BY <1>1, <1>2, <1>3 DEF NotAdmitted
<1>4. CASE e.type = "FULL_FILL" /\ e.quantity = n /\ next = {}
  BY <1>1, <1>2, <1>4 DEF NotAdmitted, FillAccepted, EXECUTABLE_STATUSES
<1>5. CASE e.type = "PARTIAL_FILL" /\ e.quantity \in 1 .. n /\ next = {}
  BY <1>1, <1>2, <1>5 DEF NotAdmitted, FillAccepted, EXECUTABLE_STATUSES
<1>6. CASE /\ e.type = "PARTIAL_FILL" /\ e.quantity \in 1 .. n
           /\ next = {Task("rest", o, n - e.quantity)}
           /\ e.quantity < n /\ row.req.tif # "IOC"
  <2> DEFINE rest == Task("rest", o, n - e.quantity)
  <2>1. rest.step = "rest" /\ rest.quantity = n - e.quantity
    BY TaskFields
  <2> HIDE DEF rest
  <2>2. TasksOf(o)' = {rest}
    BY <1>6 DEF rest
  <2>3. orders'[o].status = "ROUTED" /\ orders'[o].req.tif # "IOC" /\ orders'[o].remaining = n
    BY <1>1, <1>6
  <2>4. e.quantity + rest.quantity = n
    BY <1>1, <1>6, <2>1
  <2> QED
    BY <1>6, <2>1, <2>2, <2>3, <2>4 DEF PartAnswered, FirstPart
<1> QED
  BY <1>3, <1>4, <1>5, <1>6 DEF OrderReported

LEMMA TaskAgrees ==
    ASSUME RuntimeTypeOK, QueueTypeOK', NEW o \in DOMAIN orders, Agreed(o), TaskReported
    PROVE  Agreed(o)'
<1>1. PICK p \in DOMAIN orders, task \in tasks, e \in BrokerEvent :
              \E next : Reported(p, task, e, next)
  BY DEF TaskReported
<1>2. PICK next : Reported(p, task, e, next)
  BY <1>1
<1>3. /\ tasks' = (tasks \ {task}) \cup next
      /\ task.id = p /\ e.order = p /\ \A t \in next : t.id = p
      /\ UNCHANGED <<orders, handlers>>
  BY <1>2, NextTasks DEF Reported, Send, TaskReported, vars, orderVars
<1>4. /\ \A i \in EventsOf(o) : queue'[i] = queue[i] /\ i < Len(queue) + 1
      /\ EventsOf(o)' = IF p = o THEN EventsOf(o) \cup {Len(queue) + 1} ELSE EventsOf(o)
      /\ queue'[Len(queue) + 1] = e
      /\ EventsOf(o) \subseteq Nat
  BY <1>2, <1>3, QueueGrows, EventIndices DEF RuntimeTypeOK, Reported, Send
<1>5. Submitting(o)' = Submitting(o)
  BY <1>3 DEF Submitting
<1>6. CASE p # o
  <2>1. TasksOf(o)' = TasksOf(o)
    BY <1>3, <1>6 DEF TasksOf
  <2>2. Elsewhere(o, 0)
    BY <1>3, <1>4, <1>5, <1>6, <2>1 DEF Elsewhere
  <2> QED
    BY <2>2, AgreedElsewhere DEF RuntimeTypeOK
<1>7. CASE p = o
  <2>1. task \in TasksOf(o) /\ ~Submitting(o)
    BY <1>3, <1>7 DEF TasksOf, Agreed, Waiting
  <2>2. ASSUME TasksOf(o) = {task} PROVE TasksOf(o)' = next
    BY <1>3, <1>7, <2>2 DEF TasksOf
  <2>3. CASE Working(o)
    <3>1. task = Task("order", o, orders[o].req.quantity) /\ TasksOf(o) = {task}
      BY <2>1, <2>3 DEF Working
    <3>2. OrderReported(o, task, e, next)
      BY <1>2, <1>7, <3>1, TaskFields DEF Reported, RestReported, CancelReported
    <3>3. EventsOf(o)' = {Len(queue) + 1}
      BY <1>4, <1>7, <2>3 DEF Working
    <3> QED
      BY <1>2, <1>3, <1>4, <1>5, <1>7, <2>1, <2>2, <2>3, <3>1, <3>2, <3>3, OrderAnswered DEF Agreed
  <2>4. CASE PartAnswered(o)
    <3>1. task.step = "rest" /\ TasksOf(o) = {task}
      BY <2>1, <2>4 DEF PartAnswered
    <3>2. PICK i \in EventsOf(o) : EventsOf(o) = {i} /\ FirstPart(o, queue[i], task.quantity)
      BY <2>1, <2>4 DEF PartAnswered
    <3>3. e.type = "FULL_FILL" /\ e.quantity = task.quantity /\ next = {}
      BY <1>2, <3>1, TaskFields DEF Reported, OrderReported, RestReported, CancelReported
    <3>4. /\ i < Len(queue) + 1 /\ EventsOf(o)' = {i, Len(queue) + 1}
          /\ queue'[i] = queue[i] /\ queue'[Len(queue) + 1] = e
      BY <1>4, <1>7, <3>2
    <3>5. PICK j \in EventsOf(o)' : i < j /\ EventsOf(o)' = {i, j} /\ queue'[j] = e
      BY <3>4
    <3>6. /\ orders'[o].status = "ROUTED" /\ orders'[o].req.tif # "IOC"
          /\ queue'[i].type = "PARTIAL_FILL"
          /\ queue'[i].quantity + queue'[j].quantity = orders'[o].remaining
      BY <1>3, <3>2, <3>3, <3>4, <3>5 DEF FirstPart
    <3>7. TasksOf(o)' = {}
      BY <2>2, <3>1, <3>3
    <3>8. BothAnswered(o)'
      BY <3>3, <3>5, <3>6, <3>7 DEF BothAnswered, FirstPart
    <3> QED
      BY <1>5, <2>1, <3>8 DEF Agreed
  <2>5. CASE PartDone(o)
    <3>1. /\ task.step = "rest" /\ TasksOf(o) = {task} /\ EventsOf(o) = {}
          /\ orders[o].status = "PARTIALLY_FILLED" /\ orders[o].remaining = task.quantity
      BY <2>1, <2>5 DEF PartDone
    <3>2. e.type = "FULL_FILL" /\ e.quantity = task.quantity /\ next = {}
      BY <1>2, <3>1, TaskFields DEF Reported, OrderReported, RestReported, CancelReported
    <3>3. orders[o].remaining \in Nat
      BY DEF RuntimeTypeOK, TypeOK, OrdersTypeOK, Order
    <3>4. ~NotAdmitted(orders[o], e)
      BY <3>1, <3>2, <3>3 DEF NotAdmitted, FillAccepted, EXECUTABLE_STATUSES
    <3>5. EventsOf(o)' = {Len(queue) + 1} /\ queue'[Len(queue) + 1] = e
      BY <1>4, <1>7, <3>1
    <3>6. Answered(o)'
      BY <1>3, <2>2, <3>1, <3>2, <3>4, <3>5 DEF Answered, NotAdmitted, FillAccepted
    <3> QED
      BY <1>5, <2>1, <3>6 DEF Agreed
  <2> QED
    BY <2>1, <2>3, <2>4, <2>5 DEF Agreed, Waiting, Answered, BothAnswered, Over
<1> QED
  BY <1>6, <1>7

LEMMA FirstPartApplied ==
    ASSUME RuntimeTypeOK, ProcessEvent, queue # <<>>,
           NEW o \in DOMAIN orders, NEW n \in Nat \ {0}, Head(queue).order = o,
           FirstPart(o, Head(queue), n)
    PROVE  orders'[o].status = "PARTIALLY_FILLED" /\ orders'[o].remaining = n
<1>1. PICK e \in BrokerEvent : e = Head(queue)
  BY HeadType DEF RuntimeTypeOK
<1>2. e \in FillEvent /\ FillStep(e) /\ e.order = o
  BY <1>1, EventKinds DEF ProcessEvent, FirstPart, IsFill
<1>3. /\ orders[o] \in Order /\ orders[o].remaining \in Nat /\ e.quantity \in Nat \ {0}
      /\ orders[o].status = "ROUTED" /\ orders[o].req.tif # "IOC"
      /\ e.type = "PARTIAL_FILL" /\ e.quantity + n = orders[o].remaining
  BY <1>1, <1>2, EventType DEF RuntimeTypeOK, TypeOK, OrdersTypeOK, Order, FirstPart
<1>4. FillAccepted(orders[o], e)
  BY <1>3 DEF FillAccepted, EXECUTABLE_STATUSES
<1>5. PartialFill(e)
  BY <1>2, <1>3, <1>4 DEF FillStep, CompleteFill, IocPartialFill, IgnoreEvent, NotAdmitted
<1> DEFINE filled == FilledOrder(orders[o], e)
           new == [filled EXCEPT !.status = "PARTIALLY_FILLED"]
<1>6. \E audit : SaveOrder(o, new, audit)
  BY <1>2, <1>3, <1>5 DEF PartialFill
<1>7. filled \in Order /\ filled.remaining = n
  BY <1>2, <1>3, <1>4, FilledOrderType
<1> HIDE DEF filled
<1>8. new.status = "PARTIALLY_FILLED" /\ new.remaining = n
  BY <1>7 DEF Order
<1> HIDE DEF new
<1>9. orders' = [orders EXCEPT ![o] = new]
  BY <1>6 DEF SaveOrder
<1> QED
  BY <1>8, <1>9 DEF RuntimeTypeOK, TypeOK, OrdersTypeOK

LEMMA TakeElsewhere ==
    ASSUME RuntimeTypeOK, QueueTypeOK', NEW o \in DOMAIN orders, Agreed(o),
           TakesEvent, Head(queue).order # o, orders'[o] = orders[o]
    PROVE  Agreed(o)'
<1>1. TasksOf(o)' = TasksOf(o) /\ Submitting(o)' = Submitting(o)
  BY DEF TakesEvent, TasksOf, Submitting
<1>2. /\ \A i \in Nat \ {0} : i \in EventsOf(o)' <=> i + 1 \in EventsOf(o)
      /\ \A i \in EventsOf(o) \ {1} : i - 1 \in EventsOf(o)' /\ queue'[i - 1] = queue[i]
      /\ EventsOf(o) \subseteq Nat \ {0} /\ EventsOf(o)' \subseteq Nat \ {0}
      /\ 1 \notin EventsOf(o)
  BY QueueMoves DEF TakesEvent, RuntimeTypeOK
<1>3. Elsewhere(o, 1)
  BY <1>1, <1>2 DEF Elsewhere
<1> QED
  BY <1>3, AgreedElsewhere DEF RuntimeTypeOK

LEMMA TakeAgrees ==
    ASSUME RuntimeTypeOK, QueueTypeOK', NEW o \in DOMAIN orders, Agreed(o), Quiet(o)', TakesEvent
    PROVE  Agreed(o)'
<1>1. CASE DropEvent(Head(queue))
  <2>1. Head(queue).order # o /\ orders'[o] = orders[o]
    BY <1>1 DEF DropEvent, Quiet, vars, orderVars
  <2> QED
    BY <2>1, TakeElsewhere
<1>2. CASE ProcessEvent /\ Head(queue).order # o
  <2>1. PICK e \in BrokerEvent : e = Head(queue)
    BY HeadType DEF TakesEvent, RuntimeTypeOK
  <2>2. e.order \in DOMAIN orders /\ \E row, audit : SaveOrder(e.order, row, audit)
    BY <1>2, <2>1, EventMoves DEF MovesTo
  <2>3. orders'[o] = orders[o]
    BY <1>2, <2>1, <2>2, SavedOrder DEF RuntimeTypeOK
  <2> QED
    BY <1>2, <2>3, TakeElsewhere
<1>3. CASE ProcessEvent /\ Head(queue).order = o
  <2>1. /\ \A i \in Nat \ {0} : i \in EventsOf(o)' <=> i + 1 \in EventsOf(o)
        /\ \A i \in EventsOf(o) \ {1} : i - 1 \in EventsOf(o)' /\ queue'[i - 1] = queue[i]
        /\ EventsOf(o) \subseteq Nat \ {0} /\ EventsOf(o)' \subseteq Nat \ {0}
        /\ 1 \in EventsOf(o)
    BY <1>3, QueueMoves DEF TakesEvent, RuntimeTypeOK
  <2>2. /\ TasksOf(o)' = TasksOf(o) /\ Submitting(o)' = Submitting(o) /\ ~Submitting(o)
        /\ queue # <<>> /\ Head(queue) = queue[1]
    BY <2>1, HeadType DEF TakesEvent, TasksOf, Submitting, RuntimeTypeOK, Agreed, Waiting
  <2>3. ASSUME EventsOf(o) = {1} PROVE EventsOf(o)' = {}
    BY <2>1, <2>3
  <2>4. CASE Answered(o)
    <3>1. EventsOf(o) = {1} /\ TasksOf(o) = {}
      BY <2>1, <2>4 DEF Answered
    <3> QED
      BY <2>2, <2>3, <3>1 DEF Agreed, Over
  <2>5. CASE PartAnswered(o)
    <3>1. PICK task \in TasksOf(o) :
              /\ TasksOf(o) = {task} /\ task.step = "rest"
              /\ EventsOf(o) = {1} /\ FirstPart(o, queue[1], task.quantity)
      BY <2>1, <2>5 DEF PartAnswered
    <3>2. task.quantity \in Nat \ {0}
      BY <3>1, FillsAssumption DEF TasksOf, QueueTypeOK, RuntimeTypeOK
    <3>3. orders'[o].status = "PARTIALLY_FILLED" /\ orders'[o].remaining = task.quantity
      BY <1>3, <2>2, <3>1, <3>2, FirstPartApplied
    <3>4. PartDone(o)'
      BY <2>2, <2>3, <3>1, <3>3 DEF PartDone
    <3> QED
      BY <2>2, <3>4 DEF Agreed
  <2>6. CASE BothAnswered(o)
    <3>1. PICK i, j \in EventsOf(o) :
                  /\ i < j /\ EventsOf(o) = {i, j}
                  /\ queue[j].type = "FULL_FILL"
                  /\ FirstPart(o, queue[i], queue[j].quantity)
      BY <2>6 DEF BothAnswered
    <3>2. i = 1 /\ j # 1
      BY <2>1, <3>1
    <3>3. queue[j].quantity \in Nat \ {0}
      BY <3>1, EventQuantity DEF IsFill, EventsOf, RuntimeTypeOK
    <3>4. /\ orders'[o].status = "PARTIALLY_FILLED"
          /\ orders'[o].remaining = queue[j].quantity
      BY <1>3, <2>2, <3>1, <3>2, <3>3, FirstPartApplied
    <3>5. /\ j - 1 \in EventsOf(o)' /\ queue'[j - 1] = queue[j]
          /\ EventsOf(o)' = {j - 1}
      BY <2>1, <3>1, <3>2
    <3>6. ~NotAdmitted(orders'[o], queue'[j - 1])
      BY <3>1, <3>3, <3>4, <3>5 DEF NotAdmitted, FillAccepted, EXECUTABLE_STATUSES
    <3>7. TasksOf(o)' = {}
      BY <2>2, <2>6 DEF BothAnswered
    <3>8. Answered(o)'
      BY <3>5, <3>6, <3>7 DEF Answered, NotAdmitted, FillAccepted
    <3> QED
      BY <2>2, <3>8 DEF Agreed
  <2> QED
    BY <2>1, <2>2, <2>4, <2>5, <2>6 DEF Agreed, Waiting, Working, PartDone, Over
<1> QED
  BY <1>1, <1>2, <1>3 DEF TakesEvent

-----------------------------------------------------------------------------
(* The invariant.                                                             *)

LEMMA OrdersOnlyPlaced ==
    ASSUME RuntimeTypeOK, [RuntimeNext]_allVars, ~\E req \in Requests : PlaceOrder(req)
    PROVE  DOMAIN orders' = DOMAIN orders
<1>1. CASE UNCHANGED orders
  BY <1>1
<1>2. ASSUME NEW o \in DOMAIN orders, RequestCancellation(o) PROVE DOMAIN orders' = DOMAIN orders
  BY <1>2, SavedOrder DEF RequestCancellation, RuntimeTypeOK
<1>3. CASE ProcessEvent
  <2>1. \E e : e.order \in DOMAIN orders /\ \E row, audit : SaveOrder(e.order, row, audit)
    BY <1>3, EventMoves DEF MovesTo
  <2> QED
    BY <2>1, SavedOrder DEF RuntimeTypeOK
<1>4. CASE OpenAccount
  BY <1>1, <1>4 DEF OpenAccount, CreateAccount, orderVars
<1>5. ASSUME NEW o \in DOMAIN orders, CallSubmit(o) \/ CallCancel(o) \/ RunTask(o)
      PROVE  DOMAIN orders' = DOMAIN orders
  BY <1>1, <1>5 DEF CallSubmit, CallCancel, RunTask, Submit, NotifyCancel, vars, orderVars
<1>6. CASE DropUnsettled \/ DropInOutage \/ Scan \/ Expire \/ Restart \/ UNCHANGED allVars
  BY <1>1, <1>6 DEF DropUnsettled, DropInOutage, DropEvent, Scan, Expire, Restart, allVars, vars,
                    orderVars
<1>7. CASE ExpireNext
  BY <1>1, <1>2, <1>7 DEF ExpireNext, vars, orderVars
<1> QED
  BY <1>2, <1>3, <1>4, <1>5, <1>6, <1>7
     DEF RuntimeNext, Client, EventLoop, ExpiryWorker, Fault, Cancel

LEMMA TasksAboutOrders ==
    ASSUME RuntimeTypeOK, AboutOrders, [RuntimeNext]_allVars
    PROVE  /\ \A task \in tasks' : task.id \in DOMAIN orders
           /\ \A i \in DOMAIN queue' : queue'[i].order \in DOMAIN orders
<1>1. CASE BrokerRests
  BY <1>1 DEF BrokerRests, brokerVars, AboutOrders
<1>2. CASE StartsTask
  BY <1>2, TaskFields DEF StartsTask, AboutOrders
<1>3. CASE TaskReported
  <2>1. PICK o \in DOMAIN orders, task \in tasks, e \in BrokerEvent :
                \E next : Reported(o, task, e, next)
    BY <1>3 DEF TaskReported
  <2>2. PICK next : Reported(o, task, e, next)
    BY <2>1
  <2>3. /\ tasks' = (tasks \ {task}) \cup next /\ queue' = Append(queue, e)
        /\ e.order = o /\ \A t \in next : t.id = o
    BY <2>2, NextTasks DEF Reported, Send
  <2>4. /\ DOMAIN queue = 1 .. Len(queue) /\ DOMAIN queue' = 1 .. Len(queue) + 1
        /\ \A i \in DOMAIN queue : queue'[i] = queue[i]
        /\ queue'[Len(queue) + 1] = e /\ Len(queue) \in Nat
    BY <2>3, AppendProperties DEF RuntimeTypeOK, QueueTypeOK
  <2>5. \A i \in DOMAIN queue' : i \in DOMAIN queue \/ i = Len(queue) + 1
    BY <2>4
  <2> QED
    BY <2>3, <2>4, <2>5 DEF AboutOrders
<1>4. CASE TakesEvent
  <2>1. /\ DOMAIN queue' = 1 .. Len(queue) - 1 /\ DOMAIN queue = 1 .. Len(queue)
        /\ \A i \in DOMAIN queue' : queue'[i] = queue[i + 1]
        /\ Len(queue) \in Nat
    BY <1>4, HeadType DEF TakesEvent, RuntimeTypeOK, QueueTypeOK
  <2>2. \A i \in DOMAIN queue' : i + 1 \in DOMAIN queue
    BY <2>1
  <2> QED
    BY <1>4, <2>1, <2>2 DEF TakesEvent, AboutOrders
<1>5. CASE Restart
  BY <1>5 DEF Restart, Stop
<1> QED
  BY <1>1, <1>2, <1>3, <1>4, <1>5, BrokerShape

LEMMA AboutOrdersStep ==
    ASSUME RuntimeTypeOK, AboutOrders, [RuntimeNext]_allVars
    PROVE  AboutOrders'
<1>1. DOMAIN orders \subseteq DOMAIN orders'
  BY QuietBefore DEF CallsOnlyGrow
<1>2. \A handler \in handlers' : handler.order \in DOMAIN orders'
  <2>1. CASE handlers' \subseteq handlers
    BY <1>1, <2>1 DEF AboutOrders
  <2>2. ASSUME NEW o \in DOMAIN orders', NEW call, NEW by,
               handlers' \subseteq handlers \cup {Handler(call, o, by)}
        PROVE  \A handler \in handlers' : handler.order \in DOMAIN orders'
    <3>1. Handler(call, o, by).order = o
      BY DEF Handler
    <3> QED
      BY <1>1, <2>2, <3>1 DEF AboutOrders
  <2>3. ASSUME NEW req \in Requests, PlaceOrder(req)
        PROVE  \A handler \in handlers' : handler.order \in DOMAIN orders'
    <3>1. PICK o \in DOMAIN orders' : handlers' \subseteq handlers \cup {Handler("submit", o, "client")}
      BY <2>3, PlacedOrder DEF RuntimeTypeOK
    <3> QED
      BY <2>2, <3>1
  <2>4. CASE ExpireNext \/ (\E o \in DOMAIN orders : Cancel(o, "client"))
    BY <1>1, <2>1, <2>2, <2>4 DEF ExpireNext, Cancel
  <2>5. CASE OpenAccount \/ (\E o \in DOMAIN orders : CallSubmit(o) \/ CallCancel(o) \/ RunTask(o))
    BY <2>1, <2>5 DEF OpenAccount, CallSubmit, CallCancel, RunTask, runtimeVars
  <2>6. CASE ProcessEvent \/ DropUnsettled \/ DropInOutage \/ Scan \/ Expire \/ Restart
             \/ UNCHANGED allVars
    BY <2>1, <2>6 DEF ProcessEvent, DropUnsettled, DropInOutage, DropEvent, Scan, Expire, Restart,
                      allVars, runtimeVars
  <2> QED
    BY <2>3, <2>4, <2>5, <2>6 DEF RuntimeNext, Client, EventLoop, ExpiryWorker, Fault
<1> QED
  BY <1>1, <1>2, TasksAboutOrders DEF AboutOrders

LEMMA NewOrderAgrees ==
    ASSUME RuntimeTypeOK, AboutOrders, NEW req \in Requests, PlaceOrder(req),
           NEW o \in DOMAIN orders' \ DOMAIN orders
    PROVE  Agreed(o)'
<1>1. \/ handlers' = handlers
      \/ orders'[o].status = "ROUTED" /\ orders'[o].remaining = orders'[o].req.quantity
  BY PlacedOrder DEF RuntimeTypeOK
<1>2. TasksOf(o)' = {} /\ EventsOf(o)' = {}
  BY DEF PlaceOrder, brokerVars, AboutOrders, TasksOf, EventsOf
<1>3. ~Submitting(o)
  BY DEF AboutOrders, Submitting, Handler
<1> QED
  BY <1>1, <1>2, <1>3 DEF Agreed, Waiting, Untouched, Over, Submitting

LEMMA QuietAgreeStep ==
    ASSUME BrokerInv, [RuntimeNext]_allVars
    PROVE  QuietOrdersAgree'
<1> USE DEF BrokerInv
<1> SUFFICES ASSUME NEW o \in DOMAIN orders', Quiet(o)' PROVE Agreed(o)'
  BY DEF QuietOrdersAgree
<1>1. QueueTypeOK'
  BY QueueTypeStep
<1>2. CASE o \notin DOMAIN orders
  BY <1>2, OrdersOnlyPlaced, NewOrderAgrees
<1>3. CASE o \in DOMAIN orders
  <2>1. Agreed(o)
    <3>1. Quiet(o)
      BY <1>3, QuietBefore DEF Quiet, CallsOnlyGrow
    <3> QED
      BY <1>3, <3>1 DEF QuietOrdersAgree
  <2>2. ASSUME NEW p \in DOMAIN orders, CallSubmit(p) \/ CallCancel(p) PROVE Agreed(o)'
    BY <1>1, <1>3, <2>1, <2>2, SubmitAgrees, CancelAgrees
  <2>3. ASSUME NEW p \in DOMAIN orders, RunTask(p) PROVE Agreed(o)'
    <3>1. TaskReported
      BY <2>3, TaskReports DEF RunTask, TaskReported
    <3> QED
      BY <1>1, <1>3, <2>1, <3>1, TaskAgrees
  <2>4. CASE ProcessEvent \/ DropUnsettled \/ DropInOutage
    <3>1. TakesEvent
      BY <2>4 DEF ProcessEvent, DropUnsettled, DropInOutage, DropEvent, TakesEvent, faultVars
    <3> QED
      BY <1>1, <1>3, <2>1, <3>1, TakeAgrees
  <2>5. CASE Restart
    BY <2>5 DEF Restart, Stop, Agreed, Over, TasksOf, EventsOf, Submitting
  <2> QED
    BY <1>1, <1>3, <2>1, <2>2, <2>3, <2>4, <2>5, OthersAgree
       DEF RuntimeNext, Client, EventLoop, ExpiryWorker, Fault
<1> QED
  BY <1>2, <1>3

LEMMA BrokerInvInductive == RuntimeSpec => []BrokerInv
<1>1. RuntimeInit => AboutOrders /\ QuietOrdersAgree
  BY DEF RuntimeInit, BrokerInit, Init, NoRows, AboutOrders, QuietOrdersAgree
<1>2. BrokerInv /\ [RuntimeNext]_allVars => AboutOrders' /\ QuietOrdersAgree'
  BY AboutOrdersStep, QuietAgreeStep DEF BrokerInv
<1>3. RuntimeTypeOK /\ AboutOrders /\ QuietOrdersAgree <=> BrokerInv
  BY DEF BrokerInv
<1> QED
  BY <1>1, <1>2, <1>3, RuntimeTypeInductive, PTL DEF RuntimeSpec

-----------------------------------------------------------------------------
(* Ignored events.                                                            *)

IgnoredAreDisturbed ==
    \A id \in DOMAIN processed :
        LET o == processed[id].order
        IN  o \in DOMAIN orders /\ (processed[id].outcome = "IGNORED" => ~Quiet(o))

LEMMA Disturbed ==
    ASSUME RuntimeTypeOK, [RuntimeNext]_allVars
    PROVE  \A o \in DOMAIN orders : o \in DOMAIN orders' /\ (Quiet(o)' => Quiet(o))
  BY QuietBefore DEF Quiet, CallsOnlyGrow

LEMMA EventRecorded ==
    ASSUME BrokerInv, ProcessEvent
    PROVE  \E e \in BrokerEvent, outcome \in {"APPLIED", "IGNORED"} :
               /\ Fresh(e) /\ Record(e, outcome) /\ e.order \in DOMAIN orders
               /\ outcome = "IGNORED" => ~Quiet(e.order)
<1>1. PICK e \in BrokerEvent :
          /\ e = Head(queue) /\ e = queue[1] /\ 1 \in DOMAIN queue
          /\ IF IsFill(e) THEN FillStep(e) ELSE StatusStep(e)
  BY HeadType DEF ProcessEvent, BrokerInv, RuntimeTypeOK
<1>2. e.order \in DOMAIN orders
  BY <1>1 DEF BrokerInv, AboutOrders
<1>3. CASE IgnoreEvent(e)
  <2>1. NotAdmitted(orders[e.order], queue[1]) /\ 1 \in EventsOf(e.order)
    BY <1>1, <1>3 DEF IgnoreEvent, EventsOf
  <2>2. ~Quiet(e.order)
    BY <1>2, <2>1, HeadFits DEF BrokerInv, QuietOrdersAgree
  <2> QED
    BY <1>2, <1>3, <2>2 DEF IgnoreEvent
<1>4. CASE CompleteFill(e) \/ PartialFill(e) \/ IocPartialFill(e)
  BY <1>2, <1>4 DEF CompleteFill, PartialFill, IocPartialFill, ApplyFill
<1>5. CASE BrokerRejects(e) \/ BrokerCancels(e)
  BY <1>2, <1>5 DEF BrokerRejects, BrokerCancels
<1> QED
  BY <1>1, <1>3, <1>4, <1>5 DEF FillStep, StatusStep

LEMMA ProcessedRests ==
    ASSUME [RuntimeNext]_allVars, ~ProcessEvent
    PROVE  UNCHANGED processed
  BY DEF RuntimeNext, Client, EventLoop, ExpiryWorker, Fault, OpenAccount, CreateAccount,
         PlaceOrder, RejectNewOrder, RouteNewOrder, AddOrder, Cancel, RequestCancellation,
         CallSubmit, Submit, CallCancel, NotifyCancel, RunTask, DropUnsettled, DropInOutage,
         DropEvent, Scan, Expire, ExpireNext, Restart, vars, ledgerVars, allVars

LEMMA IgnoredStep ==
    ASSUME BrokerInv, IgnoredAreDisturbed, [RuntimeNext]_allVars
    PROVE  IgnoredAreDisturbed'
<1>1. \A o \in DOMAIN orders : o \in DOMAIN orders' /\ (Quiet(o)' => Quiet(o))
  BY Disturbed DEF BrokerInv
<1>2. CASE UNCHANGED processed
  BY <1>1, <1>2 DEF IgnoredAreDisturbed
<1>3. CASE ProcessEvent
  <2>1. PICK e \in BrokerEvent, outcome \in {"APPLIED", "IGNORED"} :
            /\ Fresh(e) /\ Record(e, outcome) /\ e.order \in DOMAIN orders
            /\ outcome = "IGNORED" => ~Quiet(e.order)
    BY <1>3, EventRecorded
  <2>2. /\ DOMAIN processed' = DOMAIN processed \cup {e.id}
        /\ \A id \in DOMAIN processed : processed'[id] = processed[id]
        /\ processed'[e.id].order = e.order /\ processed'[e.id].outcome = outcome
    BY <2>1, RecordKeeps DEF Fresh
  <2> QED
    BY <1>1, <2>1, <2>2 DEF IgnoredAreDisturbed
<1> QED
  BY <1>2, <1>3, ProcessedRests

(* However its tasks interleave with clients, workers and restarts, the fake  *)
(* broker never reports a fill or a rejection that the service has to ignore, *)
(* unless a cancellation of the order was requested or one of its events      *)
(* dropped.                                                                   *)
THEOREM IgnoredEventsAreExplained == RuntimeSpec => []IgnoredEventsHaveACause
<1>1. RuntimeInit => IgnoredAreDisturbed
  BY DEF RuntimeInit, Init, NoRows, IgnoredAreDisturbed
<1>2. BrokerInv /\ IgnoredAreDisturbed /\ [RuntimeNext]_allVars => IgnoredAreDisturbed'
  BY IgnoredStep
<1>3. BrokerInv /\ IgnoredAreDisturbed => IgnoredEventsHaveACause
  <2> SUFFICES ASSUME BrokerInv, IgnoredAreDisturbed,
                      NEW id \in DOMAIN processed, processed[id].outcome = "IGNORED"
               PROVE  LET o == processed[id].order
                      IN  \/ cancellation[o].pending + cancellation[o].sent > 0
                          \/ \E e \in dropped : e.order = o
    BY DEF IgnoredEventsHaveACause
  <2>1. PICK o \in DOMAIN orders : o = processed[id].order /\ ~Quiet(o)
    BY DEF IgnoredAreDisturbed
  <2>2. cancellation[o].pending \in Nat /\ cancellation[o].sent \in Nat
    BY DEF BrokerInv, RuntimeTypeOK, TypeOK, HandlersTypeOK, Cancellation
  <2> QED
    BY <2>1, <2>2 DEF Quiet
<1> QED
  BY <1>1, <1>2, <1>3, BrokerInvInductive, PTL DEF RuntimeSpec
=============================================================================
