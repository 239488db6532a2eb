----------------------------- MODULE OmsRuntime -----------------------------
(* The running process of main.py: request handlers, the fake broker, the    *)
(* queue, the worker that empties it, the worker that expires DAY orders, and *)
(* a process that may stop at any moment and start again on the same tables.  *)
(* The transactions are those of OrderManagement.  The market data feed only  *)
(* touches prices and positions and is left out.                              *)
(*                                                                           *)
(* FakeBrokerAdapter's calls only start a task and never raise, so this       *)
(* module does without SubmitRaises: SubmitFailures is {}.                    *)
EXTENDS OrderManagement, FakeBroker

CONSTANTS
    ScanLimit,      \* orders one expiry scan reads, 100 in the code
    MaxFaults       \* bound on the outages and restarts of a behaviour

ASSUME RuntimeAssumption ==
    /\ ScanLimit \in Nat \ {0}
    /\ MaxFaults \in Nat

ASSUME FakeBrokerAssumption ==
    /\ OrderIds \X {"order", "rest", "cancel"} \subseteq EventIds
    /\ OrderIds \X {"order", "rest"} \subseteq ExecIds
    /\ \A req \in Requests :
           1 .. req.quantity \subseteq FillQuantities /\ req.price \in FillPrices

VARIABLES
    handlers,       \* calls of the broker that a live handler is about to make
    dayOrders,      \* DAY orders by expires_at, oldest first
    expired,        \* how many of them are past it
    scan,           \* what is left of the expiry worker's list
    dropped,        \* events whose processing raised
    interrupted,    \* orders that were open when the process stopped
    faults          \* outages and restarts so far

expiryVars == <<dayOrders, expired, scan>>
faultVars == <<dropped, interrupted, faults>>
runtimeVars == <<brokerVars, handlers, expiryVars, faultVars>>
allVars == <<vars, runtimeVars>>

Handler(call, o, by) == [call |-> call, order |-> o, by |-> by]

BrokerOrder(o) ==
    [id |-> o, tif |-> orders[o].req.tif,
     remaining |-> orders[o].req.quantity, price |-> orders[o].req.price]

-----------------------------------------------------------------------------
(* Clients.                                                                  *)

OpenAccount ==
    /\ \E a \in Accounts, d \in Deposits : CreateAccount(a, d)
    /\ UNCHANGED runtimeVars

(* create_order draws expires_at under the lock of the account and commits    *)
(* later: an order of another account may have drawn a later one and be there *)
(* already, or have expired.                                                  *)
DrawExpiry(o, account) ==
    \E i \in 0 .. Len(dayOrders) :
        /\ \A j \in i + 1 .. Len(dayOrders) : orders[dayOrders[j]].req.account # account
        /\ dayOrders' = SubSeq(dayOrders, 1, i) \o <<o>> \o SubSeq(dayOrders, i + 1, Len(dayOrders))
        /\ expired' = IF i < expired THEN expired + 1 ELSE expired

(* create_order, with a fresh id.                                            *)
PlaceOrder(req) ==
    LET o == CHOOSE o \in OrderIds : o \notin DOMAIN orders
    IN  /\ DOMAIN orders # OrderIds
        /\ \/ RejectNewOrder(o, req) /\ UNCHANGED handlers
           \/ /\ RouteNewOrder(o, req)
              /\ handlers' = handlers \cup {Handler("submit", o, "client")}
        /\ IF req.tif = "DAY" THEN DrawExpiry(o, req.account) ELSE UNCHANGED <<dayOrders, expired>>
        /\ UNCHANGED <<brokerVars, scan, faultVars>>

Cancel(o, by) ==
    /\ RequestCancellation(o)
    /\ handlers' = handlers \cup {Handler("cancel", o, by)}
    /\ UNCHANGED <<brokerVars, expiryVars, faultVars>>

(* The calls handlers make after their commit.                               *)
CallSubmit(o) ==
    LET handler == Handler("submit", o, "client")
    IN  /\ handler \in handlers
        /\ Submit(o)
        /\ StartOrder(BrokerOrder(o))
        /\ handlers' = handlers \ {handler}
        /\ UNCHANGED <<expiryVars, faultVars>>

CallCancel(o) ==
    \E handler \in handlers :
        /\ handler.call = "cancel" /\ handler.order = o
        /\ NotifyCancel(o)
        /\ StartCancel(o)
        /\ handlers' = handlers \ {handler}
        /\ UNCHANGED <<expiryVars, faultVars>>

-----------------------------------------------------------------------------
(* The fake broker and the worker that processes its events, one at a time.  *)

RunTask(o) ==
    /\ UNCHANGED <<vars, handlers, expiryVars, faultVars>>
    /\ SimulateOrder(BrokerOrder(o)) \/ SimulateRest(BrokerOrder(o)) \/ SimulateCancellation(o)

IsFill(e) == e.type \in {"FULL_FILL", "PARTIAL_FILL"}

ProcessEvent ==
    /\ queue # <<>>
    /\ queue' = Tail(queue)
    /\ UNCHANGED <<tasks, handlers, expiryVars, faultVars>>
    /\ IF IsFill(Head(queue)) THEN FillStep(Head(queue)) ELSE StatusStep(Head(queue))

(* The event is admitted, but the account cannot settle it: InvalidFill.     *)
Unsettled(e) ==
    LET row      == orders[e.order]
        account  == accounts[row.req.account]
        released == IF IsFill(e) /\ row.req.tif # "IOC" THEN e.quantity ELSE row.remaining
    IN  /\ ~NotAdmitted(row, e)
        /\ \/ ReservedAfter(account, row.req, released) < 0
           \/ IsFill(e) /\ ~FillSettles(account, row.req, e)

(* An exception of process_event is logged and the event is gone.            *)
DropEvent(e) ==
    /\ queue # <<>>
    /\ e = Head(queue)
    /\ queue' = Tail(queue)
    /\ dropped' = dropped \cup {e}
    /\ UNCHANGED <<vars, tasks, handlers, expiryVars, interrupted>>

DropUnsettled ==
    /\ DropEvent(Head(queue))
    /\ Unsettled(Head(queue))
    /\ UNCHANGED faults

(* An outage; an event that cannot be settled is dropped without one.        *)
DropInOutage ==
    /\ DropEvent(Head(queue))
    /\ faults < MaxFaults
    /\ ~Unsettled(Head(queue))
    /\ faults' = faults + 1

-----------------------------------------------------------------------------
(* The expiry worker.                                                        *)

(* The expires_at of one more order passes: how long that takes is            *)
(* configuration.                                                            *)
Expire ==
    /\ expired < Len(dayOrders)
    /\ expired' = expired + 1
    /\ UNCHANGED <<vars, brokerVars, handlers, dayOrders, scan, faultVars>>

ExpiredOrders == SubSeq(dayOrders, 1, expired)

(* Partially filled orders forgotten by the scan.                            *)
ExpiredOpenMistake == SelectSeq(ExpiredOrders, LAMBDA o : orders[o].status = "ROUTED")
ExpiredOpen == SelectSeq(ExpiredOrders, LAMBDA o : orders[o].status \in OPEN_ORDER_STATUSES)

(* list_expired_day_order_ids.                                               *)
Scan ==
    /\ scan = <<>>
    /\ scan' = SubSeq(ExpiredOpen, 1, Least(ScanLimit, Len(ExpiredOpen)))
    /\ UNCHANGED <<vars, brokerVars, handlers, dayOrders, expired, faultVars>>

(* The worker goes through the list one by one and waits for its broker call *)
(* before it goes on.  An order it fails to cancel is read by the next scan:  *)
(* no more than a delay.                                                     *)
AwaitsBroker == \E handler \in handlers : handler.by = "expiry"

ExpireNext ==
    /\ scan # <<>>
    /\ ~AwaitsBroker
    /\ scan' = Tail(scan)
    /\ LET o == Head(scan)
       IN  \/ /\ o \in DOMAIN orders
              /\ RequestCancellation(o)
              /\ handlers' = handlers \cup {Handler("cancel", o, "expiry")}
           \/ /\ o \notin DOMAIN orders \/ orders[o].status \notin CANCELLABLE_ORDER_STATUSES
              /\ UNCHANGED <<vars, handlers>>
    /\ UNCHANGED <<brokerVars, dayOrders, expired, faultVars>>

-----------------------------------------------------------------------------
(* The process stops, gracefully or not, and starts again.  What was in      *)
(* memory is gone: nothing reads the tables to pick it up.                   *)
Restart ==
    /\ <<tasks, queue, handlers, scan>> # <<{}, <<>>, {}, <<>>>>
    /\ faults < MaxFaults
    /\ faults' = faults + 1
    /\ Stop
    /\ handlers' = {}
    /\ scan' = <<>>
    /\ interrupted' = interrupted \cup
           {o \in DOMAIN orders : orders[o].status \in OPEN_ORDER_STATUSES}
    /\ UNCHANGED <<vars, dayOrders, expired, dropped>>

RuntimeInit ==
    /\ Init
    /\ BrokerInit
    /\ handlers = {} /\ dayOrders = <<>> /\ expired = 0 /\ scan = <<>>
    /\ dropped = {} /\ interrupted = {} /\ faults = 0

Client ==
    \/ OpenAccount
    \/ \E req \in Requests : PlaceOrder(req)
    \/ \E o \in DOMAIN orders : Cancel(o, "client")

(* What the event loop runs by itself: handlers past their commit, broker     *)
(* tasks whose sleep is over and the worker.  While it waits, time passes.    *)
EventLoop ==
    \/ Expire
    \/ \E o \in DOMAIN orders : CallSubmit(o) \/ CallCancel(o) \/ RunTask(o)
    \/ ProcessEvent
    \/ DropUnsettled

ExpiryWorker == Scan \/ ExpireNext

Fault == DropInOutage \/ Restart

RuntimeNext == Client \/ EventLoop \/ ExpiryWorker \/ Fault

(* The event loop never idles while something is ready, and the expiry worker *)
(* is one of its tasks.  Clients and faults are under no obligation.          *)
Fairness == WF_allVars(EventLoop) /\ WF_allVars(ExpiryWorker)

RuntimeSpec == RuntimeInit /\ [][RuntimeNext]_allVars /\ Fairness
=============================================================================
