------------------------- MODULE RuntimeProperties -------------------------
(* What the running process promises beyond the core: that orders end, and   *)
(* which of them a stop of the process or a dropped event may leave behind.  *)
EXTENDS OmsRuntime

CancelUnderWay(o) ==
    \/ \E handler \in handlers : handler.call = "cancel" /\ handler.order = o
    \/ Task("cancel", o, 0) \in tasks
    \/ \E i \in DOMAIN queue : queue[i] = StatusReport(o, "cancel", "CANCELLED")

Orphaned(o) == orders[o].status = "CANCEL_PENDING" /\ ~CancelUnderWay(o)

(* The cancellation of an order never gets lost by itself: an order is        *)
(* CANCEL_PENDING with no broker call, broker task or queued event that will  *)
(* end it only if the process stopped while it was open or the worker dropped *)
(* its CANCELLED event, though request_cancellation goes on after its commit  *)
(* and fills and cancellations of clients and the expiry worker race.         *)
OrphansHaveACause ==
    \A o \in DOMAIN orders : Orphaned(o) =>
        \/ o \in interrupted
        \/ \E e \in dropped : e.order = o /\ e.type = "CANCELLED"

(* The fake broker and the service never disagree on what is left of an       *)
(* order: a broker event is recorded as IGNORED only when a cancellation of   *)
(* the order was requested, or after the worker dropped one of its events     *)
(* (then a FULL_FILL no longer fits the remainder the service knows).         *)
IgnoredEventsHaveACause ==
    \A id \in DOMAIN processed : processed[id].outcome = "IGNORED" =>
        LET o == processed[id].order
        IN  \/ cancellation[o].pending + cancellation[o].sent > 0
            \/ \E e \in dropped : e.order = o

-----------------------------------------------------------------------------
IsOpen(o) == o \in DOMAIN orders /\ orders[o].status \in OPEN_ORDER_STATUSES

(* A scan is full of older orders that nothing will ever end.                *)
Starved(o) ==
    \E i \in DOMAIN dayOrders :
        /\ dayOrders[i] = o
        /\ Cardinality({j \in 1 .. i - 1 : Orphaned(dayOrders[j])}) >= ScanLimit

(* Why an open order may stay open.                                          *)
MayRest(o) ==
    \/ Orphaned(o)
    \/ orders[o].req.tif = "GTC" /\ orders[o].status # "CANCEL_PENDING"
    \/ orders[o].req.tif = "DAY" /\ Starved(o)
    \/ /\ orders[o].req.tif = "IOC"
       /\ o \in interrupted \/ \E e \in dropped : e.order = o

(* Every order ends, whatever the broker answers.  A DAY order does even if   *)
(* the process restarts and loses its tasks ("a background expiry worker      *)
(* requests cancellation"), unless a whole scan of older orders is orphaned;  *)
(* an IOC order "never rests", unless its event was lost; a cancellation that *)
(* was requested comes to an end, unless it was orphaned; only a GTC order    *)
(* rests as it pleases.                                                       *)
OrdersEnd == <>[](\A o \in DOMAIN orders : IsOpen(o) => MayRest(o))
=============================================================================
