-------------------------- MODULE OrderProperties --------------------------
(* What the order management core promises, order by order and step by step. *)
(* Properties that add up whole tables are in OrderLedger.                    *)
EXTENDS OrderManagement

(* Two ways the deployment can be instantiated.  With one currency unit per   *)
(* column unit no product is ever rounded; without submission failures        *)
(* _mark_routing_failure never runs.                                          *)
ExactCash == Scale = 1
ReliableSubmission == SubmitFailures = {}

-----------------------------------------------------------------------------
(* Which quantities of a row are zero in which status.                        *)
RowMatches(row) ==
    /\ row.filled + row.cancelled + row.remaining = row.req.quantity
    /\ row.status = "ROUTED" => row.filled = 0 /\ row.cancelled = 0
    /\ row.status = "PARTIALLY_FILLED" =>
           0 < row.filled /\ 0 < row.remaining /\ row.cancelled = 0
    /\ row.status = "CANCEL_PENDING" => 0 < row.remaining /\ row.cancelled = 0
    /\ row.status = "FILLED" => row.filled = row.req.quantity
    /\ row.status = "CANCELLED" => 0 < row.cancelled /\ row.remaining = 0
    /\ row.status = "REJECTED" => row.filled = 0 /\ row.cancelled = 0
    /\ row.status \notin {"NEW", "VALIDATED"}

(* The status of an order agrees with its quantities: the fills,              *)
(* cancellations and releases of the execution handlers, in any order, keep   *)
(* filled + cancelled + remaining = quantity, an executable order always has  *)
(* something left, and a terminal one never does (a rejected one has filled   *)
(* nothing).                                                                  *)
StatusMatchesQuantities == \A o \in DOMAIN orders : RowMatches(orders[o])

(* The audit history tells the story of the order row: it starts with         *)
(* ORDER_CREATED, each event continues from the status the one before it      *)
(* left, every change of status is one the state machine allows, and the last *)
(* event names the status in the row.                                         *)
Explains(audit, status) ==
    /\ audit # <<>>
    /\ audit[1] = Created
    /\ audit[Len(audit)].new = status
    /\ \A i \in 2 .. Len(audit) :
           /\ audit[i].previous = audit[i - 1].new
           /\ audit[i].previous # audit[i].new =>
                  TransitionAllowed(audit[i].previous, audit[i].new)

AuditTrailExplainsStatus ==
    \A o \in DOMAIN orders : Explains(history[o], orders[o].status)

(* A broker event takes effect at most once however often, in whatever order  *)
(* and under whatever execution id it is delivered: every fill belongs to an  *)
(* applied fill event of its own order, and no two fills share an event or an *)
(* execution id.                                                              *)
FillsBelongToEvents ==
    /\ \A f \in fills :
           /\ f.event \in DOMAIN processed
           /\ processed[f.event].order = f.order
           /\ processed[f.event].outcome = "APPLIED"
           /\ processed[f.event].type \in {"FULL_FILL", "PARTIAL_FILL"}
           /\ f.order \in DOMAIN orders
    /\ \A f, g \in fills : f.event = g.event \/ f.exec = g.exec => f = g

(* An order leaves its open life once: after FILLED, REJECTED or CANCELLED no *)
(* late event, racing cancellation or failing create_order call changes the   *)
(* row or adds a fill to it.                                                  *)
TerminalOrdersRest ==
    \A o \in DOMAIN orders :
        orders[o].status \in TERMINAL_ORDER_STATUSES =>
            /\ orders'[o] = orders[o]
            /\ {f \in fills' : f.order = o} = {f \in fills : f.order = o}

TerminalIsFinal == [][TerminalOrdersRest]_vars

(* However many clients and expiry scans ask for a cancellation, the broker   *)
(* is asked once per order at most.                                           *)
BrokerAskedOnceToCancel ==
    \A o \in DOMAIN orders :
        /\ cancellation[o].pending + cancellation[o].sent <= 1
        /\ orders[o].status \in CANCELLABLE_ORDER_STATUSES =>
               cancellation[o].pending + cancellation[o].sent = 0

-----------------------------------------------------------------------------
(* Money, step by step.                                                       *)

(* Wide cash an order holds of its account's reservation.                     *)
Held(row) ==
    IF row.req.side = "BUY" /\ row.status \in OPEN_ORDER_STATUSES
    THEN row.remaining * row.req.price
    ELSE 0

HeldBy(o, book) == IF o \in DOMAIN book THEN Held(book[o]) ELSE 0

(* reserved_cash moves only with the holding of one order, and by exactly     *)
(* that order's change: placing, filling, rejecting and cancelling an order   *)
(* never touches what other orders of the account hold.                       *)
ReservationMove ==
    \A a \in DOMAIN accounts : accounts'[a].reserved # accounts[a].reserved =>
        \E o \in DOMAIN orders' :
            /\ orders'[o].req.account = a
            /\ Wide(accounts'[a].reserved - accounts[a].reserved)
                   = HeldBy(o, orders') - HeldBy(o, orders)
            /\ \A other \in DOMAIN orders \ {o} : Held(orders'[other]) = Held(orders[other])

ReservationFollowsOrders == [][ReservationMove]_vars

(* cash_balance moves only when a fill of an order of that account is         *)
(* inserted, by that fill's notional: money is never paid for a fill that is  *)
(* not in the table, nor a fill booked without being paid for.                *)
Notional(f) ==
    IF orders[f.order].req.side = "BUY" THEN -(f.quantity * f.price) ELSE f.quantity * f.price

CashMove ==
    \A a \in DOMAIN accounts :
        LET booked == {f \in fills' \ fills : orders[f.order].req.account = a}
        IN  \/ booked = {} /\ accounts'[a].cash = accounts[a].cash
            \/ \E f \in booked :
                   /\ booked = {f}
                   /\ accounts'[a].cash = Stored(Wide(accounts[a].cash) + Notional(f))

CashMovesWithFills == [][CashMove]_vars
=============================================================================
