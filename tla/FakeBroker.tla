----------------------------- MODULE FakeBroker -----------------------------
(* FakeBrokerAdapter: the simulated broker.  Every call starts a background   *)
(* task that sleeps for a random time and then puts an event on the queue, so *)
(* tasks take their steps in any order.  Event and execution ids are fresh    *)
(* UUIDs in the code; as an order is submitted and cancelled once at most,    *)
(* the order and the task that sent the event name it here.                   *)
(*                                                                           *)
(* An order is a BrokerOrder: [id, tif, remaining, price].                    *)
EXTENDS Integers, Sequences

VARIABLES
    tasks,      \* background tasks: [step, id, quantity]
    queue       \* the asyncio.Queue of broker events, oldest first

brokerVars == <<tasks, queue>>

Task(step, id, quantity) == [step |-> step, id |-> id, quantity |-> quantity]

FillReport(order, step, type, quantity) ==
    [id |-> <<order.id, step>>, order |-> order.id, type |-> type,
     quantity |-> quantity, price |-> order.price, exec |-> <<order.id, step>>]

StatusReport(id, step, type) == [id |-> <<id, step>>, order |-> id, type |-> type]

BrokerInit == tasks = {} /\ queue = <<>>

(* submit_order and cancel_order start a task and return.                    *)
StartOrder(order) ==
    /\ tasks' = tasks \cup {Task("order", order.id, order.remaining)}
    /\ UNCHANGED queue

(* Only an order with a task under way can be cancelled.                     *)
StartCancelMistake(id) ==
    /\ tasks' = IF \E task \in tasks : task.id = id
                THEN tasks \cup {Task("cancel", id, 0)} ELSE tasks
    /\ UNCHANGED queue
StartCancel(id) ==
    /\ tasks' = tasks \cup {Task("cancel", id, 0)}
    /\ UNCHANGED queue

(* A task puts an event and ends, or goes on as another.                     *)
Send(task, event, next) ==
    /\ task \in tasks
    /\ tasks' = (tasks \ {task}) \cup next
    /\ queue' = Append(queue, event)

(* A quarter to three quarters of the order, rounded down to a column unit,  *)
(* or all of it when that is nothing.                                        *)
PartialQuantities(remaining) ==
    {IF n = 0 THEN remaining ELSE n : n \in remaining \div 4 .. (3 * remaining) \div 4}

(* The remainder of the order sent again instead of what the fill left.      *)
AfterPartialMistake(order, quantity) ==
    {{}, {Task("rest", order.id, order.remaining)}}

(* What _simulate_order may still do after a partial fill: an IOC order ends *)
(* there, any other may be filled later.                                     *)
AfterPartial(order, quantity) ==
    LET rest == Task("rest", order.id, order.remaining - quantity)
    IN  IF order.tif = "IOC" \/ rest.quantity = 0 THEN {{}} ELSE {{}, {rest}}

SimulateOrder(order) ==
    LET task == Task("order", order.id, order.remaining)
    IN  \/ Send(task, StatusReport(order.id, "order", "REJECTED"), {})
        \/ Send(task, FillReport(order, "order", "FULL_FILL", order.remaining), {})
        \/ \E quantity \in PartialQuantities(order.remaining) :
               \E next \in AfterPartial(order, quantity) :
                   Send(task, FillReport(order, "order", "PARTIAL_FILL", quantity), next)

SimulateRest(order) ==
    \E task \in tasks :
        /\ task.step = "rest" /\ task.id = order.id
        /\ Send(task, FillReport(order, "rest", "FULL_FILL", task.quantity), {})

SimulateCancellation(id) ==
    Send(Task("cancel", id, 0), StatusReport(id, "cancel", "CANCELLED"), {})

(* close, and the queue lost with the process.                               *)
Stop == tasks' = {} /\ queue' = <<>>
=============================================================================
