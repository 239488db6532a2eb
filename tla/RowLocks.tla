------------------------------ MODULE RowLocks ------------------------------
(* The transactions of OrderManagement statement by statement, as PostgreSQL *)
(* runs them under READ COMMITTED: SELECT ... FOR UPDATE waits for the row's  *)
(* lock and returns its latest committed version, a plain SELECT returns what *)
(* is committed and locks nothing, and what a transaction writes is seen by   *)
(* others when it commits, which releases its locks.  An UPDATE sets the      *)
(* columns the session changed, computed from the values it read.             *)
(*                                                                           *)
(* Each call is made at most once.  Ticks are applied one after another by    *)
(* the feed, so the rows of market prices are never contended for.            *)
(* create_account is not taken apart: nothing can refer to the row it inserts *)
(* before its commit.                                                         *)
EXTENDS OrderManagement

CONSTANTS
    Calls,      \* the calls of a behaviour
    Asks,       \* call -> what it asks for, a record with a "kind"
    After,      \* call -> the calls that ended before it is made
    Scenarios   \* the sets of calls that are made in one behaviour

ASSUME CallsAssumption ==
    /\ After \in [Calls -> SUBSET Calls]
    /\ \A c \in Calls : Asks[c].kind \in {"create", "cancel", "event", "tick", "failure"}
    /\ \A c \in Calls : Asks[c].kind = "create" =>
           Asks[c].order \in OrderIds /\ Asks[c].req \in Requests
    /\ \A c \in Calls : Asks[c].kind = "event" => Asks[c].event \in FillEvent \cup StatusEvent
    /\ \A c \in Calls : Asks[c].kind = "tick" =>
           Asks[c].symbol \in Symbols /\ Asks[c].price \in TickPrices /\ Asks[c].time \in TickTimes
    /\ \A c \in Calls : Asks[c].kind = "failure" => Asks[c].how \in SubmitFailures

(* create_order calls submit_order once.                                     *)
ASSUME FailuresAssumption ==
    \A c, d \in Calls : Asks[c].kind = "failure" /\ Asks[d].kind = "failure" =>
        (Asks[c].order = Asks[d].order => c = d)

(* The broker never reuses the id of an event for another order.             *)
ASSUME EventIdsAssumption ==
    \A c, d \in Calls : Asks[c].kind = "event" /\ Asks[d].kind = "event" =>
        (Asks[c].event.id = Asks[d].event.id => Asks[c].event.order = Asks[d].event.order)

(* One feed task applies the ticks one after another.                        *)
ASSUME TicksAssumption ==
    \A c, d \in Calls : Asks[c].kind = "tick" /\ Asks[d].kind = "tick" /\ c # d =>
        c \in After[d] \/ d \in After[c]

(* The accounts exist when the calls are made.                               *)
ASSUME OpenedAssumption == Deposits # {}

VARIABLES
    seen,       \* call -> what its statements have returned, by the row they read
    held,       \* call -> rows it has locked
    ended       \* calls that committed, returned, raised or are never made

lockVars == <<seen, held, ended>>
lockedVars == <<vars, lockVars>>

(* A client cancels an order that exists, the broker reports on orders it     *)
(* knows, _mark_routing_failure follows a submit_order that raised.           *)
Made(c) ==
    /\ After[c] \subseteq ended
    /\ Asks[c].kind = "cancel" => Asks[c].order \in DOMAIN orders
    /\ Asks[c].kind = "event" => KnownToBroker(Asks[c].event.order, Asks[c].event.type)
    /\ Asks[c].kind = "failure" =>
           Asks[c].order \in DOMAIN orders /\ submission[Asks[c].order].stage = "failing"

-----------------------------------------------------------------------------
(* Statements.  Each reads <<table, key>>; "request" and "client" look for an *)
(* earlier order with the idempotency key or the client order id of a         *)
(* request, "processed" for an earlier delivery of the event, "keys" for the  *)
(* positions of a symbol.                                                     *)

NewKey(req) ==
    \A o \in DOMAIN orders : orders[o].req.account = req.account => orders[o].req.key # req.key
NewClient(req) ==
    \A o \in DOMAIN orders :
        orders[o].req.account = req.account => orders[o].req.client # req.client

Only(rows) == CHOOSE row \in rows : TRUE
Rows(table, key) == {table[k] : k \in DOMAIN table \cap {key}}

Read(table, key) ==
    CASE table = "account"   -> accounts[key]
      [] table = "order"     -> orders[key]
      [] table = "request"   -> ~NewKey(key)
      [] table = "client"    -> ~NewClient(key)
      [] table = "processed" -> key \in DOMAIN processed
      [] table = "position"  -> Rows(positions, key)
      [] table = "price"     -> Rows(marketPrices, key)
      [] table = "keys"      -> {k \in DOMAIN positions : k[2] = key}

(* What call c read from the one row of a table it has read.                 *)
Has(c, table) == \E row \in DOMAIN seen[c] : row[1] = table
Got(c, table) == seen[c][CHOOSE row \in DOMAIN seen[c] : row[1] = table]

IsFill(e) == e.type \in {"FULL_FILL", "PARTIAL_FILL"}

(* process_event after the lookup of the event's id.                         *)
Settlement(row, e) ==
    LET req     == row.req
        account == <<"account", req.account>>
    IN  IF IsFill(e)
        THEN <<account, <<"position", <<req.account, req.symbol>>>>, <<"price", req.symbol>>>>
        ELSE <<account>>

EventStatements(c, e) ==
    <<<<"order", e.order>>, <<"processed", e.id>>>> \o
        IF Has(c, "processed") /\ ~Got(c, "processed") /\ ~NotAdmitted(Got(c, "order"), e)
        THEN Settlement(Got(c, "order"), e) ELSE <<>>

(* create_order looks for the client order id if the key is new.             *)
CreateStatements(c, req) ==
    <<<<"account", req.account>>, <<"request", req>>>> \o
        IF Has(c, "request") /\ ~Got(c, "request") THEN <<<<"client", req>>>> ELSE <<>>

(* A cancellation that takes the account first, as create_order does.        *)
CancelStatementsMistake(o) == <<<<"account", orders[o].req.account>>, <<"order", o>>>>
CancelStatements(o) == <<<<"order", o>>>>

(* _mark_routing_failure; its session does not look at what they return.     *)
FailureStatements(o) == <<<<"order", o>>, <<"account", orders[o].req.account>>>>

Statements(c) ==
    LET ask == Asks[c]
    IN  CASE ask.kind = "create"  -> CreateStatements(c, ask.req)
          [] ask.kind = "cancel"  -> CancelStatements(ask.order)
          [] ask.kind = "event"   -> EventStatements(c, ask.event)
          [] ask.kind = "tick"    -> <<<<"price", ask.symbol>>, <<"keys", ask.symbol>>>>
          [] ask.kind = "failure" -> FailureStatements(ask.order)

TickApplies(c) ==
    \A row \in Got(c, "price") : Asks[c].time >= row.observedAt

(* What the call may do next: its first statement that has not run or, in the *)
(* last one of a tick, the lock of any of the positions it has found.         *)
Pending(c) ==
    LET run  == Statements(c)
        left == {i \in DOMAIN run : run[i] \notin DOMAIN seen[c]}
    IN  IF left # {} THEN {run[i] : i \in {j \in left : \A k \in left : j <= k}}
        ELSE IF Asks[c].kind = "tick" /\ TickApplies(c)
        THEN {<<"position", k>> : k \in Got(c, "keys")} \ DOMAIN seen[c]
        ELSE {}

(* FOR UPDATE forgotten on accounts and positions, or on positions only.     *)
LocksMistake(table, key) ==
    IF table = "order" THEN {<<table, key>>} ELSE {}
PositionLocksMistake(table, key) ==
    IF table \in {"account", "order"} THEN {<<table, key>>} ELSE {}

(* The rows a statement locks: those it selects FOR UPDATE.                  *)
Locks(table, key) ==
    CASE table \in {"account", "order"} -> {<<table, key>>}
      [] table = "position"           -> {<<table, k>> : k \in DOMAIN positions \cap {key}}
      [] OTHER                        -> {}

RunStatement(c) ==
    /\ c \notin ended
    /\ Made(c)
    /\ \E row \in Pending(c) :
           /\ \A other \in Calls \ {c} : Locks(row[1], row[2]) \cap held[other] = {}
           /\ held' = [held EXCEPT ![c] = @ \cup Locks(row[1], row[2])]
           /\ seen' = [seen EXCEPT ![c] = Put(@, row, Read(row[1], row[2]))]
    /\ UNCHANGED <<vars, ended>>

-----------------------------------------------------------------------------
(* Commits.                                                                  *)

(* An UPDATE of a row that was read as "read" and is "new" in the session.   *)
UpdatedRow(row, read, new) ==
    [column \in DOMAIN new |-> IF new[column] # read[column] THEN new[column] ELSE row[column]]
Updated(table, key, read, new) == [table EXCEPT ![key] = UpdatedRow(@, read, new)]

(* create_order: no order with the key or the client order id was found.     *)
FoundNone(c) == ~Got(c, "request") /\ ~Got(c, "client")

CommitOrder(c, o, req) ==
    LET account == Got(c, "account")
        covered == RequiredBuyingPower(req) <= Wide(account.cash - account.reserved)
    IN  \/ /\ FoundNone(c) /\ covered
           /\ AddOrder(o, req, "ROUTED",
                  <<Created, Transition("ORDER_VALIDATED", "NEW", "VALIDATED"),
                    Transition("ORDER_ROUTED", "VALIDATED", "ROUTED")>>,
                  [stage |-> "submitting", reservedBefore |-> account.reserved])
           /\ accounts' = Updated(accounts, req.account, account,
                  StoredAccount(Wide(account.cash),
                                Wide(account.reserved) + RequiredBuyingPower(req)))
        \/ /\ FoundNone(c) /\ ~covered
           /\ AddOrder(o, req, "REJECTED",
                  <<Created, Transition("VALIDATION_FAILED", "NEW", "REJECTED")>>, Finished)
           /\ UNCHANGED accounts
        \/ /\ ~FoundNone(c)
           /\ UNCHANGED vars

(* request_cancellation.                                                     *)
CommitCancellation(c, o) ==
    LET row == Got(c, "order")
    IN  \/ /\ row.status \in CANCELLABLE_ORDER_STATUSES
           /\ orders' = Updated(orders, o, row, [row EXCEPT !.status = "CANCEL_PENDING"])
           /\ history' = [history EXCEPT ![o] =
                  Append(@, Transition("CANCEL_REQUESTED", row.status, "CANCEL_PENDING"))]
           /\ cancellation' = [cancellation EXCEPT ![o].pending = @ + 1]
           /\ UNCHANGED <<submission, atBroker, ledgerVars, bookVars>>
        \/ /\ row.status \notin CANCELLABLE_ORDER_STATUSES
           /\ UNCHANGED vars

(* The order as an admitted event leaves it, and the events it records.      *)
Resting(row) == [row EXCEPT !.status = IF @ = "ROUTED" THEN "PARTIALLY_FILLED" ELSE @]

RowAfter(row, e) ==
    LET filled == FilledOrder(row, e)
    IN  CASE e.type = "REJECTED"  -> [row EXCEPT !.status = "REJECTED"]
          [] e.type = "CANCELLED" -> CancelledOrder(row)
          [] IsFill(e) /\ filled.remaining = 0 -> [filled EXCEPT !.status = "FILLED"]
          [] IsFill(e) /\ filled.remaining > 0 ->
                 IF row.req.tif = "IOC" THEN CancelledOrder(filled) ELSE Resting(filled)

Audit(row, e, after) ==
    CASE e.type = "REJECTED"  -> <<Transition("ORDER_REJECTED", row.status, after.status)>>
      [] e.type = "CANCELLED" -> <<Transition("ORDER_CANCELLED", row.status, after.status)>>
      [] IsFill(e) /\ after.status = "FILLED" ->
             <<Transition("FULL_FILL_RECEIVED", row.status, after.status)>>
      [] IsFill(e) /\ after.status = "CANCELLED" ->
             <<Transition("PARTIAL_FILL_RECEIVED", row.status, row.status),
               Transition("ORDER_CANCELLED", row.status, after.status)>>
      [] OTHER -> <<Transition("PARTIAL_FILL_RECEIVED", row.status, after.status)>>

(* The unique constraints of the fills table.                                *)
IsNewFill(e) == \A f \in fills : f.event # e.id /\ f.exec # e.exec

ExecuteFill(c, e, req) ==
    LET key   == <<req.account, req.symbol>>
        found == Got(c, "position")
        mark  == IF Got(c, "price") = {} THEN e.price ELSE Only(Got(c, "price")).price
        read  == IF found = {} THEN FlatPosition(mark) ELSE Only(found)
        new   == ExecutedPosition(read, req.side, e.quantity, e.price, mark)
    IN  /\ fills' = fills \cup {[order |-> e.order, event |-> e.id, exec |-> e.exec,
                                 quantity |-> e.quantity, price |-> e.price]}
        /\ positions' = IF found = {} THEN Put(positions, key, new)
                                      ELSE Updated(positions, key, read, new)

(* What an admitted event closes of its order, and the account it leaves.    *)
Closed(row, e) ==
    IF e.type = "REJECTED" THEN row.remaining ELSE row.remaining - RowAfter(row, e).remaining

ChargedAccount(account, row, e) ==
    StoredAccount(IF IsFill(e) THEN CashAfter(account, row.req, e) ELSE Wide(account.cash),
                  ReservedAfter(account, row.req, Closed(row, e)))

(* Neither a check of _apply_fill or of _release_remaining_reservation nor a  *)
(* constraint of a table fails.                                               *)
CanSettle(c, e) ==
    LET row     == Got(c, "order")
        account == Got(c, "account")
    IN  /\ IsFill(e) => FillSettles(account, row.req, e) /\ IsNewFill(e)
        /\ ReservedAfter(account, row.req, Closed(row, e)) >= 0
        /\ AccountChecks(ChargedAccount(account, row, e))

(* The account is charged and released, the order moves.                     *)
Settle(c, e) ==
    LET row     == Got(c, "order")
        req     == row.req
        account == Got(c, "account")
        after   == RowAfter(row, e)
    IN  /\ accounts' = Updated(accounts, req.account, account, ChargedAccount(account, row, e))
        /\ orders' = Updated(orders, e.order, row, after)
        /\ history' = [history EXCEPT ![e.order] = @ \o Audit(row, e, after)]
        /\ IF IsFill(e) THEN ExecuteFill(c, e, req) ELSE UNCHANGED <<fills, positions>>
        /\ Record(e, "APPLIED")
        /\ UNCHANGED <<submission, cancellation, atBroker, marketPrices>>

(* process_event: a duplicate, an ignored event, one that is settled or one   *)
(* whose settlement raises.                                                   *)
CommitEvent(c, e) ==
    LET row == Got(c, "order")
    IN  \/ /\ Got(c, "processed")
           /\ UNCHANGED vars
        \/ /\ ~Got(c, "processed") /\ NotAdmitted(row, e)
           /\ history' = [history EXCEPT ![e.order] =
                  Append(@, Transition("BROKER_EVENT_IGNORED", row.status, row.status))]
           /\ Record(e, "IGNORED")
           /\ UNCHANGED <<accounts, orders, fills, submission, cancellation, atBroker, bookVars>>
        \/ /\ ~Got(c, "processed") /\ ~NotAdmitted(row, e)
           /\ CanSettle(c, e) /\ Settle(c, e)
        \/ /\ ~Got(c, "processed") /\ ~NotAdmitted(row, e)
           /\ ~CanSettle(c, e)
           /\ UNCHANGED vars

(* apply_tick.                                                               *)
CommitTick(c, ask) ==
    \/ /\ TickApplies(c)
       /\ marketPrices' = Put(marketPrices, ask.symbol,
                              [price |-> ask.price, observedAt |-> ask.time])
       /\ positions' = [k \in DOMAIN positions |->
              IF <<"position", k>> \in DOMAIN seen[c]
              THEN LET read == Only(seen[c][<<"position", k>>])
                   IN  UpdatedRow(positions[k], read, MarkedPosition(read, ask.price))
              ELSE positions[k]]
       /\ UNCHANGED <<orderVars, ledgerVars>>
    \/ /\ ~TickApplies(c)
       /\ UNCHANGED vars

(* _mark_routing_failure writes the columns its session has changed, with the *)
(* values it remembers, whatever its two locked reads returned:               *)
(* MarkRoutingFailure as it is.                                               *)
Commit(c) ==
    LET ask == Asks[c]
    IN  /\ c \notin ended
        /\ Made(c)
        /\ Pending(c) = {}
        /\ \/ ask.kind = "create"  /\ CommitOrder(c, ask.order, ask.req)
           \/ ask.kind = "cancel"  /\ CommitCancellation(c, ask.order)
           \/ ask.kind = "event"   /\ CommitEvent(c, ask.event)
           \/ ask.kind = "tick"    /\ CommitTick(c, ask)
           \/ ask.kind = "failure" /\ MarkRoutingFailure(ask.order)
        /\ ended' = ended \cup {c}
        /\ seen' = [seen EXCEPT ![c] = NoRows]
        /\ held' = [held EXCEPT ![c] = {}]

(* The broker calls that follow a commit.  submit_order may raise if the     *)
(* call that then follows is one of those made.                              *)
CallBroker(o) ==
    /\ \/ Submit(o)
       \/ NotifyCancel(o)
       \/ \E c \in Calls \ ended :
              Asks[c].kind = "failure" /\ Asks[c].order = o /\ SubmitRaises(o, Asks[c].how)
    /\ UNCHANGED lockVars

-----------------------------------------------------------------------------
LocksInit ==
    /\ BookInit
    /\ accounts = [a \in Accounts |-> [cash |-> Only(Deposits), reserved |-> 0]]
    /\ orders = NoRows /\ processed = NoRows
    /\ history = NoRows /\ submission = NoRows /\ cancellation = NoRows
    /\ fills = {} /\ atBroker = {}
    /\ seen = [c \in Calls |-> NoRows]
    /\ held = [c \in Calls |-> {}]
    /\ \E made \in Scenarios : ended = Calls \ made

LocksNext ==
    \/ \E c \in Calls : RunStatement(c) \/ Commit(c)
    \/ \E o \in DOMAIN orders : CallBroker(o)

(* The system does not stop while a statement waits for no lock or a handler  *)
(* is past its commit.  As every call is made at most once, nothing has to be *)
(* said of who goes first.                                                    *)
LocksFairness == WF_lockedVars(LocksNext)

LocksSpec == LocksInit /\ [][LocksNext]_lockedVars /\ LocksFairness

-----------------------------------------------------------------------------
(* Whatever statements interleave, each transaction that commits has the      *)
(* effect of one action of OrderManagement on the tables as they are at its   *)
(* commit: no update is lost, no event counted twice, no cash promised twice, *)
(* although values are read several statements before they are used.  (That   *)
(* most statements leave the tables alone is said first for TLC's sake.)      *)
TransactionsAreSerial == [][UNCHANGED vars \/ Next]_vars

(* The one interleaving that is not serial: a tick in progress while the      *)
(* first fill of an account in its symbol, which found no position to lock,   *)
(* has not committed.  FirstFillAlone says that it does not happen.           *)
FirstFillAlone ==
    \A c, d \in Calls :
        /\ Asks[c].kind = "event" /\ Asks[d].kind = "tick"
        /\ Has(c, "position") /\ Has(d, "price")
        /\ Asks[d].symbol = orders[Asks[c].event.order].req.symbol
        => Got(c, "position") # {}

(* The lookups of create_order and process_event lock nothing, and yet what   *)
(* they did not find is still not there when the row is inserted: a retried   *)
(* request gets the stored order and a second delivery is a duplicate, never  *)
(* a violated unique constraint.                                              *)
LookupsStayTrue ==
    \A c \in Calls :
        /\ Has(c, "request") /\ ~Got(c, "request") => NewKey(Asks[c].req)
        /\ Has(c, "client") /\ ~Got(c, "client") => NewClient(Asks[c].req)
        /\ Has(c, "processed") /\ ~Got(c, "processed") =>
               Asks[c].event.id \notin DOMAIN processed

(* The order in which the services take account, order and position rows      *)
(* never lets calls wait for each other in a circle: every call ends.         *)
EveryCallEnds == <>[](\A c \in Calls : Made(c) => c \in ended)
=============================================================================
