--------------------------- MODULE LedgerTheorems ---------------------------
(* The tables add up, for any number of accounts, orders and fills: order     *)
(* rows, positions and cash are the sums of the fills, and reservations those *)
(* of the open buy orders.                                                    *)
EXTENDS EscrowTheorems, OrderLedger

(* The row a fill event inserts.                                              *)
NewFill(e) == [order |-> e.order, event |-> e.id, exec |-> e.exec,
               quantity |-> e.quantity, price |-> e.price]

(* The fills are finitely many and belong to orders in the table.             *)
FillTable == TypeOK /\ FillsBelongToEvents /\ IsFiniteSet(fills)

LEMMA NewFillRow ==
    ASSUME NEW e \in FillEvent
    PROVE  /\ NewFill(e).order = e.order /\ NewFill(e).event = e.id
           /\ NewFill(e).quantity = e.quantity /\ NewFill(e).price = e.price
           /\ e.quantity \in Nat \ {0} /\ e.price \in Nat \ {0}
  BY EventType DEF NewFill

(* An applied fill adds one row that was not there.                           *)
LEMMA FillAdded ==
    ASSUME FillTable, NEW e \in FillEvent, ApplyFill(e)
    PROVE  NewFill(e) \notin fills /\ fills' = fills \cup {NewFill(e)}
<1>1. \A f \in fills : f.event # e.id
  BY DEF ApplyFill
<1>2. fills' = fills \cup {NewFill(e)}
  BY DEF ApplyFill, NewFill
<1> QED
  BY <1>1, <1>2, NewFillRow

LEMMA FillRow ==
    ASSUME FillTable, NEW f \in fills
    PROVE  /\ f.order \in DOMAIN orders
           /\ f.quantity \in Nat /\ f.price \in Nat /\ f.quantity * f.price \in Nat
           /\ orders[f.order].req \in Requests
           /\ orders[f.order].req.account \in DOMAIN accounts
           /\ orders[f.order].req.account \in Accounts
           /\ orders[f.order].req.symbol \in Symbols
<1>1. f.order \in DOMAIN orders
  BY DEF FillTable, FillsBelongToEvents
<1>2. f.quantity \in Nat /\ f.price \in Nat
  BY DEF FillTable, TypeOK, EventsTypeOK, Fill
<1>3. orders[f.order].req \in Requests /\ orders[f.order].req.account \in DOMAIN accounts
  BY <1>1 DEF FillTable, TypeOK, OrdersTypeOK, Order
<1>4. orders[f.order].req \in Request
  BY <1>3, RequestType
<1> QED
  BY <1>1, <1>2, <1>3, <1>4, ProductNat DEF Request

LEMMA FillTableInit ==
    ASSUME Init
    PROVE  FillTable
<1>1. TypeOK
  BY TypeCorrectInit
<1>2. FillsBelongToEvents
  BY DEF Init, FillsBelongToEvents
<1> QED
  BY <1>1, <1>2, FS_EmptySet DEF FillTable, Init

LEMMA FillTableStep ==
    ASSUME FillTable, [Next]_vars
    PROVE  FillTable'
<1>1. TypeOK'
  BY TypeCorrectStep DEF FillTable
<1>2. FillsBelongToEvents'
  BY FillsBelongStep DEF FillTable
<1>3. IsFiniteSet(fills')
  <2>1. CASE UNCHANGED fills
    BY <2>1 DEF FillTable
  <2>2. ASSUME NEW e \in FillEvent, ApplyFill(e) PROVE IsFiniteSet(fills')
    BY <2>2, FillAdded, FS_AddElement DEF FillTable
  <2> QED
    BY <2>1, <2>2, LedgerShape DEF FillTable
<1> QED
  BY <1>1, <1>2, <1>3 DEF FillTable

-----------------------------------------------------------------------------
(* What a step may do to the rows the fills add up to.                        *)

(* Orders, positions and balances as far as the fills determine them.         *)
Booked(row) == [req |-> row.req, filled |-> row.filled, avgFill |-> row.avgFill]

(* No fill is added, and nothing the fills add up to moves; a new order has   *)
(* filled nothing.                                                            *)
BooksRest ==
    /\ UNCHANGED fills
    /\ DOMAIN orders \subseteq DOMAIN orders'
    /\ \A o \in DOMAIN orders : Booked(orders'[o]) = Booked(orders[o])
    /\ \A o \in DOMAIN orders' \ DOMAIN orders :
           orders'[o].filled = 0 /\ orders'[o].avgFill = 0
    /\ DOMAIN positions' = DOMAIN positions
    /\ \A k \in DOMAIN positions : positions'[k].net = positions[k].net

Fills(e) == CompleteFill(e) \/ PartialFill(e) \/ IocPartialFill(e)

(* An applied fill changes its own order's row and its position.              *)
FillBooked(e) ==
    LET row == orders[e.order]
    IN  /\ ApplyFill(e)
        /\ DOMAIN orders' = DOMAIN orders
        /\ \A o \in DOMAIN orders : orders'[o].req = orders[o].req
        /\ \A o \in DOMAIN orders \ {e.order} : orders'[o] = orders[o]
        /\ orders'[e.order].filled = row.filled + e.quantity
        /\ orders'[e.order].avgFill =
               RoundDiv(row.avgFill * row.filled + e.quantity * e.price, row.filled + e.quantity)

LEMMA FilledAverage ==
    ASSUME NEW row \in Order, NEW e \in FillEvent
    PROVE  FilledOrder(row, e).avgFill =
               RoundDiv(row.avgFill * row.filled + e.quantity * e.price, row.filled + e.quantity)
<1> DEFINE avg == RoundDiv(row.avgFill * row.filled + e.quantity * e.price,
                           row.filled + e.quantity)
<1> HIDE DEF avg
<1>1. FilledOrder(row, e) = [row EXCEPT !.avgFill = avg, !.filled = @ + e.quantity,
                                        !.remaining = @ - e.quantity]
  BY DEF FilledOrder, avg
<1>2. FilledOrder(row, e).avgFill = avg
  BY <1>1 DEF Order
<1> QED
  BY <1>2 DEF avg

LEMMA FillIsBooked ==
    ASSUME TypeOK, NEW e \in FillEvent, Fills(e)
    PROVE  FillBooked(e)
<1> DEFINE row == orders[e.order]
           filled == FilledOrder(row, e)
           Same(new) == /\ new.req = row.req /\ new.filled = filled.filled
                        /\ new.avgFill = filled.avgFill
<1>1. ApplyFill(e)
  BY DEF Fills, CompleteFill, PartialFill, IocPartialFill
<1>2. e.order \in DOMAIN orders /\ row \in Order /\ FillAccepted(row, e)
  BY <1>1, FillContext
<1>3. filled \in Order /\ filled.filled = row.filled + e.quantity /\ filled.req = row.req
  BY <1>2, FilledOrderType
<1>4. ASSUME NEW status PROVE Same([filled EXCEPT !.status = status])
  <2> HIDE DEF filled
  <2> QED
    BY <1>3 DEF Order
<1>5. Same(CancelledOrder(filled))
  <2> HIDE DEF filled
  <2> QED
    BY <1>3, CancelledOrderType
<1>6. PICK new, audit : SaveOrder(e.order, new, audit) /\ Same(new)
  <2>1. CASE CompleteFill(e)
    BY <2>1, <1>4 DEF CompleteFill
  <2>2. CASE PartialFill(e)
    BY <2>2, <1>4 DEF PartialFill
  <2>3. CASE IocPartialFill(e)
    BY <2>3, <1>5 DEF IocPartialFill
  <2> QED
    BY <2>1, <2>2, <2>3 DEF Fills
<1>7. /\ DOMAIN orders' = DOMAIN orders
      /\ \A p \in DOMAIN orders : orders'[p] = IF p = e.order THEN new ELSE orders[p]
  BY <1>2, <1>6, SavedOrder
<1>8. filled.avgFill = RoundDiv(row.avgFill * row.filled + e.quantity * e.price,
                                row.filled + e.quantity)
  BY <1>2, FilledAverage
<1> HIDE DEF filled
<1> QED
  BY <1>1, <1>2, <1>3, <1>6, <1>7, <1>8 DEF FillBooked

(* A row rewritten without a fill keeps what is booked.                       *)
LEMMA RewriteRests ==
    ASSUME TypeOK, NEW o \in DOMAIN orders, NEW new, NEW audit, SaveOrder(o, new, audit),
           Booked(new) = Booked(orders[o]), UNCHANGED <<fills, bookVars>>
    PROVE  BooksRest
  BY SavedOrder DEF BooksRest, bookVars

LEMMA StatusRests ==
    ASSUME NEW row \in Order
    PROVE  /\ \A status : Booked([row EXCEPT !.status = status]) = Booked(row)
           /\ Booked(CancelledOrder(row)) = Booked(row)
  BY CancelledOrderType DEF Booked, Order

LEMMA BooksShape ==
    ASSUME TypeOK, [Next]_vars
    PROVE  BooksRest \/ \E e \in FillEvent : Fills(e)
<1> DEFINE Goal == BooksRest \/ \E e \in FillEvent : Fills(e)
<1> SUFFICES Goal
  OBVIOUS
<1>1. ASSUME NEW a \in Accounts, NEW d \in Deposits, CreateAccount(a, d) PROVE Goal
  BY <1>1 DEF CreateAccount, orderVars, bookVars, BooksRest
<1>2. ASSUME NEW o \in OrderIds, NEW req \in Requests,
             RejectNewOrder(o, req) \/ RouteNewOrder(o, req)
      PROVE  Goal
  BY <1>2 DEF RejectNewOrder, RouteNewOrder, AddOrder, Put, NewOrder, bookVars, BooksRest
<1>3. ASSUME NEW o \in DOMAIN orders, OrderStep(o) PROVE Goal
  <2>1. orders[o] \in Order
    BY DEF TypeOK, OrdersTypeOK
  <2>2. CASE RequestCancellation(o)
    BY <2>1, <2>2, RewriteRests, StatusRests DEF RequestCancellation, ledgerVars
  <2>3. CASE MarkRoutingFailure(o)
    <3>1. CASE UNCHANGED orders
      BY <2>3, <3>1 DEF MarkRoutingFailure, bookVars, BooksRest
    <3>2. CASE ~UNCHANGED orders
      <4>1. /\ SaveOrder(o, [orders[o] EXCEPT !.status = "REJECTED"],
                         <<Transition("ORDER_REJECTED", "ROUTED", "REJECTED")>>)
            /\ UNCHANGED <<fills, bookVars>>
        BY <2>3, <3>2 DEF MarkRoutingFailure
      <4> QED
        BY <2>1, <4>1, RewriteRests, StatusRests
    <3> QED
      BY <3>1, <3>2
  <2>4. CASE Submit(o) \/ (\E failure \in SubmitFailures : SubmitRaises(o, failure)) \/ NotifyCancel(o)
    BY <2>4 DEF Submit, SubmitRaises, NotifyCancel, ledgerVars, bookVars, BooksRest
  <2> QED
    BY <1>3, <2>2, <2>3, <2>4 DEF OrderStep
<1>4. ASSUME NEW e, IgnoreEvent(e) \/ BrokerRejects(e) \/ BrokerCancels(e) PROVE Goal
  <2>1. e.order \in DOMAIN orders /\ UNCHANGED <<fills, bookVars>>
    BY <1>4, FreshKnown DEF IgnoreEvent, BrokerRejects, BrokerCancels
  <2>2. orders[e.order] \in Order
    BY <2>1 DEF TypeOK, OrdersTypeOK
  <2> QED
    BY <1>4, <2>1, <2>2, RewriteRests, StatusRests DEF IgnoreEvent, BrokerRejects, BrokerCancels
<1>5. CASE MarketTick
  <2>1. DOMAIN positions' = DOMAIN positions
        /\ \A k \in DOMAIN positions : positions'[k].net = positions[k].net
    <3>1. \A k \in DOMAIN positions : positions[k] \in Position
      BY DEF TypeOK, PositionsTypeOK
    <3> QED
      BY <1>5, <3>1 DEF MarketTick, Tick, ApplyTick, MarkedPosition, Position
  <2> QED
    BY <1>5, <2>1 DEF MarketTick, orderVars, ledgerVars, BooksRest
<1>6. CASE UNCHANGED vars
  BY <1>6 DEF vars, orderVars, ledgerVars, bookVars, BooksRest
<1>7. ASSUME NEW e \in FillEvent, Fills(e) PROVE Goal
  BY <1>7
<1> HIDE DEF Goal
<1> QED
  BY <1>1, <1>2, <1>3, <1>4, <1>5, <1>6, <1>7 DEF Next, FillStep, StatusStep, Fills

-----------------------------------------------------------------------------
(* Order rows are the sums of their fills.                                    *)

(* An average rounded once more drifts by half a unit per unit filled.        *)
LEMMA DriftGrows ==
    ASSUME NEW drift \in Nat, NEW filled \in Nat, NEW quantity \in Nat, NEW count \in Nat,
           NEW old \in Int, NEW value \in Int, NEW added \in Int, NEW new \in Int,
           2 * Abs(old - value) <= filled * count,
           2 * Abs(new - (old + added)) <= filled + quantity
    PROVE  2 * Abs(new - (value + added)) <= (filled + quantity) * (count + 1)
<1>1. /\ filled * count \in Nat /\ quantity * count \in Nat
      /\ (filled + quantity) * (count + 1)
             = filled * count + quantity * count + filled + quantity
  BY ProductNat
<1> DEFINE m == filled * count
           k == quantity * count
           n == (filled + quantity) * (count + 1)
<1>2. m \in Nat /\ k \in Nat /\ n = m + k + filled + quantity
  BY <1>1
<1>3. 2 * Abs(old - value) <= m
  OBVIOUS
<1> HIDE DEF m, k, n
<1>4. 2 * Abs(new - (value + added)) <= n
  BY <1>2, <1>3 DEF Abs
<1> QED
  BY <1>4 DEF n

(* The fills of an order after a fill event was applied.                      *)
LEMMA FillsOfNext ==
    ASSUME FillTable, NEW e \in FillEvent, ApplyFill(e), NEW o
    PROVE  /\ FillsOf(o)' = IF o = e.order THEN FillsOf(o) \cup {NewFill(e)} ELSE FillsOf(o)
           /\ NewFill(e) \notin FillsOf(o)
           /\ IsFiniteSet(FillsOf(o)) /\ IsFiniteSet(FillsOf(o)')
<1>1. NewFill(e) \notin fills /\ fills' = fills \cup {NewFill(e)} /\ NewFill(e).order = e.order
  BY FillAdded, NewFillRow
<1>2. FillsOf(o)' = IF o = e.order THEN FillsOf(o) \cup {NewFill(e)} ELSE FillsOf(o)
  BY <1>1 DEF FillsOf
<1>3. FillsOf(o) \subseteq fills /\ FillsOf(o)' \subseteq fills'
  BY DEF FillsOf
<1>4. IsFiniteSet(fills) /\ IsFiniteSet(fills')
  BY <1>1, FS_AddElement DEF FillTable
<1> QED
  BY <1>1, <1>2, <1>3, <1>4, FS_Subset

LEMMA OrderSumsAfterFill ==
    ASSUME FillTable, NEW o \in DOMAIN orders, OrderIsSumOfFills(o),
           NEW e \in FillEvent, FillBooked(e)
    PROVE  OrderIsSumOfFills(o)'
<1> DEFINE new == NewFill(e)
           S == FillsOf(o)
           T == FillsOf(o)'
           quantities(U) == [f \in U |-> f.quantity]
           values(U) == [f \in U |-> f.quantity * f.price]
<1>1. ApplyFill(e)
  BY DEF FillBooked
<1>2. /\ T = IF o = e.order THEN S \cup {new} ELSE S
      /\ new \notin S /\ IsFiniteSet(S) /\ IsFiniteSet(T)
  BY <1>1, FillsOfNext
<1>3. /\ orders[o].filled = SumFunction(quantities(S))
      /\ 2 * Abs(orders[o].avgFill * orders[o].filled - SumFunction(values(S)))
             <= orders[o].filled * Cardinality(S)
  BY DEF OrderIsSumOfFills
<1>4. /\ new.quantity = e.quantity /\ new.price = e.price
      /\ e.quantity \in Nat \ {0} /\ e.price \in Nat \ {0} /\ e.quantity * e.price \in Nat
  BY NewFillRow, EventType
<1>5. \A f \in S : f.quantity \in Nat /\ f.quantity * f.price \in Nat
  BY FillRow DEF FillsOf
<1> SUFFICES /\ orders'[o].filled = SumFunction(quantities(T))
             /\ 2 * Abs(orders'[o].avgFill * orders'[o].filled - SumFunction(values(T)))
                    <= orders'[o].filled * Cardinality(T)
  BY DEF OrderIsSumOfFills
<1> HIDE DEF new, S, T
<1>6. CASE o # e.order
  <2>1. orders'[o] = orders[o]
    BY <1>6 DEF FillBooked
  <2> QED
    BY <1>2, <1>3, <1>6, <2>1
<1>7. CASE o = e.order
  <2> DEFINE row == orders[o]
             avg == orders'[o].avgFill
             n == Cardinality(S)
  <2>1. /\ row.filled \in Nat /\ row.avgFill \in Nat /\ row.avgFill * row.filled \in Nat
    BY ProductNat DEF FillTable, TypeOK, OrdersTypeOK, Order
  <2>2. /\ orders'[o].filled = row.filled + e.quantity
        /\ avg = RoundDiv(row.avgFill * row.filled + e.quantity * e.price,
                          row.filled + e.quantity)
    BY <1>7 DEF FillBooked
  <2>3. T = S \cup {new} /\ n \in Nat /\ Cardinality(T) = n + 1
    BY <1>2, <1>7, FS_AddElement, FS_CardinalityType
  <2>4. /\ SumFunction(quantities(T)) = SumFunction(quantities(S)) + e.quantity
        /\ SumFunction(quantities(S)) \in Int
    <3>1. SumsUp(quantities(T))
      BY <1>2, <1>4, <1>5, <2>3 DEF SumsUp
    <3>2. /\ new \notin DOMAIN quantities(S)
          /\ DOMAIN quantities(T) = DOMAIN quantities(S) \cup {new}
          /\ \A f \in DOMAIN quantities(S) : quantities(T)[f] = quantities(S)[f]
          /\ quantities(T)[new] = e.quantity
      BY <1>2, <1>4, <2>3
    <3> HIDE DEF quantities
    <3> QED
      BY <3>1, <3>2, SumAdded
  <2>5. /\ SumFunction(values(T)) = SumFunction(values(S)) + e.quantity * e.price
        /\ SumFunction(values(S)) \in Int
    <3>1. SumsUp(values(T))
      BY <1>2, <1>4, <1>5, <2>3 DEF SumsUp
    <3>2. /\ new \notin DOMAIN values(S)
          /\ DOMAIN values(T) = DOMAIN values(S) \cup {new}
          /\ \A f \in DOMAIN values(S) : values(T)[f] = values(S)[f]
          /\ values(T)[new] = e.quantity * e.price
      BY <1>2, <1>4, <2>3
    <3> HIDE DEF values
    <3> QED
      BY <3>1, <3>2, SumAdded
  <2>6. /\ avg * (row.filled + e.quantity) \in Int
        /\ 2 * Abs(avg * (row.filled + e.quantity)
                       - (row.avgFill * row.filled + e.quantity * e.price))
               <= row.filled + e.quantity
    <3>1. /\ row.avgFill * row.filled + e.quantity * e.price \in Int
          /\ row.filled + e.quantity \in Nat \ {0}
      BY <1>4, <2>1
    <3> QED
      BY <2>2, <3>1, RoundDivError
  <2> DEFINE value == SumFunction(values(S))
             old == row.avgFill * row.filled
             after == avg * (row.filled + e.quantity)
             added == e.quantity * e.price
  <2>7. 2 * Abs(after - (value + added)) <= (row.filled + e.quantity) * (n + 1)
    <3>1. /\ 2 * Abs(old - value) <= row.filled * n
          /\ 2 * Abs(after - (old + added)) <= row.filled + e.quantity
      BY <1>3, <2>6
    <3>2. /\ row.filled \in Nat /\ e.quantity \in Nat /\ n \in Nat
          /\ old \in Int /\ value \in Int /\ added \in Int /\ after \in Int
      BY <1>4, <2>1, <2>3, <2>5, <2>6
    <3> HIDE DEF row, value, old, after, added, n, avg
    <3> QED
      BY <3>1, <3>2, DriftGrows
  <2>8. SumFunction(quantities(T)) = orders'[o].filled
    BY <1>3, <2>2, <2>4
  <2>9. 2 * Abs(avg * orders'[o].filled - SumFunction(values(T)))
            <= orders'[o].filled * Cardinality(T)
    <3> HIDE DEF values, quantities, n
    <3> QED
      BY <2>2, <2>3, <2>5, <2>7
  <2> QED
    BY <2>8, <2>9
<1> QED
  BY <1>6, <1>7

LEMMA OrderSumsStep ==
    ASSUME FillTable, FilledQuantityIsSumOfFills, [Next]_vars
    PROVE  FilledQuantityIsSumOfFills'
<1>1. CASE BooksRest
  <2> SUFFICES ASSUME NEW o \in DOMAIN orders' PROVE OrderIsSumOfFills(o)'
    BY DEF FilledQuantityIsSumOfFills
  <2>1. FillsOf(o)' = FillsOf(o)
    BY <1>1 DEF BooksRest, FillsOf
  <2>2. CASE o \in DOMAIN orders
    <3>1. orders'[o].filled = orders[o].filled /\ orders'[o].avgFill = orders[o].avgFill
      BY <1>1, <2>2 DEF BooksRest, Booked
    <3> QED
      BY <2>1, <2>2, <3>1 DEF FilledQuantityIsSumOfFills, OrderIsSumOfFills
  <2>3. CASE o \notin DOMAIN orders
    <3>1. FillsOf(o) = {}
      BY <2>3 DEF FillsOf, FillTable, FillsBelongToEvents
    <3>2. orders'[o].filled = 0 /\ orders'[o].avgFill = 0
      BY <1>1, <2>3 DEF BooksRest
    <3>3. /\ SumFunction([f \in {} |-> f.quantity]) = 0
          /\ SumFunction([f \in {} |-> f.quantity * f.price]) = 0
          /\ Cardinality({}) = 0
      BY SumEmpty, FS_EmptySet
    <3> QED
      BY <2>1, <3>1, <3>2, <3>3 DEF OrderIsSumOfFills, Abs
  <2> QED
    BY <2>2, <2>3
<1>2. ASSUME NEW e \in FillEvent, Fills(e) PROVE FilledQuantityIsSumOfFills'
  <2>1. FillBooked(e)
    BY <1>2, FillIsBooked DEF FillTable
  <2>2. DOMAIN orders' = DOMAIN orders
    BY <2>1 DEF FillBooked
  <2> QED
    BY <2>1, <2>2, OrderSumsAfterFill DEF FilledQuantityIsSumOfFills
<1> QED
  BY <1>1, <1>2, BooksShape DEF FillTable

(* Whatever fills the broker sends, in whatever order and next to whatever    *)
(* failing calls and cancellations, an order row is the sum of its fills.     *)
THEOREM OrdersAreSumsOfFills == Spec => []FilledQuantityIsSumOfFills
<1>1. Init => FillTable /\ FilledQuantityIsSumOfFills
  <2>1. Init => FilledQuantityIsSumOfFills
    BY DEF Init, NoRows, FilledQuantityIsSumOfFills
  <2> QED
    BY <2>1, FillTableInit
<1>2. /\ FillTable /\ FilledQuantityIsSumOfFills /\ [Next]_vars
      => (FillTable /\ FilledQuantityIsSumOfFills)'
  BY FillTableStep, OrderSumsStep
<1> QED
  BY <1>1, <1>2, PTL DEF Spec

-----------------------------------------------------------------------------
(* Positions are the sums of the fills of their account and symbol.           *)

LEMMA FillsInNext ==
    ASSUME FillTable, NEW e \in FillEvent, FillBooked(e), NEW a, NEW s
    PROVE  LET req == orders[e.order].req
           IN  /\ FillsIn(a, s)' = IF a = req.account /\ s = req.symbol
                                   THEN FillsIn(a, s) \cup {NewFill(e)} ELSE FillsIn(a, s)
               /\ NewFill(e) \notin FillsIn(a, s)
               /\ IsFiniteSet(FillsIn(a, s)) /\ IsFiniteSet(FillsIn(a, s)')
               /\ \A f \in FillsIn(a, s) :
                      SignedQuantity(f) \in Int /\ SignedQuantity(f)' = SignedQuantity(f)
               /\ SignedQuantity(NewFill(e))' = SignedFill(req.side, e.quantity)
               /\ SignedFill(req.side, e.quantity) \in Int
<1> DEFINE req == orders[e.order].req
           new == NewFill(e)
<1>1. ApplyFill(e) /\ \A o \in DOMAIN orders : orders'[o].req = orders[o].req
  BY DEF FillBooked
<1>2. new \notin fills /\ fills' = fills \cup {new} /\ IsFiniteSet(fills) /\ IsFiniteSet(fills')
  BY <1>1, FillAdded, FS_AddElement DEF FillTable
<1>3. new.order = e.order /\ new.quantity = e.quantity /\ e.quantity \in Nat
  BY NewFillRow
<1>4. e.order \in DOMAIN orders /\ orders'[e.order].req = req
  BY <1>1, FillContext DEF FillTable
<1>5. \A f \in fills : /\ f.order \in DOMAIN orders /\ f.quantity \in Nat
                       /\ orders'[f.order].req = orders[f.order].req
  BY <1>1, FillRow
<1> HIDE DEF new
<1>6. FillsIn(a, s)' = IF a = req.account /\ s = req.symbol
                       THEN FillsIn(a, s) \cup {new} ELSE FillsIn(a, s)
  BY <1>2, <1>3, <1>4, <1>5 DEF FillsIn
<1>7. FillsIn(a, s) \subseteq fills /\ FillsIn(a, s)' \subseteq fills'
  BY DEF FillsIn
<1>8. IsFiniteSet(FillsIn(a, s)) /\ IsFiniteSet(FillsIn(a, s)')
  BY <1>2, <1>7, FS_Subset
<1>9. \A f \in FillsIn(a, s) :
          SignedQuantity(f) \in Int /\ SignedQuantity(f)' = SignedQuantity(f)
  BY <1>5, <1>7 DEF SignedQuantity
<1>10. /\ SignedQuantity(new)' = SignedFill(req.side, e.quantity)
       /\ SignedFill(req.side, e.quantity) \in Int
  BY <1>3, <1>4 DEF SignedQuantity, SignedFill
<1> QED
  BY <1>2, <1>6, <1>7, <1>8, <1>9, <1>10 DEF new

(* Executing a fill adds its signed quantity to the net of its position.      *)
LEMMA ExecutionNets ==
    ASSUME PositionsTypeOK, NEW account, NEW symbol, NEW side, NEW quantity, NEW price,
           ApplyExecution(account, symbol, side, quantity, price)
    PROVE  LET key == <<account, symbol>>
               old == IF key \in DOMAIN positions THEN positions[key].net ELSE 0
           IN  /\ DOMAIN positions' = DOMAIN positions \cup {key}
               /\ positions'[key].net = old + SignedFill(side, quantity)
               /\ \A k \in DOMAIN positions \ {key} : positions'[k] = positions[k]
<1> DEFINE mark == IF symbol \in DOMAIN marketPrices THEN marketPrices[symbol].price ELSE price
           key == <<account, symbol>>
           row == IF key \in DOMAIN positions THEN positions[key] ELSE FlatPosition(mark)
           new == ExecutedPosition(row, side, quantity, price, mark)
<1>1. positions' = Put(positions, key, new)
  BY DEF ApplyExecution
<1>2. new.net = row.net + SignedFill(side, quantity)
  BY DEF ExecutedPosition, AfterFill
<1>3. row.net = IF key \in DOMAIN positions THEN positions[key].net ELSE 0
  BY DEF FlatPosition
<1> HIDE DEF new, row, mark
<1> QED
  BY <1>1, <1>2, <1>3 DEF Put

(* There is a position of every account, opened or not yet, exactly where     *)
(* there are fills.                                                           *)
BookSums == \A a \in Accounts, s \in Symbols : PositionIsSumOfFills(a, s)

LEMMA PositionSumsAfterFill ==
    ASSUME FillTable, NEW a, NEW s, PositionIsSumOfFills(a, s), NEW e \in FillEvent, FillBooked(e)
    PROVE  PositionIsSumOfFills(a, s)'
<1> DEFINE req == orders[e.order].req
           new == NewFill(e)
           signed == SignedFill(req.side, e.quantity)
           key == <<a, s>>
           S == FillsIn(a, s)
           T == FillsIn(a, s)'
           before == [f \in S |-> SignedQuantity(f)]
           after == [f \in T |-> SignedQuantity(f)']
<1>1. ApplyExecution(req.account, req.symbol, req.side, e.quantity, e.price)
  BY DEF FillBooked, ApplyFill
<1>2. /\ DOMAIN positions' = DOMAIN positions \cup {<<req.account, req.symbol>>}
      /\ \A k \in DOMAIN positions \ {<<req.account, req.symbol>>} : positions'[k] = positions[k]
      /\ LET k == <<req.account, req.symbol>>
         IN  positions'[k].net = (IF k \in DOMAIN positions THEN positions[k].net ELSE 0) + signed
  BY <1>1, ExecutionNets DEF FillTable, TypeOK
<1>3. /\ T = IF a = req.account /\ s = req.symbol THEN S \cup {new} ELSE S
      /\ new \notin S /\ IsFiniteSet(S) /\ IsFiniteSet(T)
      /\ \A f \in S : SignedQuantity(f) \in Int /\ SignedQuantity(f)' = SignedQuantity(f)
      /\ SignedQuantity(new)' = signed /\ signed \in Int
  BY FillsInNext
<1>4. IF key \in DOMAIN positions
      THEN S # {} /\ positions[key].net = SumFunction(before)
      ELSE S = {}
  BY DEF PositionIsSumOfFills
<1> SUFFICES IF key \in DOMAIN positions'
             THEN T # {} /\ positions'[key].net = SumFunction(after)
             ELSE T = {}
  BY DEF PositionIsSumOfFills
<1> HIDE DEF S, T, new, signed
<1>5. CASE ~(a = req.account /\ s = req.symbol)
  <2>1. T = S /\ key # <<req.account, req.symbol>>
    BY <1>3, <1>5
  <2>2. after = before
    BY <1>3, <2>1
  <2>3. key \in DOMAIN positions' <=> key \in DOMAIN positions
    BY <1>2, <2>1
  <2>4. key \in DOMAIN positions => positions'[key] = positions[key]
    BY <1>2, <2>1
  <2> HIDE DEF after, before
  <2> QED
    BY <1>4, <2>1, <2>2, <2>3, <2>4
<1>6. CASE a = req.account /\ s = req.symbol
  <2>1. T = S \cup {new}
    BY <1>3, <1>6
  <2>2. SumFunction(after) = SumFunction(before) + signed /\ SumFunction(before) \in Int
    <3>1. SumsUp(after)
      BY <1>3, <2>1 DEF SumsUp
    <3>2. /\ new \notin DOMAIN before
          /\ DOMAIN after = DOMAIN before \cup {new}
          /\ \A f \in DOMAIN before : after[f] = before[f]
          /\ after[new] = signed
      BY <1>3, <2>1
    <3> HIDE DEF after, before
    <3> QED
      BY <3>1, <3>2, SumAdded
  <2>3. SumFunction(before) = IF key \in DOMAIN positions THEN positions[key].net ELSE 0
    <3>1. CASE key \in DOMAIN positions
      BY <1>4, <3>1
    <3>2. CASE key \notin DOMAIN positions
      <4>1. DOMAIN before = {}
        BY <1>4, <3>2
      <4> HIDE DEF before
      <4> QED
        BY <3>2, <4>1, SumEmpty
    <3> QED
      BY <3>1, <3>2
  <2> HIDE DEF after, before
  <2> QED
    BY <1>2, <1>6, <2>1, <2>2, <2>3
<1> QED
  BY <1>5, <1>6

LEMMA PositionSumsRest ==
    ASSUME FillTable, NEW a, NEW s, PositionIsSumOfFills(a, s), BooksRest
    PROVE  PositionIsSumOfFills(a, s)'
<1>1. \A f \in fills : f.order \in DOMAIN orders /\ orders'[f.order].req = orders[f.order].req
  BY FillRow DEF BooksRest, Booked
<1>2. FillsIn(a, s)' = FillsIn(a, s)
  BY <1>1 DEF FillsIn, BooksRest
<1>3. \A f \in FillsIn(a, s) : SignedQuantity(f)' = SignedQuantity(f)
  BY <1>1 DEF FillsIn, SignedQuantity
<1>4. [f \in FillsIn(a, s) |-> SignedQuantity(f)]' = [f \in FillsIn(a, s) |-> SignedQuantity(f)]
  BY <1>2, <1>3
<1>5. /\ DOMAIN positions' = DOMAIN positions
      /\ \A k \in DOMAIN positions : positions'[k].net = positions[k].net
  BY DEF BooksRest
<1> QED
  BY <1>2, <1>4, <1>5 DEF PositionIsSumOfFills

LEMMA PositionSumsStep ==
    ASSUME FillTable, BookSums, [Next]_vars
    PROVE  BookSums'
<1>1. CASE BooksRest
  BY <1>1, PositionSumsRest DEF BookSums
<1>2. ASSUME NEW e \in FillEvent, Fills(e) PROVE BookSums'
  BY <1>2, FillIsBooked, PositionSumsAfterFill DEF FillTable, BookSums
<1> QED
  BY <1>1, <1>2, BooksShape DEF FillTable

(* However fills, ticks, placements and failures interleave, the net quantity *)
(* of a position is the signed sum of the fills of its account and symbol,    *)
(* and no fill goes without a position.                                       *)
THEOREM PositionsAddUp == Spec => []PositionsAreSumsOfFills
<1>1. Init => FillTable /\ BookSums
  <2>1. Init => BookSums
    BY DEF Init, BookInit, NoRows, BookSums, PositionIsSumOfFills, FillsIn
  <2> QED
    BY <2>1, FillTableInit
<1>2. FillTable /\ BookSums /\ [Next]_vars => (FillTable /\ BookSums)'
  BY FillTableStep, PositionSumsStep
<1>3. FillTable /\ BookSums => PositionsAreSumsOfFills
  BY DEF FillTable, TypeOK, AccountsTypeOK, BookSums, PositionsAreSumsOfFills
<1> QED
  BY <1>1, <1>2, <1>3, PTL DEF Spec

-----------------------------------------------------------------------------
(* Cash is a deposit and the cash flow of the fills.                          *)

CashIsSum(a) ==
    \E d \in Deposits : Wide(accounts[a].cash - d) = SumFunction([f \in FillsBy(a) |-> CashFlow(f)])

LEMMA CashFlowOf ==
    ASSUME FillTable, NEW e \in FillEvent, FillBooked(e), NEW a
    PROVE  LET req == orders[e.order].req
           IN  /\ FillsBy(a)' = IF a = req.account THEN FillsBy(a) \cup {NewFill(e)} ELSE FillsBy(a)
               /\ NewFill(e) \notin FillsBy(a)
               /\ IsFiniteSet(FillsBy(a)) /\ IsFiniteSet(FillsBy(a)')
               /\ \A f \in FillsBy(a) : CashFlow(f) \in Int /\ CashFlow(f)' = CashFlow(f)
               /\ CashFlow(NewFill(e))' = Payment(req, e)
               /\ Payment(req, e) \in Int
<1> DEFINE req == orders[e.order].req
           new == NewFill(e)
<1>1. ApplyFill(e) /\ \A o \in DOMAIN orders : orders'[o].req = orders[o].req
  BY DEF FillBooked
<1>2. new \notin fills /\ fills' = fills \cup {new} /\ IsFiniteSet(fills) /\ IsFiniteSet(fills')
  BY <1>1, FillAdded, FS_AddElement DEF FillTable
<1>3. /\ new.order = e.order /\ new.quantity = e.quantity /\ new.price = e.price
      /\ e.quantity \in Nat /\ e.price \in Nat /\ e.quantity * e.price \in Nat
  BY NewFillRow, EventType
<1>4. e.order \in DOMAIN orders /\ orders'[e.order].req = req
  BY <1>1, FillContext DEF FillTable
<1>5. \A f \in fills : /\ f.order \in DOMAIN orders
                       /\ f.quantity \in Nat /\ f.price \in Nat /\ f.quantity * f.price \in Nat
                       /\ orders'[f.order].req = orders[f.order].req
  BY <1>1, FillRow
<1> HIDE DEF new
<1>6. FillsBy(a)' = IF a = req.account THEN FillsBy(a) \cup {new} ELSE FillsBy(a)
  BY <1>2, <1>3, <1>4, <1>5 DEF FillsBy
<1>7. FillsBy(a) \subseteq fills /\ FillsBy(a)' \subseteq fills'
  BY DEF FillsBy
<1>8. IsFiniteSet(FillsBy(a)) /\ IsFiniteSet(FillsBy(a)')
  BY <1>2, <1>7, FS_Subset
<1>9. ASSUME NEW q \in Nat, NEW p \in Nat
      PROVE  (-q) * p = -(q * p) /\ q * p \in Nat
  BY ProductNat
<1>10. \A f \in FillsBy(a) : CashFlow(f) \in Int /\ CashFlow(f)' = CashFlow(f)
  <2> SUFFICES ASSUME NEW f \in FillsBy(a)
               PROVE  CashFlow(f) \in Int /\ CashFlow(f)' = CashFlow(f)
    OBVIOUS
  <2>1. /\ f.quantity \in Nat /\ f.price \in Nat
        /\ orders'[f.order].req = orders[f.order].req
    BY <1>5, <1>7
  <2>2. (-f.quantity) * f.price = -(f.quantity * f.price) /\ f.quantity * f.price \in Nat
    BY <1>9, <2>1
  <2> QED
    BY <2>1, <2>2 DEF CashFlow, SignedQuantity
<1>11. CashFlow(new)' = Payment(req, e) /\ Payment(req, e) \in Int
  <2>1. (-e.quantity) * e.price = -(e.quantity * e.price)
    BY <1>3, <1>9
  <2>2. SignedQuantity(new)' = IF req.side = "BUY" THEN e.quantity ELSE -e.quantity
    BY <1>3, <1>4 DEF SignedQuantity
  <2>3. CashFlow(new)' = -(SignedQuantity(new)' * e.price)
    BY <1>3 DEF CashFlow
  <2> QED
    BY <1>3, <2>1, <2>2, <2>3 DEF Payment
<1> QED
  BY <1>2, <1>6, <1>7, <1>8, <1>10, <1>11 DEF new

LEMMA CashSumAfterFill ==
    ASSUME ExactCash, FillTable, NEW a \in DOMAIN accounts, CashIsSum(a),
           NEW e \in FillEvent, Fills(e)
    PROVE  CashIsSum(a)'
<1> DEFINE req == orders[e.order].req
           new == NewFill(e)
           S == FillsBy(a)
           T == FillsBy(a)'
           before == [f \in S |-> CashFlow(f)]
           after == [f \in T |-> CashFlow(f)']
<1>1. PICK d \in Deposits : Wide(accounts[a].cash - d) = SumFunction(before)
  BY DEF CashIsSum
<1>2. FillBooked(e) /\ ApplyFill(e)
  BY FillIsBooked DEF FillTable, FillBooked
<1>3. accounts[a].cash \in Nat /\ d \in Nat
  BY DepositsAssumption DEF FillTable, TypeOK, AccountsTypeOK, Account
<1>4. accounts'[a].cash = IF a = req.account
                          THEN Stored(CashAfter(accounts[a], req, e)) ELSE accounts[a].cash
  BY FillPays DEF FillTable, Fills
<1>5. /\ T = IF a = req.account THEN S \cup {new} ELSE S
      /\ new \notin S /\ IsFiniteSet(S) /\ IsFiniteSet(T)
      /\ \A f \in S : CashFlow(f) \in Int /\ CashFlow(f)' = CashFlow(f)
      /\ CashFlow(new)' = Payment(req, e) /\ Payment(req, e) \in Int
  BY <1>2, CashFlowOf
<1> SUFFICES Wide(accounts'[a].cash - d) = SumFunction(after)
  BY DEF CashIsSum, Wide
<1> HIDE DEF S, T, new
<1>6. CASE a # req.account
  <2>1. after = before
    BY <1>5, <1>6
  <2> HIDE DEF before, after
  <2> QED
    BY <1>1, <1>4, <1>6, <2>1
<1>7. CASE a = req.account
  <2>1. SumFunction(after) = SumFunction(before) + Payment(req, e)
    <3>1. SumsUp(after)
      BY <1>5, <1>7 DEF SumsUp
    <3>2. /\ new \notin DOMAIN before
          /\ DOMAIN after = DOMAIN before \cup {new}
          /\ \A f \in DOMAIN before : after[f] = before[f]
          /\ after[new] = Payment(req, e)
      BY <1>5, <1>7
    <3> HIDE DEF after, before
    <3> QED
      BY <3>1, <3>2, SumAdded
  <2>2. CashAfter(accounts[a], req, e) = accounts[a].cash + Payment(req, e)
    BY <1>3 DEF CashAfter, Wide, ExactCash
  <2>3. accounts'[a].cash = accounts[a].cash + Payment(req, e)
    BY <1>3, <1>4, <1>5, <1>7, <2>2, StoredExact DEF ExactCash
  <2>4. /\ Wide(accounts[a].cash - d) = accounts[a].cash - d
        /\ Wide(accounts'[a].cash - d) = accounts[a].cash + Payment(req, e) - d
    BY <1>3, <1>5, <2>3 DEF Wide, ExactCash
  <2> HIDE DEF after, before
  <2> QED
    BY <1>1, <1>3, <1>5, <2>1, <2>4
<1> QED
  BY <1>6, <1>7

(* A new account holds a deposit.                                             *)
LEMMA NewAccounts ==
    ASSUME TypeOK, [Next]_vars, NEW a \in DOMAIN accounts', a \notin DOMAIN accounts
    PROVE  /\ accounts'[a].cash \in Deposits /\ accounts'[a].reserved = 0
           /\ UNCHANGED <<orders, fills>>
<1> DEFINE Same == DOMAIN accounts' = DOMAIN accounts
<1>1. ASSUME NEW b \in DOMAIN accounts, NEW row, SaveAccount(b, row) PROVE Same
  BY <1>1 DEF SaveAccount, TypeOK, AccountsTypeOK
<1>2. ASSUME NEW o \in DOMAIN orders PROVE orders[o].req.account \in DOMAIN accounts
  BY DEF TypeOK, OrdersTypeOK
<1>3. ASSUME NEW o \in OrderIds, NEW req \in Requests,
             RejectNewOrder(o, req) \/ RouteNewOrder(o, req)
      PROVE  Same
  BY <1>1, <1>3 DEF RejectNewOrder, RouteNewOrder, AddOrder
<1>4. ASSUME NEW o \in DOMAIN orders, OrderStep(o) PROVE Same
  <2>1. CASE MarkRoutingFailure(o)
    BY <1>1, <1>2, <2>1 DEF MarkRoutingFailure
  <2> QED
    BY <1>4, <2>1 DEF OrderStep, Submit, SubmitRaises, RequestCancellation, NotifyCancel, ledgerVars
<1>5. ASSUME NEW e \in FillEvent, Fills(e) PROVE Same
  <2>1. orders[e.order].req.account \in DOMAIN accounts
    BY <1>5, FillPays, FillContext DEF Fills
  <2> QED
    BY <1>1, <1>5, <2>1 DEF Fills, CompleteFill, PartialFill, IocPartialFill, FillAccount
<1>6. ASSUME NEW e, IgnoreEvent(e) \/ BrokerRejects(e) \/ BrokerCancels(e) PROVE Same
  <2>1. e.order \in DOMAIN orders
    BY <1>6, FreshKnown DEF IgnoreEvent, BrokerRejects, BrokerCancels
  <2> QED
    BY <1>1, <1>2, <1>6, <2>1 DEF IgnoreEvent, BrokerRejects, BrokerCancels, ReleaseRemaining
<1>7. ASSUME MarketTick \/ UNCHANGED vars PROVE Same
  BY <1>7 DEF MarketTick, vars, ledgerVars
<1>8. ~Same
  OBVIOUS
<1> HIDE DEF Same
<1>9. PICK b \in Accounts, d \in Deposits : CreateAccount(b, d)
  <2>1. \A e \in FillEvent : ~(CompleteFill(e) \/ PartialFill(e) \/ IocPartialFill(e))
    BY <1>5, <1>8 DEF Fills
  <2>2. ~MarketTick /\ ~UNCHANGED vars
    BY <1>7, <1>8
  <2>3. Next
    BY <2>2
  <2> QED
    BY <1>3, <1>4, <1>6, <1>8, <2>1, <2>2, <2>3 DEF Next, FillStep, StatusStep
<1> QED
  BY <1>9 DEF CreateAccount, Put, orderVars

LEMMA CashSumsStep ==
    ASSUME ExactCash, FillTable, CashIsDepositAndFills, [Next]_vars
    PROVE  CashIsDepositAndFills'
<1> SUFFICES ASSUME NEW a \in DOMAIN accounts' PROVE CashIsSum(a)'
  BY DEF CashIsDepositAndFills, CashIsSum
<1>1. CASE a \notin DOMAIN accounts
  <2>1. accounts'[a].cash \in Deposits /\ fills' = fills /\ orders' = orders
    BY <1>1, NewAccounts DEF FillTable
  <2>2. FillsBy(a)' = {}
    BY <1>1, <2>1, FillRow DEF FillsBy
  <2>3. [f \in FillsBy(a) |-> CashFlow(f)]' = [f \in {} |-> CashFlow(f)']
    BY <2>2
  <2>4. SumFunction([f \in {} |-> CashFlow(f)']) = 0
    BY SumEmpty
  <2>5. Wide(accounts'[a].cash - accounts'[a].cash) = 0
    <3>1. accounts'[a].cash \in Nat
      BY <2>1, DepositsAssumption
    <3>2. accounts'[a].cash - accounts'[a].cash = 0
      BY <3>1
    <3> QED
      BY <3>2 DEF Wide, ExactCash
  <2> QED
    BY <2>1, <2>3, <2>4, <2>5 DEF CashIsSum, Wide
<1>2. CASE a \in DOMAIN accounts /\ BooksRest /\ UNCHANGED fills /\ CashKept
  <2>1. \A f \in fills : f.order \in DOMAIN orders /\ orders'[f.order].req = orders[f.order].req
    BY <1>2, FillRow DEF BooksRest, Booked
  <2>2. FillsBy(a)' = FillsBy(a)
    BY <1>2, <2>1 DEF FillsBy
  <2>3. \A f \in FillsBy(a) : CashFlow(f)' = CashFlow(f)
    BY <2>1 DEF FillsBy, CashFlow, SignedQuantity
  <2>4. [f \in FillsBy(a) |-> CashFlow(f)]' = [f \in FillsBy(a) |-> CashFlow(f)]
    BY <2>2, <2>3
  <2>5. accounts'[a].cash = accounts[a].cash
    BY <1>2 DEF CashKept
  <2> QED
    BY <1>2, <2>4, <2>5 DEF CashIsSum, CashIsDepositAndFills, Wide
<1>3. ASSUME a \in DOMAIN accounts, NEW e \in FillEvent, Fills(e) PROVE CashIsSum(a)'
  BY <1>3, CashSumAfterFill DEF CashIsDepositAndFills, CashIsSum
<1> QED
  BY <1>1, <1>2, <1>3, BooksShape, CashShape DEF FillTable, Fills

(* Whatever the broker reports and whatever calls fail, the cash of an        *)
(* account is what may have been paid in and the cash flow of all its fills.  *)
THEOREM CashAddsUp ==
    ASSUME ExactCash
    PROVE  Spec => []CashIsDepositAndFills
<1>1. Init => FillTable /\ CashIsDepositAndFills
  <2>1. Init => CashIsDepositAndFills
    BY DEF Init, NoRows, CashIsDepositAndFills
  <2> QED
    BY <2>1, FillTableInit
<1>2. FillTable /\ CashIsDepositAndFills /\ [Next]_vars => (FillTable /\ CashIsDepositAndFills)'
  BY FillTableStep, CashSumsStep
<1> QED
  BY <1>1, <1>2, PTL DEF Spec

-----------------------------------------------------------------------------
(* Reservations are what the open buy orders hold.                            *)

ReservedIsSum(a) ==
    Wide(accounts[a].reserved) = SumFunction([o \in OrdersOf(a) |-> Held(orders[o])])

(* Neither what orders hold nor what is reserved moves.                       *)
HoldingsRest ==
    /\ UNCHANGED accounts
    /\ DOMAIN orders' = DOMAIN orders
    /\ \A o \in DOMAIN orders :
           orders'[o].req = orders[o].req /\ Held(orders'[o]) = Held(orders[o])

(* A new order holds what its account is charged for it.                      *)
HoldingOpens(o, req) ==
    \E need \in Nat :
        /\ o \notin DOMAIN orders /\ DOMAIN orders' = DOMAIN orders \cup {o}
        /\ \A p \in DOMAIN orders : orders'[p] = orders[p]
        /\ orders'[o].req = req /\ Held(orders'[o]) = need
        /\ req.account \in DOMAIN accounts
        /\ \A a \in DOMAIN accounts :
               accounts'[a].reserved = IF a = req.account THEN accounts[a].reserved + need
                                                          ELSE accounts[a].reserved

LEMMA OrderHolds ==
    ASSUME TypeOK
    PROVE  \A o \in DOMAIN orders : orders[o] \in Order /\ Held(orders[o]) \in Nat
  BY HeldType DEF TypeOK, OrdersTypeOK

LEMMA NewOrderHolds ==
    ASSUME ExactCash, TypeOK, NEW o \in OrderIds, NEW req \in Requests,
           RejectNewOrder(o, req) \/ RouteNewOrder(o, req)
    PROVE  HoldingOpens(o, req)
<1>1. CASE RejectNewOrder(o, req)
  <2>1. Held(NewOrder(req, "REJECTED")) = 0 /\ NewOrder(req, "REJECTED").req = req
    BY DEF Held, NewOrder, OPEN_ORDER_STATUSES
  <2>2. /\ o \notin DOMAIN orders /\ req.account \in DOMAIN accounts /\ accounts' = accounts
        /\ orders' = Put(orders, o, NewOrder(req, "REJECTED"))
    BY <1>1 DEF RejectNewOrder, AddOrder
  <2>3. \A a \in DOMAIN accounts : accounts[a].reserved + 0 = accounts[a].reserved
    BY DEF TypeOK, AccountsTypeOK, Account
  <2> QED
    BY <2>1, <2>2, <2>3 DEF HoldingOpens, Put
<1>2. CASE RouteNewOrder(o, req)
  <2> DEFINE need == RequiredBuyingPower(req)
             row == StoredAccount(Wide(accounts[req.account].cash),
                                  Wide(accounts[req.account].reserved) + need)
             new == NewOrder(req, "ROUTED")
  <2>1. /\ req.account \in DOMAIN accounts /\ SaveAccount(req.account, row)
        /\ row.reserved = accounts[req.account].reserved + need
        /\ need \in Nat /\ Held(new) = need
    BY <1>2, RoutedAccount
  <2>2. o \notin DOMAIN orders /\ orders' = Put(orders, o, new) /\ new.req = req
    BY <1>2 DEF RouteNewOrder, AddOrder, NewOrder
  <2> HIDE DEF need, row, new
  <2>3. \A b \in DOMAIN accounts : accounts'[b] = IF b = req.account THEN row ELSE accounts[b]
    BY <2>1, SavedAccount
  <2> QED
    BY <2>1, <2>2, <2>3 DEF HoldingOpens, Put
<1> QED
  BY <1>1, <1>2

LEMMA HoldingsShape ==
    ASSUME ExactCash, TypeOK, NoCallFails, [Next]_vars
    PROVE  \/ HoldingsRest
           \/ \E a \in Accounts, d \in Deposits : CreateAccount(a, d)
           \/ \E o \in OrderIds, req \in Requests : HoldingOpens(o, req)
           \/ \E o \in DOMAIN orders : HoldingMoves(o)
<1> DEFINE Goal == \/ HoldingsRest
                   \/ \E a \in Accounts, d \in Deposits : CreateAccount(a, d)
                   \/ \E o \in OrderIds, req \in Requests : HoldingOpens(o, req)
                   \/ \E o \in DOMAIN orders : HoldingMoves(o)
<1> SUFFICES Goal
  OBVIOUS
<1>1. ASSUME NEW o \in OrderIds, NEW req \in Requests,
             RejectNewOrder(o, req) \/ RouteNewOrder(o, req)
      PROVE  Goal
  BY <1>1, NewOrderHolds
<1>2. ASSUME NEW o \in DOMAIN orders, OrderStep(o) PROVE HoldingsRest
  <2>1. CASE RequestCancellation(o)
    <3> DEFINE new == [orders[o] EXCEPT !.status = "CANCEL_PENDING"]
    <3>1. orders[o] \in Order /\ orders[o].status \in CANCELLABLE_ORDER_STATUSES
      BY <2>1 DEF RequestCancellation, TypeOK, OrdersTypeOK
    <3>2. new.req = orders[o].req /\ Held(new) = Held(orders[o])
      BY <3>1 DEF Order, Held, CANCELLABLE_ORDER_STATUSES, OPEN_ORDER_STATUSES
    <3>3. PICK audit : SaveOrder(o, new, audit)
      BY <2>1 DEF RequestCancellation
    <3> HIDE DEF new
    <3>4. UNCHANGED accounts
      BY <2>1 DEF RequestCancellation, ledgerVars
    <3> QED
      BY <3>2, <3>3, <3>4, SavedOrder DEF HoldingsRest
  <2> QED
    BY <1>2, <2>1 DEF OrderStep, MarkRoutingFailure, NoCallFails, Submit, SubmitRaises,
                      NotifyCancel, ledgerVars, HoldingsRest
<1>3. ASSUME NEW e \in FillEvent, CompleteFill(e) \/ PartialFill(e) \/ IocPartialFill(e)
      PROVE  Goal
  BY <1>3, FillStepMoves
<1>4. ASSUME NEW e, BrokerRejects(e) \/ BrokerCancels(e) PROVE Goal
  BY <1>4, StatusStepMoves
<1>5. ASSUME NEW e, IgnoreEvent(e) PROVE HoldingsRest
  <2>1. e.order \in DOMAIN orders
    BY <1>5, FreshKnown DEF IgnoreEvent
  <2> QED
    BY <1>5, <2>1, SavedOrder DEF IgnoreEvent, HoldingsRest
<1>6. ASSUME MarketTick \/ UNCHANGED vars PROVE HoldingsRest
  BY <1>6 DEF MarketTick, vars, orderVars, ledgerVars, HoldingsRest
<1>7. HoldingsRest => Goal
  OBVIOUS
<1>8. ASSUME NEW a \in Accounts, NEW d \in Deposits, CreateAccount(a, d) PROVE Goal
  BY <1>8
<1> HIDE DEF Goal
<1> QED
  BY <1>1, <1>2, <1>3, <1>4, <1>5, <1>6, <1>7, <1>8 DEF Next, FillStep, StatusStep

(* Finitely many orders.                                                      *)
OrderTable == OrdersInv /\ IsFiniteSet(DOMAIN orders)

LEMMA OrderTableStep ==
    ASSUME OrderTable, ReliableSubmission, [Next]_vars
    PROVE  OrderTable'
<1>1. OrdersInv'
  <2>1. TypeOK /\ NoCallFails
    BY DEF OrderTable, OrdersInv
  <2>2. TypeOK'
    BY <2>1, TypeCorrectStep
  <2>3. NoCallFails'
    BY <2>1, NoCallFailsStep
  <2> QED
    BY <2>2, <2>3, OrdersInvStep DEF OrderTable, OrdersInv
<1>2. IsFiniteSet(DOMAIN orders')
  <2>1. \/ DOMAIN orders' = DOMAIN orders
        \/ \E o : DOMAIN orders' = DOMAIN orders \cup {o}
    <3>1. CASE UNCHANGED <<orders, history>>
      BY <3>1
    <3>2. ASSUME NEW o \in OrderIds, NEW req \in Requests, NEW status, NEW audit,
                 Inserts(o, req, status, audit)
          PROVE  DOMAIN orders' = DOMAIN orders \cup {o}
      BY <3>2, InsertedOrder DEF OrderTable, OrdersInv
    <3>3. ASSUME NEW o \in DOMAIN orders, NEW new, NEW audit, Rewrites(o, new, audit)
          PROVE  DOMAIN orders' = DOMAIN orders
      BY <3>3, SavedOrder DEF Rewrites, OrderTable, OrdersInv
    <3> QED
      BY <3>1, <3>2, <3>3, StepShape DEF OrderTable, OrdersInv
  <2> QED
    BY <2>1, FS_AddElement DEF OrderTable
<1> QED
  BY <1>1, <1>2 DEF OrderTable

(* The orders of an account, and what they hold, can be added up.             *)
LEMMA HoldingsAddUp ==
    ASSUME OrderTable, NEW a
    PROVE  /\ IsFiniteSet(OrdersOf(a))
           /\ SumsUp([o \in OrdersOf(a) |-> Held(orders[o])])
           /\ \A o \in OrdersOf(a) : Held(orders[o]) \in Nat
<1>1. OrdersOf(a) \subseteq DOMAIN orders
  BY DEF OrdersOf
<1>2. IsFiniteSet(OrdersOf(a))
  BY <1>1, FS_Subset DEF OrderTable
<1>3. \A o \in OrdersOf(a) : Held(orders[o]) \in Nat
  BY <1>1, OrderHolds DEF OrderTable, OrdersInv
<1> QED
  BY <1>2, <1>3 DEF SumsUp

LEMMA HoldingsAddUpNext ==
    ASSUME OrderTable', NEW a
    PROVE  SumsUp([o \in OrdersOf(a)' |-> Held(orders'[o])])
<1>1. OrdersOf(a)' \subseteq DOMAIN orders'
  BY DEF OrdersOf
<1>2. IsFiniteSet(OrdersOf(a)')
  BY <1>1, FS_Subset DEF OrderTable
<1>3. \A o \in DOMAIN orders' : orders'[o] \in Order
  BY DEF OrderTable, OrdersInv, TypeOK, OrdersTypeOK
<1>4. \A o \in OrdersOf(a)' : Held(orders'[o]) \in Nat
  BY <1>1, <1>3, HeldType
<1> QED
  BY <1>2, <1>4 DEF SumsUp

LEMMA SumsRest ==
    ASSUME TypeOK, HoldingsRest, NEW a \in DOMAIN accounts, ReservedIsSum(a)
    PROVE  ReservedIsSum(a)'
<1>1. OrdersOf(a)' = OrdersOf(a)
  BY DEF HoldingsRest, OrdersOf
<1>2. [o \in OrdersOf(a) |-> Held(orders[o])]' = [o \in OrdersOf(a) |-> Held(orders[o])]
  BY <1>1 DEF HoldingsRest, OrdersOf
<1> QED
  BY <1>2 DEF ReservedIsSum, HoldingsRest, Wide

LEMMA SumsWithNewOrder ==
    ASSUME ExactCash, OrderTable, OrderTable', NEW o, NEW req, HoldingOpens(o, req),
           NEW a \in DOMAIN accounts, ReservedIsSum(a)
    PROVE  ReservedIsSum(a)'
<1> DEFINE before == [p \in OrdersOf(a) |-> Held(orders[p])]
           after == [p \in OrdersOf(a)' |-> Held(orders'[p])]
<1>1. PICK need \in Nat :
        /\ o \notin DOMAIN orders /\ DOMAIN orders' = DOMAIN orders \cup {o}
        /\ \A p \in DOMAIN orders : orders'[p] = orders[p]
        /\ orders'[o].req = req /\ Held(orders'[o]) = need
        /\ accounts'[a].reserved = IF a = req.account THEN accounts[a].reserved + need
                                                      ELSE accounts[a].reserved
  BY DEF HoldingOpens
<1>2. /\ OrdersOf(a)' = IF a = req.account THEN OrdersOf(a) \cup {o} ELSE OrdersOf(a)
      /\ o \notin OrdersOf(a) /\ \A p \in OrdersOf(a) : orders'[p] = orders[p]
  BY <1>1 DEF OrdersOf
<1>3. SumsUp(before) /\ SumsUp(after)
  BY HoldingsAddUp, HoldingsAddUpNext
<1>4. accounts[a].reserved \in Nat /\ accounts[a].reserved = SumFunction(before)
  BY DEF ReservedIsSum, Wide, ExactCash, OrderTable, OrdersInv, TypeOK, AccountsTypeOK, Account
<1>5. accounts'[a].reserved = SumFunction(after)
  <2>1. CASE a # req.account
    <3>1. after = before
      BY <1>2, <2>1
    <3> HIDE DEF before, after
    <3> QED
      BY <1>1, <1>4, <2>1, <3>1
  <2>2. CASE a = req.account
    <3>1. /\ o \notin DOMAIN before /\ DOMAIN after = DOMAIN before \cup {o}
          /\ \A p \in DOMAIN before : after[p] = before[p]
          /\ after[o] = need
      BY <1>1, <1>2, <2>2
    <3> HIDE DEF before, after
    <3>2. SumFunction(after) = SumFunction(before) + need
      BY <1>3, <3>1, SumAdded
    <3> QED
      BY <1>1, <1>4, <2>2, <3>2
  <2> QED
    BY <2>1, <2>2
<1>6. Wide(accounts'[a].reserved) = accounts'[a].reserved
  <2>1. accounts'[a].reserved \in Nat
    BY <1>1, <1>4
  <2> QED
    BY <2>1 DEF Wide, ExactCash
<1> QED
  BY <1>5, <1>6 DEF ReservedIsSum, Wide

LEMMA SumsWithMove ==
    ASSUME ExactCash, OrderTable, OrderTable', NEW o \in DOMAIN orders, HoldingMoves(o),
           NEW a \in DOMAIN accounts, ReservedIsSum(a)
    PROVE  ReservedIsSum(a)'
<1> DEFINE before == [p \in OrdersOf(a) |-> Held(orders[p])]
           after == [p \in OrdersOf(a)' |-> Held(orders'[p])]
           b == orders[o].req.account
<1>1. PICK new \in Order, row \in Account, used \in Nat : \E audit :
          /\ SaveOrder(o, new, audit) /\ new.req = orders[o].req
          /\ SaveAccount(b, row)
          /\ row.reserved = accounts[b].reserved - used
          /\ Held(new) = Held(orders[o]) - used
  BY DEF HoldingMoves
<1>2. TypeOK /\ b \in DOMAIN accounts /\ Held(orders[o]) \in Nat
  BY OrderHolds DEF OrderTable, OrdersInv, TypeOK, OrdersTypeOK
<1>3. /\ DOMAIN orders' = DOMAIN orders
      /\ \A p \in DOMAIN orders : orders'[p] = IF p = o THEN new ELSE orders[p]
  BY <1>1, <1>2, SavedOrder
<1>4. accounts'[a] = IF a = b THEN row ELSE accounts[a]
  BY <1>1, <1>2, SavedAccount
<1>5. OrdersOf(a)' = OrdersOf(a) /\ (o \in OrdersOf(a) <=> a = b)
  BY <1>1, <1>3 DEF OrdersOf
<1>6. SumsUp(before) /\ SumsUp(after)
  BY HoldingsAddUp, HoldingsAddUpNext
<1>7. accounts[a].reserved \in Nat /\ accounts[a].reserved = SumFunction(before)
  BY <1>2 DEF ReservedIsSum, Wide, ExactCash, TypeOK, AccountsTypeOK, Account
<1>8. accounts'[a].reserved = SumFunction(after)
  <2>1. CASE a # b
    <3>1. \A p \in OrdersOf(a) : orders'[p] = orders[p]
      BY <1>3, <1>5, <2>1 DEF OrdersOf
    <3>2. after = before
      BY <1>5, <3>1
    <3> HIDE DEF before, after
    <3> QED
      BY <1>4, <1>7, <2>1, <3>2
  <2>2. CASE a = b
    <3>1. /\ o \in DOMAIN before /\ DOMAIN after = DOMAIN before
          /\ \A p \in DOMAIN before \ {o} : after[p] = before[p]
          /\ before[o] = Held(orders[o]) /\ after[o] = Held(new)
      BY <1>3, <1>5, <2>2 DEF OrdersOf
    <3> HIDE DEF before, after
    <3>2. SumFunction(after) = SumFunction(before) - Held(orders[o]) + Held(new)
      BY <1>6, <3>1, SumChanged
    <3> QED
      BY <1>1, <1>2, <1>4, <1>7, <2>2, <3>2
  <2> QED
    BY <2>1, <2>2
<1>9. Wide(accounts'[a].reserved) = accounts'[a].reserved
  <2>1. accounts'[a].reserved \in Nat
    BY <1>4, <1>7 DEF Account
  <2> QED
    BY <2>1 DEF Wide, ExactCash
<1> QED
  BY <1>8, <1>9 DEF ReservedIsSum, Wide

LEMMA ReservedSumsStep ==
    ASSUME ExactCash, OrderTable, OrderTable', ReservedIsOpenBuys, [Next]_vars
    PROVE  ReservedIsOpenBuys'
<1>1. TypeOK /\ NoCallFails
  BY DEF OrderTable, OrdersInv
<1> SUFFICES ASSUME NEW a \in DOMAIN accounts' PROVE ReservedIsSum(a)'
  BY DEF ReservedIsOpenBuys, ReservedIsSum
<1>2. CASE a \notin DOMAIN accounts
  <2>1. accounts'[a].reserved = 0 /\ orders' = orders
    BY <1>1, <1>2, NewAccounts
  <2>2. OrdersOf(a)' = {}
    BY <1>1, <1>2, <2>1 DEF OrdersOf, TypeOK, OrdersTypeOK
  <2>3. [o \in OrdersOf(a) |-> Held(orders[o])]' = [o \in {} |-> Held(orders'[o])]
    BY <2>2
  <2>4. SumFunction([o \in {} |-> Held(orders'[o])]) = 0
    BY SumEmpty
  <2>5. Wide(0) = 0
    BY DEF Wide, ExactCash
  <2> QED
    BY <2>1, <2>3, <2>4, <2>5 DEF ReservedIsSum, Wide
<1>3. CASE a \in DOMAIN accounts
  <2>1. ReservedIsSum(a)
    BY <1>3 DEF ReservedIsOpenBuys, ReservedIsSum
  <2>2. ASSUME NEW b \in Accounts, NEW d \in Deposits, CreateAccount(b, d)
        PROVE  ReservedIsSum(a)'
    <3>1. accounts'[a] = accounts[a] /\ orders' = orders
      BY <1>3, <2>2 DEF CreateAccount, Put, orderVars
    <3> QED
      BY <2>1, <3>1 DEF ReservedIsSum, OrdersOf, Wide
  <2> QED
    BY <1>1, <1>3, <2>1, <2>2, HoldingsShape, SumsRest, SumsWithNewOrder, SumsWithMove
<1> QED
  BY <1>2, <1>3

LEMMA OrderTableInit ==
    ASSUME Init
    PROVE  OrderTable /\ ReservedIsOpenBuys
<1>1. TypeOK
  BY TypeCorrectInit
<1>2. NoCallFails /\ StatusMatchesQuantities /\ AuditTrailExplainsStatus /\ ReservedIsOpenBuys
  BY DEF Init, NoRows, NoCallFails, StatusMatchesQuantities, AuditTrailExplainsStatus,
         ReservedIsOpenBuys
<1>3. IsFiniteSet(DOMAIN orders)
  BY FS_EmptySet DEF Init, NoRows
<1> QED
  BY <1>1, <1>2, <1>3 DEF OrderTable, OrdersInv

LEMMA ReservedSumsInductive ==
    ASSUME ExactCash, ReliableSubmission
    PROVE  Spec => [](OrderTable /\ ReservedIsOpenBuys)
<1>1. Init => OrderTable /\ ReservedIsOpenBuys
  BY OrderTableInit
<1>2. OrderTable /\ ReservedIsOpenBuys /\ [Next]_vars => (OrderTable /\ ReservedIsOpenBuys)'
  BY OrderTableStep, ReservedSumsStep
<1> QED
  BY <1>1, <1>2, PTL DEF Spec

(* With exact amounts and no failing submission, reserved_cash is always      *)
(* what the open buy orders of the account still need.                        *)
THEOREM ReservationsAddUp ==
    ASSUME ExactCash, ReliableSubmission
    PROVE  Spec => []ReservedIsOpenBuys
  BY ReservedSumsInductive, PTL

(* Under the same conditions an order never holds more than its account has   *)
(* reserved, so its release never raises.                                     *)
THEOREM ReservationsCoverOpenOrders ==
    ASSUME ExactCash, ReliableSubmission
    PROVE  Spec => []OpenOrdersAreCovered
<1>1. ASSUME OrderTable, ReservedIsOpenBuys PROVE OpenOrdersAreCovered
  <2> SUFFICES ASSUME NEW o \in DOMAIN orders
               PROVE  Held(orders[o]) <= Wide(accounts[orders[o].req.account].reserved)
    BY DEF OpenOrdersAreCovered
  <2> DEFINE a == orders[o].req.account
             held == [p \in OrdersOf(a) |-> Held(orders[p])]
  <2>1. a \in DOMAIN accounts /\ o \in OrdersOf(a)
    BY <1>1 DEF OrderTable, OrdersInv, TypeOK, OrdersTypeOK, OrdersOf
  <2>2. Wide(accounts[a].reserved) = SumFunction(held)
    BY <1>1, <2>1 DEF ReservedIsOpenBuys
  <2>3. /\ IsFiniteSet(DOMAIN held) /\ \A p \in DOMAIN held : held[p] \in Nat
        /\ o \in DOMAIN held /\ held[o] = Held(orders[o])
    BY <1>1, <2>1, HoldingsAddUp
  <2> HIDE DEF held
  <2> QED
    BY <2>2, <2>3, SumBounds
<1> QED
  BY <1>1, ReservedSumsInductive, PTL
=============================================================================
