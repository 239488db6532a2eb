---------------------------- MODULE OrderLedger ----------------------------
(* Properties that add up the tables of the order management core.           *)
EXTENDS OrderProperties, Functions

OrdersOf(account) == {o \in DOMAIN orders : orders[o].req.account = account}
FillsOf(o) == {f \in fills : f.order = o}
FillsBy(account) == {f \in fills : orders[f.order].req.account = account}
FillsIn(account, symbol) ==
    {f \in fills : orders[f.order].req.account = account /\ orders[f.order].req.symbol = symbol}

SignedQuantity(f) == IF orders[f.order].req.side = "BUY" THEN f.quantity ELSE -f.quantity
CashFlow(f) == -(SignedQuantity(f) * f.price)

(* README: "reserved_cash is the portion held for open buy orders".  Over any *)
(* interleaving of placements, fills, rejections and cancellations of all the *)
(* orders of an account, reserved_cash is the sum of what its open buy orders *)
(* may still need.                                                            *)
ReservedIsOpenBuys ==
    \A a \in DOMAIN accounts :
        Wide(accounts[a].reserved) = SumFunction([o \in OrdersOf(a) |-> Held(orders[o])])

(* Every open buy order can be settled: what it still holds is covered by the *)
(* reservation, so neither a fill within its limit price nor its cancellation *)
(* raises "Reserved cash is inconsistent with the order".                     *)
OpenOrdersAreCovered ==
    \A o \in DOMAIN orders :
        Held(orders[o]) <= Wide(accounts[orders[o].req.account].reserved)

(* An order row's filled quantity is the sum of its fills, and its average    *)
(* price is theirs (to the rounding of one stored average per fill).          *)
OrderIsSumOfFills(o) ==
    LET value == SumFunction([f \in FillsOf(o) |-> f.quantity * f.price])
    IN  /\ orders[o].filled = SumFunction([f \in FillsOf(o) |-> f.quantity])
        /\ 2 * Abs(orders[o].avgFill * orders[o].filled - value)
               <= orders[o].filled * Cardinality(FillsOf(o))

FilledQuantityIsSumOfFills == \A o \in DOMAIN orders : OrderIsSumOfFills(o)

(* The position book and the order book tell one story: the net quantity of   *)
(* an account in a symbol is the signed sum of the fills of its orders, and   *)
(* there is a position exactly where there are fills.                         *)
PositionIsSumOfFills(a, s) ==
    IF <<a, s>> \in DOMAIN positions
    THEN /\ FillsIn(a, s) # {}
         /\ positions[<<a, s>>].net = SumFunction([f \in FillsIn(a, s) |-> SignedQuantity(f)])
    ELSE FillsIn(a, s) = {}

PositionsAreSumsOfFills ==
    \A a \in DOMAIN accounts, s \in Symbols : PositionIsSumOfFills(a, s)

(* An account never spends more than it has: its cash is a deposit plus the   *)
(* cash flow of all its fills.  Which deposit is pinned when only one is      *)
(* possible, as in the runs; that cash never moves from the one an account    *)
(* began with to another is CashMovesWithFills.                               *)
CashIsDepositAndFills ==
    \A a \in DOMAIN accounts :
        \E d \in Deposits :
            Wide(accounts[a].cash - d) = SumFunction([f \in FillsBy(a) |-> CashFlow(f)])
=============================================================================
