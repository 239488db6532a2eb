----------------------------- MODULE Positions -----------------------------
(* The position book and the market prices that mark it: position_rules.py, *)
(* PositionService.apply_execution and MarketDataService.apply_tick.  Both   *)
(* run inside one transaction that locks the rows they change.               *)
(*                                                                           *)
(* The operators called ...Mistake are broken variants of the operator they  *)
(* precede.  No action uses them; substituted for that operator they show    *)
(* which property notices the mistake.                                       *)
EXTENDS Money, Tables

CONSTANTS
    Accounts,       \* account ids
    Symbols,        \* traded symbols
    TickPrices,     \* prices a market data tick may carry
    TickTimes       \* observed_at values a tick may carry

ASSUME TickPricesAssumption == TickPrices \subseteq Nat \ {0}
ASSUME TickTimesAssumption == TickTimes \subseteq Nat

VARIABLES
    positions,      \* <<account, symbol>> -> position row
    marketPrices    \* symbol -> market price row

bookVars == <<positions, marketPrices>>

Position == [net: Int, avg: Nat, realized: Int, unrealized: Int, mark: Nat]
MarketPrice == [price: Nat, observedAt: Nat]

PositionsTypeOK ==
    /\ DOMAIN positions \subseteq Accounts \X Symbols
    /\ positions \in [DOMAIN positions -> Position]
    /\ DOMAIN marketPrices \subseteq Symbols
    /\ marketPrices \in [DOMAIN marketPrices -> MarketPrice]

FlatPosition(mark) == [net |-> 0, avg |-> 0, realized |-> 0, unrealized |-> 0, mark |-> mark]

(* The quantity as the position sees it, and the part of it that closes.     *)
SignedFillMistake(side, quantity) == IF side = "SELL" THEN quantity ELSE -quantity
SignedFill(side, quantity) == IF side = "BUY" THEN quantity ELSE -quantity

ClosingMistake(net, quantity) == quantity
Closing(net, quantity) == Least(Abs(net), quantity)

IncreasedCostMistake(row, quantity, price) == row.net * row.avg + quantity * price
IncreasedCost(row, quantity, price) == Abs(row.net) * row.avg + quantity * price

(* calculate_position_after_fill.  "cost" is |net| times the exact average:  *)
(* the quotient total_cost / |new_quantity| is only rounded when the row is  *)
(* stored, after unrealized P&L has been computed from it.                   *)
AfterFill(row, side, quantity, price) ==
    LET signed == SignedFill(side, quantity)
        net    == row.net + signed
        gain   == Sign(row.net) * (price - row.avg) * Closing(row.net, quantity)
    IN  IF row.net * signed >= 0
        THEN [net |-> net, realized |-> Wide(row.realized),
              cost |-> IncreasedCost(row, quantity, price)]
        ELSE [net |-> net, realized |-> Wide(row.realized) + gain,
              cost |-> IF row.net * net > 0 THEN Abs(net) * row.avg
                                            ELSE Abs(net) * price]

(* (mark - average) * net, with the average given as cost / |net|.           *)
UnrealizedPnlMistake(net, cost, mark) == mark * net - cost
UnrealizedPnl(net, cost, mark) == mark * net - Sign(net) * cost

ExecutedPosition(row, side, quantity, price, mark) ==
    LET after == AfterFill(row, side, quantity, price)
    IN  [net        |-> after.net,
         avg        |-> IF after.net = 0 THEN 0 ELSE RoundDiv(after.cost, Abs(after.net)),
         realized   |-> Stored(after.realized),
         unrealized |-> Stored(UnrealizedPnl(after.net, after.cost, mark)),
         mark       |-> mark]

MarkedPositionMistake(row, price) ==
    [row EXCEPT !.unrealized = Stored(UnrealizedPnl(row.net, Abs(row.net) * row.avg, price))]
MarkedPosition(row, price) ==
    [row EXCEPT !.mark = price,
                !.unrealized = Stored(UnrealizedPnl(row.net, Abs(row.net) * row.avg, price))]

-----------------------------------------------------------------------------
BookInit ==
    /\ positions = NoRows
    /\ marketPrices = NoRows

(* PositionService.apply_execution, called by every applied fill.            *)
ApplyExecution(account, symbol, side, quantity, price) ==
    LET mark == IF symbol \in DOMAIN marketPrices THEN marketPrices[symbol].price ELSE price
        key  == <<account, symbol>>
        row  == IF key \in DOMAIN positions THEN positions[key] ELSE FlatPosition(mark)
    IN  /\ positions' = Put(positions, key, ExecutedPosition(row, side, quantity, price, mark))
        /\ UNCHANGED marketPrices

TickAcceptedMistake(symbol, observedAt) == TRUE
TickAccepted(symbol, observedAt) ==
    symbol \in DOMAIN marketPrices => observedAt >= marketPrices[symbol].observedAt

(* MarketDataService.apply_tick: a tick older than the stored price is       *)
(* dropped, any other replaces it and re-marks every position of the symbol. *)
ApplyTick(symbol, price, observedAt) ==
    /\ TickAccepted(symbol, observedAt)
    /\ marketPrices' = Put(marketPrices, symbol, [price |-> price, observedAt |-> observedAt])
    /\ positions' = [k \in DOMAIN positions |->
                        IF k[2] = symbol THEN MarkedPosition(positions[k], price)
                                         ELSE positions[k]]

Tick == \E s \in Symbols, p \in TickPrices, t \in TickTimes : ApplyTick(s, p, t)

-----------------------------------------------------------------------------
(* Every position of a priced symbol carries the latest accepted price, and   *)
(* its unrealized P&L is that of the mark, whatever the order of the ticks    *)
(* and fills (to the rounding of the stored average and P&L).                 *)
PositionsAreMarkedToMarket ==
    \A k \in DOMAIN positions :
        LET row == positions[k]
        IN  /\ k[2] \in DOMAIN marketPrices => row.mark = marketPrices[k[2]].price
            /\ 2 * Abs(Wide(row.unrealized) - (row.mark - row.avg) * row.net)
                   <= Abs(row.net) + Scale
=============================================================================
