---------------------------- MODULE PositionBook ----------------------------
(* The position book on its own, driven by every sequence of executions and   *)
(* market data ticks: what one account's fills in one symbol add up to.       *)
EXTENDS Positions, Sequences, FiniteSets, Functions

CONSTANTS
    Quantities,       \* quantities an execution may have
    Prices,           \* prices an execution may have
    MaxExecutions     \* bound on the executions of a behaviour

ASSUME ExecutionsAssumption == Quantities \subseteq Nat \ {0} /\ Prices \subseteq Nat \ {0}

VARIABLE executions   \* the executions applied, in order: the rows of fills

bookSpecVars == <<bookVars, executions>>

Execute ==
    /\ Len(executions) < MaxExecutions
    /\ \E a \in Accounts, s \in Symbols, side \in {"BUY", "SELL"}, q \in Quantities, p \in Prices :
           /\ ApplyExecution(a, s, side, q, p)
           /\ executions' = Append(executions, [key |-> <<a, s>>, price |-> p,
                                        signed |-> IF side = "BUY" THEN q ELSE -q])

BookNext == Execute \/ (Tick /\ UNCHANGED executions)

BookSpecInit == BookInit /\ executions = <<>>

BookSpec == BookSpecInit /\ [][BookNext]_bookSpecVars

-----------------------------------------------------------------------------
ExecutionsOf(key) == {i \in DOMAIN executions : executions[i].key = key}
SignedOf(key) == [i \in ExecutionsOf(key) |-> executions[i].signed]
TradedOf(key) == [i \in ExecutionsOf(key) |-> Abs(executions[i].signed)]
PaidOf(key) == [i \in ExecutionsOf(key) |-> executions[i].signed * executions[i].price]

(* The net quantity is the signed sum of the executions, through every        *)
(* increase, reduction, close and reversal.                                   *)
NetIsSumOfExecutions ==
    /\ PositionsTypeOK
    /\ \A k \in DOMAIN positions : positions[k].net = SumFunction(SignedOf(k))

(* The books balance: realized P&L less the cost of the open quantity is the  *)
(* cash the executions brought in.  Each execution may drift by the rounding  *)
(* of one stored average (half a unit per unit held) and one stored P&L.      *)
ProfitIsCashFlow ==
    \A k \in DOMAIN positions :
        LET row    == positions[k]
            traded == SumFunction(TradedOf(k))
            drift  == Wide(row.realized) - row.net * row.avg + SumFunction(PaidOf(k))
        IN  2 * Abs(drift) <= Cardinality(ExecutionsOf(k)) * (traded + Scale)

(* The average entry price of an open position is a price somebody traded at  *)
(* or lies between two of them, however often it was averaged.                *)
AverageIsBetweenPrices ==
    \A k \in DOMAIN positions :
        IF positions[k].net = 0
        THEN positions[k].avg = 0 /\ positions[k].unrealized = 0
        ELSE \E i, j \in ExecutionsOf(k) :
                 /\ executions[i].price <= positions[k].avg
                 /\ positions[k].avg <= executions[j].price

(* The market price never goes back in time: a tick delivered late does not   *)
(* replace a newer price.                                                     *)
PricesMoveForward ==
    [][\A s \in DOMAIN marketPrices :
           /\ marketPrices'[s].observedAt >= marketPrices[s].observedAt
           /\ \A k \in DOMAIN positions :
                  k[2] = s /\ positions'[k].mark # positions[k].mark =>
                      positions'[k].mark = marketPrices'[s].price]_bookSpecVars
=============================================================================
