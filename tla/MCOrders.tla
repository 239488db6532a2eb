------------------------------ MODULE MCOrders ------------------------------
(* Small instances of the order management core for TLC.                     *)
EXTENDS OrderLedger, TLC

CONSTANTS a1, a2, s1, k1, k2, o1, o2

MCRequest(key, side, tif, quantity, price) ==
    [account |-> a1, key |-> key, client |-> key, symbol |-> s1,
     side |-> side, tif |-> tif, quantity |-> quantity, price |-> price]

(* Two buy orders that together need more cash than a deposit of 6, and a    *)
(* sell order.                                                               *)
ContendingRequests ==
    {MCRequest(k1, "BUY", "GTC", 2, 2), MCRequest(k2, "BUY", "IOC", 3, 1),
     MCRequest(k2, "SELL", "DAY", 2, 2)}

(* Two buy orders of one account that fit its deposit of 6 together.         *)
FailingRequests == {MCRequest(k1, "BUY", "GTC", 2, 2), MCRequest(k2, "BUY", "IOC", 2, 1)}

(* With ten units to the currency: 0.2 at 0.2 is 0.04, which no column holds. *)
FineRequests == {MCRequest(k1, "BUY", "GTC", 2, 2), MCRequest(k2, "BUY", "IOC", 3, 9)}

(* A purchase and a larger sale of one account, and a purchase of another:   *)
(* positions open, grow, shrink, close and reverse.                          *)
ReversingRequests ==
    {MCRequest(k1, "BUY", "GTC", 2, 24), MCRequest(k2, "SELL", "GTC", 3, 12),
     [MCRequest(k2, "BUY", "IOC", 3, 12) EXCEPT !.account = a2]}

Alike == Permutations(OrderIds) \cup Permutations(EventIds) \cup Permutations(ExecIds)
=============================================================================
