------------------------------ MODULE MCEscrow ------------------------------
(* The escrow refinement on a small instance: orders of two accounts, fills  *)
(* below, at and above their limit prices.                                   *)
EXTENDS OrderEscrow, TLC

CONSTANTS a1, a2, s1, k1, k2

MCRequest(account, key, side, tif, quantity, price) ==
    [account |-> account, key |-> key, client |-> key, symbol |-> s1,
     side |-> side, tif |-> tif, quantity |-> quantity, price |-> price]

EscrowRequests ==
    {MCRequest(a1, k1, "BUY", "DAY", 2, 2), MCRequest(a1, k2, "BUY", "IOC", 2, 1),
     MCRequest(a2, k1, "SELL", "GTC", 1, 2)}

SmallAmounts == 0 .. 12

AlikeOrders == Permutations(OrderIds) \cup Permutations(EventIds) \cup Permutations(ExecIds)
=============================================================================
