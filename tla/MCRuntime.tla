----------------------------- MODULE MCRuntime -----------------------------
(* A small instance of the running process for TLC.                          *)
EXTENDS RuntimeProperties

CONSTANTS a1, a2, s1, k1, k2

MCRequest(account, key, tif, quantity, price) ==
    [account |-> account, key |-> key, client |-> key, symbol |-> s1,
     side |-> "BUY", tif |-> tif, quantity |-> quantity, price |-> price]

(* A DAY purchase that may be filled in parts or an IOC purchase, and a DAY   *)
(* purchase whose cost of 0.02 no column holds, so its settlement is refused. *)
RuntimeRequests ==
    {MCRequest(a1, k1, "DAY", 2, 10), MCRequest(a1, k1, "IOC", 2, 10),
     MCRequest(a2, k2, "DAY", 1, 2)}

EventNames == OrderIds \X {"order", "rest", "cancel"}
=============================================================================
