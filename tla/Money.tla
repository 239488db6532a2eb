------------------------------- MODULE Money -------------------------------
(* Decimal amounts.  Every quantity, price and cash column is NUMERIC(24,8): *)
(* an integer count of 1/Scale units, with Scale = 10^8 in the deployment.   *)
(* The services multiply two such Decimals exactly, so a product counts      *)
(* 1/Scale^2 units ("wide"), and only the store rounds it back to a column,  *)
(* half away from zero.                                                      *)
EXTENDS Integers

CONSTANT Scale

ASSUME ScaleAssumption == Scale \in Nat \ {0}

Wide(column) == column * Scale

RoundDiv(n, d) ==
    IF n >= 0 THEN (2 * n + d) \div (2 * d)
              ELSE -((2 * (-n) + d) \div (2 * d))

Stored(wide) == RoundDiv(wide, Scale)

Abs(n) == IF n >= 0 THEN n ELSE -n
Sign(n) == IF n > 0 THEN 1 ELSE IF n < 0 THEN -1 ELSE 0
Least(m, n) == IF m <= n THEN m ELSE n
=============================================================================
