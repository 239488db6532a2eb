---------------------------- MODULE OrderEscrow ----------------------------
(* The order management core implements Escrow: cash_balance less             *)
(* reserved_cash is the free money of an account, and an open buy order holds *)
(* its remaining quantity at its limit price.                                 *)
EXTENDS OrderProperties

CONSTANT Amounts    \* wide cash amounts

FreeCash == [a \in DOMAIN accounts |-> Wide(AvailableCash(a))]

HeldCash == [o \in DOMAIN orders |->
                [account |-> orders[o].req.account, amount |-> Held(orders[o])]]

AbstractEscrow == INSTANCE Escrow WITH Holders <- OrderIds, free <- FreeCash, held <- HeldCash

(* Every step of the core is one movement of escrowed money, or none: placing *)
(* an order holds free money only, a fill or the release of a remainder uses  *)
(* what that order holds and no other order's, a sale credits free money, and *)
(* free money is never overdrawn.                                             *)
ImplementsEscrow == AbstractEscrow!EscrowSpec
=============================================================================
