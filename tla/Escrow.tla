------------------------------- MODULE Escrow -------------------------------
(* What reserving cash promises, with no orders, statuses or fills: every     *)
(* account has free money, every order holds some of its account's, and the   *)
(* two change together.                                                       *)
EXTENDS Integers, Tables

CONSTANTS
    Accounts,
    Holders,    \* the orders that may hold money
    Amounts     \* the amounts money moves in: Nat, or a bounded part of it

VARIABLES
    free,     \* account -> money no order holds
    held      \* order -> its account and the money it holds

escrowVars == <<free, held>>

EscrowInit == free = NoRows /\ held = NoRows

Open(a, amount) ==
    /\ a \notin DOMAIN free
    /\ free' = Put(free, a, amount)
    /\ UNCHANGED held

(* A new order may take hold of free money only.                              *)
Hold(a, o, amount) ==
    /\ a \in DOMAIN free
    /\ o \notin DOMAIN held
    /\ amount <= free[a]
    /\ free' = [free EXCEPT ![a] = @ - amount]
    /\ held' = Put(held, o, [account |-> a, amount |-> amount])

(* An order gives up part of what it holds, of which some is paid out and the *)
(* rest is free again.  A payment beyond it comes out of free money.  Nothing *)
(* is paid that does not use up some of the holding.                          *)
Settle(o, used, paid) ==
    LET a == held[o].account
    IN  /\ used <= held[o].amount
        /\ paid > 0 => used > 0
        /\ paid <= free[a] + used
        /\ free' = [free EXCEPT ![a] = @ + used - paid]
        /\ held' = [held EXCEPT ![o].amount = @ - used]

Credit(a, amount) ==
    /\ free' = [free EXCEPT ![a] = @ + amount]
    /\ UNCHANGED held

EscrowNext ==
    \/ \E a \in Accounts : \E amount \in Amounts : Open(a, amount)
    \/ \E a \in Accounts, o \in Holders : \E amount \in Amounts : Hold(a, o, amount)
    \/ \E o \in DOMAIN held : \E used, paid \in Amounts : Settle(o, used, paid)
    \/ \E a \in DOMAIN free : \E amount \in Amounts : Credit(a, amount)

EscrowSpec == EscrowInit /\ [][EscrowNext]_escrowVars
=============================================================================
