--------------------------- MODULE MCPositionBook ---------------------------
(* A small instance of the position book for TLC.                            *)
EXTENDS PositionBook, TLC

AlikeAccounts == Permutations(Accounts)
=============================================================================
