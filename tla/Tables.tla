------------------------------- MODULE Tables -------------------------------
(* A database table is a function from the keys of its rows to the rows.     *)

Put(table, key, row) ==
    [k \in DOMAIN table \cup {key} |-> IF k = key THEN row ELSE table[k]]

NoRows == [k \in {} |-> k]
=============================================================================
