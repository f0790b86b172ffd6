-------------------------------- MODULE Sums --------------------------------
(***************************************************************************)
(* Totals over the rows of a table.  Rows are numbered from 1 in the order *)
(* in which they were inserted, as the autoincrement ids of the database   *)
(* are, and f[i] is the amount that row i contributes.                     *)
(***************************************************************************)
EXTENDS Integers

\* f[1] + ... + f[n]
Sum(f, n) ==
    LET upTo[i \in Nat] == IF i = 0 THEN 0 ELSE upTo[i - 1] + f[i]
    IN  upTo[n]

\* The part of a balance that is not negative: Math.max(x, 0).
AtLeastZero(x) == IF x > 0 THEN x ELSE 0

\* Math.min(x, y)
Lesser(x, y) == IF x < y THEN x ELSE y
=============================================================================
