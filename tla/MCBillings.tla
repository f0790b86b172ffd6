----------------------------- MODULE MCBillings -----------------------------
(* Instances of Billings for TLC. *)
EXTENDS Billings, TLC

\* A line without a discount, and one whose discount is larger than its value.
MCLineInput == {[value |-> 1, discount |-> 0], [value |-> 1, discount |-> 2]}

\* A lower total, and a payment.
MCEditFields == {[total |-> 0], [paid |-> 1]}

\* Nothing tells one connection from another.
Symmetry == Permutations(Connection)
=============================================================================
