------------------------- MODULE MCOrderTransactions -------------------------
(* Instances of OrderTransactions for TLC: tables that OrderStock reaches, and
   the kinds of request each run lets loose on them. *)
EXTENDS OrderTransactions

MCColumn == -4..4
MCRowOrder == <<1, 2>>

ItemOf(o, p, n, owed) ==
    [order |-> o, product |-> p, quantity |-> n, owed |-> owed, fulfilled |-> 0,
     backorder |-> IF owed > 0 THEN "pending" ELSE "none"]

\* Of the first product, n units are reserved.
Reserve(n) == reserved = [p \in Product |-> IF p = 1 THEN n ELSE 0]

\* One order with a line of each product, the second product's first, out of a
\* stock that had them; what is left of the first product may be reserved.
OneOrder ==
    /\ quantity \in [Product -> 0..1]
    /\ \E n \in 0..quantity[1] : Reserve(n)
    /\ allowOversell \in [Product -> BOOLEAN]
    /\ orders = <<"pending">>
    /\ items = <<ItemOf(1, 2, 1, 0), ItemOf(1, 1, 1, 0)>>
    /\ held = << [p \in Product |-> 1] >>

\* Two orders of one unit of the first product each, which it does not have.
TwoOversold ==
    /\ quantity = [p \in Product |-> IF p = 1 THEN -2 ELSE 1]
    /\ Reserve(0)
    /\ allowOversell = [p \in Product |-> p = 1]
    /\ orders = <<"pending", "pending">>
    /\ items = <<ItemOf(1, 1, 1, 1), ItemOf(2, 1, 1, 1)>>
    /\ held = << [p \in Product |-> IF p = 1 THEN 1 ELSE 0], [p \in Product |-> IF p = 1 THEN 1 ELSE 0] >>

Tracked == hasStock = Product

InitAll == NoneBegun /\ Tracked /\ (OneOrder \/ TwoOversold)

SpecAll == InitAll /\ [][TxNext]_allVars /\ Fairness

\* Sales of both kinds.
NextSales ==
    \E c \in Connection : BeginSale(c) \/ Step(c)

SpecSales ==
    /\ NoneBegun /\ Tracked /\ OneOrder
    /\ [][NextSales]_allVars

\* Orders that are created while stock arrives.
NextArrivals ==
    \E c \in Connection :
        \/ \E lines \in Lines : BeginCreate(c, lines)
        \/ \E p \in Product, n \in LineQuantity : BeginMovement(c, "in", p, n)
        \/ Step(c)

SpecArrivals ==
    /\ NoneBegun /\ Tracked /\ TwoOversold
    /\ [][NextArrivals]_allVars
=============================================================================
