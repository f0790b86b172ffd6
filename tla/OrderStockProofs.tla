-------------------------- MODULE OrderStockProofs --------------------------
(***************************************************************************)
(* Proofs about OrderStock, for any set of products, any quantities and    *)
(* any bounds: the types of the tables, what a backorder row may be, what  *)
(* a step may never do, and how the units that pending backorders wait for *)
(* follow the deficit of the stock.                                        *)
(***************************************************************************)
EXTENDS OrderStock, SumsProofs, SequenceTheorems

\* The inductive invariant.  The rows of a product are served in order only
\* because a pending row is one that has not received all it waits for, so the
\* two invariants are proved together.
IInv == TypeOK /\ BackordersWellFormed /\ OldestServedFirst

\* Its parts, by the tables they are about.
StockOK ==
    /\ hasStock \subseteq Product
    /\ quantity \in [Product -> IntColumn]
    /\ reserved \in [Product -> IntColumn]
    /\ \A p \in Product \ hasStock : quantity[p] = 0 /\ reserved[p] = 0
    /\ allowOversell \in [Product -> BOOLEAN]

OrdersOK ==
    /\ orders \in Seq(OrderStatus \cup {"deleted"})
    /\ Len(orders) <= MaxOrders
    /\ held \in Seq(HeldRange)
    /\ Len(held) = Len(orders)

RowsOK ==
    /\ items \in Seq(ItemRow)
    /\ Len(items) <= MaxItems
    /\ \A i \in DOMAIN items : items[i].order \in DOMAIN orders
    /\ BackordersWellFormed
    /\ OldestServedFirst

\* The three parts after a step make the invariant after it.
LEMMA Parts == (StockOK' /\ OrdersOK' /\ RowsOK') => IInv'
  BY DEF IInv, TypeOK, StockOK, OrdersOK, RowsOK, HeldRange

\* A backorder row within its line, as BackordersWellFormed says of each row.
GoodRow(row) ==
    /\ row \in ItemRow
    /\ row.fulfilled <= row.owed /\ row.owed <= row.quantity
    /\ row.backorder = "none" <=> row.owed = 0
    /\ row.backorder = "fulfilled" <=> row.owed > 0 /\ row.fulfilled = row.owed

\* Every index of items names a row, and the rows are at most MaxItems.
LEMMA ItemsAreRows ==
  ASSUME IInv
  PROVE  /\ Len(items) \in Nat /\ DOMAIN items = 1..Len(items)
         /\ items \in [1..Len(items) -> ItemRow]
         /\ \A i \in 1..Len(items) : GoodRow(items[i]) /\ items[i].order \in DOMAIN orders
<1>1. /\ Len(items) \in Nat /\ DOMAIN items = 1..Len(items)
      /\ items \in [1..Len(items) -> ItemRow]
  BY LenProperties DEF IInv, TypeOK
<1>2. \A i \in 1..Len(items) : items[i] \in ItemRow
  BY <1>1
<1> QED BY <1>1, <1>2 DEF IInv, TypeOK, BackordersWellFormed, GoodRow

\* Every index of orders names a status, and held has an entry for it.
LEMMA OrdersAreRows ==
  ASSUME IInv
  PROVE  /\ Len(orders) \in Nat /\ DOMAIN orders = 1..Len(orders)
         /\ orders \in [1..Len(orders) -> OrderStatus \cup {"deleted"}]
         /\ Len(held) = Len(orders) /\ DOMAIN held = 1..Len(orders)
         /\ held \in [1..Len(orders) -> HeldRange]
  BY LenProperties DEF IInv, TypeOK, HeldRange

\* A function on 1..n is a sequence of length n.
LEMMA FunctionIsSequence ==
  ASSUME NEW n \in Nat, NEW S, NEW f \in [1..n -> S]
  PROVE  f \in Seq(S) /\ Len(f) = n
<1>1. f \in Seq(S)
  BY SeqDef
<1>2. DOMAIN f = 1..n /\ Len(f) \in Nat /\ DOMAIN f = 1..Len(f)
  BY <1>1, LenProperties
<1> QED BY <1>1, <1>2
-----------------------------------------------------------------------------
(* New lines *)

\* Stock figures, and so what is available, are integers.
LEMMA QuantitiesAreIntegers ==
  ASSUME IInv, NEW p \in Product
  PROVE  quantity[p] \in Int /\ reserved[p] \in Int /\ Available(p) \in Int /\ Deficit(p) \in Nat
<1>1. quantity[p] \in IntColumn /\ reserved[p] \in IntColumn
  BY DEF IInv, TypeOK
<1>2. quantity[p] \in Int /\ reserved[p] \in Int
  BY <1>1, ColumnAssumption
<1>3. Available(p) \in Int /\ Deficit(p) \in Nat
  BY <1>2 DEF Available, Deficit, AtLeastZero
<1> QED BY <1>2, <1>3

\* What the first lines of an order take is a natural number of units.
LEMMA TakenIsNatural ==
  ASSUME NEW n \in Nat, NEW lines \in [1..n -> Line], NEW p \in Product, NEW m \in 0..n
  PROVE  Taken(lines, p, m) \in Nat
<1>1. \A i \in 1..n : UnitsOf(lines, p)[i] \in Nat
  BY QuantityAssumption DEF UnitsOf, Line
<1>2. m <= m
  OBVIOUS
<1> QED BY <1>1, <1>2, SumMonotonic DEF Taken

\* A line owes between none and all of its units, and some exactly when it is short.
LEMMA NewRowIsGood ==
  ASSUME IInv, NEW n \in Nat, NEW lines \in [1..n -> Line], NEW i \in 1..n,
         NEW o \in 1..MaxOrders
  PROVE  /\ GoodRow(NewRow(o, lines, i))
         /\ NewRow(o, lines, i).fulfilled = 0
         /\ NewRow(o, lines, i).order = o
<1>0. lines[i] \in Line
  OBVIOUS
<1>1. lines[i].product \in Product /\ lines[i].quantity \in Nat /\ lines[i].quantity > 0
  <2>1. lines[i].product \in Product /\ lines[i].quantity \in LineQuantity
    BY <1>0 DEF Line
  <2>2. lines[i].quantity \in Nat \ {0}
    BY <2>1, QuantityAssumption
  <2> QED BY <2>1, <2>2
<1>2. AvailableAt(lines, i) \in Int
  <2>1. i - 1 \in 0..n
    OBVIOUS
  <2>2. Taken(lines, lines[i].product, i - 1) \in Nat
    BY <1>1, <2>1, TakenIsNatural
  <2> QED BY <1>1, <2>2, QuantitiesAreIntegers DEF AvailableAt
<1>3. Owed(lines, i) \in Nat /\ Owed(lines, i) <= lines[i].quantity
  BY <1>1, <1>2 DEF Owed, Short, AtLeastZero
<1> QED BY <1>1, <1>3 DEF NewRow, GoodRow, ItemRow, BackorderStatus

\* Appending good rows that have received nothing keeps the rows in order.
LEMMA AppendedRows ==
  ASSUME IInv, NEW rows \in Seq(ItemRow), items' = items \o rows,
         Len(items) + Len(rows) <= MaxItems,
         \A i \in 1..Len(rows) : /\ GoodRow(rows[i]) /\ rows[i].fulfilled = 0
                                 /\ rows[i].order \in DOMAIN orders',
         DOMAIN orders \subseteq DOMAIN orders'
  PROVE  RowsOK'
<1> DEFINE n == Len(items)
           m == Len(rows)
<1>1. /\ n \in Nat /\ m \in Nat /\ items \in Seq(ItemRow)
      /\ DOMAIN items = 1..n /\ DOMAIN rows = 1..m
  BY ItemsAreRows, LenProperties DEF IInv, TypeOK
<1>2. /\ items' \in Seq(ItemRow) /\ Len(items') = n + m
      /\ \A i \in 1..(n + m) : items'[i] = IF i <= n THEN items[i] ELSE rows[i - n]
  BY <1>1, ConcatProperties
<1>3. DOMAIN items' = 1..(n + m)
  BY <1>2, LenProperties
<1>4. \A i \in 1..n : i \in 1..(n + m) /\ items'[i] = items[i]
  BY <1>1, <1>2
<1>5. \A i \in 1..(n + m) : i > n => i - n \in 1..m /\ items'[i] = rows[i - n]
  BY <1>1, <1>2
<1>6. \A i \in 1..(n + m) : GoodRow(items'[i]) /\ items'[i].order \in DOMAIN orders'
  <2> SUFFICES ASSUME NEW i \in 1..(n + m)
               PROVE  GoodRow(items'[i]) /\ items'[i].order \in DOMAIN orders'
    OBVIOUS
  <2>1. CASE i <= n
    <3>1. i \in 1..n
      BY <2>1, <1>1
    <3> QED BY <3>1, <1>4, ItemsAreRows
  <2>2. CASE i > n
    BY <2>2, <1>5
  <2> QED BY <2>1, <2>2, <1>1
<1>7. BackordersWellFormed'
  BY <1>3, <1>6 DEF BackordersWellFormed, GoodRow
<1>8. OldestServedFirst'
  <2> SUFFICES ASSUME NEW i \in 1..(n + m), NEW j \in 1..(n + m), i < j,
                      items'[i].product = items'[j].product,
                      items'[i].backorder = "pending"
               PROVE  items'[j].fulfilled = 0
    BY <1>3 DEF OldestServedFirst
  <2>1. CASE j <= n
    <3>1. i \in 1..n /\ j \in 1..n
      BY <2>1, <1>1
    <3>2. items[i].product = items[j].product /\ items[i].backorder = "pending"
      BY <3>1, <1>4
    <3>3. items[j].fulfilled = 0
      BY <3>1, <3>2, <1>1 DEF IInv, OldestServedFirst
    <3> QED BY <3>1, <3>3, <1>4
  <2>2. CASE j > n
    BY <2>2, <1>5
  <2> QED BY <2>1, <2>2, <1>1
<1> QED BY <1>2, <1>3, <1>6, <1>7, <1>8 DEF RowsOK
-----------------------------------------------------------------------------
(* Rows rewritten in place *)

\* Rewriting rows in place keeps the tables' types and the order of service if
\* no row becomes pending and no row receives a unit.
LEMMA RewrittenRows ==
  ASSUME IInv, items' \in [1..Len(items) -> ItemRow],
         DOMAIN orders' = DOMAIN orders,
         \A i \in 1..Len(items) :
            /\ GoodRow(items'[i])
            /\ items'[i].order = items[i].order /\ items'[i].product = items[i].product
            /\ items'[i].backorder = "pending" => items[i].backorder = "pending"
            /\ items'[i].fulfilled \in {items[i].fulfilled, 0}
  PROVE  RowsOK'
<1> DEFINE n == Len(items)
<1>1. n \in Nat /\ n <= MaxItems /\ DOMAIN items = 1..n
  BY ItemsAreRows DEF IInv, TypeOK
<1>2. items' \in Seq(ItemRow) /\ Len(items') = n /\ DOMAIN items' = 1..n
  BY <1>1, FunctionIsSequence
<1>3. \A i \in 1..n : items'[i].order \in DOMAIN orders'
  BY ItemsAreRows
<1>4. BackordersWellFormed'
  BY <1>2 DEF BackordersWellFormed, GoodRow
<1>5. OldestServedFirst'
  <2> SUFFICES ASSUME NEW i \in 1..n, NEW j \in 1..n, i < j,
                      items'[i].product = items'[j].product,
                      items'[i].backorder = "pending"
               PROVE  items'[j].fulfilled = 0
    BY <1>2 DEF OldestServedFirst
  <2>1. items[j].fulfilled = 0
    BY <1>1 DEF IInv, OldestServedFirst
  <2> QED BY <2>1
<1> QED BY <1>1, <1>2, <1>3, <1>4, <1>5 DEF RowsOK

\* Canceling an order's pending backorders keeps the rows good.
LEMMA CanceledRows ==
  ASSUME IInv, NEW o \in DOMAIN orders, items' = CanceledBackorders(o),
         DOMAIN orders' = DOMAIN orders
  PROVE  RowsOK'
<1>1. Len(items) \in Nat /\ DOMAIN items = 1..Len(items)
  BY ItemsAreRows
<1>2. ASSUME NEW i \in 1..Len(items)
      PROVE  /\ GoodRow(items'[i])
             /\ items'[i].order = items[i].order /\ items'[i].product = items[i].product
             /\ items'[i].backorder = "pending" => items[i].backorder = "pending"
             /\ items'[i].fulfilled \in {items[i].fulfilled, 0}
  <2>1. GoodRow(items[i])
    BY ItemsAreRows
  <2>2. items'[i] = IF items[i].order = o /\ items[i].backorder = "pending"
                    THEN [items[i] EXCEPT !.backorder = "canceled"] ELSE items[i]
    BY <1>1 DEF CanceledBackorders
  <2> QED BY <2>1, <2>2 DEF GoodRow, ItemRow, BackorderStatus
<1>3. items' \in [1..Len(items) -> ItemRow]
  BY <1>1, <1>2 DEF CanceledBackorders, GoodRow
<1> QED BY <1>2, <1>3, RewrittenRows

\* Erasing an order's rows keeps the rows good.
LEMMA RowsErased ==
  ASSUME IInv, NEW o \in DOMAIN orders, items' = ErasedRows(o),
         DOMAIN orders' = DOMAIN orders
  PROVE  RowsOK'
<1>1. Len(items) \in Nat /\ DOMAIN items = 1..Len(items)
  BY ItemsAreRows
<1>2. ASSUME NEW i \in 1..Len(items)
      PROVE  /\ GoodRow(items'[i])
             /\ items'[i].order = items[i].order /\ items'[i].product = items[i].product
             /\ items'[i].backorder = "pending" => items[i].backorder = "pending"
             /\ items'[i].fulfilled \in {items[i].fulfilled, 0}
  <2>1. GoodRow(items[i])
    BY ItemsAreRows
  <2>2. items'[i] = IF items[i].order = o
                    THEN [items[i] EXCEPT !.quantity = 0, !.owed = 0, !.fulfilled = 0,
                                          !.backorder = "none"]
                    ELSE items[i]
    BY <1>1 DEF ErasedRows
  <2>3. items[i] \in ItemRow
    BY <2>1 DEF GoodRow
  <2>4. CASE items[i].order = o
    <3>1. items'[i] = [items[i] EXCEPT !.quantity = 0, !.owed = 0, !.fulfilled = 0,
                                       !.backorder = "none"]
      BY <2>2, <2>4
    <3>2. items'[i] = [order |-> items[i].order, product |-> items[i].product, quantity |-> 0,
                       owed |-> 0, fulfilled |-> 0, backorder |-> "none"]
      BY <2>3, <3>1 DEF ItemRow
    <3>3. items[i].order \in 1..MaxOrders /\ items[i].product \in Product
      BY <2>3 DEF ItemRow
    <3> QED BY <3>2, <3>3 DEF GoodRow, ItemRow, BackorderStatus
  <2>5. CASE items[i].order # o
    BY <2>1, <2>2, <2>5
  <2> QED BY <2>4, <2>5
<1>3. items' \in [1..Len(items) -> ItemRow]
  BY <1>1, <1>2 DEF ErasedRows, GoodRow
<1> QED BY <1>2, <1>3, RewrittenRows
-----------------------------------------------------------------------------
(* Arrivals *)

\* What each row of p still owes, and what an arrival of n units gives to it.
LEMMA OwedAndTaken ==
  ASSUME IInv, NEW p \in Product, NEW n \in Nat
  PROVE  /\ \A i \in 1..Len(items) : OwedOf(p)[i] \in Nat
         /\ \A i \in 1..Len(items) : Take(p, n, i) \in Nat /\ Take(p, n, i) <= OwedOf(p)[i]
         /\ \A l, m \in 0..Len(items) : l <= m =>
               Sum(OwedOf(p), l) <= Sum(OwedOf(p), m) /\ Sum(OwedOf(p), l) \in Nat
<1>1. Len(items) \in Nat /\ DOMAIN items = 1..Len(items)
  BY ItemsAreRows
<1>2. ASSUME NEW i \in 1..Len(items) PROVE OwedOf(p)[i] \in Nat
  <2>1. GoodRow(items[i])
    BY ItemsAreRows
  <2>2. Remaining(i) \in Nat
    BY <2>1 DEF Remaining, GoodRow, ItemRow
  <2> QED BY <1>1, <2>2 DEF OwedOf
<1>3. \A l, m \in 0..Len(items) : l <= m =>
         Sum(OwedOf(p), l) <= Sum(OwedOf(p), m) /\ Sum(OwedOf(p), l) \in Nat
  BY <1>1, <1>2, SumMonotonic
<1>4. ASSUME NEW i \in 1..Len(items)
      PROVE  Take(p, n, i) \in Nat /\ Take(p, n, i) <= OwedOf(p)[i]
  <2>1. i - 1 \in 0..Len(items) /\ i - 1 <= i - 1
    BY <1>1
  <2>2. Sum(OwedOf(p), i - 1) \in Nat /\ OwedOf(p)[i] \in Nat
    BY <1>2, <1>3, <2>1
  <2> QED BY <2>2 DEF Take, Lesser, AtLeastZero
<1> QED BY <1>2, <1>3, <1>4

\* If a later row of p receives a unit, an earlier pending one receives all it
\* still waits for.
LEMMA EarlierFirst ==
  ASSUME IInv, NEW p \in Product, NEW n \in Nat,
         NEW i \in 1..Len(items), NEW j \in 1..Len(items), i < j,
         Pending(i, p), Take(p, n, j) > 0
  PROVE  Take(p, n, i) = Remaining(i)
<1> DEFINE f == OwedOf(p)
<1>1. Len(items) \in Nat /\ DOMAIN items = 1..Len(items)
  BY ItemsAreRows
<1>2. f[i] = Remaining(i)
  BY <1>1 DEF OwedOf
<1>3. f[i] \in Nat /\ f[j] \in Nat
  BY OwedAndTaken
<1>4. /\ i - 1 \in 0..Len(items) /\ i \in 0..Len(items) /\ j - 1 \in 0..Len(items)
      /\ i - 1 <= i /\ i <= j - 1 /\ j - 1 <= j - 1 /\ i - 1 \in Nat /\ (i - 1) + 1 = i
  BY <1>1
<1>5. Sum(f, i) <= Sum(f, j - 1) /\ {Sum(f, i - 1), Sum(f, i), Sum(f, j - 1)} \subseteq Nat
  BY <1>4, OwedAndTaken
<1>6. Sum(f, i) = Sum(f, i - 1) + f[i]
  BY <1>4, SumDef
<1> HIDE DEF f
<1>7. Lesser(f[j], AtLeastZero(n - Sum(f, j - 1))) > 0
  BY DEF Take, f
<1>8. n - Sum(f, j - 1) > 0
  BY <1>3, <1>5, <1>7 DEF Lesser, AtLeastZero
<1>9. n - Sum(f, i - 1) > f[i]
  BY <1>3, <1>5, <1>6, <1>8
<1>10. Lesser(f[i], AtLeastZero(n - Sum(f, i - 1))) = f[i]
  BY <1>3, <1>5, <1>9 DEF Lesser, AtLeastZero
<1> QED BY <1>2, <1>10 DEF Take, f

\* Allocating an arrival keeps every row good and serves the oldest first.
LEMMA AllocatedRows ==
  ASSUME IInv, NEW p \in Product, NEW n \in Nat, items' = Allocated(p, n),
         DOMAIN orders' = DOMAIN orders
  PROVE  RowsOK'
<1> DEFINE m == Len(items)
           Served(i) == Pending(i, p) /\ Take(p, n, i) > 0
           done(i) == items[i].fulfilled + Take(p, n, i)
<1>1. m \in Nat /\ m <= MaxItems /\ DOMAIN items = 1..m
  BY ItemsAreRows DEF IInv, TypeOK
<1>2. ASSUME NEW i \in 1..m, Served(i)
      PROVE  /\ GoodRow(items'[i])
             /\ items'[i].order = items[i].order /\ items'[i].product = items[i].product
             /\ items'[i].backorder = IF done(i) >= items[i].owed THEN "fulfilled" ELSE "pending"
  <2>1. items'[i] = [items[i] EXCEPT
                       !.fulfilled = items[i].fulfilled + Take(p, n, i),
                       !.backorder = IF items[i].fulfilled + Take(p, n, i) >= items[i].owed
                                     THEN "fulfilled" ELSE items[i].backorder]
    BY <1>1, <1>2 DEF Allocated
  <2>2. GoodRow(items[i]) /\ items[i] \in ItemRow /\ items[i].backorder = "pending"
    BY <1>2, ItemsAreRows DEF GoodRow, Pending
  <2>3. items'[i] = [order |-> items[i].order, product |-> items[i].product,
                     quantity |-> items[i].quantity, owed |-> items[i].owed,
                     fulfilled |-> done(i),
                     backorder |-> IF done(i) >= items[i].owed THEN "fulfilled" ELSE "pending"]
    BY <2>1, <2>2 DEF ItemRow
  <2>4. Take(p, n, i) \in Nat /\ Take(p, n, i) <= Remaining(i)
    <3>1. OwedOf(p)[i] = Remaining(i)
      BY <1>1, <1>2 DEF OwedOf
    <3> QED BY <3>1, OwedAndTaken
  <2>5. /\ items[i].order \in 1..MaxOrders /\ items[i].product \in Product
        /\ items[i].quantity \in Nat /\ items[i].owed \in Nat /\ items[i].fulfilled \in Nat
        /\ items[i].owed <= items[i].quantity /\ items[i].owed # 0
    BY <2>2 DEF GoodRow, ItemRow
  <2>6. done(i) \in Nat /\ done(i) <= items[i].owed
    BY <2>4, <2>5 DEF Remaining
  <2> HIDE DEF done
  <2> QED BY <2>3, <2>5, <2>6 DEF GoodRow, ItemRow, BackorderStatus
<1>3. ASSUME NEW i \in 1..m, ~Served(i) PROVE items'[i] = items[i] /\ GoodRow(items'[i])
  <2>1. items'[i] = items[i]
    BY <1>1, <1>3 DEF Allocated
  <2> QED BY <2>1, ItemsAreRows
<1>4. \A i \in 1..m : GoodRow(items'[i]) /\ items'[i].order = items[i].order
                      /\ items'[i].product = items[i].product
  BY <1>2, <1>3
<1>5. items' \in [1..m -> ItemRow]
  BY <1>1, <1>4 DEF Allocated, GoodRow
<1>6. items' \in Seq(ItemRow) /\ Len(items') = m /\ DOMAIN items' = 1..m
  BY <1>1, <1>5, FunctionIsSequence
<1>7. \A i \in 1..m : items'[i].order \in DOMAIN orders'
  BY <1>4, ItemsAreRows
<1>8. BackordersWellFormed'
  BY <1>4, <1>6 DEF BackordersWellFormed, GoodRow
<1>9. OldestServedFirst'
  <2> SUFFICES ASSUME NEW i \in 1..m, NEW j \in 1..m, i < j,
                      items'[i].product = items'[j].product,
                      items'[i].backorder = "pending"
               PROVE  items'[j].fulfilled = 0
    BY <1>6 DEF OldestServedFirst
  <2>1. items[i].product = items[j].product
    BY <1>4
  <2>2. items[i].backorder = "pending"
    <3>1. CASE Served(i)
      BY <3>1 DEF Pending
    <3>2. CASE ~Served(i)
      BY <3>2, <1>3
    <3> QED BY <3>1, <3>2
  <2>3. items[j].fulfilled = 0
    BY <1>1, <2>1, <2>2 DEF IInv, OldestServedFirst
  <2>4. ASSUME Served(j) PROVE FALSE
    <3>1. Pending(i, p)
      BY <2>1, <2>2, <2>4 DEF Pending
    <3>2. Take(p, n, i) = Remaining(i)
      BY <2>4, <3>1, EarlierFirst
    <3>3. GoodRow(items[i])
      BY ItemsAreRows
    <3>4. /\ items[i].owed \in Nat /\ items[i].fulfilled \in Nat
          /\ items[i].fulfilled < items[i].owed
      BY <2>2, <3>3 DEF GoodRow, ItemRow
    <3>5. Take(p, n, i) > 0 /\ done(i) >= items[i].owed
      BY <3>2, <3>4 DEF Remaining
    <3>6. Served(i)
      BY <3>1, <3>5
    <3> HIDE DEF Served, done
    <3>7. items'[i].backorder = "fulfilled"
      BY <1>2, <3>5, <3>6
    <3> QED BY <3>7
  <2> HIDE DEF Served
  <2> QED BY <1>3, <2>3, <2>4
<1> QED BY <1>1, <1>6, <1>7, <1>8, <1>9 DEF RowsOK
-----------------------------------------------------------------------------
(* The actions *)

\* Units go out of a stock row, or back into it, within its column.
LEMMA TakenOut ==
  ASSUME IInv, NEW units, TakeOut(units), UNCHANGED <<hasStock, reserved, allowOversell>>
  PROVE  StockOK'
<1>1. \A p \in Product \ hasStock : quantity'[p] = quantity[p]
  BY DEF TakeOut
<1> QED BY <1>1 DEF IInv, TypeOK, StockOK, TakeOut

\* A new order comes last and holds what was taken out for it.
LEMMA OrderAppended ==
  ASSUME IInv, Len(orders) + 1 <= MaxOrders, NEW h \in HeldRange,
         orders' = Append(orders, "pending"), held' = Append(held, h)
  PROVE  OrdersOK' /\ DOMAIN orders' = 1..(Len(orders) + 1) /\ DOMAIN orders \subseteq DOMAIN orders'
<1>1. "pending" \in OrderStatus \cup {"deleted"}
  BY StatusAssumption DEF OrderStatus
<1>2. /\ orders \in Seq(OrderStatus \cup {"deleted"}) /\ held \in Seq(HeldRange)
      /\ Len(orders) \in Nat /\ DOMAIN orders = 1..Len(orders) /\ Len(held) = Len(orders)
  BY OrdersAreRows DEF IInv, TypeOK, HeldRange
<1>3. /\ orders' \in Seq(OrderStatus \cup {"deleted"}) /\ Len(orders') = Len(orders) + 1
      /\ held' \in Seq(HeldRange) /\ Len(held') = Len(held) + 1
  BY <1>1, <1>2, AppendProperties
<1>4. DOMAIN orders' = 1..(Len(orders) + 1)
  BY <1>3, LenProperties
<1> QED BY <1>2, <1>3, <1>4 DEF OrdersOK

\* A change of an order's status or of what it holds.
LEMMA OrderChanged ==
  ASSUME IInv, NEW o \in DOMAIN orders, NEW status \in OrderStatus \cup {"deleted"},
         orders' = orders \/ orders' = [orders EXCEPT ![o] = status],
         NEW h \in HeldRange, held' = held \/ held' = [held EXCEPT ![o] = h]
  PROVE  OrdersOK' /\ DOMAIN orders' = DOMAIN orders
<1>1. /\ orders \in Seq(OrderStatus \cup {"deleted"}) /\ held \in Seq(HeldRange)
      /\ Len(orders) \in Nat /\ DOMAIN orders = 1..Len(orders) /\ Len(held) = Len(orders)
      /\ o \in 1..Len(orders) /\ o \in 1..Len(held) /\ Len(orders) <= MaxOrders
  BY OrdersAreRows DEF IInv, TypeOK, HeldRange
<1>2. /\ orders' \in Seq(OrderStatus \cup {"deleted"}) /\ Len(orders') = Len(orders)
      /\ held' \in Seq(HeldRange) /\ Len(held') = Len(held)
  BY <1>1, ExceptSeq
<1>3. DOMAIN orders' = 1..Len(orders)
  BY <1>2, LenProperties
<1> QED BY <1>1, <1>2, <1>3 DEF OrdersOK

\* Creating an order, or adding a line to one, keeps the invariant.
LEMMA SellKeeps == ASSUME IInv, Sell PROVE IInv'
<1>1. ASSUME NEW lines \in Lines, CreateOrder(lines) PROVE IInv'
  <2> DEFINE o == Len(orders) + 1
             taken == [p \in Product |-> Taken(lines, p, Len(lines))]
             rows == NewRows(o, lines)
  <2>1. PICK n \in 1..MaxLines : lines \in [1..n -> Line]
    BY DEF Lines
  <2>2. n \in Nat /\ DOMAIN lines = 1..n
    BY <2>1, BoundAssumption
  <2>3. StockOK'
    <3>1. TakeOut(taken) /\ UNCHANGED <<hasStock, reserved, allowOversell>>
      BY <1>1 DEF CreateOrder
    <3> QED BY <3>1, TakenOut
  <2>4. /\ OrdersOK' /\ o \in 1..MaxOrders
        /\ DOMAIN orders' = 1..o /\ DOMAIN orders \subseteq DOMAIN orders'
    <3>1. /\ o <= MaxOrders /\ orders' = Append(orders, "pending")
          /\ HeldAfter([p \in Product |-> 0], taken) \in HeldRange
          /\ held' = Append(held, HeldAfter([p \in Product |-> 0], taken))
      BY <1>1 DEF CreateOrder
    <3>2. OrdersOK' /\ DOMAIN orders' = 1..o /\ DOMAIN orders \subseteq DOMAIN orders'
      BY <3>1, OrderAppended
    <3>3. o \in 1..MaxOrders
      BY <3>1, OrdersAreRows, BoundAssumption
    <3> QED BY <3>2, <3>3
  <2>5. RowsOK'
    <3>1. rows = [i \in 1..n |-> NewRow(o, lines, i)]
      BY <2>2 DEF NewRows
    <3>2. \A i \in 1..n : /\ GoodRow(NewRow(o, lines, i))
                           /\ NewRow(o, lines, i).fulfilled = 0
                           /\ NewRow(o, lines, i).order = o
      BY <2>1, <2>2, <2>4, NewRowIsGood
    <3> HIDE DEF rows, o
    <3>3. rows \in [1..n -> ItemRow]
      BY <3>1, <3>2 DEF GoodRow
    <3>4. rows \in Seq(ItemRow) /\ Len(rows) = n
      BY <2>2, <3>3, FunctionIsSequence
    <3>5. o \in DOMAIN orders'
      BY <2>4, BoundAssumption
    <3>6. items' = items \o rows /\ Len(items) + Len(rows) <= MaxItems
      <4>1. Len(lines) = n
        BY <2>1, <2>2, FunctionIsSequence
      <4> QED BY <1>1, <3>4, <4>1 DEF CreateOrder, rows, o
    <3>7. \A i \in 1..Len(rows) : GoodRow(rows[i]) /\ rows[i].fulfilled = 0
                                  /\ rows[i].order \in DOMAIN orders'
      BY <3>1, <3>2, <3>4, <3>5
    <3>8. DOMAIN orders \subseteq DOMAIN orders'
      BY <2>4
    <3> QED BY <3>4, <3>6, <3>7, <3>8, AppendedRows
  <2> QED BY <2>3, <2>4, <2>5, Parts
<1>2. ASSUME NEW o \in DOMAIN orders, NEW line \in Line, AddItem(o, line) PROVE IInv'
  <2> DEFINE lines == <<line>>
             taken == [p \in Product |-> IF p = line.product THEN line.quantity ELSE 0]
             row == NewRow(o, lines, 1)
  <2>1. lines \in [1..1 -> Line]
    OBVIOUS
  <2>2. StockOK'
    <3>1. TakeOut(taken) /\ UNCHANGED <<hasStock, reserved, allowOversell>>
      BY <1>2 DEF AddItem
    <3> QED BY <3>1, TakenOut
  <2>3. OrdersOK' /\ DOMAIN orders' = DOMAIN orders
    <3>1. /\ HeldAfter(held[o], taken) \in HeldRange
          /\ held' = [held EXCEPT ![o] = HeldAfter(held[o], taken)]
          /\ orders' = orders
      BY <1>2 DEF AddItem
    <3>2. "pending" \in OrderStatus \cup {"deleted"}
      BY StatusAssumption DEF OrderStatus
    <3> HIDE DEF taken
    <3> QED BY <3>1, <3>2, OrderChanged
  <2>4. RowsOK'
    <3>1. o \in 1..MaxOrders
      BY OrdersAreRows, BoundAssumption DEF IInv, TypeOK
    <3>2. GoodRow(row) /\ row.fulfilled = 0 /\ row.order = o
      <4>1. 1 \in Nat /\ 1 \in 1..1
        OBVIOUS
      <4> HIDE DEF lines
      <4> QED BY <2>1, <3>1, <4>1, NewRowIsGood, SMTT(30)
    <3>3. row \in ItemRow
      BY <3>2 DEF GoodRow
    <3>4. items' = Append(items, row) /\ Len(items) < MaxItems
      BY <1>2 DEF AddItem
    <3>5. items' = items \o <<row>>
      BY <3>3, <3>4, AppendIsConcat DEF IInv, TypeOK
    <3> HIDE DEF row
    <3>6. <<row>> \in Seq(ItemRow) /\ Len(<<row>>) = 1 /\ <<row>>[1] = row
      BY <3>3
    <3>7. Len(items) + Len(<<row>>) <= MaxItems
      BY <3>4, <3>6, ItemsAreRows, BoundAssumption
    <3>8. \A i \in 1..Len(<<row>>) : /\ GoodRow(<<row>>[i]) /\ <<row>>[i].fulfilled = 0
                                     /\ <<row>>[i].order \in DOMAIN orders'
      BY <2>3, <3>2, <3>6
    <3>9. DOMAIN orders \subseteq DOMAIN orders'
      BY <2>3
    <3> DEFINE new == <<row>>
    <3> HIDE DEF new
    <3>10. /\ new \in Seq(ItemRow) /\ items' = items \o new /\ Len(items) + Len(new) <= MaxItems
           /\ \A i \in 1..Len(new) : GoodRow(new[i]) /\ new[i].fulfilled = 0
                                    /\ new[i].order \in DOMAIN orders'
      BY <3>5, <3>6, <3>7, <3>8 DEF new
    <3> QED BY <3>9, <3>10, AppendedRows
  <2> QED BY <2>2, <2>3, <2>4, Parts
<1> QED BY <1>1, <1>2 DEF Sell

\* The parts that a step leaves alone.
LEMMA Untouched ==
  ASSUME IInv
  PROVE  /\ UNCHANGED <<hasStock, quantity, reserved, allowOversell>> => StockOK'
         /\ UNCHANGED <<orders, held>> => OrdersOK' /\ DOMAIN orders' = DOMAIN orders
         /\ items' = items /\ DOMAIN orders' = DOMAIN orders => RowsOK'
  BY DEF IInv, TypeOK, StockOK, OrdersOK, RowsOK, HeldRange, BackordersWellFormed,
         OldestServedFirst, Remaining

\* An order of the public catalog keeps the invariant.
LEMMA BrowseKeeps == ASSUME IInv, Browse PROVE IInv'
<1> SUFFICES ASSUME NEW lines \in Lines, CreateCatalogOrder(lines) PROVE IInv'
  BY DEF Browse
<1> DEFINE o == Len(orders) + 1
           row(i) == [order |-> o, product |-> lines[i].product,
                      quantity |-> lines[i].quantity,
                      owed |-> 0, fulfilled |-> 0, backorder |-> "none"]
           rows == [i \in DOMAIN lines |-> row(i)]
<1>1. PICK n \in 1..MaxLines : lines \in [1..n -> Line]
  BY DEF Lines
<1>2. n \in Nat /\ DOMAIN lines = 1..n
  BY <1>1, BoundAssumption
<1>3. StockOK'
  BY Untouched DEF CreateCatalogOrder
<1>4. OrdersOK' /\ DOMAIN orders' = 1..o /\ DOMAIN orders \subseteq DOMAIN orders' /\ o \in 1..MaxOrders
  <2> DEFINE h == [p \in Product |-> 0]
  <2>1. o <= MaxOrders /\ orders' = Append(orders, "pending") /\ held' = Append(held, h)
    BY DEF CreateCatalogOrder
  <2>2. 0 \in -MaxHeld..MaxHeld
    BY BoundAssumption
  <2>3. h \in HeldRange
    BY <2>2 DEF HeldRange
  <2> HIDE DEF h
  <2>4. o \in 1..MaxOrders
    BY <2>1, OrdersAreRows, BoundAssumption
  <2> QED BY <2>1, <2>3, <2>4, OrderAppended
<1>5. RowsOK'
  <2>1. ASSUME NEW i \in 1..n
        PROVE  /\ GoodRow(row(i)) /\ row(i).fulfilled = 0 /\ row(i).order = o
    <3>1. lines[i] \in Line
      BY <1>1
    <3>2. lines[i].product \in Product /\ lines[i].quantity \in LineQuantity
      BY <3>1 DEF Line
    <3>3. lines[i].quantity \in Nat
      BY <3>2, QuantityAssumption
    <3> HIDE DEF o
    <3> QED BY <1>4, <3>2, <3>3 DEF GoodRow, ItemRow, BackorderStatus
  <2>2. items' = items \o rows /\ Len(items) + Len(lines) <= MaxItems
    BY DEF CreateCatalogOrder
  <2>3. \A i \in 1..n : rows[i] = row(i)
    BY <1>2
  <2>4. o \in DOMAIN orders'
    BY <1>4, BoundAssumption
  <2> HIDE DEF row, o
  <2>5. rows \in [1..n -> ItemRow]
    BY <1>2, <2>1 DEF GoodRow
  <2>6. rows \in Seq(ItemRow) /\ Len(rows) = n /\ Len(lines) = n
    BY <1>1, <1>2, <2>5, FunctionIsSequence
  <2> HIDE DEF rows
  <2>7. \A i \in 1..Len(rows) : GoodRow(rows[i]) /\ rows[i].fulfilled = 0
                                /\ rows[i].order \in DOMAIN orders'
    BY <2>1, <2>3, <2>4, <2>6
  <2>8. Len(items) + Len(rows) <= MaxItems
    BY <2>2, <2>6
  <2> QED BY <1>4, <2>2, <2>6, <2>7, <2>8, AppendedRows
<1> QED BY <1>3, <1>4, <1>5, Parts

\* Giving an order's units back keeps the stock and what orders hold in range.
LEMMA RestoredStock ==
  ASSUME IInv, NEW o \in DOMAIN orders, RestoreStock(o) \/ KeepStock,
         UNCHANGED <<hasStock, reserved, allowOversell>>
  PROVE  StockOK' /\ \E h \in HeldRange : held' = held \/ held' = [held EXCEPT ![o] = h]
<1> DEFINE units == [p \in Product |-> -Ordered(o, p)]
<1>1. CASE RestoreStock(o)
  <2>1. /\ TakeOut(units) /\ HeldAfter(held[o], units) \in HeldRange
        /\ held' = [held EXCEPT ![o] = HeldAfter(held[o], units)]
    BY <1>1 DEF RestoreStock
  <2> HIDE DEF units
  <2> QED BY <2>1, TakenOut
<1>2. CASE KeepStock
  <2>1. held[o] \in HeldRange
    BY OrdersAreRows
  <2> QED BY <1>2, <2>1, Untouched DEF KeepStock
<1> QED BY <1>1, <1>2

\* A change of status keeps the invariant.
LEMMA ChangeStatusKeeps == ASSUME IInv, ChangeStatus PROVE IInv'
<1> SUFFICES ASSUME NEW o \in DOMAIN orders, NEW status \in OrderStatus, UpdateStatus(o, status)
             PROVE  IInv'
  BY DEF ChangeStatus
<1>1. /\ orders' = [orders EXCEPT ![o] = status]
      /\ RestoreStock(o) \/ KeepStock
      /\ items' = CanceledBackorders(o) \/ items' = items
      /\ UNCHANGED <<hasStock, reserved, allowOversell>>
  BY DEF UpdateStatus
<1>2. StockOK'
  BY <1>1, RestoredStock
<1>3. OrdersOK' /\ DOMAIN orders' = DOMAIN orders
  <2>1. PICK h \in HeldRange : held' = held \/ held' = [held EXCEPT ![o] = h]
    BY <1>1, RestoredStock
  <2> QED BY <1>1, <2>1, OrderChanged
<1>4. RowsOK'
  BY <1>1, <1>3, CanceledRows, Untouched
<1> QED BY <1>2, <1>3, <1>4, Parts

\* Deleting an order, alone or with its customer, keeps the invariant.
LEMMA DeleteKeeps == ASSUME IInv, Delete \/ Cascade PROVE IInv'
<1> SUFFICES ASSUME NEW o \in DOMAIN orders, DeleteOrder(o) \/ DeleteCustomer(o)
             PROVE  IInv'
  BY DEF Delete, Cascade
<1>1. /\ orders' = [orders EXCEPT ![o] = "deleted"]
      /\ RestoreStock(o) \/ KeepStock
      /\ items' = ErasedRows(o)
      /\ UNCHANGED <<hasStock, reserved, allowOversell>>
  BY DEF DeleteOrder, DeleteCustomer
<1>2. StockOK'
  BY <1>1, RestoredStock
<1>3. OrdersOK' /\ DOMAIN orders' = DOMAIN orders
  <2>1. PICK h \in HeldRange : held' = held \/ held' = [held EXCEPT ![o] = h]
    BY <1>1, RestoredStock
  <2> QED BY <1>1, <2>1, OrderChanged
<1>4. RowsOK'
  BY <1>1, <1>3, RowsErased
<1> QED BY <1>2, <1>3, <1>4, Parts

\* An arrival, with its allocation, keeps the invariant.
LEMMA RestockKeeps == ASSUME IInv, Restock PROVE IInv'
<1> SUFFICES ASSUME NEW p \in Product, NEW n \in LineQuantity, StockIn(p, n) PROVE IInv'
  BY DEF Restock
<1> DEFINE after == quantity[p] + n
           covered == Deficit(p) - AtLeastZero(reserved[p] - after)
<1>1. /\ after \in IntColumn /\ hasStock' = hasStock \cup {p}
      /\ quantity' = [quantity EXCEPT ![p] = after]
      /\ items' = Allocated(p, covered)
      /\ UNCHANGED <<reserved, allowOversell, orders, held>>
  BY DEF StockIn
<1>2. covered \in Nat
  <2>1. n \in Nat
    BY QuantityAssumption
  <2>2. quantity[p] \in Int /\ reserved[p] \in Int
    BY QuantitiesAreIntegers
  <2> QED BY <2>1, <2>2 DEF Deficit, AtLeastZero
<1> HIDE DEF after, covered
<1>3. StockOK'
  BY <1>1 DEF IInv, TypeOK, StockOK
<1>4. OrdersOK' /\ DOMAIN orders' = DOMAIN orders
  BY <1>1, Untouched
<1>5. RowsOK'
  BY <1>1, <1>2, <1>4, AllocatedRows
<1> QED BY <1>3, <1>4, <1>5, Parts

\* A removal, a manual edit or a change of allow_oversell keeps the invariant.
LEMMA ManualKeeps == ASSUME IInv, Withdraw \/ Patch \/ Configure PROVE IInv'
<1>1. UNCHANGED <<orders, items, held>>
  BY DEF Withdraw, Patch, Configure, StockOut, UpsertStock, SetOversell
<1>2. OrdersOK' /\ RowsOK'
  BY <1>1, Untouched
<1>3. CASE Withdraw
  <2>1. PICK p \in Product, n \in LineQuantity : StockOut(p, n)
    BY <1>3 DEF Withdraw
  <2>2. StockOK'
    BY <2>1 DEF StockOut, IInv, TypeOK, StockOK
  <2> QED BY <1>2, <2>2, Parts
<1>4. CASE Patch
  <2>0. PICK p \in Product :
           \E q \in PatchQuantity \cup {quantity[p]}, r \in PatchReserved \cup {reserved[p]} :
              UpsertStock(p, q, r)
    BY <1>4 DEF Patch
  <2>1. PICK q \in PatchQuantity \cup {quantity[p]}, r \in PatchReserved \cup {reserved[p]} :
           UpsertStock(p, q, r)
    BY <2>0
  <2>2. q \in IntColumn /\ r \in IntColumn
    BY QuantityAssumption DEF IInv, TypeOK
  <2>3. StockOK'
    BY <2>1, <2>2 DEF UpsertStock, IInv, TypeOK, StockOK
  <2> QED BY <1>2, <2>3, Parts
<1>5. CASE Configure
  <2>1. PICK p \in Product, b \in BOOLEAN : SetOversell(p, b)
    BY <1>5 DEF Configure
  <2>2. StockOK'
    BY <2>1 DEF SetOversell, IInv, TypeOK, StockOK
  <2> QED BY <1>2, <2>2, Parts
<1> QED BY <1>3, <1>4, <1>5
-----------------------------------------------------------------------------
(* The theorems *)

\* The invariant holds of the empty tables.
LEMMA InitHolds == Init => IInv
<1> SUFFICES ASSUME Init PROVE IInv
  OBVIOUS
<1>1. TypeOK
  BY ColumnAssumption, BoundAssumption DEF Init, TypeOK
<1>2. BackordersWellFormed /\ OldestServedFirst
  BY DEF Init, BackordersWellFormed, OldestServedFirst
<1> QED BY <1>1, <1>2 DEF IInv

\* The invariant is inductive.
LEMMA NextKeeps == IInv /\ [Next]_vars => IInv'
<1> SUFFICES ASSUME IInv, [Next]_vars PROVE IInv'
  OBVIOUS
<1>1. CASE UNCHANGED vars
  <2>1. StockOK' /\ OrdersOK' /\ RowsOK'
    BY <1>1, Untouched DEF vars
  <2> QED BY <2>1, Parts
<1> QED BY <1>1, SellKeeps, BrowseKeeps, RestockKeeps, ChangeStatusKeeps, DeleteKeeps,
           ManualKeeps DEF Next

\* Every row keeps the type of its table, for any products, quantities, column
\* width and bounds.
THEOREM TypeCorrect == Spec => []TypeOK
<1>1. IInv => TypeOK
  BY DEF IInv
<1> QED BY <1>1, InitHolds, NextKeeps, PTL DEF Spec

\* A backorder never asks for more than its line, never receives more than it
\* asks for, and is closed exactly when it has received it all.
THEOREM BackordersStayWellFormed == Spec => []BackordersWellFormed
<1>1. IInv => BackordersWellFormed
  BY DEF IInv
<1> QED BY <1>1, InitHolds, NextKeeps, PTL DEF Spec

\* Arrivals serve the oldest line first, over any number of orders and lines.
THEOREM OldestIsServedFirst == Spec => []OldestServedFirst
<1>1. IInv => OldestServedFirst
  BY DEF IInv
<1> QED BY <1>1, InitHolds, NextKeeps, PTL DEF Spec
-----------------------------------------------------------------------------
(* What a step may never do, from the invariant *)

\* The lines of a product that does not allow oversell take no more of it than
\* there is, however many of them an order has.
LEMMA LinesWithinStock ==
  ASSUME IInv, NEW n \in Nat, NEW lines \in [1..n -> Line], Acceptable(lines),
         NEW p \in hasStock, ~allowOversell[p]
  PROVE  Taken(lines, p, n) = 0 \/ Available(p) - Taken(lines, p, n) >= 0
<1> DEFINE within(m) == Taken(lines, p, m) = 0 \/ Available(p) - Taken(lines, p, m) >= 0
           T == {m \in Nat : m <= n => within(m)}
<1>0. p \in Product
  BY DEF IInv, TypeOK
<1>1. 0 \in T
  <2>1. Taken(lines, p, 0) = 0
    BY SumDef DEF Taken
  <2> QED BY <2>1
<1>2. ASSUME NEW m \in T PROVE m + 1 \in T
  <2> SUFFICES ASSUME m + 1 <= n PROVE within(m + 1)
    OBVIOUS
  <2>1. m \in 0..n /\ m + 1 \in 1..n /\ m \in Nat /\ within(m)
    OBVIOUS
  <2>2. Taken(lines, p, m) \in Nat /\ Available(p) \in Int
    BY <1>0, <2>1, TakenIsNatural, QuantitiesAreIntegers
  <2>3. Taken(lines, p, m + 1) = Taken(lines, p, m) + UnitsOf(lines, p)[m + 1]
    BY <2>1, SumDef DEF Taken
  <2>4. lines[m + 1] \in Line
    BY <2>1
  <2>5. CASE lines[m + 1].product = p
    <3>1. UnitsOf(lines, p)[m + 1] = lines[m + 1].quantity
      BY <2>1, <2>5 DEF UnitsOf
    <3>2. ~Short(lines, m + 1)
      BY <2>1, <2>5 DEF Acceptable
    <3>3. (m + 1) - 1 = m
      BY <2>1
    <3>4. ~(Available(p) - Taken(lines, p, m) < lines[m + 1].quantity)
      BY <2>5, <3>2, <3>3 DEF Short, AvailableAt
    <3>5. lines[m + 1].quantity \in LineQuantity
      BY <2>4 DEF Line
    <3>6. lines[m + 1].quantity \in Nat
      BY <3>5, QuantityAssumption
    <3> HIDE DEF within
    <3>7. Available(p) - Taken(lines, p, m + 1) >= 0
      BY <2>2, <2>3, <3>1, <3>4, <3>6
    <3> QED BY <3>7 DEF within
  <2>6. CASE lines[m + 1].product # p
    <3>1. UnitsOf(lines, p)[m + 1] = 0
      BY <2>1, <2>6 DEF UnitsOf
    <3>2. Taken(lines, p, m + 1) = Taken(lines, p, m)
      BY <2>2, <2>3, <3>1
    <3> QED BY <2>1, <3>2
  <2> QED BY <2>5, <2>6
<1>3. T \in SUBSET Nat
  OBVIOUS
<1>4. n \in T
  <2> HIDE DEF T
  <2> QED BY <1>1, <1>2, <1>3, SetInduction
<1> QED BY <1>4

\* Taking units out of stock rows lowers what is available by just as much.
LEMMA AvailableAfter ==
  ASSUME IInv, NEW units \in [Product -> Int], TakeOut(units), UNCHANGED reserved, NEW p \in Product
  PROVE  Available(p)' = IF p \in hasStock THEN Available(p) - units[p] ELSE Available(p)
<1>1. quantity'[p] = IF p \in hasStock THEN quantity[p] - units[p] ELSE quantity[p]
  BY DEF TakeOut
<1>2. quantity[p] \in Int /\ reserved[p] \in Int /\ units[p] \in Int
  BY QuantitiesAreIntegers
<1> QED BY <1>1, <1>2 DEF Available

\* What order o holds of p is a natural number of units.
LEMMA OrderedIsNatural ==
  ASSUME IInv, NEW o, NEW p \in Product
  PROVE  Ordered(o, p) \in Nat
<1>1. Len(items) \in Nat /\ DOMAIN items = 1..Len(items)
  BY ItemsAreRows
<1>2. ASSUME NEW i \in 1..Len(items) PROVE ItemsOf(o, p)[i] \in Nat
  <2>1. items[i].quantity \in Nat
    BY ItemsAreRows DEF GoodRow, ItemRow
  <2> QED BY <1>1, <2>1 DEF ItemsOf
<1>3. Len(items) \in 0..Len(items) /\ Len(items) <= Len(items)
  BY <1>1
<1> QED BY <1>1, <1>2, <1>3, SumMonotonic DEF Ordered

\* Giving an order's units back never lowers what is available.
LEMMA RestoreAddsStock ==
  ASSUME IInv, NEW o, RestoreStock(o) \/ KeepStock, UNCHANGED reserved, NEW p \in Product
  PROVE  ~(Available(p)' < Available(p))
<1>1. Available(p) \in Int
  BY QuantitiesAreIntegers
<1>2. CASE RestoreStock(o)
  <2> DEFINE units == [q \in Product |-> -Ordered(o, q)]
  <2>1. TakeOut(units)
    BY <1>2 DEF RestoreStock
  <2>2. \A q \in Product : Ordered(o, q) \in Nat
    BY OrderedIsNatural
  <2>3. units \in [Product -> Int] /\ units[p] = -Ordered(o, p)
    BY <2>2
  <2> HIDE DEF units
  <2>4. Available(p)' = IF p \in hasStock THEN Available(p) - units[p] ELSE Available(p)
    BY <2>1, <2>3, AvailableAfter
  <2> QED BY <1>1, <2>2, <2>3, <2>4
<1>3. CASE KeepStock
  BY <1>1, <1>3 DEF KeepStock, Available
<1> QED BY <1>2, <1>3

\* One line takes its quantity of its product.
LEMMA OneLineTakes ==
  ASSUME NEW line \in Line, NEW p \in Product, line.quantity \in Nat
  PROVE  Taken(<<line>>, p, 1) = IF p = line.product THEN line.quantity ELSE 0
<1> DEFINE lines == <<line>>
<1>1. UnitsOf(lines, p)[1] = IF p = line.product THEN line.quantity ELSE 0
  BY DEF UnitsOf
<1>2. Sum(UnitsOf(lines, p), 0) = 0
  BY SumDef
<1>3. 0 \in Nat /\ 0 + 1 = 1
  OBVIOUS
<1>4. Sum(UnitsOf(lines, p), 1) = Sum(UnitsOf(lines, p), 0) + UnitsOf(lines, p)[1]
  BY <1>3, SumDef
<1> HIDE DEF lines
<1>5. Taken(lines, p, 1) = IF p = line.product THEN line.quantity ELSE 0
  BY <1>1, <1>2, <1>4 DEF Taken
<1> QED BY <1>5 DEF lines

\* A sale makes a product go short only if it allows oversell.
LEMMA SellGoesShort ==
  ASSUME IInv, Sell, NEW p \in Product, Available(p)' < 0, Available(p)' < Available(p)
  PROVE  allowOversell[p]
<1>0. Available(p) \in Int
  BY QuantitiesAreIntegers
<1>1. ASSUME NEW n \in Nat, NEW lines \in [1..n -> Line], Acceptable(lines),
             NEW units \in [Product -> Int], TakeOut(units), UNCHANGED reserved,
             units[p] = Taken(lines, p, n)
      PROVE  allowOversell[p]
  <2>1. Available(p)' = IF p \in hasStock THEN Available(p) - units[p] ELSE Available(p)
    BY <1>1, AvailableAfter
  <2>2. p \in hasStock /\ Taken(lines, p, n) \in Nat
    <3>1. n \in 0..n
      BY <1>1
    <3> QED BY <1>0, <1>1, <2>1, <3>1, TakenIsNatural
  <2>3. ASSUME ~allowOversell[p] PROVE FALSE
    <3>1. Taken(lines, p, n) = 0 \/ Available(p) - Taken(lines, p, n) >= 0
      BY <1>1, <2>2, <2>3, LinesWithinStock
    <3> QED BY <1>0, <1>1, <2>1, <2>2, <3>1
  <2> QED BY <2>3
<1>2. ASSUME NEW lines \in Lines, CreateOrder(lines) PROVE allowOversell[p]
  <2> DEFINE units == [q \in Product |-> Taken(lines, q, Len(lines))]
  <2>1. PICK n \in 1..MaxLines : lines \in [1..n -> Line]
    BY DEF Lines
  <2>2. n \in Nat /\ Len(lines) = n /\ n \in 0..n
    BY <2>1, BoundAssumption, FunctionIsSequence
  <2>3. TakeOut(units) /\ UNCHANGED reserved /\ Acceptable(lines)
    BY <1>2 DEF CreateOrder
  <2>4. units \in [Product -> Int] /\ units[p] = Taken(lines, p, n)
    <3>1. \A q \in Product : Taken(lines, q, n) \in Nat
      BY <2>1, <2>2, TakenIsNatural
    <3> QED BY <2>2, <3>1
  <2> HIDE DEF units
  <2> QED BY <1>1, <2>1, <2>2, <2>3, <2>4
<1>3. ASSUME NEW o \in DOMAIN orders, NEW line \in Line, AddItem(o, line) PROVE allowOversell[p]
  <2> DEFINE units == [q \in Product |-> IF q = line.product THEN line.quantity ELSE 0]
             lines == <<line>>
  <2>1. lines \in [1..1 -> Line] /\ lines[1] = line /\ 1 \in Nat
    OBVIOUS
  <2>2. TakeOut(units) /\ UNCHANGED reserved /\ Acceptable(lines)
    BY <1>3 DEF AddItem
  <2>3. line.quantity \in Nat
    <3>1. line.quantity \in LineQuantity
      BY DEF Line
    <3> QED BY <3>1, QuantityAssumption
  <2>4. units \in [Product -> Int]
    BY <2>3
  <2>5. units[p] = Taken(lines, p, 1)
    BY <2>3, OneLineTakes
  <2> HIDE DEF units, lines
  <2> QED BY <1>1, <2>1, <2>2, <2>4, <2>5
<1> QED BY <1>2, <1>3 DEF Sell

\* Each step satisfies the body of OnlyOversellGoesShort.
LEMMA GoesShortStep ==
  ASSUME IInv, [Next]_vars, NEW p \in Product, Available(p)' < 0, Available(p)' < Available(p)
  PROVE  allowOversell[p] \/ Withdraw \/ Patch
<1>0. Available(p) \in Int /\ quantity[p] \in Int /\ reserved[p] \in Int
  BY QuantitiesAreIntegers
<1>1. CASE Sell
  BY <1>1, SellGoesShort
<1>2. CASE Browse \/ Configure \/ UNCHANGED vars
  <2>1. UNCHANGED <<quantity, reserved>>
    BY <1>2 DEF Browse, CreateCatalogOrder, Configure, SetOversell, vars
  <2> QED BY <1>0, <2>1 DEF Available
<1>3. CASE Restock
  <2>1. PICK q \in Product, n \in LineQuantity : StockIn(q, n)
    BY <1>3 DEF Restock
  <2>2. n \in Nat
    BY QuantityAssumption
  <2>3. quantity'[p] = IF p = q THEN quantity[p] + n ELSE quantity[p]
    BY <2>1 DEF StockIn, IInv, TypeOK
  <2>4. reserved' = reserved
    BY <2>1 DEF StockIn
  <2> QED BY <1>0, <2>2, <2>3, <2>4 DEF Available
<1>4. CASE ChangeStatus \/ Delete \/ Cascade
  <2>1. PICK o \in DOMAIN orders : RestoreStock(o) \/ KeepStock
    BY <1>4 DEF ChangeStatus, Delete, Cascade, UpdateStatus, DeleteOrder, DeleteCustomer
  <2>2. UNCHANGED reserved
    BY <1>4 DEF ChangeStatus, Delete, Cascade, UpdateStatus, DeleteOrder, DeleteCustomer
  <2> QED BY <2>1, <2>2, RestoreAddsStock
<1> QED BY <1>1, <1>2, <1>3, <1>4 DEF Next

\* What is available of a product falls below zero only if the product allows
\* oversell, or by a manual stock operation.
THEOREM OnlyOversellShort == Spec => OnlyOversellGoesShort
<1>1. IInv /\ [Next]_vars =>
        [\A p \in Product : Available(p)' < 0 /\ Available(p)' < Available(p)
            => allowOversell[p] \/ Withdraw \/ Patch]_vars
  BY GoesShortStep
<1> QED BY <1>1, InitHolds, NextKeeps, PTL DEF Spec, OnlyOversellGoesShort
-----------------------------------------------------------------------------
(* What an order holds *)

\* Units are held or given back by one order at a time.
LEMMA HeldChange ==
  ASSUME IInv, NEW o \in DOMAIN orders, NEW h, NEW x \in DOMAIN orders, x # o,
         held' = [held EXCEPT ![o] = h]
  PROVE  held'[x] = held[x]
  BY OrdersAreRows

\* Each step satisfies the body of RestoredOnceOnLeaving.
LEMMA RestoredStep ==
  ASSUME IInv, [Next]_vars, NEW o \in DOMAIN orders, NEW p \in Product, held'[o][p] < held[o][p]
  PROVE  orders[o] \in OpenStatus /\ orders'[o] \in {"canceled", "deleted"}
<1>0. held[o][p] \in Int
  <2>1. held[o] \in HeldRange
    BY OrdersAreRows
  <2> QED BY <2>1, BoundAssumption DEF HeldRange
<1>1. orders[o] \in OrderStatus \cup {"deleted"} /\ o \in 1..Len(orders)
  BY OrdersAreRows
<1>2. CASE Sell
  <2>1. ASSUME NEW lines \in Lines, CreateOrder(lines) PROVE FALSE
    <3>1. PICK h \in HeldRange : held' = Append(held, h)
      BY <2>1 DEF CreateOrder
    <3>2. held \in Seq(HeldRange) /\ o \in 1..Len(held)
      BY OrdersAreRows DEF IInv, TypeOK, HeldRange
    <3>3. held'[o] = held[o]
      BY <3>1, <3>2, AppendProperties
    <3> QED BY <1>0, <3>3
  <2>2. ASSUME NEW x \in DOMAIN orders, NEW line \in Line, AddItem(x, line) PROVE FALSE
    <3> DEFINE units == [q \in Product |-> IF q = line.product THEN line.quantity ELSE 0]
    <3>1. held' = [held EXCEPT ![x] = HeldAfter(held[x], units)]
      BY <2>2 DEF AddItem
    <3>2. line.quantity \in LineQuantity
      BY DEF Line
    <3>3. units[p] \in Nat
      BY <3>2, QuantityAssumption
    <3> HIDE DEF units
    <3>4. CASE x = o
      <4>1. held'[o] = HeldAfter(held[o], units)
        BY <3>1, <3>4, OrdersAreRows
      <4>2. held'[o][p] = IF p \in hasStock THEN held[o][p] + units[p] ELSE held[o][p]
        BY <4>1 DEF HeldAfter
      <4> QED BY <1>0, <3>3, <4>2
    <3>5. CASE x # o
      <4>1. held'[o] = held[o]
        BY <3>1, <3>5, HeldChange
      <4> QED BY <1>0, <4>1
    <3> QED BY <3>4, <3>5
  <2> QED BY <1>2, <2>1, <2>2 DEF Sell
<1>3. CASE Browse
  <2>1. PICK h \in HeldRange : held' = Append(held, h)
    <3>1. [q \in Product |-> 0] \in HeldRange
      BY BoundAssumption DEF HeldRange
    <3> QED BY <1>3, <3>1 DEF Browse, CreateCatalogOrder
  <2>2. held \in Seq(HeldRange) /\ o \in 1..Len(held)
    BY OrdersAreRows DEF IInv, TypeOK, HeldRange
  <2>3. held'[o] = held[o]
    BY <2>1, <2>2, AppendProperties
  <2> QED BY <1>0, <2>3
<1>4. CASE Restock \/ Withdraw \/ Patch \/ Configure \/ Cascade \/ UNCHANGED vars
  <2>1. held' = held
    BY <1>4 DEF Restock, StockIn, Withdraw, StockOut, Patch, UpsertStock, Configure, SetOversell,
                Cascade, DeleteCustomer, KeepStock, vars
  <2> QED BY <1>0, <2>1
<1>5. CASE ChangeStatus
  <2>1. PICK x \in DOMAIN orders, status \in OrderStatus : UpdateStatus(x, status)
    BY <1>5 DEF ChangeStatus
  <2>2. held' # held
    BY <1>0
  <2>3. Cancels(x, status) /\ RestoreStock(x)
    BY <2>1, <2>2 DEF UpdateStatus, KeepStock
  <2>4. x = o
    BY <1>0, <2>3, HeldChange DEF RestoreStock
  <2>5. orders'[o] = status /\ orders[o] # "deleted"
    BY <1>1, <2>1, <2>4, OrdersAreRows DEF UpdateStatus
  <2> QED BY <1>1, <2>3, <2>4, <2>5 DEF Cancels, OrderStatus
<1>6. CASE Delete
  <2>1. PICK x \in DOMAIN orders : DeleteOrder(x)
    BY <1>6 DEF Delete
  <2>2. held' # held
    BY <1>0
  <2>3. orders[x] # "canceled" /\ RestoreStock(x)
    BY <2>1, <2>2 DEF DeleteOrder, KeepStock
  <2>4. x = o
    BY <1>0, <2>3, HeldChange DEF RestoreStock
  <2>5. orders'[o] = "deleted" /\ orders[o] # "deleted"
    BY <1>1, <2>1, <2>4, OrdersAreRows DEF DeleteOrder
  <2> QED BY <1>1, <2>3, <2>4, <2>5 DEF OrderStatus
<1> QED BY <1>2, <1>3, <1>4, <1>5, <1>6 DEF Next

\* An order gives stock back only on its way from an open status into canceled
\* or deleted.
THEOREM RestoredOnLeaving == Spec => RestoredOnceOnLeaving
<1>1. IInv /\ [Next]_vars =>
        [\A o \in DOMAIN orders : \A p \in Product :
            held'[o][p] < held[o][p]
               => orders[o] \in OpenStatus /\ orders'[o] \in {"canceled", "deleted"}]_vars
  BY RestoredStep
<1> QED BY <1>1, InitHolds, NextKeeps, PTL DEF Spec, RestoredOnceOnLeaving
-----------------------------------------------------------------------------
(* The balance of backorders and deficit, from the totals of SumsProofs *)

\* Units of p that an order of the first n lines adds to the deficit.
Shortfall(lines, p, n) ==
    IF p \in hasStock
    THEN AtLeastZero(Taken(lines, p, n) - Available(p)) - Deficit(p) ELSE 0

\* What a row waits for if it is a pending row of p.
StillOwed(row, p) ==
    IF row.product = p /\ row.backorder = "pending" THEN row.owed - row.fulfilled ELSE 0

\* What the rows of a product still owe are natural numbers, and so is their total.
LEMMA PendingIsNatural ==
  ASSUME IInv, NEW p \in Product
  PROVE  /\ PendingOwed(p) \in Nat
         /\ \A i \in 1..Len(items) : OwedOf(p)[i] = StillOwed(items[i], p) /\ OwedOf(p)[i] \in Nat
<1>1. Len(items) \in Nat /\ DOMAIN items = 1..Len(items)
  BY ItemsAreRows
<1>2. Len(items) \in 0..Len(items) /\ Len(items) <= Len(items) /\ 0 \in Nat
  BY <1>1
<1>3. Sum(OwedOf(p), Len(items)) \in Nat /\ \A i \in 1..Len(items) : OwedOf(p)[i] \in Nat
  BY <1>2, OwedAndTaken
<1>4. \A i \in 1..Len(items) : OwedOf(p)[i] = StillOwed(items[i], p)
  BY <1>1 DEF OwedOf, StillOwed, Pending, Remaining
<1> QED BY <1>3, <1>4 DEF PendingOwed

\* The stock is short of p by what is available of it below zero.
LEMMA DeficitOfAvailable ==
  ASSUME IInv, NEW p \in Product
  PROVE  Deficit(p) = AtLeastZero(-Available(p))
<1>1. quantity[p] \in Int /\ reserved[p] \in Int
  BY QuantitiesAreIntegers
<1> QED BY <1>1 DEF Deficit, Available, AtLeastZero
-----------------------------------------------------------------------------
(* New lines *)

\* Rows that are appended add what they owe.
LEMMA AppendedOwe ==
  ASSUME IInv, NEW rows \in Seq(ItemRow), items' = items \o rows, NEW p \in Product, NEW h,
         \A i \in 1..Len(rows) : h[i] = StillOwed(rows[i], p)
  PROVE  PendingOwed(p)' = PendingOwed(p) + Sum(h, Len(rows))
<1> DEFINE n == Len(items)
           m == Len(rows)
           f == [i \in DOMAIN items' |-> StillOwed(items'[i], p)]
           g == OwedOf(p)
<1>1. n \in Nat /\ m \in Nat /\ items \in Seq(ItemRow)
  BY ItemsAreRows, LenProperties DEF IInv, TypeOK
<1>2. /\ items' \in Seq(ItemRow) /\ Len(items') = n + m
      /\ \A i \in 1..(n + m) : items'[i] = IF i <= n THEN items[i] ELSE rows[i - n]
  BY <1>1, ConcatProperties
<1>3. DOMAIN items' = 1..(n + m)
  BY <1>2, LenProperties
<1>4. PendingOwed(p)' = Sum(f, n + m)
  BY <1>2 DEF PendingOwed, OwedOf, StillOwed, Pending, Remaining
<1>5. \A i \in 1..n : f[i] = g[i] /\ g[i] \in Int
  <2>1. \A i \in 1..n : i \in DOMAIN items' /\ items'[i] = items[i]
    BY <1>1, <1>2, <1>3
  <2> QED BY <2>1, PendingIsNatural
<1>6. \A i \in 1..m : f[n + i] = h[i] /\ h[i] \in Int
  <2> SUFFICES ASSUME NEW i \in 1..m PROVE f[n + i] = h[i] /\ h[i] \in Int
    OBVIOUS
  <2>1. n + i \in DOMAIN items' /\ items'[n + i] = rows[i]
    BY <1>1, <1>2, <1>3
  <2>2. rows[i] \in ItemRow
    BY LenProperties
  <2>3. StillOwed(rows[i], p) \in Int
    BY <2>2, SMTT(30) DEF StillOwed, ItemRow
  <2> QED BY <2>1, <2>3
<1>7. Sum(f, n + m) = Sum(g, n) + Sum(h, m)
  <2>1. Continued(f, g, h, n, m)
    BY <1>5, <1>6 DEF Continued
  <2> HIDE DEF f, g, n, m
  <2> QED BY <1>1, <2>1, SumConcat
<1> QED BY <1>4, <1>7 DEF PendingOwed

\* The lines of a sale owe together what the sale adds to the deficit.
LEMMA LinesOweShortfall ==
  ASSUME IInv, NEW n \in Nat, NEW lines \in [1..n -> Line], NEW p \in Product, NEW h,
         \A i \in 1..n : h[i] = IF lines[i].product = p THEN Owed(lines, i) ELSE 0
  PROVE  Sum(h, n) = Shortfall(lines, p, n)
<1> DEFINE T == {m \in Nat : m <= n => Sum(h, m) = Shortfall(lines, p, m)}
<1>0. Available(p) \in Int /\ Deficit(p) \in Nat /\ Deficit(p) = AtLeastZero(-Available(p))
  BY QuantitiesAreIntegers, DeficitOfAvailable
<1>1. 0 \in T
  <2>1. Sum(h, 0) = 0 /\ Taken(lines, p, 0) = 0
    BY SumDef DEF Taken
  <2>2. Shortfall(lines, p, 0) = 0
    BY <1>0, <2>1 DEF Shortfall, AtLeastZero
  <2> QED BY <2>1, <2>2
<1>2. ASSUME NEW m \in T PROVE m + 1 \in T
  <2> SUFFICES ASSUME m + 1 <= n PROVE Sum(h, m + 1) = Shortfall(lines, p, m + 1)
    OBVIOUS
  <2>1. /\ m \in 0..n /\ m + 1 \in 1..n /\ m \in Nat /\ (m + 1) - 1 = m
        /\ Sum(h, m) = Shortfall(lines, p, m)
    OBVIOUS
  <2> HIDE DEF T
  <2>2. Taken(lines, p, m) \in Nat
    BY <2>1, TakenIsNatural
  <2>3. /\ Taken(lines, p, m + 1) = Taken(lines, p, m) + UnitsOf(lines, p)[m + 1]
        /\ Sum(h, m + 1) = Sum(h, m) + h[m + 1]
    BY <2>1, SumDef DEF Taken
  <2>4. lines[m + 1] \in Line
    BY <2>1
  <2>5. lines[m + 1].quantity \in Nat /\ lines[m + 1].quantity > 0
    <3>1. lines[m + 1].quantity \in LineQuantity
      BY <2>4 DEF Line
    <3>2. lines[m + 1].quantity \in Nat \ {0}
      BY <3>1, QuantityAssumption
    <3> QED BY <3>2
  <2>6. CASE lines[m + 1].product = p
    <3> DEFINE q == lines[m + 1].quantity
               t == Taken(lines, p, m)
    <3>1. UnitsOf(lines, p)[m + 1] = q
      BY <2>1, <2>6 DEF UnitsOf
    <3>2. h[m + 1] = Owed(lines, m + 1)
      BY <2>1, <2>6
    <3>3. AvailableAt(lines, m + 1) = Available(p) - t
      BY <2>1, <2>6 DEF AvailableAt
    <3>4. h[m + 1] = IF p \in hasStock /\ Available(p) - t < q
                     THEN q - AtLeastZero(Available(p) - t) ELSE 0
      BY <2>6, <3>2, <3>3 DEF Owed, Short
    <3> HIDE DEF q, t
    <3>5. q \in Nat /\ q > 0 /\ t \in Nat /\ Taken(lines, p, m + 1) = t + q
      BY <2>2, <2>3, <2>5, <3>1 DEF q, t
    <3>6. Shortfall(lines, p, m) = IF p \in hasStock
                                   THEN AtLeastZero(t - Available(p)) - Deficit(p) ELSE 0
      BY DEF Shortfall, t
    <3>7. Shortfall(lines, p, m + 1) = IF p \in hasStock
                                   THEN AtLeastZero((t + q) - Available(p)) - Deficit(p) ELSE 0
      BY <3>5 DEF Shortfall
    <3>8. CASE p \in hasStock
      <4> DEFINE a == Available(p)
      <4>1. /\ Sum(h, m + 1) = AtLeastZero(t - a) - Deficit(p) + h[m + 1]
            /\ h[m + 1] = IF a - t < q THEN q - AtLeastZero(a - t) ELSE 0
            /\ Shortfall(lines, p, m + 1) = AtLeastZero((t + q) - a) - Deficit(p)
        BY <2>1, <2>3, <3>4, <3>6, <3>7, <3>8
      <4>2. a \in Int /\ Deficit(p) \in Nat
        BY <1>0
      <4> HIDE DEF a
      <4> QED BY <3>5, <4>1, <4>2 DEF AtLeastZero
    <3>9. CASE p \notin hasStock
      BY <2>1, <2>3, <3>4, <3>6, <3>7, <3>9
    <3> QED BY <3>8, <3>9
  <2>7. CASE lines[m + 1].product # p
    <3>1. UnitsOf(lines, p)[m + 1] = 0 /\ h[m + 1] = 0
      BY <2>1, <2>7 DEF UnitsOf
    <3>2. Taken(lines, p, m + 1) = Taken(lines, p, m)
      BY <2>2, <2>3, <3>1
    <3>3. Shortfall(lines, p, m + 1) = Shortfall(lines, p, m)
      BY <3>2 DEF Shortfall
    <3>4. Shortfall(lines, p, m) \in Int
      BY <1>0, <2>2 DEF Shortfall, AtLeastZero
    <3> QED BY <2>1, <2>3, <3>1, <3>3, <3>4
  <2> QED BY <2>6, <2>7
<1>3. T \in SUBSET Nat
  OBVIOUS
<1>4. n \in T
  <2> HIDE DEF T
  <2> QED BY <1>1, <1>2, <1>3, SetInduction
<1> QED BY <1>4

\* A sale makes backorders and deficit grow by the same units.
LEMMA LinesKeepGap ==
  ASSUME IInv, NEW o \in 1..MaxOrders, NEW n \in Nat, NEW lines \in [1..n -> Line],
         items' = items \o NewRows(o, lines), NEW units \in [Product -> Int], TakeOut(units),
         UNCHANGED reserved, NEW p \in Product, units[p] = Taken(lines, p, n)
  PROVE  \E d \in Int : PendingOwed(p)' = PendingOwed(p) + d /\ Deficit(p)' = Deficit(p) + d
<1> DEFINE rows == NewRows(o, lines)
           h == [i \in 1..n |-> IF lines[i].product = p THEN Owed(lines, i) ELSE 0]
           d == Shortfall(lines, p, n)
<1>1. DOMAIN lines = 1..n
  OBVIOUS
<1>2. \A i \in 1..n : GoodRow(NewRow(o, lines, i)) /\ NewRow(o, lines, i).fulfilled = 0
  BY NewRowIsGood
<1>3. rows \in Seq(ItemRow) /\ Len(rows) = n /\ \A i \in 1..n : rows[i] = NewRow(o, lines, i)
  <2>1. rows \in [1..n -> ItemRow]
    BY <1>1, <1>2 DEF NewRows, GoodRow
  <2> QED BY <1>1, <2>1, FunctionIsSequence DEF NewRows
<1>4. \A i \in 1..n : h[i] = StillOwed(rows[i], p)
  <2> SUFFICES ASSUME NEW i \in 1..n PROVE h[i] = StillOwed(rows[i], p)
    OBVIOUS
  <2>1. /\ rows[i].product = lines[i].product /\ rows[i].owed = Owed(lines, i)
        /\ rows[i].fulfilled = 0
        /\ rows[i].backorder = IF Owed(lines, i) > 0 THEN "pending" ELSE "none"
    <3>1. rows[i] = NewRow(o, lines, i)
      BY <1>3
    <3> HIDE DEF h, d
    <3> QED BY <3>1 DEF NewRow
  <2>2. rows[i].owed \in Nat
    BY <1>2, <1>3 DEF GoodRow, ItemRow
  <2> QED BY <2>1, <2>2 DEF StillOwed
<1> HIDE DEF rows
<1>5. PendingOwed(p)' = PendingOwed(p) + Sum(h, n)
  <2>1. items' = items \o rows
    BY DEF rows
  <2> HIDE DEF h
  <2> QED BY <1>3, <1>4, <2>1, AppendedOwe
<1>6. Sum(h, n) = d
  <2>1. \A i \in 1..n : h[i] = IF lines[i].product = p THEN Owed(lines, i) ELSE 0
    OBVIOUS
  <2> HIDE DEF h
  <2> QED BY <2>1, LinesOweShortfall
<1>7. /\ Available(p) \in Int /\ Taken(lines, p, n) \in Nat
      /\ Deficit(p) = AtLeastZero(-Available(p))
  <2>1. n \in 0..n
    OBVIOUS
  <2> QED BY <2>1, QuantitiesAreIntegers, TakenIsNatural, DeficitOfAvailable
<1>8. Available(p)' = IF p \in hasStock THEN Available(p) - Taken(lines, p, n) ELSE Available(p)
  BY AvailableAfter
<1>9. Deficit(p)' = AtLeastZero(-(Available(p)'))
  <2>1. quantity[p] \in Int /\ reserved[p] \in Int /\ quantity'[p] \in Int /\ reserved'[p] \in Int
    BY QuantitiesAreIntegers, ColumnAssumption DEF TakeOut
  <2> QED BY <2>1 DEF Deficit, Available, AtLeastZero
<1>10. d \in Int /\ Deficit(p)' = Deficit(p) + d
  BY <1>7, <1>8, <1>9 DEF Shortfall, AtLeastZero
<1> QED BY <1>5, <1>6, <1>10

\* An order, or a line added to one, keeps the gap between backorders and deficit.
LEMMA SellKeepsGap ==
  ASSUME IInv, Sell, NEW p \in Product
  PROVE  \E d \in Int : PendingOwed(p)' = PendingOwed(p) + d /\ Deficit(p)' = Deficit(p) + d
<1>1. ASSUME NEW lines \in Lines, CreateOrder(lines)
      PROVE  \E d \in Int : PendingOwed(p)' = PendingOwed(p) + d /\ Deficit(p)' = Deficit(p) + d
  <2> DEFINE o == Len(orders) + 1
             units == [q \in Product |-> Taken(lines, q, Len(lines))]
  <2>1. PICK n \in 1..MaxLines : lines \in [1..n -> Line]
    BY DEF Lines
  <2>2. n \in Nat /\ Len(lines) = n /\ n \in 0..n
    BY <2>1, BoundAssumption, FunctionIsSequence
  <2>3. TakeOut(units) /\ UNCHANGED reserved /\ items' = items \o NewRows(o, lines)
    BY <1>1 DEF CreateOrder
  <2>4. o \in 1..MaxOrders
    BY <1>1, OrdersAreRows, BoundAssumption DEF CreateOrder
  <2>5. units \in [Product -> Int] /\ units[p] = Taken(lines, p, n)
    <3>1. \A q \in Product : Taken(lines, q, n) \in Nat
      BY <2>1, <2>2, TakenIsNatural
    <3> QED BY <2>2, <3>1
  <2> HIDE DEF units, o
  <2> QED BY <2>1, <2>2, <2>3, <2>4, <2>5, LinesKeepGap
<1>2. ASSUME NEW o \in DOMAIN orders, NEW line \in Line, AddItem(o, line)
      PROVE  \E d \in Int : PendingOwed(p)' = PendingOwed(p) + d /\ Deficit(p)' = Deficit(p) + d
  <2> DEFINE units == [q \in Product |-> IF q = line.product THEN line.quantity ELSE 0]
             lines == <<line>>
  <2>1. lines \in [1..1 -> Line] /\ 1 \in Nat
    OBVIOUS
  <2>2. TakeOut(units) /\ UNCHANGED reserved /\ items' = Append(items, NewRow(o, lines, 1))
    BY <1>2 DEF AddItem
  <2>3. o \in 1..MaxOrders
    BY OrdersAreRows, BoundAssumption DEF IInv, TypeOK
  <2>4. line.quantity \in Nat
    <3>1. line.quantity \in LineQuantity
      BY DEF Line
    <3> QED BY <3>1, QuantityAssumption
  <2>5. units \in [Product -> Int] /\ units[p] = Taken(lines, p, 1)
    BY <2>4, OneLineTakes
  <2>6. items' = items \o NewRows(o, lines)
    <3>1. NewRow(o, lines, 1) \in ItemRow
      <4>1. 1 \in 1..1
        OBVIOUS
      <4> HIDE DEF lines
      <4> QED BY <2>1, <2>3, <4>1, NewRowIsGood DEF GoodRow
    <3>2. NewRows(o, lines) = <<NewRow(o, lines, 1)>>
      <4>1. DOMAIN lines = 1..1
        OBVIOUS
      <4> HIDE DEF lines
      <4> DEFINE row == NewRow(o, lines, 1)
      <4>2. NewRows(o, lines) = [i \in 1..1 |-> row]
        BY <4>1 DEF NewRows
      <4> HIDE DEF row
      <4>3. [i \in 1..1 |-> row] = <<row>>
        OBVIOUS
      <4> QED BY <4>2, <4>3 DEF row
    <3> HIDE DEF lines
    <3> QED BY <2>2, <3>1, <3>2, AppendIsConcat DEF IInv, TypeOK
  <2> HIDE DEF units, lines
  <2> QED BY <2>1, <2>2, <2>3, <2>5, <2>6, LinesKeepGap
<1> QED BY <1>1, <1>2 DEF Sell

\* An order of the public catalog owes nothing and takes nothing.
LEMMA BrowseKeepsBoth ==
  ASSUME IInv, Browse, NEW p \in Product
  PROVE  PendingOwed(p)' = PendingOwed(p) /\ Deficit(p)' = Deficit(p)
<1> PICK lines \in Lines : CreateCatalogOrder(lines)
  BY DEF Browse
<1> DEFINE o == Len(orders) + 1
           row(i) == [order |-> o, product |-> lines[i].product,
                      quantity |-> lines[i].quantity,
                      owed |-> 0, fulfilled |-> 0, backorder |-> "none"]
           rows == [i \in DOMAIN lines |-> row(i)]
           h == [i \in DOMAIN lines |-> 0]
<1>1. PICK n \in 1..MaxLines : lines \in [1..n -> Line]
  BY DEF Lines
<1>2. n \in Nat /\ DOMAIN lines = 1..n
  BY <1>1, BoundAssumption
<1>3. o \in 1..MaxOrders /\ items' = items \o rows
  BY OrdersAreRows, BoundAssumption DEF CreateCatalogOrder
<1>4. ASSUME NEW i \in 1..n PROVE row(i) \in ItemRow
  <2>1. lines[i].product \in Product /\ lines[i].quantity \in LineQuantity
    BY <1>1 DEF Line
  <2>2. lines[i].quantity \in Nat
    BY <2>1, QuantityAssumption
  <2> HIDE DEF o
  <2> QED BY <1>3, <2>1, <2>2 DEF ItemRow, BackorderStatus
<1>5. \A i \in 1..n : rows[i].backorder = "none"
  BY <1>2
<1>6. rows \in [1..n -> ItemRow]
  <2> HIDE DEF row
  <2> QED BY <1>2, <1>4
<1> HIDE DEF rows
<1>7. rows \in Seq(ItemRow) /\ Len(rows) = n
  BY <1>2, <1>6, FunctionIsSequence
<1>8. \A i \in 1..n : h[i] = StillOwed(rows[i], p) /\ h[i] = 0
  BY <1>2, <1>5 DEF StillOwed
<1> HIDE DEF h
<1>9. PendingOwed(p)' = PendingOwed(p) + Sum(h, n)
  BY <1>3, <1>7, <1>8, AppendedOwe
<1>10. Sum(h, n) = 0
  BY <1>2, <1>8, SumZero
<1>11. PendingOwed(p)' = PendingOwed(p)
  BY <1>9, <1>10, PendingIsNatural
<1>12. Deficit(p)' = Deficit(p)
  BY DEF CreateCatalogOrder, Deficit
<1> QED BY <1>11, <1>12
-----------------------------------------------------------------------------
(* Arrivals *)

\* The rows of a product that a step does not write owe what they owed.
LEMMA PendingUntouched ==
  ASSUME IInv, NEW p \in Product, items' \in [1..Len(items) -> ItemRow],
         \A i \in 1..Len(items) : items'[i].product = items[i].product
                                /\ (items[i].product = p => items'[i] = items[i])
  PROVE  PendingOwed(p)' = PendingOwed(p)
<1> DEFINE n == Len(items)
           f == [i \in DOMAIN items' |-> StillOwed(items'[i], p)]
           g == OwedOf(p)
<1>1. n \in Nat
  BY ItemsAreRows
<1>2. Len(items') = n /\ DOMAIN items' = 1..n
  BY <1>1, FunctionIsSequence
<1>3. PendingOwed(p)' = Sum(f, n)
  BY <1>2 DEF PendingOwed, OwedOf, StillOwed, Pending, Remaining
<1>4. ASSUME NEW i \in 1..n PROVE f[i] = g[i]
  <2>1. f[i] = StillOwed(items'[i], p) /\ g[i] = StillOwed(items[i], p)
    BY <1>2, PendingIsNatural
  <2>2. CASE items[i].product = p
    BY <2>1, <2>2
  <2>3. CASE items[i].product # p
    BY <2>1, <2>3 DEF StillOwed
  <2> QED BY <2>2, <2>3
<1>5. Sum(f, n) = Sum(g, n)
  <2> HIDE DEF f, g, n
  <2> QED BY <1>1, <1>4, SumEqual
<1> QED BY <1>3, <1>5 DEF PendingOwed

\* Allocating n units to the rows of p lowers what they wait for by n, or by
\* all of it, and leaves the rows of other products alone.
LEMMA AllocatedServes ==
  ASSUME IInv, NEW p \in Product, NEW n \in Nat, items' = Allocated(p, n), NEW q \in Product
  PROVE  PendingOwed(q)' = IF q = p THEN PendingOwed(p) - Lesser(n, PendingOwed(p))
                           ELSE PendingOwed(q)
<1> DEFINE m == Len(items)
           Served(i) == Pending(i, p) /\ Take(p, n, i) > 0
           full(i) == items[i].fulfilled + Take(p, n, i) >= items[i].owed
<1>1. m \in Nat /\ DOMAIN items = 1..m
  BY ItemsAreRows
<1>2. ASSUME NEW i \in 1..m
      PROVE  /\ items[i] \in ItemRow /\ Take(p, n, i) \in Nat /\ OwedOf(p)[i] \in Nat
             /\ Take(p, n, i) <= OwedOf(p)[i] /\ OwedOf(p)[i] = StillOwed(items[i], p)
  BY ItemsAreRows, OwedAndTaken, PendingIsNatural DEF GoodRow
<1>3. ASSUME NEW i \in 1..m, Served(i)
      PROVE  items'[i] = [order |-> items[i].order, product |-> items[i].product,
                          quantity |-> items[i].quantity, owed |-> items[i].owed,
                          fulfilled |-> items[i].fulfilled + Take(p, n, i),
                          backorder |-> IF full(i) THEN "fulfilled" ELSE "pending"]
  <2>1. items'[i] = [items[i] EXCEPT
                       !.fulfilled = items[i].fulfilled + Take(p, n, i),
                       !.backorder = IF full(i) THEN "fulfilled" ELSE items[i].backorder]
    BY <1>1, <1>3 DEF Allocated
  <2>2. items[i].backorder = "pending"
    BY <1>3 DEF Pending
  <2> HIDE DEF full
  <2> QED BY <1>2, <2>1, <2>2 DEF ItemRow
<1>4. ASSUME NEW i \in 1..m, ~Served(i) PROVE items'[i] = items[i]
  BY <1>1, <1>4 DEF Allocated
<1>5. ASSUME NEW i \in 1..m, Served(i)
      PROVE  /\ items[i].product = p /\ items'[i].product = p
             /\ items'[i].owed = items[i].owed
             /\ items'[i].fulfilled = items[i].fulfilled + Take(p, n, i)
             /\ items'[i].backorder = IF full(i) THEN "fulfilled" ELSE "pending"
  <2> DEFINE status == IF full(i) THEN "fulfilled" ELSE "pending"
             done == items[i].fulfilled + Take(p, n, i)
  <2>1. items'[i] = [order |-> items[i].order, product |-> items[i].product,
                     quantity |-> items[i].quantity, owed |-> items[i].owed,
                     fulfilled |-> done, backorder |-> status]
    BY <1>3, <1>5
  <2> HIDE DEF status, done
  <2>2. /\ items'[i].product = items[i].product /\ items'[i].owed = items[i].owed
        /\ items'[i].fulfilled = done /\ items'[i].backorder = status
    BY <2>1
  <2>3. items[i].product = p
    BY <1>5 DEF Pending
  <2> QED BY <2>2, <2>3 DEF status, done
<1>6. \A i \in 1..m : /\ items'[i].product = items[i].product
                      /\ items[i].product # p => items'[i] = items[i]
  <2> SUFFICES ASSUME NEW i \in 1..m
               PROVE  /\ items'[i].product = items[i].product
                      /\ items[i].product # p => items'[i] = items[i]
    OBVIOUS
  <2>1. CASE Served(i)
    BY <1>5, <2>1
  <2>2. CASE ~Served(i)
    BY <1>4, <2>2
  <2> QED BY <2>1, <2>2
<1>7. items' \in [1..m -> ItemRow]
  <2>2. ASSUME NEW i \in 1..m PROVE items'[i] \in ItemRow
    <3>1. CASE Served(i)
      <4>1. items[i].fulfilled + Take(p, n, i) \in Nat
        BY <1>2 DEF ItemRow
      <4> DEFINE done == items[i].fulfilled + Take(p, n, i)
                 status == IF full(i) THEN "fulfilled" ELSE "pending"
      <4>2. status \in BackorderStatus
        BY DEF BackorderStatus
      <4>3. items'[i] = [order |-> items[i].order, product |-> items[i].product,
                         quantity |-> items[i].quantity, owed |-> items[i].owed,
                         fulfilled |-> done, backorder |-> status]
        BY <1>3, <3>1
      <4> HIDE DEF done, status
      <4>4. done \in Nat
        BY <4>1 DEF done
      <4> QED BY <1>2, <4>2, <4>3, <4>4 DEF ItemRow
    <3>2. CASE ~Served(i)
      BY <1>2, <1>4, <3>2
    <3> QED BY <3>1, <3>2
  <2> QED BY <1>1, <2>2 DEF Allocated
<1>8. CASE q # p
  <2>1. \A i \in 1..m : items'[i].product = items[i].product
                        /\ (items[i].product = q => items'[i] = items[i])
    BY <1>6, <1>8
  <2> QED BY <1>7, <1>8, <2>1, PendingUntouched
<1>9. CASE q = p
  <2> DEFINE f == OwedOf(p)
             g == [i \in DOMAIN items' |-> StillOwed(items'[i], p)]
  <2>1. Len(items') = m /\ DOMAIN items' = 1..m
    BY <1>1, <1>7, FunctionIsSequence
  <2>2. PendingOwed(p)' = Sum(g, m)
    BY <2>1 DEF PendingOwed, OwedOf, StillOwed, Pending, Remaining
  <2>3. ASSUME NEW i \in 1..m PROVE f[i] \in Nat /\ g[i] = f[i] - Take(p, n, i)
    <3>1. g[i] = StillOwed(items'[i], p)
      BY <2>1
    <3>2. CASE Served(i)
      <4> DEFINE t == Take(p, n, i)
      <4>1. f[i] = items[i].owed - items[i].fulfilled
        BY <1>2, <3>2 DEF StillOwed, Pending
      <4>2. /\ items'[i].product = p /\ items'[i].owed = items[i].owed
            /\ items'[i].fulfilled = items[i].fulfilled + t
            /\ items'[i].backorder = IF full(i) THEN "fulfilled" ELSE "pending"
        BY <1>5, <3>2
      <4>3. /\ t \in Nat /\ items[i].owed \in Nat /\ items[i].fulfilled \in Nat
            /\ f[i] \in Nat /\ t <= f[i]
        BY <1>2 DEF ItemRow
      <4>4. g[i] = IF full(i) THEN 0 ELSE items[i].owed - (items[i].fulfilled + t)
        BY <3>1, <4>2 DEF StillOwed
      <4> HIDE DEF f, g, t
      <4>5. full(i) <=> items[i].fulfilled + t >= items[i].owed
        BY DEF t
      <4> HIDE DEF full
      <4>6. g[i] = f[i] - t
        BY <4>1, <4>3, <4>4, <4>5
      <4> QED BY <4>3, <4>6 DEF t
    <3>3. CASE ~Served(i)
      <4>1. items'[i] = items[i] /\ f[i] = g[i] /\ f[i] \in Nat
        BY <1>2, <1>4, <3>1, <3>3
      <4>2. Take(p, n, i) = 0
        <5>1. CASE Pending(i, p)
          BY <1>2, <3>3, <5>1
        <5>2. CASE ~Pending(i, p)
          <6>1. f[i] = 0
            BY <1>1, <5>2 DEF OwedOf
          <6> QED BY <1>2, <6>1
        <5> QED BY <5>1, <5>2
      <4> HIDE DEF f, g
      <4> QED BY <4>1, <4>2
    <3> QED BY <3>2, <3>3
  <2>4. \A i \in 1..m : Take(p, n, i) = Lesser(f[i], AtLeastZero(n - Sum(f, i - 1)))
    BY DEF Take
  <2>5. Sum(g, m) = Sum(f, m) - Lesser(n, Sum(f, m))
    <3>1. \A i \in 1..m : /\ f[i] \in Nat
                          /\ g[i] = f[i] - Lesser(f[i], AtLeastZero(n - Sum(f, i - 1)))
      BY <2>3, <2>4
    <3> HIDE DEF f, g, m
    <3> QED BY <1>1, <3>1, SumServed
  <2> QED BY <1>9, <2>2, <2>5 DEF PendingOwed
<1> QED BY <1>8, <1>9

\* An arrival lowers the deficit, and the backorders by as much or to nothing.
LEMMA RestockServes ==
  ASSUME IInv, Restock, NEW p \in Product
  PROVE  \E c \in Nat : /\ c <= Deficit(p) /\ Deficit(p)' = Deficit(p) - c
                        /\ PendingOwed(p)' = PendingOwed(p) - Lesser(c, PendingOwed(p))
<1> PICK q \in Product, n \in LineQuantity : StockIn(q, n)
  BY DEF Restock
<1> DEFINE after == quantity[q] + n
           covered == Deficit(q) - AtLeastZero(reserved[q] - after)
<1>1. /\ after \in IntColumn /\ quantity' = [quantity EXCEPT ![q] = after]
      /\ items' = Allocated(q, covered) /\ reserved' = reserved
  BY DEF StockIn
<1>2. /\ n \in Nat /\ quantity[q] \in Int /\ reserved[q] \in Int /\ after \in Int
      /\ Deficit(q) \in Nat
  BY QuantityAssumption, QuantitiesAreIntegers
<1>3. covered \in Nat /\ covered <= Deficit(q)
  BY <1>2 DEF Deficit, AtLeastZero
<1>4. quantity' \in [Product -> Int] /\ quantity'[q] = after
  BY <1>1, <1>2, QuantitiesAreIntegers DEF IInv, TypeOK
<1>5. Deficit(q)' = AtLeastZero(reserved[q] - after)
  BY <1>1, <1>4 DEF Deficit
<1>6. Deficit(q)' = Deficit(q) - covered
  BY <1>2, <1>5 DEF AtLeastZero
<1> HIDE DEF after, covered
<1>7. PendingOwed(p)' = IF p = q THEN PendingOwed(q) - Lesser(covered, PendingOwed(q))
                        ELSE PendingOwed(p)
  BY <1>1, <1>3, AllocatedServes
<1>8. CASE p = q
  BY <1>3, <1>6, <1>7, <1>8
<1>9. CASE p # q
  <2>1. quantity'[p] = quantity[p]
    BY <1>1, <1>9 DEF IInv, TypeOK
  <2>2. Deficit(p)' = Deficit(p) /\ Deficit(p) \in Nat /\ PendingOwed(p) \in Nat
    BY <1>1, <2>1, QuantitiesAreIntegers, PendingIsNatural DEF Deficit
  <2>3. 0 <= Deficit(p) /\ Deficit(p)' = Deficit(p) - 0
        /\ PendingOwed(p)' = PendingOwed(p) - Lesser(0, PendingOwed(p))
    BY <1>7, <1>9, <2>2 DEF Lesser
  <2> QED BY <2>3
<1> QED BY <1>8, <1>9
-----------------------------------------------------------------------------
(* Leaving an order *)

\* Dropping the backorders of an order drops at most the units it has ordered.
LEMMA DroppedWithinOrdered ==
  ASSUME IInv, NEW o, NEW p \in Product, items' = CanceledBackorders(o) \/ items' = ErasedRows(o)
  PROVE  PendingOwed(p)' \in Nat /\ PendingOwed(p) <= PendingOwed(p)' + Ordered(o, p)
<1> DEFINE n == Len(items)
           f == OwedOf(p)
           g == [i \in DOMAIN items' |-> StillOwed(items'[i], p)]
           h == ItemsOf(o, p)
<1>1. n \in Nat /\ DOMAIN items = 1..n
  BY ItemsAreRows
<1>2. items' \in [1..n -> {items'[i] : i \in 1..n}]
  BY <1>1 DEF CanceledBackorders, ErasedRows
<1>3. Len(items') = n /\ DOMAIN items' = 1..n
  BY <1>1, <1>2, FunctionIsSequence
<1>4. PendingOwed(p)' = Sum(g, n)
  BY <1>3 DEF PendingOwed, OwedOf, StillOwed, Pending, Remaining
<1>5. ASSUME NEW i \in 1..n
      PROVE  /\ f[i] \in Nat /\ g[i] \in Nat /\ h[i] \in Nat /\ f[i] <= g[i] + h[i]
  <2>1. /\ f[i] = StillOwed(items[i], p) /\ g[i] = StillOwed(items'[i], p) /\ f[i] \in Nat
        /\ h[i] = IF items[i].order = o /\ items[i].product = p THEN items[i].quantity ELSE 0
    BY <1>1, <1>3, PendingIsNatural DEF ItemsOf
  <2>2. /\ items[i] \in ItemRow /\ items[i].owed <= items[i].quantity
        /\ items[i].quantity \in Nat /\ items[i].owed \in Nat /\ items[i].fulfilled \in Nat
    BY ItemsAreRows DEF GoodRow, ItemRow
  <2>3. CASE items'[i] = items[i]
    BY <2>1, <2>2, <2>3
  <2>4. CASE items'[i] # items[i]
    <3>1. items[i].order = o
      BY <1>1, <2>4 DEF CanceledBackorders, ErasedRows
    <3>2. items'[i].backorder # "pending"
      <4>1. \/ items'[i] = [items[i] EXCEPT !.backorder = "canceled"]
            \/ items'[i] = [items[i] EXCEPT !.quantity = 0, !.owed = 0, !.fulfilled = 0,
                                           !.backorder = "none"]
        BY <1>1, <2>4 DEF CanceledBackorders, ErasedRows
      <4> QED BY <2>2, <4>1 DEF ItemRow
    <3>3. g[i] = 0
      BY <2>1, <3>2 DEF StillOwed
    <3>4. h[i] = IF items[i].product = p THEN items[i].quantity ELSE 0
      BY <2>1, <3>1
    <3>5. f[i] <= h[i] /\ h[i] \in Nat
      <4> HIDE DEF f, h
      <4> QED BY <2>1, <2>2, <3>4 DEF StillOwed
    <3> HIDE DEF f, g, h
    <3> QED BY <2>1, <3>3, <3>5
  <2> QED BY <2>3, <2>4
<1>6. n \in 0..n /\ n <= n
  BY <1>1
<1> HIDE DEF f, g, h, n
<1>7. Sum(f, n) <= Sum(g, n) + Sum(h, n)
  BY <1>1, <1>5, SumBounded, SMTT(30)
<1>8. Sum(g, n) \in Nat
  BY <1>1, <1>5, <1>6, SumMonotonic
<1> QED BY <1>4, <1>7, <1>8 DEF PendingOwed, Ordered, f, h, n

\* Giving back the units of an order while its backorders are dropped leaves no
\* more units missing without a backorder than before.
LEMMA RestoredBalance ==
  ASSUME IInv, NEW o, NEW p \in Product, items' = CanceledBackorders(o) \/ items' = ErasedRows(o),
         RestoreStock(o), UNCHANGED reserved
  PROVE  ~(Unrecorded(p)' > Unrecorded(p))
<1> DEFINE units == [q \in Product |-> -Ordered(o, q)]
<1>1. TakeOut(units)
  BY DEF RestoreStock
<1>2. \A q \in Product : Ordered(o, q) \in Nat
  BY OrderedIsNatural
<1>3. units \in [Product -> Int] /\ units[p] = -Ordered(o, p)
  BY <1>2
<1> HIDE DEF units
<1>4. Available(p)' = IF p \in hasStock THEN Available(p) - units[p] ELSE Available(p)
  BY <1>1, <1>3, AvailableAfter
<1>5. /\ PendingOwed(p) \in Nat /\ PendingOwed(p)' \in Nat
      /\ PendingOwed(p) <= PendingOwed(p)' + Ordered(o, p)
  BY DroppedWithinOrdered, PendingIsNatural
<1>6. Available(p) \in Int /\ Ordered(o, p) \in Nat /\ Deficit(p) = AtLeastZero(-Available(p))
  BY <1>2, QuantitiesAreIntegers, DeficitOfAvailable
<1>7. Deficit(p)' = AtLeastZero(-(Available(p)'))
  <2>1. quantity[p] \in Int /\ reserved[p] \in Int /\ quantity'[p] \in Int /\ reserved'[p] \in Int
    BY <1>1, QuantitiesAreIntegers, ColumnAssumption DEF TakeOut
  <2> QED BY <2>1 DEF Deficit, Available, AtLeastZero
<1>8. CASE p \in hasStock
  BY <1>3, <1>4, <1>5, <1>6, <1>7, <1>8 DEF Unrecorded, AtLeastZero
<1>9. CASE p \notin hasStock
  <2>1. quantity[p] = 0 /\ reserved[p] = 0
    BY <1>9 DEF IInv, TypeOK
  <2>2. Available(p) = 0
    BY <2>1 DEF Available
  <2> QED BY <1>4, <1>5, <1>6, <1>7, <1>9, <2>2 DEF Unrecorded, AtLeastZero
<1> QED BY <1>8, <1>9

\* A step that moves neither figure of a product moves no other of it.
LEMMA NothingMoves ==
  ASSUME IInv, NEW p \in Product,
         \E d \in Int : PendingOwed(p)' = PendingOwed(p) + d /\ Deficit(p)' = Deficit(p) + d
  PROVE  /\ Unrecorded(p)' = Unrecorded(p) /\ Unrecorded(p) \in Nat
         /\ PendingOwed(p) = Deficit(p) => PendingOwed(p)' = Deficit(p)'
<1> PICK d \in Int : PendingOwed(p)' = PendingOwed(p) + d /\ Deficit(p)' = Deficit(p) + d
  OBVIOUS
<1>1. PendingOwed(p) \in Nat /\ Deficit(p) \in Nat
  BY PendingIsNatural, QuantitiesAreIntegers
<1> QED BY <1>1 DEF Unrecorded, AtLeastZero

\* What sales, catalog orders, settings and idle steps do to a product.
LEMMA SalesMoveTogether ==
  ASSUME IInv, NEW p \in Product, Sell \/ Browse \/ Configure \/ UNCHANGED vars
  PROVE  \E d \in Int : PendingOwed(p)' = PendingOwed(p) + d /\ Deficit(p)' = Deficit(p) + d
<1>1. CASE Sell
  BY <1>1, SellKeepsGap
<1>2. CASE Browse \/ Configure \/ UNCHANGED vars
  <2>1. PendingOwed(p)' = PendingOwed(p) /\ Deficit(p)' = Deficit(p)
    <3>1. CASE Browse
      BY <3>1, BrowseKeepsBoth
    <3>2. CASE Configure \/ UNCHANGED vars
      <4>1. UNCHANGED <<quantity, reserved, items>>
        BY <3>2 DEF Configure, SetOversell, vars
      <4> QED BY <4>1 DEF PendingOwed, OwedOf, Pending, Remaining, Deficit
    <3> QED BY <1>2, <3>1, <3>2
  <2>2. PendingOwed(p) \in Nat /\ Deficit(p) \in Nat
    BY PendingIsNatural, QuantitiesAreIntegers
  <2>3. PendingOwed(p)' = PendingOwed(p) + 0 /\ Deficit(p)' = Deficit(p) + 0
    BY <2>1, <2>2
  <2> QED BY <2>3
<1> QED BY <1>1, <1>2

\* Each step satisfies the body of NoSilentShortage.
LEMMA ShortageStep ==
  ASSUME IInv, [Next]_vars, NEW p \in Product, Unrecorded(p)' > Unrecorded(p)
  PROVE  Withdraw \/ Patch \/ Cascade
<1>0. PendingOwed(p) \in Nat /\ Deficit(p) \in Nat /\ Unrecorded(p) \in Nat
  BY PendingIsNatural, QuantitiesAreIntegers DEF Unrecorded, AtLeastZero
<1>1. CASE Sell \/ Browse \/ Configure \/ UNCHANGED vars
  <2>1. Unrecorded(p)' = Unrecorded(p)
    BY <1>1, SalesMoveTogether, NothingMoves
  <2> QED BY <1>0, <2>1
<1>2. CASE Restock
  <2>1. PICK c \in Nat : /\ c <= Deficit(p) /\ Deficit(p)' = Deficit(p) - c
                        /\ PendingOwed(p)' = PendingOwed(p) - Lesser(c, PendingOwed(p))
    BY <1>2, RestockServes
  <2> QED BY <1>0, <2>1 DEF Unrecorded, AtLeastZero, Lesser
<1>3. ASSUME NEW o \in DOMAIN orders, NEW status \in OrderStatus, UpdateStatus(o, status)
      PROVE  FALSE
  <2>1. CASE Cancels(o, status)
    BY <1>3, <2>1, RestoredBalance DEF UpdateStatus
  <2>2. CASE ~Cancels(o, status)
    <3>1. UNCHANGED <<quantity, reserved, items>>
      BY <1>3, <2>2 DEF UpdateStatus, KeepStock
    <3>2. Unrecorded(p)' = Unrecorded(p)
      BY <3>1 DEF Unrecorded, PendingOwed, OwedOf, Pending, Remaining, Deficit
    <3> QED BY <1>0, <3>2
  <2> QED BY <2>1, <2>2
<1>4. ASSUME NEW o \in DOMAIN orders, DeleteOrder(o) PROVE Cascade
  <2>1. CASE orders[o] # "canceled"
    BY <1>4, <2>1, RestoredBalance DEF DeleteOrder
  <2>2. CASE orders[o] = "canceled"
    <3>1. DeleteCustomer(o)
      BY <1>4, <2>2 DEF DeleteOrder, DeleteCustomer
    <3> QED BY <3>1 DEF Cascade
  <2> QED BY <2>1, <2>2
<1> QED BY <1>1, <1>2, <1>3, <1>4 DEF Next, ChangeStatus, Delete

\* No sale, arrival, cancelation or deletion of an open order leaves units
\* missing that no pending backorder accounts for.
THEOREM ShortageIsRecorded == Spec => NoSilentShortage
<1>1. IInv /\ [Next]_vars =>
        [\A p \in Product : Unrecorded(p)' > Unrecorded(p) => Withdraw \/ Patch \/ Cascade]_vars
  BY ShortageStep
<1> QED BY <1>1, InitHolds, NextKeeps, PTL DEF Spec, NoSilentShortage

\* Each step satisfies the body of SalesAndArrivalsKeepMatch.
LEMMA MatchStep ==
  ASSUME IInv, [Next]_vars, BackordersMatchDeficit, ~BackordersMatchDeficit'
  PROVE  ChangeStatus \/ Delete \/ Cascade \/ Withdraw \/ Patch
<1>1. PICK p \in Product : PendingOwed(p)' # Deficit(p)'
  BY DEF BackordersMatchDeficit
<1>2. PendingOwed(p) = Deficit(p) /\ PendingOwed(p) \in Nat
  BY PendingIsNatural DEF BackordersMatchDeficit
<1>3. ~(Sell \/ Browse \/ Configure \/ UNCHANGED vars)
  BY <1>1, <1>2, SalesMoveTogether, NothingMoves
<1>4. ASSUME Restock PROVE FALSE
  <2>1. PICK c \in Nat : /\ c <= Deficit(p) /\ Deficit(p)' = Deficit(p) - c
                        /\ PendingOwed(p)' = PendingOwed(p) - Lesser(c, PendingOwed(p))
    BY <1>4, RestockServes
  <2> QED BY <1>1, <1>2, <2>1 DEF Lesser
<1> QED BY <1>3, <1>4 DEF Next

\* Sales and arrivals keep the units owed equal to the deficit of the stock.
THEOREM MatchIsKept == Spec => SalesAndArrivalsKeepMatch
<1>1. IInv /\ [Next]_vars =>
        [BackordersMatchDeficit /\ ~BackordersMatchDeficit'
            => ChangeStatus \/ Delete \/ Cascade \/ Withdraw \/ Patch]_vars
  BY MatchStep
<1> QED BY <1>1, InitHolds, NextKeeps, PTL DEF Spec, SalesAndArrivalsKeepMatch
=============================================================================
