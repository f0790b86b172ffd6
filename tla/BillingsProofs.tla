--------------------------- MODULE BillingsProofs ---------------------------
(***************************************************************************)
(* Proofs about module Billings, for any connections, amounts, numbers and *)
(* bounds.  The inductive invariant adds to what the runs check that the   *)
(* numbers of charges do not repeat and that an edit about to be written   *)
(* was checked against the row it read.                                    *)
(***************************************************************************)
EXTENDS Billings, SumsProofs, SequenceTheorems

NumbersUnique ==
    \A a, b \in DOMAIN charges :
        Exists(a) /\ Exists(b) /\ charges[a].number = charges[b].number => a = b

Checked(t) ==
    t.op = "update" => Overwrite(t.row, t.fields).paid <= Overwrite(t.row, t.fields).total

OrdersOK == orders \in Seq(OrderRow) /\ Len(orders) <= MaxOrders

\* The payment of a charge row goes with its status.
Agreed(row) ==
    row.status # "erased" =>
        /\ row.payment = "confirmed" <=> row.status = "paid"
        /\ row.payment = "canceled" <=> row.status = "canceled"

RowsOK ==
    /\ charges \in Seq(Charge) /\ Len(charges) <= MaxCharges
    /\ \A b \in DOMAIN charges :
          /\ charges[b].order \in DOMAIN orders
          /\ orders[charges[b].order].status = "deleted" => charges[b].status = "erased"
          /\ Agreed(charges[b])
    /\ NumbersUnique

TasksOK ==
    /\ task \in [Connection -> Task]
    /\ \A c \in Connection : Checked(task[c])

BillInv == perSale \in BOOLEAN /\ OrdersOK /\ RowsOK /\ TasksOK

LEMMA BillInvMeans == BillInv <=> ChargesOK /\ NumbersUnique /\ \A c \in Connection : Checked(task[c])
BY DEF BillInv, OrdersOK, RowsOK, TasksOK, ChargesOK, TypeOK, PaymentAgreesWithStatus, Agreed, Exists
-----------------------------------------------------------------------------
(* Lines, totals and rows *)

\* The total of a sale is what its lines cost; no part of it is negative.
LEMMA Totals ==
  ASSUME NEW lines \in Seq(Line)
  PROVE  /\ Values(lines) \in Nat /\ Discounts(lines) \in Nat /\ Cost(lines) \in Nat
         /\ Cost(lines) = Values(lines) - Discounts(lines)
<1> DEFINE f == [i \in DOMAIN lines |-> lines[i].value]
           g == [i \in DOMAIN lines |-> lines[i].discount]
           h == [i \in DOMAIN lines |-> lines[i].value - lines[i].discount]
           n == Len(lines)
<1>1. /\ n \in Nat /\ DOMAIN lines = 1..n
      /\ \A i \in 1..n : lines[i] \in Line
  OBVIOUS
<1>2. \A i \in 1..n : /\ f[i] \in Nat /\ g[i] \in Nat /\ h[i] \in Nat /\ h[i] = f[i] - g[i]
  BY <1>1 DEF Line
<1>3. Values(lines) = Sum(f, n) /\ Discounts(lines) = Sum(g, n) /\ Cost(lines) = Sum(h, n)
  BY DEF Values, Discounts, Cost
<1> HIDE DEF f, g, h, n
<1>4. Sum(f, n) \in Nat /\ Sum(g, n) \in Nat /\ Sum(h, n) \in Nat
  <2>1. n \in 0..n /\ n <= n
    BY <1>1
  <2> QED BY <1>1, <1>2, <2>1, SumMonotonic
<1>5. Sum(h, n) = Sum(f, n) - Sum(g, n)
  <2>1. \A i \in 1..n : f[i] \in Int /\ g[i] \in Int /\ h[i] = f[i] - g[i]
    BY <1>2
  <2> QED BY <1>1, <2>1, SumDifference
<1> QED BY <1>3, <1>4, <1>5

LEMMA PricedLine ==
  ASSUME NEW line \in LineInput
  PROVE  Priced(line) \in Line
BY AmountAssumption DEF Priced, Line, Lesser

LEMMA NewOrderRow ==
  ASSUME NEW lines \in Seq(Line)
  PROVE  /\ NewOrder(lines) \in OrderRow
         /\ NewOrder(lines).status = "pending" /\ NewOrder(lines).total \in Int
         /\ Right(NewOrder(lines))
<1>1. /\ Values(lines) \in Nat /\ Discounts(lines) \in Nat
      /\ Cost(lines) = Values(lines) - Discounts(lines)
  BY Totals
<1>2. Values(lines) - Discounts(lines) \in Int
  BY <1>1
<1>3. "pending" \in OrderStatus \cup {"deleted"}
  BY StatusAssumption DEF OrderStatus
<1>4. NewOrder(lines).lines = lines /\ NewOrder(lines).total = Values(lines) - Discounts(lines)
      /\ NewOrder(lines).status = "pending"
  BY DEF NewOrder
<1> QED BY <1>1, <1>2, <1>3, <1>4 DEF NewOrder, OrderRow, Right

LEMMA DerivedRow ==
  ASSUME NEW paid \in Int, NEW total \in Int
  PROVE  /\ Derived(paid, total) = [status |-> Derived(paid, total).status,
                                    payment |-> Derived(paid, total).payment]
         /\ Derived(paid, total).status \in {"pending", "partial", "paid"}
         /\ Derived(paid, total).payment \in {"pending", "confirmed"}
         /\ Derived(paid, total).payment = "confirmed" <=> Derived(paid, total).status = "paid"
<1>1. CASE paid <= 0
  BY <1>1 DEF Derived
<1>2. CASE paid > 0 /\ paid >= total
  BY <1>2 DEF Derived
<1>3. CASE paid > 0 /\ ~(paid >= total)
  BY <1>3 DEF Derived
<1> QED BY <1>1, <1>2, <1>3

LEMMA NewChargeRow ==
  ASSUME NEW o \in 1..MaxOrders, NEW number \in 1..MaxOrders \cup SellersNumber,
         NEW total \in Int, NEW paid \in Nat
  PROVE  LET row == NewCharge(o, number, total, paid) IN
         /\ row \in Charge /\ Agreed(row)
         /\ row.order = o /\ row.number = number /\ row.total = total /\ row.paid = paid
         /\ row.status = Derived(paid, total).status
         /\ row.status \in {"pending", "partial", "paid"}
<1> PICK d : d = Derived(paid, total)
  OBVIOUS
<1>1. /\ d.status \in {"pending", "partial", "paid"} /\ d.payment \in {"pending", "confirmed"}
      /\ d.payment = "confirmed" <=> d.status = "paid"
  BY DerivedRow
<1>2. NewCharge(o, number, total, paid) =
        [order |-> o, number |-> number, total |-> total, paid |-> paid,
         status |-> d.status, payment |-> d.payment]
  BY DEF NewCharge
<1> QED BY <1>1, <1>2 DEF Charge, Agreed

Column == {"order", "number", "total", "paid", "status", "payment"}

\* An update replaces the columns it gives, and no other.
LEMMA OverwrittenRow ==
  ASSUME NEW row \in Charge, NEW fields
  PROVE  LET new == Overwrite(row, fields)
             Col(f) == IF f \in DOMAIN fields THEN fields[f] ELSE row[f]
         IN  new = [order |-> Col("order"), number |-> Col("number"), total |-> Col("total"),
                    paid |-> Col("paid"), status |-> Col("status"), payment |-> Col("payment")]
<1> DEFINE Col(f) == IF f \in DOMAIN fields THEN fields[f] ELSE row[f]
<1>1. DOMAIN row = Column
  BY DEF Charge, Column
<1>2. Overwrite(row, fields) = [f \in Column |-> Col(f)]
  BY <1>1 DEF Overwrite
<1> HIDE DEF Col
<1>3. [f \in Column |-> Col(f)] =
        [order |-> Col("order"), number |-> Col("number"), total |-> Col("total"),
         paid |-> Col("paid"), status |-> Col("status"), payment |-> Col("payment")]
  BY DEF Column
<1>4. Overwrite(row, fields) =
        [order |-> Col("order"), number |-> Col("number"), total |-> Col("total"),
         paid |-> Col("paid"), status |-> Col("status"), payment |-> Col("payment")]
  BY <1>2, <1>3
<1> QED BY <1>4 DEF Col

\* An edit sets the total and the paid amount and, unless the charge was voided
\* when it was read, the status and the payment that follow from them.
LEMMA WrittenRow ==
  ASSUME NEW read \in Charge, NEW row \in Charge, NEW fields \in EditFields
  PROVE  LET new == Overwrite(row, Written(read, fields))
             amounts == Overwrite(read, fields)
             d == Derived(amounts.paid, amounts.total)
         IN  /\ new \in Charge /\ new.order = row.order /\ new.number = row.number
             /\ amounts.paid \in Nat /\ amounts.total \in Int
             /\ read.status = "canceled" => new.status = row.status /\ new.payment = row.payment
             /\ read.status # "canceled" => new.status = d.status /\ new.payment = d.payment
             /\ row = read => new.paid = amounts.paid /\ new.total = amounts.total
<1> DEFINE Col(f) == IF f \in DOMAIN fields THEN fields[f] ELSE read[f]
           amounts == Overwrite(read, fields)
<1>1. /\ DOMAIN fields \subseteq {"total", "paid"}
      /\ \A f \in DOMAIN fields : fields[f] \in Nat
  BY AmountAssumption
<1>2. /\ amounts.total = Col("total") /\ amounts.paid = Col("paid")
  <2>1. amounts =
          [order |-> Col("order"), number |-> Col("number"), total |-> Col("total"),
           paid |-> Col("paid"), status |-> Col("status"), payment |-> Col("payment")]
    BY OverwrittenRow
  <2> HIDE DEF Col, amounts
  <2> QED BY <2>1
<1>3. amounts.paid \in Nat /\ amounts.total \in Int
  BY <1>1, <1>2 DEF Charge
<1> PICK w : w = Written(read, fields)
  OBVIOUS
<1> PICK d : d = Derived(amounts.paid, amounts.total)
  OBVIOUS
<1>4. /\ d = [status |-> d.status, payment |-> d.payment]
      /\ d.status \in {"pending", "partial", "paid"} /\ d.payment \in {"pending", "confirmed"}
  BY <1>3, DerivedRow
<1>5. /\ read.status = "canceled" => w = fields
      /\ read.status # "canceled" =>
            w = [f \in DOMAIN fields \cup DOMAIN d |->
                    IF f \in DOMAIN d THEN d[f] ELSE fields[f]]
  BY DEF Written
<1>6. read.status # "canceled" =>
        /\ DOMAIN w = DOMAIN fields \cup {"status", "payment"}
        /\ \A f \in DOMAIN fields : w[f] = fields[f]
        /\ w["status"] = d.status /\ w["payment"] = d.payment
  <2> HAVE read.status # "canceled"
  <2>1. w = [f \in DOMAIN fields \cup DOMAIN d |-> IF f \in DOMAIN d THEN d[f] ELSE fields[f]]
    BY <1>5
  <2>2. DOMAIN d = {"status", "payment"} /\ d["status"] = d.status /\ d["payment"] = d.payment
    BY <1>4
  <2>3. "status" \notin DOMAIN fields /\ "payment" \notin DOMAIN fields
    BY <1>1
  <2> QED BY <2>1, <2>2, <2>3
<1> DEFINE New(f) == IF f \in DOMAIN w THEN w[f] ELSE row[f]
<1>7. Overwrite(row, w) =
        [order |-> New("order"), number |-> New("number"), total |-> New("total"),
         paid |-> New("paid"), status |-> New("status"), payment |-> New("payment")]
  BY OverwrittenRow
<1>8. /\ New("order") = row.order /\ New("number") = row.number
      /\ New("total") = (IF "total" \in DOMAIN fields THEN fields["total"] ELSE row.total)
      /\ New("paid") = (IF "paid" \in DOMAIN fields THEN fields["paid"] ELSE row.paid)
      /\ read.status = "canceled" => New("status") = row.status /\ New("payment") = row.payment
      /\ read.status # "canceled" => New("status") = d.status /\ New("payment") = d.payment
  <2>1. CASE read.status = "canceled"
    BY <1>1, <1>5, <2>1
  <2>2. CASE read.status # "canceled"
    BY <1>1, <1>6, <2>2
  <2> QED BY <2>1, <2>2
<1>9. /\ New("order") \in 1..MaxOrders /\ New("number") \in 1..MaxOrders \cup SellersNumber
      /\ New("total") \in Int /\ New("paid") \in Nat
      /\ New("status") \in {"pending", "partial", "paid", "canceled", "erased"}
      /\ New("payment") \in {"pending", "confirmed", "canceled"}
  <2>1. /\ row.order \in 1..MaxOrders /\ row.number \in 1..MaxOrders \cup SellersNumber
        /\ row.total \in Int /\ row.paid \in Nat
        /\ row.status \in {"pending", "partial", "paid", "canceled", "erased"}
        /\ row.payment \in {"pending", "confirmed", "canceled"}
    BY DEF Charge
  <2> HIDE DEF New
  <2> QED BY <1>1, <1>4, <1>8, <2>1
<1>10. row = read => New("paid") = Col("paid") /\ New("total") = Col("total")
  BY <1>8
<1> HIDE DEF New, Col
<1>11. Overwrite(row, w) \in Charge
  BY <1>7, <1>9 DEF Charge
<1> QED BY <1>2, <1>3, <1>7, <1>8, <1>10, <1>11

\* An edit keeps the order and the number of a charge.
LEMMA WrittenKeeps ==
  ASSUME NEW read \in Charge, NEW row \in Charge, NEW fields \in EditFields
  PROVE  /\ Overwrite(row, Written(read, fields)) \in Charge
         /\ Overwrite(row, Written(read, fields)).order = row.order
         /\ Overwrite(row, Written(read, fields)).number = row.number
BY WrittenRow

LEMMA VoidedRow ==
  ASSUME NEW row \in Charge
  PROVE  /\ Voided(row) \in Charge /\ Agreed(Voided(row))
         /\ Voided(row).order = row.order /\ Voided(row).number = row.number
         /\ Voided(row).status = "canceled"
<1>1. Voided(row) = [order |-> row.order, number |-> row.number, total |-> row.total,
                     paid |-> row.paid, status |-> "canceled", payment |-> "canceled"]
  <2>1. row = [order |-> row.order, number |-> row.number, total |-> row.total,
               paid |-> row.paid, status |-> row.status, payment |-> row.payment]
    BY DEF Charge
  <2> PICK new : new = [row EXCEPT !.status = "canceled"]
    OBVIOUS
  <2>2. new = [order |-> row.order, number |-> row.number, total |-> row.total,
               paid |-> row.paid, status |-> "canceled", payment |-> row.payment]
    BY <2>1
  <2>3. Voided(row) = [new EXCEPT !.payment = "canceled"]
    BY DEF Voided
  <2> QED BY <2>2, <2>3
<1> QED BY <1>1 DEF Charge, Agreed

LEMMA ErasedRow ==
  ASSUME NEW row \in Charge
  PROVE  /\ Erased(row) \in Charge /\ Agreed(Erased(row))
         /\ Erased(row).order = row.order /\ Erased(row).number = row.number
         /\ Erased(row).status = "erased"
<1>1. Erased(row) = [order |-> row.order, number |-> row.number, total |-> 0,
                     paid |-> 0, status |-> "erased", payment |-> "canceled"]
  <2>1. row = [order |-> row.order, number |-> row.number, total |-> row.total,
               paid |-> row.paid, status |-> row.status, payment |-> row.payment]
    BY DEF Charge
  <2> PICK a : a = [row EXCEPT !.status = "erased"]
    OBVIOUS
  <2> PICK b : b = [a EXCEPT !.payment = "canceled"]
    OBVIOUS
  <2> PICK new : new = [b EXCEPT !.total = 0]
    OBVIOUS
  <2>2. a = [order |-> row.order, number |-> row.number, total |-> row.total,
             paid |-> row.paid, status |-> "erased", payment |-> row.payment]
    BY <2>1
  <2>3. b = [order |-> row.order, number |-> row.number, total |-> row.total,
             paid |-> row.paid, status |-> "erased", payment |-> "canceled"]
    BY <2>2
  <2>4. new = [order |-> row.order, number |-> row.number, total |-> 0,
               paid |-> row.paid, status |-> "erased", payment |-> "canceled"]
    BY <2>3
  <2>5. Erased(row) = [new EXCEPT !.paid = 0]
    BY DEF Erased
  <2> QED BY <2>4, <2>5
<1> QED BY <1>1 DEF Charge, Agreed
-----------------------------------------------------------------------------
(* What the steps do to the tables *)

\* A sequence is its length and its elements.
LEMMA Elements ==
  ASSUME NEW S, NEW s \in Seq(S)
  PROVE  /\ Len(s) \in Nat /\ DOMAIN s = 1..Len(s) /\ s \in [1..Len(s) -> S]
         /\ \A i \in 1..Len(s) : s[i] \in S
OBVIOUS

LEMMA OneMore ==
  ASSUME NEW S, NEW s \in Seq(S), NEW x \in S
  PROVE  /\ Append(s, x) \in Seq(S) /\ Len(Append(s, x)) = Len(s) + 1
         /\ DOMAIN Append(s, x) = DOMAIN s \cup {Len(s) + 1} /\ Len(s) + 1 \notin DOMAIN s
         /\ Append(s, x)[Len(s) + 1] = x
         /\ \A i \in DOMAIN s : Append(s, x)[i] = s[i]
OBVIOUS

\* A function over 1..n is a sequence of n elements.
LEMMA FunctionIsSequence ==
  ASSUME NEW n \in Nat, NEW S, NEW f \in [1..n -> S]
  PROVE  f \in Seq(S) /\ Len(f) = n
<1>1. f \in Seq(S)
  BY SeqDef
<1>2. DOMAIN f = 1..n /\ Len(f) \in Nat /\ DOMAIN f = 1..Len(f)
  BY <1>1, LenProperties
<1> QED BY <1>1, <1>2

\* What is read and remembered keeps its type while the tables grow.
LEMMA TasksKept ==
  ASSUME DOMAIN orders \subseteq DOMAIN orders', DOMAIN charges \subseteq DOMAIN charges',
         NEW t \in Task
  PROVE  t \in Task'
<1>1. CASE t = Idle
  BY <1>1 DEF Task, Idle
<1>2. CASE t \in [op: {"create"}, charged: BOOLEAN, lines: Seq(Line)]
  BY <1>2 DEF Task, Line
<1>3. CASE t \in [op: {"addItem"}, order: DOMAIN orders, lines: Seq(Line) \ {<< >>}]
  <2>1. t \in [op: {"addItem"}, order: DOMAIN orders', lines: Seq(Line) \ {<< >>}]
    BY <1>3
  <2> QED BY <2>1 DEF Task, Line
<1>4. CASE t \in [op: {"update"}, charge: DOMAIN charges, fields: EditFields, row: Charge]
  <2>1. t \in [op: {"update"}, charge: DOMAIN charges', fields: EditFields, row: Charge]
    BY <1>4
  <2> QED BY <2>1 DEF Task, Charge
<1>5. CASE t \in [op: {"sync"}, todo: Seq([order: DOMAIN orders, total: Int])]
  <2> DEFINE A == [order: DOMAIN orders, total: Int]
             B == [order: DOMAIN orders', total: Int]
  <2>1. A \subseteq B
    OBVIOUS
  <2>2. t \in [op: {"sync"}, todo: Seq(A)]
    BY <1>5
  <2> HIDE DEF A, B
  <2>3. Seq(A) \subseteq Seq(B)
    BY <2>1
  <2>4. t \in [op: {"sync"}, todo: Seq(B)]
    BY <2>2, <2>3
  <2> QED BY <2>4 DEF Task, B
<1> QED BY <1>1, <1>2, <1>3, <1>4, <1>5 DEF Task

LEMMA TablesAndTasks ==
  ASSUME BillInv, perSale' \in BOOLEAN, OrdersOK', RowsOK',
         DOMAIN orders \subseteq DOMAIN orders', DOMAIN charges \subseteq DOMAIN charges',
         \/ UNCHANGED task
         \/ \E c \in Connection, t \in Task' : Does(c, t) /\ Checked(t)
  PROVE  BillInv'
<1>1. \A t \in Task : t \in Task'
  BY TasksKept
<1>2. task \in [Connection -> Task] /\ \A c \in Connection : Checked(task[c])
  BY DEF BillInv, TasksOK
<1>3. task' \in [Connection -> Task'] /\ \A c \in Connection : Checked(task'[c])
  <2>1. CASE UNCHANGED task
    BY <1>1, <1>2, <2>1
  <2>2. ASSUME NEW c \in Connection, NEW t \in Task', Does(c, t), Checked(t)
        PROVE  task' \in [Connection -> Task'] /\ \A k \in Connection : Checked(task'[k])
    <3>1. task' = [task EXCEPT ![c] = t]
      BY <2>2 DEF Does
    <3>2. task' = [k \in Connection |-> IF k = c THEN t ELSE task[k]]
      BY <1>2, <3>1
    <3>3. \A k \in Connection : task'[k] \in Task' /\ Checked(task'[k])
      BY <1>1, <1>2, <2>2, <3>2
    <3> QED BY <3>2, <3>3
  <2> QED BY <2>1, <2>2
<1>4. (task \in [Connection -> Task] /\ \A c \in Connection : Checked(task[c]))'
  BY <1>3 DEF Checked, Overwrite
<1>5. TasksOK'
  BY <1>4 DEF TasksOK
<1> QED BY <1>5 DEF BillInv

LEMMA RowsLeft ==
  ASSUME RowsOK, UNCHANGED charges,
         \A o \in DOMAIN orders : /\ o \in DOMAIN orders'
                                  /\ orders'[o].status = "deleted" => orders[o].status = "deleted"
  PROVE  RowsOK'
<1>1. NumbersUnique'
  BY DEF RowsOK, NumbersUnique, Exists
<1> QED BY <1>1 DEF RowsOK, Charge, Agreed

LEMMA RowAdded ==
  ASSUME RowsOK, NEW row \in Charge, Agreed(row), Free(row.number),
         charges' = Append(charges, row), Len(charges) < MaxCharges,
         row.order \in DOMAIN orders', orders'[row.order].status # "deleted",
         \A o \in DOMAIN orders : /\ o \in DOMAIN orders'
                                  /\ orders'[o].status = "deleted" => orders[o].status = "deleted"
  PROVE  RowsOK' /\ DOMAIN charges \subseteq DOMAIN charges'
<1> DEFINE n == Len(charges) + 1
<1>1. /\ charges \in Seq(Charge) /\ Len(charges) \in Nat /\ DOMAIN charges = 1..Len(charges)
      /\ charges' \in Seq(Charge) /\ Len(charges') = n
      /\ DOMAIN charges' = DOMAIN charges \cup {n} /\ n \notin DOMAIN charges
      /\ charges'[n] = row /\ \A b \in DOMAIN charges : charges'[b] = charges[b]
  BY OneMore, Elements DEF RowsOK
<1> HIDE DEF n
<1>2. ASSUME NEW b \in DOMAIN charges'
      PROVE  /\ charges'[b].order \in DOMAIN orders'
             /\ orders'[charges'[b].order].status = "deleted" => charges'[b].status = "erased"
             /\ Agreed(charges'[b])
  <2>1. CASE b = n
    BY <1>1, <2>1
  <2>2. CASE b \in DOMAIN charges
    BY <1>1, <2>2 DEF RowsOK
  <2> QED BY <1>1, <2>1, <2>2
<1>3. \A a, b \in DOMAIN charges' :
        charges'[a].status # "erased" /\ charges'[b].status # "erased"
          /\ charges'[a].number = charges'[b].number => a = b
  <2>1. \A b \in DOMAIN charges : charges[b].status # "erased" => charges[b].number # row.number
    BY DEF Free, Exists
  <2>2. \A a, b \in DOMAIN charges :
          charges[a].status # "erased" /\ charges[b].status # "erased"
            /\ charges[a].number = charges[b].number => a = b
    BY DEF RowsOK, NumbersUnique, Exists
  <2> QED BY <1>1, <2>1, <2>2
<1>4. NumbersUnique'
  BY <1>3 DEF NumbersUnique, Exists
<1>5. Len(charges') <= MaxCharges
  BY <1>1, BoundAssumption DEF n
<1>6. charges' \in Seq(Charge')
  BY <1>1 DEF Charge
<1>7. (\A b \in DOMAIN charges : Agreed(charges[b]))'
  BY <1>2 DEF Agreed
<1> QED BY <1>1, <1>2, <1>4, <1>5, <1>6, <1>7 DEF RowsOK

\* Rows are rewritten in place: they keep their order and number, and a deleted
\* charge stays deleted.
LEMMA RowsRewritten ==
  ASSUME RowsOK, charges' = [b \in DOMAIN charges |-> charges'[b]],
         DOMAIN orders' = DOMAIN orders,
         \A b \in DOMAIN charges :
            /\ charges'[b] \in Charge /\ Agreed(charges'[b])
            /\ charges'[b].order = charges[b].order /\ charges'[b].number = charges[b].number
            /\ charges[b].status = "erased" => charges'[b].status = "erased"
            /\ orders'[charges[b].order].status = "deleted" => charges'[b].status = "erased"
  PROVE  RowsOK' /\ DOMAIN charges' = DOMAIN charges
<1>1. /\ charges \in Seq(Charge) /\ Len(charges) \in Nat /\ DOMAIN charges = 1..Len(charges)
      /\ \A b \in DOMAIN charges : charges[b] \in Charge
  BY Elements DEF RowsOK
<1>2. DOMAIN charges' = DOMAIN charges
  OBVIOUS
<1>3. charges' \in Seq(Charge) /\ Len(charges') = Len(charges)
  <2>1. charges' \in [1..Len(charges) -> Charge]
    BY <1>1, <1>2
  <2> QED BY <1>1, <2>1, FunctionIsSequence
<1>4. \A a, b \in DOMAIN charges' :
        charges'[a].status # "erased" /\ charges'[b].status # "erased"
          /\ charges'[a].number = charges'[b].number => a = b
  BY <1>2 DEF RowsOK, NumbersUnique, Exists
<1>5. NumbersUnique'
  BY <1>4 DEF NumbersUnique, Exists
<1>6. charges' \in Seq(Charge')
  BY <1>3 DEF Charge
<1>7. (\A b \in DOMAIN charges : Agreed(charges[b]))'
  BY <1>2 DEF Agreed
<1>8. Len(charges') <= MaxCharges
  BY <1>3 DEF RowsOK
<1>9. \A b \in DOMAIN charges' :
        /\ charges'[b].order \in DOMAIN orders'
        /\ orders'[charges'[b].order].status = "deleted" => charges'[b].status = "erased"
  BY <1>2 DEF RowsOK
<1> QED BY <1>2, <1>5, <1>6, <1>7, <1>8, <1>9 DEF RowsOK

LEMMA OrderAdded ==
  ASSUME OrdersOK, NEW row \in OrderRow, orders' = Append(orders, row), Len(orders) < MaxOrders
  PROVE  /\ OrdersOK' /\ Len(orders) + 1 \in 1..MaxOrders
         /\ DOMAIN orders' = DOMAIN orders \cup {Len(orders) + 1} /\ orders'[Len(orders) + 1] = row
         /\ \A o \in DOMAIN orders : o \in DOMAIN orders' /\ orders'[o] = orders[o]
<1>1. /\ orders' \in Seq(OrderRow) /\ Len(orders') = Len(orders) + 1 /\ Len(orders) \in Nat
      /\ DOMAIN orders' = DOMAIN orders \cup {Len(orders) + 1} /\ orders'[Len(orders) + 1] = row
      /\ \A o \in DOMAIN orders : orders'[o] = orders[o]
  BY OneMore, Elements DEF OrdersOK
<1>2. Len(orders') <= MaxOrders
  BY <1>1, BoundAssumption
<1>3. orders' \in Seq(OrderRow')
  BY <1>1 DEF OrderRow, OrderStatus, Line
<1> QED BY <1>1, <1>2, <1>3 DEF OrdersOK

LEMMA OrderChanged ==
  ASSUME OrdersOK, NEW o \in DOMAIN orders, NEW row \in OrderRow,
         orders' = [orders EXCEPT ![o] = row]
  PROVE  /\ OrdersOK' /\ DOMAIN orders' = DOMAIN orders /\ orders'[o] = row
         /\ \A q \in DOMAIN orders : q # o => orders'[q] = orders[q]
<1>1. /\ orders' \in Seq(OrderRow) /\ Len(orders') = Len(orders)
      /\ DOMAIN orders' = DOMAIN orders /\ orders'[o] = row
      /\ \A q \in DOMAIN orders : q # o => orders'[q] = orders[q]
  <2>1. orders \in Seq(OrderRow)
    BY DEF OrdersOK
  <2> QED BY <2>1
<1>2. orders' \in Seq(OrderRow')
  BY <1>1 DEF OrderRow, OrderStatus, Line
<1> QED BY <1>1, <1>2 DEF OrdersOK

LEMMA IdleFits == Idle \in Task' /\ Checked(Idle)
BY DEF Idle, Task, Checked

\* The request of a connection fits what the connection says it is doing.
LEMMA TaskFields ==
  ASSUME BillInv, NEW c \in Connection
  PROVE  /\ task[c].op = "create" => task[c].charged \in BOOLEAN /\ task[c].lines \in Seq(Line)
         /\ task[c].op = "addItem" => /\ task[c].order \in DOMAIN orders
                                      /\ task[c].lines \in Seq(Line) /\ task[c].lines # << >>
         /\ task[c].op = "update" => /\ task[c].charge \in DOMAIN charges
                                     /\ task[c].fields \in EditFields /\ task[c].row \in Charge
         /\ task[c].op = "sync" => /\ task[c].todo \in Seq([order: DOMAIN orders, total: Int])
                                   /\ task[c] = [op |-> "sync", todo |-> task[c].todo]
<1>1. task[c] \in Task
  BY DEF BillInv, TasksOK
<1>2. CASE task[c] = Idle
  BY <1>2 DEF Idle
<1>3. CASE task[c] \in [op: {"create"}, charged: BOOLEAN, lines: Seq(Line)]
  BY <1>3
<1>4. CASE task[c] \in [op: {"addItem"}, order: DOMAIN orders, lines: Seq(Line) \ {<< >>}]
  BY <1>4
<1>5. CASE task[c] \in [op: {"update"}, charge: DOMAIN charges, fields: EditFields, row: Charge]
  BY <1>5
<1>6. CASE task[c] \in [op: {"sync"}, todo: Seq([order: DOMAIN orders, total: Int])]
  BY <1>6
<1> QED BY <1>1, <1>2, <1>3, <1>4, <1>5, <1>6 DEF Task
-----------------------------------------------------------------------------
(* Every step keeps the invariant *)

\* A step that only begins, or ends, a request.
LEMMA OnlyTasks ==
  ASSUME BillInv, UNCHANGED <<perSale, orders, charges>>,
         NEW c \in Connection, NEW t \in Task, Does(c, t), Checked(t)
  PROVE  BillInv'
<1>1. OrdersOK'
  BY DEF BillInv, OrdersOK, OrderRow
<1>2. RowsOK'
  BY RowsLeft DEF BillInv
<1>3. t \in Task' /\ DOMAIN orders' = DOMAIN orders /\ DOMAIN charges' = DOMAIN charges
  BY TasksKept
<1>4. perSale' \in BOOLEAN
  BY DEF BillInv
<1> QED BY <1>1, <1>2, <1>3, <1>4, TablesAndTasks

LEMMA BeginCreateKeeps ==
  ASSUME BillInv, NEW c \in Connection, NEW lines \in Inputs, BeginCreate(c, lines)
  PROVE  BillInv'
<1> DEFINE priced == [i \in DOMAIN lines |-> Priced(lines[i])]
           t == [op |-> "create", charged |-> perSale, lines |-> priced]
<1>1. PICK n \in 1..MaxLines : lines \in [1..n -> LineInput]
  BY DEF Inputs
<1>2. priced \in [1..n -> Line]
  BY <1>1, PricedLine
<1>3. priced \in Seq(Line)
  <2>1. n \in Nat
    BY BoundAssumption
  <2> HIDE DEF priced
  <2> QED BY <1>2, <2>1, FunctionIsSequence
<1>4. Does(c, t) /\ UNCHANGED <<perSale, orders, charges>>
  BY DEF BeginCreate
<1>5. perSale \in BOOLEAN
  BY DEF BillInv
<1> HIDE DEF priced
<1>6. t \in Task /\ Checked(t)
  BY <1>3, <1>5 DEF Task, Checked
<1> HIDE DEF t
<1> QED BY <1>4, <1>6, OnlyTasks

LEMMA CommitCreateKeeps ==
  ASSUME BillInv, NEW c \in Connection, CommitCreate(c)
  PROVE  BillInv'
<1> DEFINE o == Len(orders) + 1
           order == NewOrder(task[c].lines)
           row == NewCharge(o, o, order.total, 0)
<1>1. /\ task[c].op = "create" /\ o <= MaxOrders
      /\ task[c].charged => Free(o) /\ Len(charges) < MaxCharges
      /\ orders' = Append(orders, order)
      /\ charges' = IF task[c].charged THEN Append(charges, row) ELSE charges
      /\ Does(c, Idle) /\ UNCHANGED perSale
  BY DEF CommitCreate, Ends
<1>2. order \in OrderRow /\ order.status = "pending" /\ order.total \in Int
  BY <1>1, TaskFields, NewOrderRow
<1>3. Len(orders) \in Nat /\ Len(orders) < MaxOrders
  BY <1>1, BoundAssumption DEF BillInv, OrdersOK
<1> HIDE DEF order
<1>4. /\ OrdersOK' /\ o \in 1..MaxOrders /\ o \in DOMAIN orders' /\ orders'[o] = order
      /\ \A q \in DOMAIN orders : q \in DOMAIN orders' /\ orders'[q] = orders[q]
  BY <1>1, <1>2, <1>3, OrderAdded DEF BillInv
<1>5. /\ row \in Charge /\ Agreed(row) /\ row.order = o /\ row.number = o
  BY <1>2, <1>4, NewChargeRow
<1> HIDE DEF row, o
<1>6. RowsOK' /\ DOMAIN charges \subseteq DOMAIN charges'
  <2>1. CASE task[c].charged
    <3>1. charges' = Append(charges, row) /\ Len(charges) < MaxCharges /\ Free(row.number)
      BY <1>1, <1>5, <2>1
    <3>2. row.order \in DOMAIN orders' /\ orders'[row.order].status # "deleted"
      BY <1>2, <1>4, <1>5
    <3>3. \A q \in DOMAIN orders :
             q \in DOMAIN orders' /\ (orders'[q].status = "deleted" => orders[q].status = "deleted")
      BY <1>4
    <3>4. RowsOK
      BY DEF BillInv
    <3> QED BY <1>5, <3>1, <3>2, <3>3, <3>4, RowAdded
  <2>2. CASE ~task[c].charged
    <3>1. charges' = charges
      BY <1>1, <2>2
    <3> QED BY <1>4, <3>1, RowsLeft DEF BillInv
  <2> QED BY <2>1, <2>2
<1>7. perSale' \in BOOLEAN
  BY <1>1 DEF BillInv
<1> QED BY <1>1, <1>4, <1>6, <1>7, IdleFits, TablesAndTasks

\* Lines without a discount are lines.
LEMMA CatalogLines ==
  ASSUME NEW lines \in Inputs, \A i \in DOMAIN lines : lines[i].discount = 0
  PROVE  lines \in Seq(Line)
<1>1. PICK n \in 1..MaxLines : lines \in [1..n -> LineInput]
  BY DEF Inputs
<1>2. \A i \in 1..n : lines[i] \in Line
  BY <1>1, AmountAssumption DEF Line
<1>3. lines \in [1..n -> Line] /\ n \in Nat
  BY <1>1, <1>2, BoundAssumption
<1> QED BY <1>3, FunctionIsSequence

LEMMA CatalogOrderKeeps ==
  ASSUME BillInv, NEW lines \in Inputs, CreateCatalogOrder(lines)
  PROVE  BillInv'
<1> DEFINE order == NewOrder(lines)
<1>1. /\ Len(orders) < MaxOrders /\ \A i \in DOMAIN lines : lines[i].discount = 0
      /\ orders' = Append(orders, order) /\ UNCHANGED <<perSale, charges, task>>
  BY DEF CreateCatalogOrder
<1>2. lines \in Seq(Line)
  BY <1>1, CatalogLines
<1>3. order \in OrderRow /\ order.status = "pending"
  BY <1>2, NewOrderRow
<1> HIDE DEF order
<1>4. /\ OrdersOK' /\ \A q \in DOMAIN orders : q \in DOMAIN orders' /\ orders'[q] = orders[q]
  BY <1>1, <1>3, OrderAdded DEF BillInv
<1>5. RowsOK'
  BY <1>1, <1>4, RowsLeft DEF BillInv
<1>6. perSale' \in BOOLEAN
  BY <1>1 DEF BillInv
<1> QED BY <1>1, <1>4, <1>5, <1>6, TablesAndTasks

LEMMA BeginAddItemKeeps ==
  ASSUME BillInv, NEW c \in Connection, NEW o \in DOMAIN orders, NEW line \in LineInput,
         BeginAddItem(c, o, line)
  PROVE  BillInv'
<1> DEFINE lines == Append(orders[o].lines, Priced(line))
           t == [op |-> "addItem", order |-> o, lines |-> lines]
<1>1. Does(c, t) /\ UNCHANGED <<perSale, orders, charges>>
  BY DEF BeginAddItem
<1>2. orders[o] \in OrderRow
  BY Elements DEF BillInv, OrdersOK
<1>3. orders[o].lines \in Seq(Line) /\ Priced(line) \in Line
  BY <1>2, PricedLine DEF OrderRow
<1>4. lines \in Seq(Line) \ {<< >>}
  BY <1>3
<1> HIDE DEF lines
<1>5. t \in Task /\ Checked(t)
  BY <1>4 DEF Task, Checked
<1> HIDE DEF t
<1> QED BY <1>1, <1>5, OnlyTasks

\* The line that is added has its type, and so have the totals.
LEMMA ExtendedRow ==
  ASSUME OrdersOK, NEW o \in DOMAIN orders, NEW lines \in Seq(Line), lines # << >>
  PROVE  LET new == Extended(o, lines) IN
         /\ new \in OrderRow /\ new.status = orders[o].status
         /\ new.lines = Append(orders[o].lines, lines[Len(lines)])
         /\ new.total = Cost(lines) - Discounts(lines)
<1> PICK old : old = orders[o]
  OBVIOUS
<1>1. old \in OrderRow
  BY Elements DEF OrdersOK
<1>2. old = [status |-> old.status, lines |-> old.lines, subtotal |-> old.subtotal,
             discount |-> old.discount, total |-> old.total]
      /\ old.status \in OrderStatus \cup {"deleted"} /\ old.lines \in Seq(Line)
  BY <1>1 DEF OrderRow
<1>3. lines[Len(lines)] \in Line
  <2>1. Len(lines) \in 1..Len(lines)
    OBVIOUS
  <2> QED BY <2>1, Elements
<1>4. Append(old.lines, lines[Len(lines)]) \in Seq(Line)
  BY <1>2, <1>3
<1>5. Cost(lines) \in Nat /\ Discounts(lines) \in Nat /\ Cost(lines) - Discounts(lines) \in Int
  BY Totals
<1> PICK cost, discounts, total, all :
            /\ cost = Cost(lines) /\ discounts = Discounts(lines)
            /\ total = Cost(lines) - Discounts(lines)
            /\ all = Append(old.lines, lines[Len(lines)])
  OBVIOUS
<1>6. Extended(o, lines) = [status |-> old.status, lines |-> all, subtotal |-> cost,
                            discount |-> discounts, total |-> total]
  <2> PICK a : a = [old EXCEPT !.lines = Append(@, lines[Len(lines)])]
    OBVIOUS
  <2> PICK b : b = [a EXCEPT !.subtotal = cost]
    OBVIOUS
  <2> PICK d : d = [b EXCEPT !.discount = discounts]
    OBVIOUS
  <2>1. a = [status |-> old.status, lines |-> all, subtotal |-> old.subtotal,
             discount |-> old.discount, total |-> old.total]
    BY <1>2
  <2>2. b = [status |-> old.status, lines |-> all, subtotal |-> cost,
             discount |-> old.discount, total |-> old.total]
    BY <2>1
  <2>3. d = [status |-> old.status, lines |-> all, subtotal |-> cost,
             discount |-> discounts, total |-> old.total]
    BY <2>2
  <2> PICK e : e = [d EXCEPT !.total = total]
    OBVIOUS
  <2>4. e = [status |-> old.status, lines |-> all, subtotal |-> cost,
             discount |-> discounts, total |-> total]
    BY <2>3
  <2>5. Extended(o, lines) = e
    BY DEF Extended
  <2> QED BY <2>4, <2>5
<1> QED BY <1>2, <1>4, <1>5, <1>6 DEF OrderRow

LEMMA CommitAddItemKeeps ==
  ASSUME BillInv, NEW c \in Connection, CommitAddItem(c)
  PROVE  BillInv'
<1> PICK o, lines : o = task[c].order /\ lines = task[c].lines
  OBVIOUS
<1> DEFINE new == Extended(o, lines)
<1>1. /\ task[c].op = "addItem" /\ orders[o].status # "deleted"
      /\ orders' = [orders EXCEPT ![o] = new] /\ Does(c, Idle) /\ UNCHANGED <<perSale, charges>>
  BY DEF CommitAddItem, Ends
<1>2. o \in DOMAIN orders /\ lines \in Seq(Line) /\ lines # << >>
  BY <1>1, TaskFields
<1>3. OrdersOK /\ RowsOK /\ perSale \in BOOLEAN
  BY DEF BillInv
<1>4. new \in OrderRow /\ new.status = orders[o].status
  BY <1>2, <1>3, ExtendedRow
<1> HIDE DEF new
<1>5. OrdersOK' /\ DOMAIN orders' = DOMAIN orders /\ orders'[o] = new
      /\ \A q \in DOMAIN orders : q # o => orders'[q] = orders[q]
  BY <1>1, <1>2, <1>3, <1>4, OrderChanged
<1>6. RowsOK'
  BY <1>1, <1>3, <1>4, <1>5, RowsLeft
<1> QED BY <1>1, <1>3, <1>5, <1>6, IdleFits, TablesAndTasks

\* Only the status of an order changes.
LEMMA StatusRow ==
  ASSUME OrdersOK, NEW o \in DOMAIN orders, NEW status \in OrderStatus \cup {"deleted"},
         orders' = [orders EXCEPT ![o].status = status]
  PROVE  /\ OrdersOK' /\ DOMAIN orders' = DOMAIN orders /\ orders'[o].status = status
         /\ orders'[o].total = orders[o].total /\ orders'[o].lines = orders[o].lines
         /\ \A q \in DOMAIN orders : q # o => orders'[q] = orders[q]
<1> PICK old : old = orders[o]
  OBVIOUS
<1> PICK new : new = [old EXCEPT !.status = status]
  OBVIOUS
<1>1. old \in OrderRow
  BY Elements DEF OrdersOK
<1>2. new \in OrderRow /\ new.status = status /\ new.total = old.total /\ new.lines = old.lines
  BY <1>1 DEF OrderRow
<1>3. orders' = [orders EXCEPT ![o] = new]
  OBVIOUS
<1> QED BY <1>2, <1>3, OrderChanged

LEMMA UpdateStatusKeeps ==
  ASSUME BillInv, NEW o \in DOMAIN orders, NEW status \in OrderStatus, UpdateStatus(o, status)
  PROVE  BillInv'
<1>1. /\ orders[o].status # "deleted" /\ orders' = [orders EXCEPT ![o].status = status]
      /\ charges' = IF status = "canceled" THEN VoidOf(o) ELSE charges
      /\ UNCHANGED <<perSale, task>>
  BY DEF UpdateStatus
<1>2. OrdersOK /\ RowsOK /\ perSale \in BOOLEAN
  BY DEF BillInv
<1>3. status # "deleted"
  BY StatusAssumption DEF OrderStatus
<1>4. /\ OrdersOK' /\ DOMAIN orders' = DOMAIN orders /\ orders'[o].status = status
      /\ \A q \in DOMAIN orders : q # o => orders'[q] = orders[q]
  BY <1>1, <1>2, StatusRow
<1>5. RowsOK' /\ DOMAIN charges' = DOMAIN charges
  <2>1. CASE status = "canceled"
    <3>1. charges' = VoidOf(o)
      BY <1>1, <2>1
    <3>2. charges' = [b \in DOMAIN charges |-> charges'[b]]
      BY <3>1 DEF VoidOf
    <3>3. ASSUME NEW b \in DOMAIN charges
          PROVE  /\ charges'[b] \in Charge /\ Agreed(charges'[b])
                 /\ charges'[b].order = charges[b].order /\ charges'[b].number = charges[b].number
                 /\ charges[b].status = "erased" => charges'[b].status = "erased"
                 /\ orders'[charges[b].order].status = "deleted" => charges'[b].status = "erased"
      <4>1. charges[b] \in Charge /\ Agreed(charges[b]) /\ charges[b].order \in DOMAIN orders
            /\ (orders[charges[b].order].status = "deleted" => charges[b].status = "erased")
        BY <1>2, Elements DEF RowsOK
      <4>2. CASE charges[b].order = o /\ charges[b].status # "erased"
        <5>1. charges'[b] = Voided(charges[b])
          BY <3>1, <4>2 DEF VoidOf, Exists
        <5>2. orders'[charges[b].order].status # "deleted"
          BY <1>3, <1>4, <4>2
        <5> QED BY <4>1, <4>2, <5>1, <5>2, VoidedRow
      <4>3. CASE ~(charges[b].order = o /\ charges[b].status # "erased")
        <5>1. charges'[b] = charges[b]
          BY <3>1, <4>3 DEF VoidOf, Exists
        <5> QED BY <1>3, <1>4, <4>1, <5>1
      <4> QED BY <4>2, <4>3
    <3> QED BY <1>2, <1>4, <3>2, <3>3, RowsRewritten
  <2>2. CASE status # "canceled"
    <3>1. charges' = charges
      BY <1>1, <2>2
    <3>2. \A q \in DOMAIN orders : orders'[q].status = "deleted" => orders[q].status = "deleted"
      BY <1>3, <1>4
    <3> QED BY <1>2, <1>4, <3>1, <3>2, RowsLeft
  <2> QED BY <2>1, <2>2
<1> QED BY <1>1, <1>2, <1>4, <1>5, TablesAndTasks

LEMMA DeleteOrderKeeps ==
  ASSUME BillInv, NEW o \in DOMAIN orders, DeleteOrder(o)
  PROVE  BillInv'
<1>1. /\ orders' = [orders EXCEPT ![o].status = "deleted"]
      /\ charges' = [b \in DOMAIN charges |->
                        IF charges[b].order = o THEN Erased(charges[b]) ELSE charges[b]]
      /\ UNCHANGED <<perSale, task>>
  BY DEF DeleteOrder
<1>2. OrdersOK /\ RowsOK /\ perSale \in BOOLEAN
  BY DEF BillInv
<1>3. /\ OrdersOK' /\ DOMAIN orders' = DOMAIN orders
      /\ \A q \in DOMAIN orders : q # o => orders'[q] = orders[q]
  <2>1. "deleted" \in OrderStatus \cup {"deleted"}
    OBVIOUS
  <2> QED BY <1>1, <1>2, <2>1, StatusRow
<1>4. charges' = [b \in DOMAIN charges |-> charges'[b]]
  BY <1>1
<1>5. ASSUME NEW b \in DOMAIN charges
      PROVE  /\ charges'[b] \in Charge /\ Agreed(charges'[b])
             /\ charges'[b].order = charges[b].order /\ charges'[b].number = charges[b].number
             /\ charges[b].status = "erased" => charges'[b].status = "erased"
             /\ orders'[charges[b].order].status = "deleted" => charges'[b].status = "erased"
  <2>1. charges[b] \in Charge /\ Agreed(charges[b]) /\ charges[b].order \in DOMAIN orders
        /\ (orders[charges[b].order].status = "deleted" => charges[b].status = "erased")
    BY <1>2, Elements DEF RowsOK
  <2>2. CASE charges[b].order = o
    <3>1. charges'[b] = Erased(charges[b])
      BY <1>1, <2>2
    <3> QED BY <2>1, <3>1, ErasedRow
  <2>3. CASE charges[b].order # o
    <3>1. charges'[b] = charges[b]
      BY <1>1, <2>3
    <3> QED BY <1>3, <2>1, <2>3, <3>1
  <2> QED BY <2>2, <2>3
<1>6. RowsOK' /\ DOMAIN charges' = DOMAIN charges
  BY <1>2, <1>3, <1>4, <1>5, RowsRewritten
<1> QED BY <1>1, <1>2, <1>3, <1>6, TablesAndTasks

LEMMA SetBillingModeKeeps ==
  ASSUME BillInv, NEW b \in BOOLEAN, SetBillingMode(b)
  PROVE  BillInv'
<1>1. perSale' \in BOOLEAN /\ UNCHANGED <<orders, charges, task>>
  BY DEF SetBillingMode
<1>2. OrdersOK'
  BY <1>1 DEF BillInv, OrdersOK, OrderRow
<1>3. RowsOK'
  BY <1>1, RowsLeft DEF BillInv
<1> QED BY <1>1, <1>2, <1>3, TablesAndTasks

\* A step of one charge that leaves the orders.
LEMMA OneChargeChanged ==
  ASSUME OrdersOK, RowsOK, UNCHANGED orders, NEW b \in DOMAIN charges, NEW row \in Charge,
         charges' = [charges EXCEPT ![b] = row], Agreed(row), Exists(b),
         row.order = charges[b].order, row.number = charges[b].number
  PROVE  OrdersOK' /\ RowsOK' /\ DOMAIN charges' = DOMAIN charges
<1>1. DOMAIN charges' = DOMAIN charges /\ charges'[b] = row
      /\ \A q \in DOMAIN charges : q # b => charges'[q] = charges[q]
  BY Elements DEF RowsOK
<1>2. charges' = [q \in DOMAIN charges |-> charges'[q]]
  BY <1>1
<1>3. ASSUME NEW q \in DOMAIN charges
      PROVE  /\ charges'[q] \in Charge /\ Agreed(charges'[q])
             /\ charges'[q].order = charges[q].order /\ charges'[q].number = charges[q].number
             /\ charges[q].status = "erased" => charges'[q].status = "erased"
             /\ orders'[charges[q].order].status = "deleted" => charges'[q].status = "erased"
  <2>1. charges[q] \in Charge /\ Agreed(charges[q])
        /\ (orders[charges[q].order].status = "deleted" => charges[q].status = "erased")
    BY Elements DEF RowsOK
  <2>2. CASE q = b
    BY <1>1, <2>1, <2>2 DEF Exists
  <2>3. CASE q # b
    BY <1>1, <2>1, <2>3
  <2> QED BY <2>2, <2>3
<1>4. RowsOK' /\ DOMAIN charges' = DOMAIN charges
  BY <1>2, <1>3, RowsRewritten
<1>5. OrdersOK'
  BY DEF OrdersOK, OrderRow
<1> QED BY <1>4, <1>5

LEMMA CreateChargeKeeps ==
  ASSUME BillInv, NEW o \in DOMAIN orders, NEW number \in SellersNumber,
         NEW total \in Amount, NEW paid \in Amount, CreateCharge(o, number, total, paid)
  PROVE  BillInv'
<1> DEFINE row == NewCharge(o, number, total, paid)
<1>1. /\ orders[o].status # "deleted" /\ Free(number) /\ Len(charges) < MaxCharges
      /\ charges' = Append(charges, row) /\ UNCHANGED <<perSale, orders, task>>
  BY DEF CreateCharge
<1>2. OrdersOK /\ RowsOK /\ perSale \in BOOLEAN
  BY DEF BillInv
<1>3. o \in 1..MaxOrders
  BY <1>2, BoundAssumption, Elements DEF OrdersOK
<1>4. total \in Int /\ paid \in Nat /\ number \in 1..MaxOrders \cup SellersNumber
  BY AmountAssumption
<1>5. row \in Charge /\ Agreed(row) /\ row.order = o /\ row.number = number
  BY <1>3, <1>4, NewChargeRow
<1> HIDE DEF row
<1>6. RowsOK' /\ DOMAIN charges \subseteq DOMAIN charges'
  BY <1>1, <1>2, <1>5, RowAdded
<1>7. OrdersOK'
  BY <1>1, <1>2 DEF OrdersOK, OrderRow
<1> QED BY <1>1, <1>2, <1>6, <1>7, TablesAndTasks

LEMMA BeginUpdateKeeps ==
  ASSUME BillInv, NEW c \in Connection, NEW b \in DOMAIN charges, NEW fields \in EditFields,
         BeginUpdate(c, b, fields)
  PROVE  BillInv'
<1> DEFINE t == [op |-> "update", charge |-> b, fields |-> fields, row |-> charges[b]]
<1>1. /\ Does(c, t) /\ UNCHANGED <<perSale, orders, charges>>
      /\ Overwrite(charges[b], fields).paid <= Overwrite(charges[b], fields).total
  BY DEF BeginUpdate
<1>2. charges[b] \in Charge
  BY Elements DEF BillInv, RowsOK
<1>3. t \in Task
  BY <1>2 DEF Task
<1>4. t.row = charges[b] /\ t.fields = fields
  OBVIOUS
<1> HIDE DEF t
<1>5. Checked(t)
  BY <1>1, <1>4 DEF Checked
<1> QED BY <1>1, <1>3, <1>5, OnlyTasks

\* What an edit writes keeps the payment in step with the status.
LEMMA EditAgrees ==
  ASSUME NEW read \in Charge, NEW row \in Charge, NEW fields \in EditFields, Agreed(row)
  PROVE  Agreed(Overwrite(row, Written(read, fields)))
<1> PICK new, amounts : /\ new = Overwrite(row, Written(read, fields))
                        /\ amounts = Overwrite(read, fields)
  OBVIOUS
<1>1. /\ amounts.paid \in Nat /\ amounts.total \in Int
      /\ read.status = "canceled" => new.status = row.status /\ new.payment = row.payment
      /\ read.status # "canceled" =>
            /\ new.status = Derived(amounts.paid, amounts.total).status
            /\ new.payment = Derived(amounts.paid, amounts.total).payment
  BY WrittenRow
<1> PICK d : d = Derived(amounts.paid, amounts.total)
  OBVIOUS
<1>2. /\ d.status \in {"pending", "partial", "paid"} /\ d.payment \in {"pending", "confirmed"}
      /\ d.payment = "confirmed" <=> d.status = "paid"
  BY <1>1, DerivedRow
<1>3. CASE read.status = "canceled"
  BY <1>1, <1>3 DEF Agreed
<1>4. CASE read.status # "canceled"
  <2>1. new.status = d.status /\ new.payment = d.payment
    BY <1>1, <1>4
  <2>2. Agreed(new)
    BY <1>2, <2>1 DEF Agreed
  <2> QED BY <2>2
<1> QED BY <1>3, <1>4

LEMMA CommitUpdateKeeps ==
  ASSUME BillInv, NEW c \in Connection, CommitUpdate(c)
  PROVE  BillInv'
<1> PICK b, read, fields : b = task[c].charge /\ read = task[c].row /\ fields = task[c].fields
  OBVIOUS
<1> DEFINE new == Overwrite(charges[b], Written(read, fields))
<1>1. /\ task[c].op = "update" /\ Exists(b) /\ charges' = [charges EXCEPT ![b] = new]
      /\ Does(c, Idle) /\ UNCHANGED <<perSale, orders>>
  BY DEF CommitUpdate, Ends
<1>2. b \in DOMAIN charges /\ read \in Charge /\ fields \in EditFields
  BY <1>1, TaskFields
<1>3. OrdersOK /\ RowsOK /\ perSale \in BOOLEAN
  BY DEF BillInv
<1>4. charges[b] \in Charge /\ Agreed(charges[b])
  BY <1>2, <1>3, Elements DEF RowsOK
<1>5. /\ new \in Charge /\ new.order = charges[b].order /\ new.number = charges[b].number
  <2> HIDE DEF new
  <2>1. /\ Overwrite(charges[b], Written(read, fields)) \in Charge
        /\ Overwrite(charges[b], Written(read, fields)).order = charges[b].order
        /\ Overwrite(charges[b], Written(read, fields)).number = charges[b].number
    BY <1>2, <1>4, WrittenKeeps, ZenonT(40)
  <2> QED BY <2>1 DEF new
<1>6. Agreed(new)
  BY <1>2, <1>4, EditAgrees
<1> HIDE DEF new
<1>7. OrdersOK' /\ RowsOK' /\ DOMAIN charges' = DOMAIN charges
  BY <1>1, <1>2, <1>3, <1>5, <1>6, OneChargeChanged
<1> QED BY <1>1, <1>3, <1>7, IdleFits, TablesAndTasks

LEMMA DropKeeps ==
  ASSUME BillInv, NEW b \in DOMAIN charges, CancelCharge(b) \/ DeleteCharge(b)
  PROVE  BillInv'
<1>1. OrdersOK /\ RowsOK /\ perSale \in BOOLEAN
  BY DEF BillInv
<1>2. charges[b] \in Charge
  BY <1>1, Elements DEF RowsOK
<1>3. PICK new : /\ new = Voided(charges[b]) \/ new = Erased(charges[b])
                 /\ charges' = [charges EXCEPT ![b] = new]
  BY DEF CancelCharge, DeleteCharge
<1>4. Exists(b) /\ UNCHANGED <<perSale, orders, task>>
  BY DEF CancelCharge, DeleteCharge
<1>5. /\ new \in Charge /\ Agreed(new)
      /\ new.order = charges[b].order /\ new.number = charges[b].number
  BY <1>2, <1>3, VoidedRow, ErasedRow
<1>6. OrdersOK' /\ RowsOK' /\ DOMAIN charges' = DOMAIN charges
  BY <1>1, <1>3, <1>4, <1>5, OneChargeChanged
<1> QED BY <1>1, <1>4, <1>6, TablesAndTasks

LEMMA EndsKeep ==
  ASSUME BillInv, NEW c \in Connection, FailCreate(c) \/ NotFound(c) \/ SyncEnds(c)
  PROVE  BillInv'
<1>1. Does(c, Idle) /\ UNCHANGED <<perSale, orders, charges>>
  BY DEF FailCreate, NotFound, SyncEnds, Ends
<1>2. Idle \in Task /\ Checked(Idle)
  BY DEF Idle, Task, Checked
<1> QED BY <1>1, <1>2, OnlyTasks

LEMMA BeginSyncKeeps ==
  ASSUME BillInv, NEW c \in Connection, BeginSync(c)
  PROVE  BillInv'
<1>1. PICK listed \in [1..Cardinality(Unbilled) -> Unbilled] :
         /\ Does(c, [op |-> "sync",
                     todo |-> [i \in DOMAIN listed |->
                                  [order |-> listed[i], total |-> orders[listed[i]].total]]])
         /\ UNCHANGED <<perSale, orders, charges>>
  BY DEF BeginSync
<1> DEFINE todo == [i \in DOMAIN listed |->
                       [order |-> listed[i], total |-> orders[listed[i]].total]]
           t == [op |-> "sync", todo |-> todo]
<1>2. orders \in Seq(OrderRow)
  BY DEF BillInv, OrdersOK
<1>3. Unbilled \subseteq DOMAIN orders
  BY DEF Unbilled
<1>4. Cardinality(Unbilled) \in Nat
  <2>1. IsFiniteSet(1..Len(orders)) /\ DOMAIN orders = 1..Len(orders)
    BY <1>2, Elements, FS_Interval
  <2> QED BY <1>3, <2>1, FS_Subset, FS_CardinalityType
<1>5. todo \in [1..Cardinality(Unbilled) -> [order: DOMAIN orders, total: Int]]
  <2>1. \A i \in DOMAIN listed : listed[i] \in DOMAIN orders
    BY <1>3
  <2>2. \A o \in DOMAIN orders : orders[o].total \in Int
    <3>1. \A o \in DOMAIN orders : orders[o] \in OrderRow
      BY <1>2, Elements
    <3> QED BY <3>1 DEF OrderRow
  <2> QED BY <2>1, <2>2
<1> HIDE DEF todo
<1>6. todo \in Seq([order: DOMAIN orders, total: Int])
  BY <1>4, <1>5, FunctionIsSequence
<1>7. t \in Task /\ Checked(t)
  BY <1>6 DEF Task, Checked
<1>8. Does(c, t)
  BY <1>1 DEF todo
<1> HIDE DEF t
<1> QED BY <1>1, <1>7, <1>8, OnlyTasks

LEMMA TodoSet ==
  ASSUME NEW S, NEW t \in [op: {"sync"}, todo: S], NEW rest
  PROVE  [t EXCEPT !.todo = rest] = [op |-> "sync", todo |-> rest]
OBVIOUS

LEMMA SyncOneKeeps ==
  ASSUME BillInv, NEW c \in Connection, SyncOne(c)
  PROVE  BillInv'
<1> PICK todo : todo = task[c].todo
  OBVIOUS
<1> PICK next : next = Head(todo)
  OBVIOUS
<1> DEFINE able == orders[next.order].status # "deleted" /\ Free(next.order)
           row == NewCharge(next.order, next.order, next.total, 0)
           t == [task[c] EXCEPT !.todo = Tail(todo)]
<1>1. /\ task[c].op = "sync" /\ todo # << >>
      /\ able => Len(charges) < MaxCharges
      /\ charges' = IF able THEN Append(charges, row) ELSE charges
      /\ Does(c, t) /\ UNCHANGED <<perSale, orders>>
  BY DEF SyncOne
<1>2. OrdersOK /\ RowsOK /\ perSale \in BOOLEAN
  BY DEF BillInv
<1>3. /\ todo \in Seq([order: DOMAIN orders, total: Int])
      /\ task[c] = [op |-> "sync", todo |-> todo]
  <2>1. task[c].op = "sync"
    BY <1>1
  <2>2. /\ task[c].todo \in Seq([order: DOMAIN orders, total: Int])
        /\ task[c] = [op |-> "sync", todo |-> task[c].todo]
    BY <2>1, TaskFields
  <2> QED BY <2>2
<1>4. /\ next \in [order: DOMAIN orders, total: Int]
      /\ Tail(todo) \in Seq([order: DOMAIN orders, total: Int])
  <2> DEFINE S == [order: DOMAIN orders, total: Int]
  <2>1. todo \in Seq(S)
    BY <1>3
  <2> HIDE DEF S
  <2>2. Head(todo) \in S /\ Tail(todo) \in Seq(S)
    <3>1. todo # << >>
      BY <1>1
    <3> QED BY <2>1, <3>1, HeadTailProperties
  <2> QED BY <2>2 DEF S
<1>5. t \in Task /\ Checked(t)
  <2> PICK rest : rest = Tail(todo)
    OBVIOUS
  <2> DEFINE S == Seq([order: DOMAIN orders, total: Int])
  <2>0. task[c] \in [op: {"sync"}, todo: S]
    BY <1>3
  <2>1. t = [op |-> "sync", todo |-> rest]
    <3> HIDE DEF S
    <3> QED BY <2>0, TodoSet
  <2> HIDE DEF t
  <2>2. t \in Task
    BY <1>4, <2>1 DEF Task
  <2> QED BY <2>1, <2>2 DEF Checked
<1> HIDE DEF t
<1>6. next.order \in DOMAIN orders /\ next.order \in 1..MaxOrders /\ next.total \in Int
  <2>1. next.order \in DOMAIN orders /\ next.total \in Int
    BY <1>4
  <2> QED BY <1>2, <2>1, BoundAssumption, Elements DEF OrdersOK
<1>7. row \in Charge /\ Agreed(row) /\ row.order = next.order /\ row.number = next.order
  BY <1>6, NewChargeRow
<1> HIDE DEF row
<1>8. RowsOK' /\ DOMAIN charges \subseteq DOMAIN charges'
  <2>1. CASE able
    <3>1. /\ charges' = Append(charges, row) /\ Len(charges) < MaxCharges /\ Free(row.number)
          /\ orders' = orders
      BY <1>1, <1>7, <2>1
    <3>2. row.order \in DOMAIN orders' /\ orders'[row.order].status # "deleted"
      BY <1>6, <1>7, <2>1, <3>1
    <3>3. \A o \in DOMAIN orders :
             o \in DOMAIN orders' /\ (orders'[o].status = "deleted" => orders[o].status = "deleted")
      BY <3>1
    <3> HIDE DEF able
    <3> QED BY <1>2, <1>7, <3>1, <3>2, <3>3, RowAdded
  <2>2. CASE ~able
    BY <1>1, <1>2, <2>2, RowsLeft
  <2> QED BY <2>1, <2>2
<1>9. OrdersOK'
  BY <1>1, <1>2 DEF OrdersOK, OrderRow
<1>10. t \in Task' /\ DOMAIN orders \subseteq DOMAIN orders'
  <2>1. DOMAIN orders \subseteq DOMAIN orders'
    BY <1>1
  <2> QED BY <1>5, <1>8, <2>1, TasksKept
<1> QED BY <1>1, <1>2, <1>5, <1>8, <1>9, <1>10, TablesAndTasks

LEMMA BillInvHolds == Spec => []BillInv
<1>1. Init => BillInv
  <2> SUFFICES ASSUME Init PROVE BillInv
    OBVIOUS
  <2>1. OrdersOK /\ RowsOK
    BY BoundAssumption DEF Init, OrdersOK, RowsOK, NumbersUnique
  <2>2. TasksOK
    BY DEF Init, TasksOK, Task, Idle, Checked
  <2> QED BY <2>1, <2>2 DEF Init, BillInv
<1>2. BillInv /\ [Next]_vars => BillInv'
  <2> SUFFICES ASSUME BillInv, [Next]_vars PROVE BillInv'
    OBVIOUS
  <2>1. ASSUME NEW c \in Connection, Order(c) PROVE BillInv'
    BY <2>1, BeginCreateKeeps, CommitCreateKeeps, EndsKeep, BeginAddItemKeeps, CommitAddItemKeeps
       DEF Order
  <2>2. ASSUME NEW c \in Connection, Edit(c) PROVE BillInv'
    BY <2>2, BeginUpdateKeeps, CommitUpdateKeeps DEF Edit
  <2>3. ASSUME NEW c \in Connection, Sync(c) PROVE BillInv'
    BY <2>3, BeginSyncKeeps, SyncOneKeeps, EndsKeep DEF Sync
  <2>4. ASSUME NEW c \in Connection, NotFound(c) PROVE BillInv'
    BY <2>4, EndsKeep
  <2>5. CASE Browse
    BY <2>5, CatalogOrderKeeps DEF Browse
  <2>6. CASE Leave
    BY <2>6, UpdateStatusKeeps, DeleteOrderKeeps DEF Leave
  <2>7. CASE Drop
    BY <2>7, DropKeeps DEF Drop
  <2>8. CASE Configure
    BY <2>8, SetBillingModeKeeps DEF Configure
  <2>9. ASSUME NEW o \in DOMAIN orders, ByHand(o) PROVE BillInv'
    BY <2>9, CreateChargeKeeps DEF ByHand
  <2>10. CASE UNCHANGED vars
    <3>1. UNCHANGED <<perSale, orders, charges, task>>
      BY <2>10 DEF vars
    <3>2. RowsOK'
      BY <3>1, RowsLeft DEF BillInv
    <3>3. OrdersOK'
      BY <3>1 DEF BillInv, OrdersOK, OrderRow
    <3> QED BY <3>1, <3>2, <3>3, TablesAndTasks DEF BillInv
  <2> QED BY <2>1, <2>2, <2>3, <2>4, <2>5, <2>6, <2>7, <2>8, <2>9, <2>10 DEF Next
<1> QED BY <1>1, <1>2, PTL DEF Spec
-----------------------------------------------------------------------------
(* What the runs check *)

\* Every table keeps its type and the payment of a charge is confirmed exactly
\* when the charge is paid and canceled exactly when it is voided, whoever edits,
\* voids, syncs or cancels orders at the same time.
THEOREM PaymentsAgree == Spec => []ChargesOK
BY BillInvHolds, BillInvMeans, PTL

\* However creates and syncs interleave, an order gets one charge of its own.
THEOREM OneChargeOfItsOwn == Spec => []ChargedOnce
<1>1. BillInv => ChargedOnce
  <2> SUFFICES ASSUME BillInv, NEW o \in DOMAIN orders
               PROVE  Cardinality({b \in DOMAIN charges :
                          Exists(b) /\ charges[b].order = o /\ charges[b].number = o}) <= 1
    BY DEF ChargedOnce
  <2> DEFINE B == {b \in DOMAIN charges :
                      Exists(b) /\ charges[b].order = o /\ charges[b].number = o}
  <2>1. \A a, b \in B : a = b
    BY DEF BillInv, RowsOK, NumbersUnique
  <2>2. Cardinality(B) <= 1
    <3> HIDE DEF B
    <3>1. CASE B = {}
      BY <3>1, FS_EmptySet
    <3>2. CASE B # {}
      <4>1. PICK b : b \in B
        BY <3>2
      <4>2. B = {b}
        BY <2>1, <4>1
      <4>3. Cardinality({b}) = 1
        BY FS_Singleton
      <4> QED BY <4>2, <4>3
    <3> QED BY <3>1, <3>2
  <2> QED BY <2>2
<1> QED BY <1>1, BillInvHolds, PTL
-----------------------------------------------------------------------------
(* Where a change of a charge comes from *)

Left(b) == b \in DOMAIN charges /\ charges'[b] = charges[b]

Closed(b) == b \in DOMAIN charges /\ charges'[b].status \in {"canceled", "erased"}

Edited(b) ==
    \E c \in Connection :
        /\ task[c].op = "update" /\ task[c].charge = b /\ CommitUpdate(c)
        /\ b \in DOMAIN charges /\ Exists(b)
        /\ charges'[b] = Overwrite(charges[b], Written(task[c].row, task[c].fields))

\* A charge is added for order o when the order is created, by a sync, or by hand.
Added(b) ==
    \E o \in 1..MaxOrders, number \in 1..MaxOrders \cup SellersNumber, total \in Int, paid \in Nat :
        /\ b \notin DOMAIN charges
        /\ paid = 0 \/ paid <= total
        /\ charges'[b] = NewCharge(o, number, total, paid)
        /\ o \notin DOMAIN orders \/ ByHand(o) \/ \E c \in Connection : SyncsLate(c, o)

Origin(b) == Left(b) \/ Closed(b) \/ Edited(b) \/ Added(b)

LEMMA NewRowOnly ==
  ASSUME BillInv, NEW row \in Charge, charges' = Append(charges, row), NEW b \in DOMAIN charges'
  PROVE  Left(b) \/ (b \notin DOMAIN charges /\ charges'[b] = row)
BY OneMore DEF BillInv, RowsOK, Left

LEMMA CreateOrigin ==
  ASSUME BillInv, NEW c \in Connection, CommitCreate(c)
  PROVE  \A b \in DOMAIN charges' : Origin(b)
<1> DEFINE o == Len(orders) + 1
           total == NewOrder(task[c].lines).total
           row == NewCharge(o, o, total, 0)
<1>1. /\ task[c].op = "create" /\ o <= MaxOrders
      /\ charges' = IF task[c].charged THEN Append(charges, row) ELSE charges
  BY DEF CommitCreate
<1>2. total \in Int
  BY <1>1, TaskFields, NewOrderRow
<1>3. o \in 1..MaxOrders /\ o \notin DOMAIN orders
  BY <1>1, BoundAssumption, Elements DEF BillInv, OrdersOK
<1> HIDE DEF o, total
<1>4. row \in Charge
  BY <1>2, <1>3, NewChargeRow
<1> SUFFICES ASSUME NEW b \in DOMAIN charges' PROVE Origin(b)
  OBVIOUS
<1>5. Left(b) \/ (b \notin DOMAIN charges /\ charges'[b] = row)
  <2>1. CASE charges' = Append(charges, row)
    <3> HIDE DEF row
    <3> QED BY <1>4, <2>1, NewRowOnly
  <2>2. CASE charges' = charges
    BY <2>2 DEF Left
  <2> QED BY <1>1, <2>1, <2>2
<1>6. (b \notin DOMAIN charges /\ charges'[b] = row) => Added(b)
  <2>1. o \in 1..MaxOrders \cup SellersNumber /\ 0 \in Nat
    BY <1>3
  <2> QED BY <1>2, <1>3, <2>1 DEF Added
<1> QED BY <1>5, <1>6 DEF Origin

LEMMA SyncOrigin ==
  ASSUME BillInv, NEW c \in Connection, SyncOne(c)
  PROVE  \A b \in DOMAIN charges' : Origin(b)
<1> PICK next : next = Head(task[c].todo)
  OBVIOUS
<1> DEFINE o == next.order
           total == next.total
           row == NewCharge(o, o, total, 0)
<1>1. /\ task[c].op = "sync" /\ task[c].todo # << >>
      /\ charges' = Append(charges, row) \/ charges' = charges
  BY DEF SyncOne
<1>2. next \in [order: DOMAIN orders, total: Int]
  <2> DEFINE S == [order: DOMAIN orders, total: Int]
  <2>1. task[c].todo \in Seq(S)
    BY <1>1, TaskFields
  <2> HIDE DEF S
  <2>2. Head(task[c].todo) \in S
    <3>1. task[c].todo # << >>
      BY <1>1
    <3> QED BY <2>1, <3>1, HeadTailProperties
  <2> QED BY <2>2 DEF S
<1>3. o \in 1..MaxOrders /\ total \in Int
  <2>1. next.order \in DOMAIN orders /\ next.total \in Int
    BY <1>2
  <2> QED BY <2>1, BoundAssumption, Elements DEF BillInv, OrdersOK
<1>4. SyncsLate(c, o)
  BY <1>1 DEF SyncsLate
<1> HIDE DEF o, total
<1>5. row \in Charge
  BY <1>3, NewChargeRow
<1> SUFFICES ASSUME NEW b \in DOMAIN charges' PROVE Origin(b)
  OBVIOUS
<1>6. Left(b) \/ (b \notin DOMAIN charges /\ charges'[b] = row)
  <2>1. CASE charges' = Append(charges, row)
    <3> HIDE DEF row
    <3> QED BY <1>5, <2>1, NewRowOnly
  <2>2. CASE charges' = charges
    BY <2>2 DEF Left
  <2> QED BY <1>1, <2>1, <2>2
<1>7. (b \notin DOMAIN charges /\ charges'[b] = row) => Added(b)
  <2>1. o \in 1..MaxOrders \cup SellersNumber /\ 0 \in Nat
    BY <1>3
  <2> QED BY <1>3, <1>4, <2>1 DEF Added
<1> QED BY <1>6, <1>7 DEF Origin

LEMMA HandOrigin ==
  ASSUME BillInv, NEW o \in DOMAIN orders, ByHand(o)
  PROVE  \A b \in DOMAIN charges' : Origin(b)
<1>1. PICK number \in SellersNumber, total \in Amount, paid \in Amount :
         CreateCharge(o, number, total, paid)
  BY DEF ByHand
<1> DEFINE row == NewCharge(o, number, total, paid)
<1>2. paid <= total /\ charges' = Append(charges, row)
  BY <1>1 DEF CreateCharge
<1>3. /\ o \in 1..MaxOrders /\ number \in 1..MaxOrders \cup SellersNumber
      /\ total \in Int /\ paid \in Nat
  BY AmountAssumption, BoundAssumption, Elements DEF BillInv, OrdersOK
<1>4. row \in Charge
  BY <1>3, NewChargeRow
<1> SUFFICES ASSUME NEW b \in DOMAIN charges' PROVE Origin(b)
  OBVIOUS
<1>5. Left(b) \/ (b \notin DOMAIN charges /\ charges'[b] = row)
  <2> HIDE DEF row
  <2> QED BY <1>2, <1>4, NewRowOnly
<1>6. (b \notin DOMAIN charges /\ charges'[b] = row) => Added(b)
  BY <1>2, <1>3 DEF Added
<1> QED BY <1>5, <1>6 DEF Origin

LEMMA EditOrigin ==
  ASSUME BillInv, NEW c \in Connection, CommitUpdate(c)
  PROVE  \A b \in DOMAIN charges' : Origin(b)
<1> PICK b : b = task[c].charge
  OBVIOUS
<1>1. /\ task[c].op = "update" /\ Exists(b)
      /\ charges' = [charges EXCEPT ![b] = Overwrite(@, Written(task[c].row, task[c].fields))]
  BY DEF CommitUpdate
<1>2. b \in DOMAIN charges
  BY <1>1, TaskFields
<1> PICK new : new = Overwrite(charges[b], Written(task[c].row, task[c].fields))
  OBVIOUS
<1>3. charges' = [charges EXCEPT ![b] = new]
  BY <1>1
<1>4. DOMAIN charges' = DOMAIN charges /\ charges'[b] = new
      /\ \A q \in DOMAIN charges : q # b => charges'[q] = charges[q]
  BY <1>2, <1>3, Elements DEF BillInv, RowsOK
<1>5. Edited(b)
  BY <1>1, <1>2, <1>4 DEF Edited
<1> QED BY <1>4, <1>5 DEF Origin, Left

LEMMA DropOrigin ==
  ASSUME BillInv, NEW b \in DOMAIN charges, CancelCharge(b) \/ DeleteCharge(b)
  PROVE  \A q \in DOMAIN charges' : Origin(q)
<1>1. charges[b] \in Charge
  BY Elements DEF BillInv, RowsOK
<1>2. PICK new : /\ new = Voided(charges[b]) \/ new = Erased(charges[b])
                 /\ charges' = [charges EXCEPT ![b] = new]
  BY DEF CancelCharge, DeleteCharge
<1>3. new.status \in {"canceled", "erased"}
  BY <1>1, <1>2, VoidedRow, ErasedRow
<1>4. DOMAIN charges' = DOMAIN charges /\ charges'[b] = new
      /\ \A q \in DOMAIN charges : q # b => charges'[q] = charges[q]
  BY <1>2, Elements DEF BillInv, RowsOK
<1> QED BY <1>3, <1>4 DEF Origin, Left, Closed

LEMMA LeaveOrigin ==
  ASSUME BillInv, NEW o \in DOMAIN orders,
         (\E status \in OrderStatus : UpdateStatus(o, status)) \/ DeleteOrder(o)
  PROVE  \A b \in DOMAIN charges' : Origin(b)
<1>1. CASE charges' = charges
  BY <1>1 DEF Origin, Left
<1>2. CASE charges' = VoidOf(o)
  <2> SUFFICES ASSUME NEW b \in DOMAIN charges' PROVE Origin(b)
    OBVIOUS
  <2>1. b \in DOMAIN charges
    BY <1>2 DEF VoidOf
  <2>2. charges[b] \in Charge
    BY <2>1, Elements DEF BillInv, RowsOK
  <2>3. charges'[b] = charges[b] \/ charges'[b] = Voided(charges[b])
    BY <1>2, <2>1 DEF VoidOf
  <2> QED BY <2>1, <2>2, <2>3, VoidedRow DEF Origin, Left, Closed
<1>3. CASE DeleteOrder(o)
  <2> SUFFICES ASSUME NEW b \in DOMAIN charges' PROVE Origin(b)
    OBVIOUS
  <2>1. b \in DOMAIN charges
    BY <1>3 DEF DeleteOrder
  <2>2. charges[b] \in Charge
    BY <2>1, Elements DEF BillInv, RowsOK
  <2>3. charges'[b] = charges[b] \/ charges'[b] = Erased(charges[b])
    BY <1>3, <2>1 DEF DeleteOrder
  <2> QED BY <2>1, <2>2, <2>3, ErasedRow DEF Origin, Left, Closed
<1> QED BY <1>1, <1>2, <1>3 DEF UpdateStatus

LEMMA OriginOfRows == BillInv /\ [Next]_vars => \A b \in DOMAIN charges' : Origin(b)
<1> SUFFICES ASSUME BillInv, [Next]_vars PROVE \A b \in DOMAIN charges' : Origin(b)
  OBVIOUS
<1>0. UNCHANGED charges => \A b \in DOMAIN charges' : Origin(b)
  BY DEF Origin, Left
<1>1. ASSUME NEW c \in Connection, Order(c) PROVE \A b \in DOMAIN charges' : Origin(b)
  BY <1>0, <1>1, CreateOrigin DEF Order, BeginCreate, FailCreate, BeginAddItem, CommitAddItem
<1>2. ASSUME NEW c \in Connection, Edit(c) PROVE \A b \in DOMAIN charges' : Origin(b)
  BY <1>0, <1>2, EditOrigin DEF Edit, BeginUpdate
<1>3. ASSUME NEW c \in Connection, Sync(c) PROVE \A b \in DOMAIN charges' : Origin(b)
  BY <1>0, <1>3, SyncOrigin DEF Sync, BeginSync, SyncEnds
<1>4. ASSUME NEW c \in Connection, NotFound(c) PROVE \A b \in DOMAIN charges' : Origin(b)
  BY <1>0, <1>4 DEF NotFound
<1>5. CASE Browse
  BY <1>0, <1>5 DEF Browse, CreateCatalogOrder
<1>6. CASE Leave
  BY <1>6, LeaveOrigin DEF Leave
<1>7. CASE Drop
  BY <1>7, DropOrigin DEF Drop
<1>8. CASE Configure
  BY <1>0, <1>8 DEF Configure, SetBillingMode
<1>9. ASSUME NEW o \in DOMAIN orders, ByHand(o) PROVE \A b \in DOMAIN charges' : Origin(b)
  BY <1>9, HandOrigin
<1>10. CASE UNCHANGED vars
  BY <1>0, <1>10 DEF vars
<1> QED BY <1>1, <1>2, <1>3, <1>4, <1>5, <1>6, <1>7, <1>8, <1>9, <1>10 DEF Next

\* No row of charges goes away.
LEMMA ChargesGrow == BillInv /\ [Next]_vars => DOMAIN charges \subseteq DOMAIN charges'
<1> SUFFICES ASSUME BillInv, [Next]_vars PROVE DOMAIN charges \subseteq DOMAIN charges'
  OBVIOUS
<1>1. charges \in Seq(Charge)
  BY DEF BillInv, RowsOK
<1>2. ASSUME NEW row, charges' = Append(charges, row) PROVE DOMAIN charges \subseteq DOMAIN charges'
  BY <1>1, <1>2
<1>3. ASSUME NEW c \in Connection, Order(c) \/ Edit(c) \/ Sync(c) \/ NotFound(c)
      PROVE  DOMAIN charges \subseteq DOMAIN charges'
  <2>1. CASE CommitCreate(c)
    BY <1>2, <2>1 DEF CommitCreate
  <2>2. CASE SyncOne(c)
    BY <1>2, <2>2 DEF SyncOne
  <2>3. CASE CommitUpdate(c)
    BY <2>3 DEF CommitUpdate
  <2>4. CASE UNCHANGED charges
    BY <2>4
  <2> QED BY <1>3, <2>1, <2>2, <2>3, <2>4
          DEF Order, Edit, Sync, NotFound, BeginCreate, FailCreate, BeginAddItem, CommitAddItem,
              BeginUpdate, BeginSync, SyncEnds
<1>4. CASE Leave
  BY <1>4 DEF Leave, UpdateStatus, VoidOf, DeleteOrder
<1>5. CASE Drop
  BY <1>5 DEF Drop, CancelCharge, DeleteCharge
<1>6. ASSUME NEW o \in DOMAIN orders, ByHand(o) PROVE DOMAIN charges \subseteq DOMAIN charges'
  BY <1>2, <1>6 DEF ByHand, CreateCharge
<1>7. CASE UNCHANGED charges
  BY <1>7
<1> QED BY <1>3, <1>4, <1>5, <1>6, <1>7
        DEF Next, Browse, CreateCatalogOrder, Configure, SetBillingMode, vars

\* A charge that is made for an amount agrees with it.
LEMMA NewAgrees ==
  ASSUME NEW o \in 1..MaxOrders, NEW number \in 1..MaxOrders \cup SellersNumber,
         NEW total \in Int, NEW paid \in Nat, paid = 0 \/ paid <= total
  PROVE  Agrees(NewCharge(o, number, total, paid))
<1> PICK row : row = NewCharge(o, number, total, paid)
  OBVIOUS
<1>1. row.total = total /\ row.paid = paid /\ row.status = Derived(paid, total).status
  BY NewChargeRow
<1>2. paid <= AtLeastZero(total)
  BY DEF AtLeastZero
<1>3. Agrees(row)
  BY <1>1, <1>2 DEF Agrees
<1> QED BY <1>3

\* An edit that was not overtaken leaves a charge that agrees with its amounts,
\* and leaves a voided charge voided.
LEMMA FreshEdit ==
  ASSUME NEW row \in Charge, NEW fields \in EditFields,
         Overwrite(row, fields).paid <= Overwrite(row, fields).total
  PROVE  LET new == Overwrite(row, Written(row, fields))
         IN  Agrees(new) /\ (row.status = "canceled" => new.status = "canceled")
<1> PICK new, amounts : new = Overwrite(row, Written(row, fields)) /\ amounts = Overwrite(row, fields)
  OBVIOUS
<1>1. /\ amounts.paid \in Nat /\ amounts.total \in Int
      /\ row.status = "canceled" => new.status = row.status
      /\ row.status # "canceled" => new.status = Derived(amounts.paid, amounts.total).status
      /\ new.paid = amounts.paid /\ new.total = amounts.total
  BY WrittenRow
<1>2. amounts.paid <= AtLeastZero(amounts.total)
  BY <1>1 DEF AtLeastZero
<1>3. Agrees(new)
  <2>1. CASE row.status = "canceled"
    BY <1>1, <2>1 DEF Agrees
  <2>2. CASE row.status # "canceled"
    BY <1>1, <1>2, <2>2 DEF Agrees
  <2> QED BY <2>1, <2>2
<1> QED BY <1>1, <1>3

\* An edit that was not overtaken, next to the row that it finds.
LEMMA EditStale ==
  ASSUME BillInv, NEW b, Edited(b), ~\E c \in Connection : WritesStale(c, b)
  PROVE  Agrees(charges'[b]) /\ (charges[b].status = "canceled" => charges'[b].status = "canceled")
<1>1. PICK c \in Connection :
        /\ task[c].op = "update" /\ task[c].charge = b /\ CommitUpdate(c)
        /\ charges'[b] = Overwrite(charges[b], Written(task[c].row, task[c].fields))
  BY DEF Edited
<1>2. task[c].row = charges[b]
  BY <1>1 DEF WritesStale
<1> PICK row, fields : row = charges[b] /\ fields = task[c].fields
  OBVIOUS
<1>3. row \in Charge /\ fields \in EditFields
  BY <1>1, <1>2, TaskFields
<1>4. Overwrite(row, fields).paid <= Overwrite(row, fields).total
  BY <1>1, <1>2 DEF BillInv, TasksOK, Checked
<1>5. charges'[b] = Overwrite(row, Written(row, fields))
  BY <1>1, <1>2
<1> QED BY <1>3, <1>4, <1>5, FreshEdit

\* The status of a charge comes to contradict its amounts only by an edit that
\* another write overtook, and only such an edit brings a voided charge back.
THEOREM OnlyStaleEdits == Spec => OnlyStaleEditsBreak
<1>1. BillInv /\ [Next]_vars =>
        [/\ \A b \in DOMAIN charges' :
               ~Agrees(charges'[b]) =>
                   /\ b \in DOMAIN charges
                   /\ Agrees(charges[b]) => \E c \in Connection : WritesStale(c, b)
         /\ \A b \in DOMAIN charges :
               charges[b].status = "canceled" /\ charges'[b].status \notin {"canceled", "erased"}
                   => \E c \in Connection : WritesStale(c, b)]_vars
  <2> SUFFICES ASSUME BillInv, [Next]_vars
               PROVE  /\ \A b \in DOMAIN charges' :
                            ~Agrees(charges'[b]) =>
                                /\ b \in DOMAIN charges
                                /\ Agrees(charges[b]) => \E c \in Connection : WritesStale(c, b)
                      /\ \A b \in DOMAIN charges :
                            charges[b].status = "canceled"
                              /\ charges'[b].status \notin {"canceled", "erased"}
                                => \E c \in Connection : WritesStale(c, b)
    OBVIOUS
  <2>1. ASSUME NEW b \in DOMAIN charges', ~Agrees(charges'[b])
        PROVE  b \in DOMAIN charges /\ (Agrees(charges[b]) => \E c \in Connection : WritesStale(c, b))
    <3>1. CASE Left(b)
      BY <2>1, <3>1 DEF Left
    <3>2. CASE Closed(b)
      BY <2>1, <3>2 DEF Closed, Agrees
    <3>3. CASE Edited(b)
      BY <2>1, <3>3, EditStale DEF Edited
    <3>4. CASE Added(b)
      BY <2>1, <3>4, NewAgrees DEF Added
    <3> QED BY <3>1, <3>2, <3>3, <3>4, OriginOfRows DEF Origin
  <2>2. ASSUME NEW b \in DOMAIN charges, charges[b].status = "canceled",
               charges'[b].status \notin {"canceled", "erased"}
        PROVE  \E c \in Connection : WritesStale(c, b)
    <3>1. b \in DOMAIN charges'
      BY ChargesGrow
    <3>2. ~Left(b) /\ ~Closed(b) /\ ~Added(b)
      BY <2>2 DEF Left, Closed, Added
    <3> QED BY <2>2, <3>1, <3>2, OriginOfRows, EditStale DEF Origin
  <2> QED BY <2>1, <2>2
<1> QED BY <1>1, BillInvHolds, PTL DEF Spec, OnlyStaleEditsBreak
-----------------------------------------------------------------------------
(* Orders that are canceled *)

\* Cancellation voids the charges of the order in the same step.
LEMMA CancelVoids ==
  ASSUME BillInv, [Next]_vars, NEW o \in DOMAIN orders,
         orders[o].status # "canceled", orders'[o].status = "canceled"
  PROVE  charges' = VoidOf(o)
<1>1. ASSUME NEW c \in Connection, Order(c) PROVE FALSE
  <2>1. OrdersOK
    BY DEF BillInv
  <2>2. CASE CommitCreate(c)
    <3> PICK order : order = NewOrder(task[c].lines)
      OBVIOUS
    <3>1. orders' = Append(orders, order) /\ task[c].op = "create" /\ Len(orders) + 1 <= MaxOrders
      BY <2>2 DEF CommitCreate
    <3>2. order \in OrderRow
      BY <3>1, TaskFields, NewOrderRow
    <3> QED BY <2>1, <3>1, <3>2, OneMore DEF OrdersOK
  <2>3. CASE CommitAddItem(c)
    <3> PICK q, lines : q = task[c].order /\ lines = task[c].lines
      OBVIOUS
    <3> PICK new : new = Extended(q, lines)
      OBVIOUS
    <3>1. orders' = [orders EXCEPT ![q] = new] /\ task[c].op = "addItem"
      BY <2>3 DEF CommitAddItem
    <3>2. q \in DOMAIN orders /\ lines \in Seq(Line) /\ lines # << >>
      BY <3>1, TaskFields
    <3>3. new \in OrderRow /\ new.status = orders[q].status
      BY <2>1, <3>2, ExtendedRow
    <3> QED BY <2>1, <3>1, <3>2, <3>3, OrderChanged
  <2>4. CASE UNCHANGED orders
    BY <2>4
  <2> QED BY <1>1, <2>2, <2>3, <2>4 DEF Order, BeginCreate, FailCreate, BeginAddItem
<1>2. CASE Browse
  <2>1. PICK order : orders' = Append(orders, order)
    BY <1>2 DEF Browse, CreateCatalogOrder
  <2>2. orders'[o] = orders[o]
    BY <2>1 DEF BillInv, OrdersOK
  <2> QED BY <2>2
<1>3. ASSUME NEW q \in DOMAIN orders, DeleteOrder(q) PROVE FALSE
  <2>1. orders' = [orders EXCEPT ![q].status = "deleted"]
    BY <1>3 DEF DeleteOrder
  <2> QED BY <2>1, StatusRow DEF BillInv
<1>4. ASSUME NEW q \in DOMAIN orders, NEW status \in OrderStatus, UpdateStatus(q, status)
      PROVE  charges' = VoidOf(o)
  <2>1. orders' = [orders EXCEPT ![q].status = status]
    BY <1>4 DEF UpdateStatus
  <2>2. orders'[q].status = status /\ \A r \in DOMAIN orders : r # q => orders'[r] = orders[r]
    BY <2>1, StatusRow DEF BillInv
  <2>3. q = o /\ status = "canceled"
    BY <2>2
  <2> QED BY <1>4, <2>3 DEF UpdateStatus
<1>5. CASE UNCHANGED orders
  BY <1>5
<1> QED BY <1>1, <1>2, <1>3, <1>4, <1>5
        DEF Next, vars, Leave, Edit, BeginUpdate, CommitUpdate, Sync, BeginSync, SyncOne, SyncEnds,
            NotFound, Drop, CancelCharge, DeleteCharge, Configure, SetBillingMode, ByHand, CreateCharge

\* Nothing comes to be collected for a canceled order, but by hand, by a sync
\* that had listed it or by an edit that was overtaken.
THEOREM CanceledCollectNothing == Spec => CanceledOrdersCollectNothing
<1>1. BillInv /\ [Next]_vars =>
        [\A o \in DOMAIN orders :
           orders'[o].status = "canceled" /\ Collects(o, charges') =>
              \/ orders[o].status = "canceled" /\ Collects(o, charges)
              \/ ByHand(o)
              \/ \E c \in Connection :
                    SyncsLate(c, o) \/ \E b \in DOMAIN charges : WritesStale(c, b)]_vars
  <2> SUFFICES ASSUME BillInv, [Next]_vars, NEW o \in DOMAIN orders,
                      orders'[o].status = "canceled", Collects(o, charges')
               PROVE  \/ orders[o].status = "canceled" /\ Collects(o, charges)
                      \/ ByHand(o)
                      \/ \E c \in Connection :
                            SyncsLate(c, o) \/ \E b \in DOMAIN charges : WritesStale(c, b)
    OBVIOUS
  <2>1. PICK b \in DOMAIN charges' :
           charges'[b].order = o /\ charges'[b].status \in {"pending", "partial", "paid"}
    BY DEF Collects
  <2>2. orders[o].status = "canceled"
    <3> SUFFICES ASSUME orders[o].status # "canceled" PROVE FALSE
      OBVIOUS
    <3>1. charges' = VoidOf(o)
      BY CancelVoids
    <3>2. b \in DOMAIN charges /\ charges[b] \in Charge
      BY <2>1, <3>1, Elements DEF VoidOf, BillInv, RowsOK
    <3>3. charges'[b] = IF charges[b].order = o /\ Exists(b) THEN Voided(charges[b]) ELSE charges[b]
      BY <3>1, <3>2 DEF VoidOf
    <3> QED BY <2>1, <3>2, <3>3, VoidedRow DEF Exists
  <2>3. CASE Left(b)
    BY <2>1, <2>2, <2>3 DEF Left, Collects
  <2>4. CASE Edited(b)
    <3>1. /\ b \in DOMAIN charges /\ charges[b] \in Charge /\ Exists(b)
          /\ charges'[b].order = charges[b].order
      <4>1. PICK c \in Connection :
               /\ task[c].op = "update" /\ b \in DOMAIN charges /\ Exists(b)
               /\ charges'[b] = Overwrite(charges[b], Written(task[c].row, task[c].fields))
        BY <2>4 DEF Edited
      <4>2. charges[b] \in Charge
        BY <4>1, Elements DEF BillInv, RowsOK
      <4>3. task[c].row \in Charge /\ task[c].fields \in EditFields
        BY <4>1, TaskFields
      <4>4. Overwrite(charges[b], Written(task[c].row, task[c].fields)).order = charges[b].order
        BY <4>2, <4>3, WrittenKeeps
      <4> QED BY <4>1, <4>2, <4>4
    <3>2. CASE charges[b].status = "canceled"
      BY <2>1, <2>4, <3>1, <3>2, EditStale
    <3>3. CASE charges[b].status # "canceled"
      <4>1. charges[b].status \in {"pending", "partial", "paid"}
        BY <3>1, <3>3 DEF Charge, Exists
      <4> QED BY <2>1, <2>2, <3>1, <4>1 DEF Collects
    <3> QED BY <3>2, <3>3
  <2>5. CASE Added(b)
    <3>1. PICK q \in 1..MaxOrders, number \in 1..MaxOrders \cup SellersNumber,
               total \in Int, paid \in Nat :
            /\ charges'[b] = NewCharge(q, number, total, paid)
            /\ q \notin DOMAIN orders \/ ByHand(q) \/ \E c \in Connection : SyncsLate(c, q)
      BY <2>5 DEF Added
    <3>2. q = o
      BY <2>1, <3>1, NewChargeRow
    <3> QED BY <3>1, <3>2
  <2>6. ~Closed(b)
    BY <2>1 DEF Closed
  <2> QED BY <2>1, <2>3, <2>4, <2>5, <2>6, OriginOfRows DEF Origin
<1> QED BY <1>1, BillInvHolds, PTL DEF Spec, CanceledOrdersCollectNothing
-----------------------------------------------------------------------------
(* Totals of orders *)

\* An order that is created costs what its lines cost.
LEMMA AppendedRight ==
  ASSUME OrdersOK, NEW lines \in Seq(Line), orders' = Append(orders, NewOrder(lines)),
         NEW o \in DOMAIN orders', ~Right(orders'[o])
  PROVE  o \in DOMAIN orders /\ orders'[o] = orders[o]
<1> PICK order : order = NewOrder(lines)
  OBVIOUS
<1>1. order \in OrderRow /\ Right(order)
  BY NewOrderRow
<1>2. orders' = Append(orders, order) /\ orders \in Seq(OrderRow)
  BY DEF OrdersOK
<1> QED BY <1>1, <1>2, OneMore

\* A line that is added to lines without a discount, none of them added since
\* they were read, leaves a total that is what the lines cost.
LEMMA AddedSkews ==
  ASSUME BillInv, NEW c \in Connection, CommitAddItem(c),
         NEW o \in DOMAIN orders', ~Right(orders'[o])
  PROVE  /\ o \in DOMAIN orders
         /\ Right(orders[o]) => /\ task[c].op = "addItem" /\ task[c].order = o
                                /\ \/ Discounts(task[c].lines) > 0
                                   \/ orders'[o].lines # task[c].lines
<1> PICK q, lines : q = task[c].order /\ lines = task[c].lines
  OBVIOUS
<1> PICK new : new = Extended(q, lines)
  OBVIOUS
<1>1. orders' = [orders EXCEPT ![q] = new] /\ task[c].op = "addItem"
  BY DEF CommitAddItem
<1>2. q \in DOMAIN orders /\ lines \in Seq(Line) /\ lines # << >> /\ OrdersOK
  BY <1>1, TaskFields DEF BillInv
<1>3. new \in OrderRow /\ new.total = Cost(lines) - Discounts(lines)
  BY <1>2, ExtendedRow
<1>4. /\ DOMAIN orders' = DOMAIN orders /\ orders'[q] = new
      /\ \A r \in DOMAIN orders : r # q => orders'[r] = orders[r]
  BY <1>1, <1>2, <1>3, OrderChanged
<1>5. CASE o # q
  BY <1>4, <1>5
<1>6. CASE o = q
  <2>1. Discounts(lines) \in Nat /\ Cost(lines) \in Nat
    BY <1>2, Totals
  <2>2. ~(Discounts(lines) = 0 /\ new.lines = lines)
    <3> SUFFICES ASSUME Discounts(lines) = 0, new.lines = lines PROVE FALSE
      OBVIOUS
    <3>1. new.total = Cost(new.lines)
      BY <1>3, <2>1
    <3> QED BY <1>4, <1>6, <3>1 DEF Right
  <2> QED BY <1>1, <1>2, <1>4, <1>6, <2>1, <2>2
<1> QED BY <1>5, <1>6

\* The total of an order stops being what its lines cost only when a line is
\* added to an order with a discount or while another line is being added.
THEOREM OnlyLinesSkew == Spec => OnlyAddedLinesSkewTotals
<1>1. BillInv /\ [Next]_vars =>
        [\A o \in DOMAIN orders' :
           ~Right(orders'[o]) =>
              /\ o \in DOMAIN orders
              /\ Right(orders[o]) =>
                    \E c \in Connection :
                        /\ task[c].op = "addItem" /\ task[c].order = o /\ CommitAddItem(c)
                        /\ \/ Discounts(task[c].lines) > 0
                           \/ orders'[o].lines # task[c].lines]_vars
  <2> SUFFICES ASSUME BillInv, [Next]_vars, NEW o \in DOMAIN orders', ~Right(orders'[o])
               PROVE  /\ o \in DOMAIN orders
                      /\ Right(orders[o]) =>
                            \E c \in Connection :
                                /\ task[c].op = "addItem" /\ task[c].order = o /\ CommitAddItem(c)
                                /\ \/ Discounts(task[c].lines) > 0
                                   \/ orders'[o].lines # task[c].lines
    OBVIOUS
  <2>0. OrdersOK
    BY DEF BillInv
  <2>1. CASE UNCHANGED orders
    BY <2>1
  <2>2. ASSUME NEW c \in Connection, CommitCreate(c) PROVE o \in DOMAIN orders /\ orders'[o] = orders[o]
    <3>1. orders' = Append(orders, NewOrder(task[c].lines)) /\ task[c].op = "create"
      BY <2>2 DEF CommitCreate
    <3>2. task[c].lines \in Seq(Line)
      BY <3>1, TaskFields
    <3> QED BY <2>0, <3>1, <3>2, AppendedRight
  <2>3. CASE \E c \in Connection : CommitAddItem(c)
    BY <2>3, AddedSkews
  <2>4. CASE Browse
    <3>1. PICK lines \in Inputs : CreateCatalogOrder(lines)
      BY <2>4 DEF Browse
    <3>2. orders' = Append(orders, NewOrder(lines))
      BY <3>1 DEF CreateCatalogOrder
    <3>3. lines \in Seq(Line)
      BY <3>1, CatalogLines DEF CreateCatalogOrder
    <3>4. o \in DOMAIN orders /\ orders'[o] = orders[o]
      BY <2>0, <3>2, <3>3, AppendedRight
    <3> QED BY <3>4
  <2>5. CASE Leave
    <3>1. PICK q \in DOMAIN orders, status \in OrderStatus \cup {"deleted"} :
             orders' = [orders EXCEPT ![q].status = status]
      BY <2>5 DEF Leave, UpdateStatus, DeleteOrder
    <3>2. /\ DOMAIN orders' = DOMAIN orders
          /\ orders'[q].total = orders[q].total /\ orders'[q].lines = orders[q].lines
          /\ \A r \in DOMAIN orders : r # q => orders'[r] = orders[r]
      BY <2>0, <3>1, StatusRow
    <3>3. Right(orders[o]) => Right(orders'[o])
      BY <3>2 DEF Right
    <3> QED BY <3>2, <3>3
  <2> QED BY <2>1, <2>2, <2>3, <2>4, <2>5
          DEF Next, vars, Order, BeginCreate, FailCreate, BeginAddItem, Edit, BeginUpdate,
              CommitUpdate, Sync, BeginSync, SyncOne, SyncEnds, NotFound, Drop, CancelCharge,
              DeleteCharge, Configure, SetBillingMode, ByHand, CreateCharge
<1> QED BY <1>1, BillInvHolds, PTL DEF Spec, OnlyAddedLinesSkewTotals
=============================================================================
