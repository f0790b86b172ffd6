------------------------------ MODULE Billings ------------------------------
(***************************************************************************)
(* Order totals and charges (rows of billings) of one customer of a        *)
(* seller.  An order of a customer billed per sale is charged in the       *)
(* transaction that creates it; a sync charges the orders that have no     *)
(* charge yet; the seller adds, pays, edits, voids and deletes charges.    *)
(*                                                                         *)
(* Requests that decide on what they read some statements earlier are      *)
(* split there and run on several connections at once; the others are one  *)
(* transaction, or one statement, and one action.                          *)
(***************************************************************************)
EXTENDS Sums, Sequences, FiniteSets

CONSTANTS
    LineInput,      \* value and discount that a line may be entered with
    Amount,         \* cents that a charge or a payment may be set to by hand
    EditFields,     \* what an edit may give: the total, the paid amount, or both
    OpenStatus,     \* order statuses other than "canceled"
    SellersNumber,  \* numbers a seller gives to charges by hand
    Connection,     \* requests that run at once
    MaxOrders,      \* bound: orders ever created
    MaxLines,       \* bound: lines of one order
    MaxCharges      \* bound: charges ever created

ASSUME AmountAssumption == LineInput \subseteq [value: Nat, discount: Nat] /\ Amount \subseteq Nat
                           /\ \A fields \in EditFields :
                                 /\ DOMAIN fields \subseteq {"total", "paid"}
                                 /\ \A f \in DOMAIN fields : fields[f] \in Nat
ASSUME StatusAssumption == "pending" \in OpenStatus /\ "canceled" \notin OpenStatus
                           /\ "deleted" \notin OpenStatus
ASSUME BoundAssumption == MaxOrders \in Nat /\ MaxLines \in Nat /\ MaxCharges \in Nat

VARIABLES
    perSale,    \* whether the customer's billing_mode is per_sale
    orders,     \* rows of orders, with their lines
    charges,    \* rows of billings
    task        \* what each connection is in the middle of

vars == <<perSale, orders, charges, task>>

OrderStatus == OpenStatus \cup {"canceled"}

Line == {l \in [value: Nat, discount: Nat] : l.discount <= l.value}

OrderRow == [status: OrderStatus \cup {"deleted"}, lines: Seq(Line),
             subtotal: Nat, discount: Nat, total: Int]

\* The charge that is made for order o has the order's number, o; a charge that
\* is deleted keeps its place and nothing else, and its status becomes "erased".
Charge == [order: 1..MaxOrders, number: 1..MaxOrders \cup SellersNumber,
           total: Int, paid: Nat,
           status: {"pending", "partial", "paid", "canceled", "erased"},
           payment: {"pending", "confirmed", "canceled"}]

Idle == [op |-> "none"]

\* What a request in the middle of its work has read.
Task ==
    {Idle}
    \cup [op: {"create"}, charged: BOOLEAN, lines: Seq(Line)]
    \cup [op: {"addItem"}, order: DOMAIN orders, lines: Seq(Line) \ {<< >>}]
    \cup [op: {"update"}, charge: DOMAIN charges, fields: EditFields, row: Charge]
    \cup [op: {"sync"}, todo: Seq([order: DOMAIN orders, total: Int])]

TypeOK ==
    /\ perSale \in BOOLEAN
    /\ orders \in Seq(OrderRow) /\ Len(orders) <= MaxOrders
    /\ charges \in Seq(Charge) /\ Len(charges) <= MaxCharges
    /\ \A b \in DOMAIN charges :
          /\ charges[b].order \in DOMAIN orders
          /\ orders[charges[b].order].status = "deleted" => charges[b].status = "erased"
    /\ task \in [Connection -> Task]
-----------------------------------------------------------------------------
(* Lines and totals *)

\* A discount counts for no more than the line it is given on.
Priced(line) == [line EXCEPT !.discount = Lesser(line.discount, line.value)]

Values(lines) == Sum([i \in DOMAIN lines |-> lines[i].value], Len(lines))

Discounts(lines) == Sum([i \in DOMAIN lines |-> lines[i].discount], Len(lines))

\* What the lines cost: the sum of their own totals.
Cost(lines) == Sum([i \in DOMAIN lines |-> lines[i].value - lines[i].discount], Len(lines))

NewOrder(lines) ==
    [status |-> "pending", lines |-> lines, subtotal |-> Values(lines),
     discount |-> Discounts(lines), total |-> Values(lines) - Discounts(lines)]

\* Mutant: the order keeps the total it was created with.
ExtendedOrderOnly(o, lines) == [orders[o] EXCEPT !.lines = Append(@, lines[Len(lines)])]

\* Order o once the last of lines is added to it: the totals are computed from
\* the lines as they were read, the subtotal from totals net of discount.
Extended(o, lines) ==
    [orders[o] EXCEPT !.lines = Append(@, lines[Len(lines)]),
                      !.subtotal = Cost(lines),
                      !.discount = Discounts(lines),
                      !.total = Cost(lines) - Discounts(lines)]
-----------------------------------------------------------------------------
(* Charges *)

Exists(b) == charges[b].status # "erased"

\* deriveBillingStatus
Derived(paid, total) ==
    CASE paid <= 0 -> [status |-> "pending", payment |-> "pending"]
      [] paid > 0 /\ paid >= total -> [status |-> "paid", payment |-> "confirmed"]
      [] OTHER -> [status |-> "partial", payment |-> "pending"]

NewCharge(o, number, total, paid) ==
    [order |-> o, number |-> number, total |-> total, paid |-> paid,
     status |-> Derived(paid, total).status, payment |-> Derived(paid, total).payment]

\* Mutant: the numbers of charges may repeat.
AnyNumber(number) == TRUE

\* billing_number is unique.
Free(number) == \A b \in DOMAIN charges : Exists(b) => charges[b].number # number

Overwrite(row, fields) ==
    [f \in DOMAIN row |-> IF f \in DOMAIN fields THEN fields[f] ELSE row[f]]

\* Mutant: only the status of a charge that is voided is set.
VoidedStatus(row) == [row EXCEPT !.status = "canceled"]

Voided(row) == [row EXCEPT !.status = "canceled", !.payment = "canceled"]

Erased(row) ==
    [row EXCEPT !.status = "erased", !.payment = "canceled", !.total = 0, !.paid = 0]

\* Mutant: a void leaves the charges of the order that are paid in part.
VoidPending(o) ==
    [b \in DOMAIN charges |->
        IF charges[b].order = o /\ charges[b].status = "pending" THEN Voided(charges[b])
        ELSE charges[b]]

\* Canceling an order voids its charges, whatever has been paid.
VoidOf(o) ==
    [b \in DOMAIN charges |->
        IF charges[b].order = o /\ Exists(b) THEN Voided(charges[b]) ELSE charges[b]]
-----------------------------------------------------------------------------
(* Orders *)

Does(c, t) == task' = [task EXCEPT ![c] = t]

Ends(c) == Does(c, Idle)

\* OrdersService.create first reads how the customer is billed ...
BeginCreate(c, lines) ==
    /\ task[c] = Idle
    /\ Does(c, [op |-> "create", charged |-> perSale,
                lines |-> [i \in DOMAIN lines |-> Priced(lines[i])]])
    /\ UNCHANGED <<perSale, orders, charges>>

\* ... and the order is written with its charge, whose number no other has.
CommitCreate(c) ==
    LET o == Len(orders) + 1
        order == NewOrder(task[c].lines)
    IN  /\ task[c].op = "create"
        /\ o <= MaxOrders
        /\ task[c].charged => Free(o) /\ Len(charges) < MaxCharges
        /\ orders' = Append(orders, order)
        /\ charges' = IF task[c].charged
                      THEN Append(charges, NewCharge(o, o, order.total, 0))
                      ELSE charges
        /\ Ends(c)
        /\ UNCHANGED perSale

\* The number of the charge is taken, by another seller's charge maybe: the
\* transaction fails and there is no order either.
FailCreate(c) ==
    /\ task[c].op = "create" /\ task[c].charged
    /\ Ends(c)
    /\ UNCHANGED <<perSale, orders, charges>>

\* An order of the public catalog has no discounts and no charge.
CreateCatalogOrder(lines) ==
    /\ Len(orders) < MaxOrders
    /\ \A i \in DOMAIN lines : lines[i].discount = 0
    /\ orders' = Append(orders, NewOrder(lines))
    /\ UNCHANGED <<perSale, charges, task>>

\* addItem reads all lines of the order, its own among them, ...
BeginAddItem(c, o, line) ==
    /\ task[c] = Idle
    /\ orders[o].status # "deleted"
    /\ Len(orders[o].lines) < MaxLines
    /\ Does(c, [op |-> "addItem", order |-> o,
                lines |-> Append(orders[o].lines, Priced(line))])
    /\ UNCHANGED <<perSale, orders, charges>>

\* ... and writes the totals it computes from them.
CommitAddItem(c) ==
    LET o == task[c].order
    IN  /\ task[c].op = "addItem"
        /\ orders[o].status # "deleted"
        /\ Len(orders[o].lines) < MaxLines
        /\ orders' = [orders EXCEPT ![o] = Extended(o, task[c].lines)]
        /\ Ends(c)
        /\ UNCHANGED <<perSale, charges>>

UpdateStatus(o, status) ==
    /\ orders[o].status # "deleted"
    /\ orders' = [orders EXCEPT ![o].status = status]
    /\ charges' = IF status = "canceled" THEN VoidOf(o) ELSE charges
    /\ UNCHANGED <<perSale, task>>

\* The charges of an order go with it.
DeleteOrder(o) ==
    /\ orders[o].status # "deleted"
    /\ orders' = [orders EXCEPT ![o].status = "deleted"]
    /\ charges' = [b \in DOMAIN charges |->
                      IF charges[b].order = o THEN Erased(charges[b]) ELSE charges[b]]
    /\ UNCHANGED <<perSale, task>>

\* The customer's billing_mode is edited.
SetBillingMode(b) ==
    /\ perSale' = b
    /\ UNCHANGED <<orders, charges, task>>
-----------------------------------------------------------------------------
(* Charges by hand *)

\* BillingsService.create: the status of the order is not looked at.
CreateCharge(o, number, total, paid) ==
    /\ orders[o].status # "deleted"
    /\ paid <= total
    /\ Free(number)
    /\ Len(charges) < MaxCharges
    /\ charges' = Append(charges, NewCharge(o, number, total, paid))
    /\ UNCHANGED <<perSale, orders, task>>

\* BillingsService.update reads the charge and checks the amounts that result ...
BeginUpdate(c, b, fields) ==
    LET row == Overwrite(charges[b], fields)
    IN  /\ task[c] = Idle
        /\ Exists(b)
        /\ row.paid <= row.total
        /\ Does(c, [op |-> "update", charge |-> b, fields |-> fields, row |-> charges[b]])
        /\ UNCHANGED <<perSale, orders, charges>>

\* Mutant: an edit of the amounts leaves the status.
NeverDerived(read, fields) == fields

\* What an update writes: the fields it was given and, unless the charge was
\* voided when it was read, the status that follows from the amounts.
Written(read, fields) ==
    LET row == Overwrite(read, fields)
        derived == Derived(row.paid, row.total)
    IN  IF read.status = "canceled" THEN fields
        ELSE [f \in DOMAIN fields \cup DOMAIN derived |->
                 IF f \in DOMAIN derived THEN derived[f] ELSE fields[f]]

\* ... and writes them into the charge as it is by then.
CommitUpdate(c) ==
    LET b == task[c].charge
    IN  /\ task[c].op = "update"
        /\ Exists(b)
        /\ charges' = [charges EXCEPT ![b] = Overwrite(@, Written(task[c].row, task[c].fields))]
        /\ Ends(c)
        /\ UNCHANGED <<perSale, orders>>

CancelCharge(b) ==
    /\ Exists(b)
    /\ charges' = [charges EXCEPT ![b] = Voided(@)]
    /\ UNCHANGED <<perSale, orders, task>>

DeleteCharge(b) ==
    /\ Exists(b)
    /\ charges' = [charges EXCEPT ![b] = Erased(@)]
    /\ UNCHANGED <<perSale, orders, task>>

\* The row that a request is about to write is gone.
NotFound(c) ==
    /\ \/ task[c].op = "addItem" /\ orders[task[c].order].status = "deleted"
       \/ task[c].op = "update" /\ ~Exists(task[c].charge)
    /\ Ends(c)
    /\ UNCHANGED <<perSale, orders, charges>>
-----------------------------------------------------------------------------
(* Sync *)

Charged(o) == \E b \in DOMAIN charges : Exists(b) /\ charges[b].order = o

Unbilled ==
    {o \in DOMAIN orders : orders[o].status \in OpenStatus /\ perSale /\ ~Charged(o)}

\* syncBillings lists the orders without a charge, with their totals and in the
\* order in which the database has them, ...
BeginSync(c) ==
    /\ task[c] = Idle
    /\ Unbilled # {}
    /\ \E listed \in [1..Cardinality(Unbilled) -> Unbilled] :
          /\ \A o \in Unbilled : \E i \in DOMAIN listed : listed[i] = o
          /\ Does(c, [op |-> "sync",
                      todo |-> [i \in DOMAIN listed |->
                                   [order |-> listed[i], total |-> orders[listed[i]].total]]])
    /\ UNCHANGED <<perSale, orders, charges>>

\* ... and charges each; one that cannot be charged is passed over.
SyncOne(c) ==
    LET next == Head(task[c].todo)
        able == orders[next.order].status # "deleted" /\ Free(next.order)
    IN  /\ task[c].op = "sync" /\ task[c].todo # << >>
        /\ able => Len(charges) < MaxCharges
        /\ charges' = IF able
                      THEN Append(charges, NewCharge(next.order, next.order, next.total, 0))
                      ELSE charges
        /\ Does(c, [task[c] EXCEPT !.todo = Tail(@)])
        /\ UNCHANGED <<perSale, orders>>

SyncEnds(c) ==
    /\ task[c].op = "sync" /\ task[c].todo = << >>
    /\ Ends(c)
    /\ UNCHANGED <<perSale, orders, charges>>
-----------------------------------------------------------------------------
Init ==
    /\ perSale \in BOOLEAN
    /\ orders = << >>
    /\ charges = << >>
    /\ task = [c \in Connection |-> Idle]

Inputs == UNION {[1..n -> LineInput] : n \in 1..MaxLines}

Order(c) ==
    \/ \E lines \in Inputs : BeginCreate(c, lines)
    \/ CommitCreate(c)
    \/ FailCreate(c)
    \/ \E o \in DOMAIN orders, line \in LineInput : BeginAddItem(c, o, line)
    \/ CommitAddItem(c)

Edit(c) ==
    \/ \E b \in DOMAIN charges, fields \in EditFields : BeginUpdate(c, b, fields)
    \/ CommitUpdate(c)

Sync(c) == BeginSync(c) \/ SyncOne(c) \/ SyncEnds(c)

Browse == \E lines \in Inputs : CreateCatalogOrder(lines)

Leave ==
    \E o \in DOMAIN orders :
        \/ \E status \in OrderStatus : UpdateStatus(o, status)
        \/ DeleteOrder(o)

ByHand(o) ==
    \E number \in SellersNumber, total, paid \in Amount : CreateCharge(o, number, total, paid)

Drop == \E b \in DOMAIN charges : CancelCharge(b) \/ DeleteCharge(b)

Configure == \E b \in BOOLEAN : SetBillingMode(b)

Next ==
    \/ \E c \in Connection : Order(c) \/ Edit(c) \/ Sync(c) \/ NotFound(c)
    \/ Browse \/ Leave \/ Drop \/ Configure
    \/ \E o \in DOMAIN orders : ByHand(o)

Spec == Init /\ [][Next]_vars
-----------------------------------------------------------------------------
(* Properties *)

\* A charge is confirmed exactly when its status is paid, and its payment is
\* canceled with it, whoever edits, voids or derives at the same time.
PaymentAgreesWithStatus ==
    \A b \in DOMAIN charges : Exists(b) =>
        /\ charges[b].payment = "confirmed" <=> charges[b].status = "paid"
        /\ charges[b].payment = "canceled" <=> charges[b].status = "canceled"

\* ... and every variable keeps its type.
ChargesOK == TypeOK /\ PaymentAgreesWithStatus

\* No interleaving of creates and syncs leaves an order with two charges of
\* its own, beside those the seller adds by hand.
ChargedOnce ==
    \A o \in DOMAIN orders :
        Cardinality({b \in DOMAIN charges :
                        Exists(b) /\ charges[b].order = o /\ charges[b].number = o}) <= 1

\* c writes now what it computed from a row of charge b that has changed since.
WritesStale(c, b) ==
    /\ task[c].op = "update" /\ task[c].charge = b
    /\ task[c].row # charges[b]
    /\ CommitUpdate(c)

\* deriveBillingStatus: the stored state does not contradict the money.
Agrees(row) ==
    row.status \in {"pending", "partial", "paid"} =>
        /\ row.paid <= AtLeastZero(row.total)
        /\ row.status = Derived(row.paid, row.total).status

\* The status of a charge comes to contradict its amounts, or more comes to be
\* paid than its total, only by an edit that another write overtook; and only
\* such an edit brings a voided charge back before it is deleted.
OnlyStaleEditsBreak ==
    [][/\ \A b \in DOMAIN charges' :
             ~Agrees(charges'[b]) =>
                 /\ b \in DOMAIN charges
                 /\ Agrees(charges[b]) => \E c \in Connection : WritesStale(c, b)
       /\ \A b \in DOMAIN charges :
             charges[b].status = "canceled" /\ charges'[b].status \notin {"canceled", "erased"}
                 => \E c \in Connection : WritesStale(c, b)]_vars

\* Order o has a charge that is yet to be paid or is paid.
Collects(o, rows) ==
    \E b \in DOMAIN rows :
        rows[b].order = o /\ rows[b].status \in {"pending", "partial", "paid"}

\* c charges o now, which it listed some time ago.
SyncsLate(c, o) ==
    task[c].op = "sync" /\ task[c].todo # << >> /\ Head(task[c].todo).order = o /\ SyncOne(c)

\* Once an order is canceled nothing is collected for it, unless the seller
\* charges it by hand, a sync had listed it before, or an edit is overtaken.
CanceledOrdersCollectNothing ==
    [][\A o \in DOMAIN orders :
          orders'[o].status = "canceled" /\ Collects(o, charges') =>
              \/ orders[o].status = "canceled" /\ Collects(o, charges)
              \/ ByHand(o)
              \/ \E c \in Connection :
                    SyncsLate(c, o) \/ \E b \in DOMAIN charges : WritesStale(c, b)]_vars

Right(order) == order.total = Cost(order.lines)

\* The total of an order is what its lines cost, and is lost only when a line is
\* added to an order with a discount or while another line is being added.
OnlyAddedLinesSkewTotals ==
    [][\A o \in DOMAIN orders' :
          ~Right(orders'[o]) =>
              /\ o \in DOMAIN orders
              /\ Right(orders[o]) =>
                    \E c \in Connection :
                        /\ task[c].op = "addItem" /\ task[c].order = o /\ CommitAddItem(c)
                        /\ \/ Discounts(task[c].lines) > 0
                           \/ orders'[o].lines # task[c].lines]_vars
=============================================================================
