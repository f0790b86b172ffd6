----------------------------- MODULE OrderStock -----------------------------
(***************************************************************************)
(* Stock, orders and backorders of one seller, at the grain of committed   *)
(* database transactions: each action is one whole repository method.      *)
(*                                                                         *)
(* An order line takes its units out of store_stock.  A line that asks for *)
(* more than is available is refused, unless the product allows oversell:  *)
(* then the stock goes negative and the missing units are recorded as a    *)
(* backorder of the line.  An incoming stock movement covers the oldest    *)
(* pending backorders first.  Canceling or deleting an order gives its     *)
(* units back.                                                             *)
(***************************************************************************)
EXTENDS Sums, Sequences

CONSTANTS
    Product,        \* products of the seller
    OpenStatus,     \* order statuses other than "canceled"
    IntColumn,      \* values an Int column of the database holds
    LineQuantity,   \* quantities a line or a movement may ask for
    PatchQuantity,  \* values a PATCH of a stock row may set, for quantity
    PatchReserved,  \* ... and for reserved_quantity
    MaxLines,       \* bound: lines of a new order
    MaxOrders,      \* bound: orders ever created
    MaxItems,       \* bound: order_item rows ever created
    MaxHeld         \* bound: net units out (or back) for one order and product

ASSUME StatusAssumption == "pending" \in OpenStatus /\ "canceled" \notin OpenStatus
                           /\ "deleted" \notin OpenStatus
ASSUME ColumnAssumption == IntColumn \subseteq Int /\ 0 \in IntColumn
ASSUME QuantityAssumption == /\ LineQuantity \subseteq Nat \ {0}
                             /\ PatchQuantity \subseteq IntColumn
                             /\ PatchReserved \subseteq IntColumn
ASSUME BoundAssumption == /\ MaxLines \in Nat /\ MaxOrders \in Nat
                          /\ MaxItems \in Nat /\ MaxHeld \in Nat

VARIABLES
    hasStock,       \* products that have a store_stock row
    quantity,       \* store_stock.quantity
    reserved,       \* store_stock.reserved_quantity
    allowOversell,  \* product.allow_oversell
    orders,         \* status of each order; row o is orders[o]
    items,          \* order_item rows, each with its backorder row
    held            \* per order and product, units out minus units returned,
                    \* over the movements that refer to the order

vars == <<hasStock, quantity, reserved, allowOversell, orders, items, held>>

OrderStatus == OpenStatus \cup {"canceled"}

BackorderStatus == {"none", "pending", "fulfilled", "canceled"}

\* One order_item row joined with its backorder (order_item_id is unique in
\* backorders): owed and fulfilled are the backorder's quantity and
\* fulfilled_quantity, and backorder is its status, "none" when there is none.
ItemRow == [order: 1..MaxOrders, product: Product, quantity: Nat,
            owed: Nat, fulfilled: Nat, backorder: BackorderStatus]

Line == [product: Product, quantity: LineQuantity]

TypeOK ==
    /\ hasStock \subseteq Product
    /\ quantity \in [Product -> IntColumn]
    /\ reserved \in [Product -> IntColumn]
    /\ \A p \in Product \ hasStock : quantity[p] = 0 /\ reserved[p] = 0
    /\ allowOversell \in [Product -> BOOLEAN]
    /\ orders \in Seq(OrderStatus \cup {"deleted"})
    /\ Len(orders) <= MaxOrders
    /\ items \in Seq(ItemRow)
    /\ Len(items) <= MaxItems
    /\ \A i \in DOMAIN items : items[i].order \in DOMAIN orders
    /\ held \in Seq([Product -> -MaxHeld..MaxHeld])
    /\ Len(held) = Len(orders)

-----------------------------------------------------------------------------
(* Reading the tables *)

Available(p) == quantity[p] - reserved[p]

\* Units the stock of p is short of.
Deficit(p) == AtLeastZero(reserved[p] - quantity[p])

Pending(i, p) == items[i].product = p /\ items[i].backorder = "pending"

Remaining(i) == items[i].owed - items[i].fulfilled

\* What each row still owes of p, in insertion order.
OwedOf(p) == [i \in DOMAIN items |-> IF Pending(i, p) THEN Remaining(i) ELSE 0]

\* Units of p that pending backorders wait for (BackorderSummary.owed).
PendingOwed(p) == Sum(OwedOf(p), Len(items))

\* What each row of order o holds of p.
ItemsOf(o, p) == [i \in DOMAIN items |->
                    IF items[i].order = o /\ items[i].product = p
                    THEN items[i].quantity ELSE 0]

Ordered(o, p) == Sum(ItemsOf(o, p), Len(items))
-----------------------------------------------------------------------------
(* Order lines *)

UnitsOf(lines, p) == [i \in DOMAIN lines |->
                        IF lines[i].product = p THEN lines[i].quantity ELSE 0]

\* Units of p that the first n lines take.
Taken(lines, p, n) == Sum(UnitsOf(lines, p), n)

\* Mutant: every line sees the whole stock, whatever earlier lines took.
AvailableToEach(lines, i) == Available(lines[i].product)

\* What is left for line i once the earlier lines took theirs: runningAvailable.
AvailableAt(lines, i) ==
    Available(lines[i].product) - Taken(lines, lines[i].product, i - 1)

Short(lines, i) ==
    /\ lines[i].product \in hasStock
    /\ AvailableAt(lines, i) < lines[i].quantity

\* Mutant: the deficit that was there before is asked for again.
OwedWithDeficit(lines, i) ==
    IF Short(lines, i) THEN lines[i].quantity - AvailableAt(lines, i) ELSE 0

\* Mutant: the lines before this one are forgotten.
OwedOfWholeStock(lines, i) ==
    IF Short(lines, i)
    THEN AtLeastZero(lines[i].quantity - AtLeastZero(Available(lines[i].product))) ELSE 0

\* Mutant: a short line waits for all its units, those on hand included.
OwedWhole(lines, i) == IF Short(lines, i) THEN lines[i].quantity ELSE 0

\* The part of line i beyond what is on hand.
Owed(lines, i) ==
    IF Short(lines, i) THEN lines[i].quantity - AtLeastZero(AvailableAt(lines, i)) ELSE 0

\* A short line is accepted only for a product that allows oversell.
Acceptable(lines) ==
    \A i \in DOMAIN lines : Short(lines, i) => allowOversell[lines[i].product]

NewRow(o, lines, i) ==
    [order |-> o, product |-> lines[i].product, quantity |-> lines[i].quantity,
     owed |-> Owed(lines, i), fulfilled |-> 0,
     backorder |-> IF Owed(lines, i) > 0 THEN "pending" ELSE "none"]

NewRows(o, lines) == [i \in DOMAIN lines |-> NewRow(o, lines, i)]

\* Mutant: a product without a stock row is taken out of one all the same.
TakeOutUntracked(units) ==
    /\ quantity' = [p \in Product |-> quantity[p] - units[p]]
    /\ quantity' \in [Product -> IntColumn]

\* Takes units[p] of each product out of its stock row, if it has one.  A write
\* outside the range of an Int column aborts the transaction.
TakeOut(units) ==
    /\ quantity' = [p \in Product |->
                       IF p \in hasStock THEN quantity[p] - units[p] ELSE quantity[p]]
    /\ quantity' \in [Product -> IntColumn]

\* The movement rows that go with it, added to what an order holds already.
HeldAfter(before, units) ==
    [p \in Product |-> IF p \in hasStock THEN before[p] + units[p] ELSE before[p]]

HeldRange == [Product -> -MaxHeld..MaxHeld]

\* PrismaOrderRepository.create
CreateOrder(lines) ==
    LET o == Len(orders) + 1
        taken == [p \in Product |-> Taken(lines, p, Len(lines))]
    IN  /\ o <= MaxOrders
        /\ Len(items) + Len(lines) <= MaxItems
        /\ Acceptable(lines)
        /\ orders' = Append(orders, "pending")
        /\ items' = items \o NewRows(o, lines)
        /\ TakeOut(taken)
        /\ HeldAfter([p \in Product |-> 0], taken) \in HeldRange
        /\ held' = Append(held, HeldAfter([p \in Product |-> 0], taken))
        /\ UNCHANGED <<hasStock, reserved, allowOversell>>

\* PrismaOrderRepository.addItem.  The status of the order is not looked at.
AddItem(o, line) ==
    LET lines == <<line>>
        taken == [p \in Product |-> IF p = line.product THEN line.quantity ELSE 0]
    IN  /\ orders[o] # "deleted"
        /\ Len(items) < MaxItems
        /\ Acceptable(lines)
        /\ items' = Append(items, NewRow(o, lines, 1))
        /\ TakeOut(taken)
        /\ HeldAfter(held[o], taken) \in HeldRange
        /\ held' = [held EXCEPT ![o] = HeldAfter(held[o], taken)]
        /\ UNCHANGED <<hasStock, reserved, allowOversell, orders>>

\* CatalogService.createOrder: an order placed by a customer on the public
\* catalog.  Each line alone must be available; nothing is taken out of stock.
CreateCatalogOrder(lines) ==
    LET o == Len(orders) + 1
        row(i) == [order |-> o, product |-> lines[i].product,
                   quantity |-> lines[i].quantity,
                   owed |-> 0, fulfilled |-> 0, backorder |-> "none"]
    IN  /\ o <= MaxOrders
        /\ Len(items) + Len(lines) <= MaxItems
        /\ \A i \in DOMAIN lines : lines[i].product \in hasStock
               => Available(lines[i].product) >= lines[i].quantity
        /\ orders' = Append(orders, "pending")
        /\ items' = items \o [i \in DOMAIN lines |-> row(i)]
        /\ held' = Append(held, [p \in Product |-> 0])
        /\ UNCHANGED <<hasStock, quantity, reserved, allowOversell>>
-----------------------------------------------------------------------------
(* Leaving an order *)

\* The backorders of o that still owe units are dropped.
CanceledBackorders(o) ==
    [i \in DOMAIN items |->
        IF items[i].order = o /\ items[i].backorder = "pending"
        THEN [items[i] EXCEPT !.backorder = "canceled"]
        ELSE items[i]]

\* Rows the database erases with their order keep their number and nothing else.
ErasedRows(o) ==
    [i \in DOMAIN items |->
        IF items[i].order = o
        THEN [items[i] EXCEPT !.quantity = 0, !.owed = 0, !.fulfilled = 0,
                              !.backorder = "none"]
        ELSE items[i]]

\* restoreStockInTx: every item of o goes back to the stock row of its product,
\* whatever was taken for it.
RestoreStock(o) ==
    LET units == [p \in Product |-> -Ordered(o, p)]
    IN  /\ TakeOut(units)
        /\ HeldAfter(held[o], units) \in HeldRange
        /\ held' = [held EXCEPT ![o] = HeldAfter(held[o], units)]

KeepStock == UNCHANGED <<quantity, held>>

\* Mutant: an order that is canceled already is canceled again.
CancelsAgain(o, status) == status = "canceled"

\* The changes of status that give the units of o back.
Cancels(o, status) == status = "canceled" /\ orders[o] # "canceled"

\* PrismaOrderRepository.updateStatus: any status may follow any other.
UpdateStatus(o, status) ==
    /\ orders[o] # "deleted"
    /\ orders' = [orders EXCEPT ![o] = status]
    /\ \/ /\ Cancels(o, status)
          /\ items' = CanceledBackorders(o)
          /\ RestoreStock(o)
       \/ /\ ~Cancels(o, status)
          /\ items' = items
          /\ KeepStock
    /\ UNCHANGED <<hasStock, reserved, allowOversell>>

\* PrismaOrderRepository.delete; items and backorders go with the order.
DeleteOrder(o) ==
    /\ orders[o] # "deleted"
    /\ orders' = [orders EXCEPT ![o] = "deleted"]
    /\ items' = ErasedRows(o)
    /\ IF orders[o] # "canceled" THEN RestoreStock(o) ELSE KeepStock
    /\ UNCHANGED <<hasStock, reserved, allowOversell>>

\* PrismaCustomerRepository.delete, for a customer whose only order is o: the
\* database erases the order with the customer and no stock is returned.
DeleteCustomer(o) ==
    /\ orders[o] # "deleted"
    /\ orders' = [orders EXCEPT ![o] = "deleted"]
    /\ items' = ErasedRows(o)
    /\ KeepStock
    /\ UNCHANGED <<hasStock, reserved, allowOversell>>
-----------------------------------------------------------------------------
(* Stock movements and manual edits *)

\* Mutant: the newest row is served first.
TakeNewestFirst(p, n, i) ==
    Lesser(OwedOf(p)[i], AtLeastZero(n - (PendingOwed(p) - Sum(OwedOf(p), i))))

\* Units of an arrival that pending row i receives when n units are to be
\* allocated to the rows of p, oldest first.
Take(p, n, i) ==
    Lesser(OwedOf(p)[i], AtLeastZero(n - Sum(OwedOf(p), i - 1)))

\* allocateBackorders
Allocated(p, n) ==
    [i \in DOMAIN items |->
        IF Pending(i, p) /\ Take(p, n, i) > 0
        THEN [items[i] EXCEPT
                 !.fulfilled = @ + Take(p, n, i),
                 !.backorder = IF items[i].fulfilled + Take(p, n, i) >= items[i].owed
                               THEN "fulfilled" ELSE @]
        ELSE items[i]]

\* PrismaStockMovementRepository.create, movement_type 'in': the row is created
\* if missing, and the fall of the deficit is allocated.
StockIn(p, n) ==
    LET after == quantity[p] + n
        covered == Deficit(p) - AtLeastZero(reserved[p] - after)
    IN  /\ after \in IntColumn
        /\ hasStock' = hasStock \cup {p}
        /\ quantity' = [quantity EXCEPT ![p] = after]
        /\ items' = Allocated(p, covered)
        /\ UNCHANGED <<reserved, allowOversell, orders, held>>

\* PrismaStockMovementRepository.create, movement_type 'out'.
StockOut(p, n) ==
    /\ quantity[p] - n >= 0
    /\ quantity[p] - n \in IntColumn
    /\ hasStock' = hasStock \cup {p}
    /\ quantity' = [quantity EXCEPT ![p] = @ - n]
    /\ UNCHANGED <<reserved, allowOversell, orders, items, held>>

\* PrismaStoreStockRepository.upsert: sets either field or both, without a
\* movement and without looking at the backorders.
UpsertStock(p, q, r) ==
    /\ hasStock' = hasStock \cup {p}
    /\ quantity' = [quantity EXCEPT ![p] = q]
    /\ reserved' = [reserved EXCEPT ![p] = r]
    /\ UNCHANGED <<allowOversell, orders, items, held>>

\* PrismaProductRepository.update, of allow_oversell.
SetOversell(p, b) ==
    /\ allowOversell' = [allowOversell EXCEPT ![p] = b]
    /\ UNCHANGED <<hasStock, quantity, reserved, orders, items, held>>
-----------------------------------------------------------------------------
Init ==
    /\ hasStock = {}
    /\ quantity = [p \in Product |-> 0]
    /\ reserved = [p \in Product |-> 0]
    /\ allowOversell \in [Product -> BOOLEAN]
    /\ orders = << >>
    /\ items = << >>
    /\ held = << >>

Lines == UNION {[1..n -> Line] : n \in 1..MaxLines}

Sell ==
    \/ \E lines \in Lines : CreateOrder(lines)
    \/ \E o \in DOMAIN orders, line \in Line : AddItem(o, line)

Browse == \E lines \in Lines : CreateCatalogOrder(lines)

Restock == \E p \in Product, n \in LineQuantity : StockIn(p, n)

Withdraw == \E p \in Product, n \in LineQuantity : StockOut(p, n)

ChangeStatus == \E o \in DOMAIN orders, status \in OrderStatus : UpdateStatus(o, status)

Delete == \E o \in DOMAIN orders : DeleteOrder(o)

Cascade == \E o \in DOMAIN orders : DeleteCustomer(o)

Patch ==
    \E p \in Product :
        \E q \in PatchQuantity \cup {quantity[p]}, r \in PatchReserved \cup {reserved[p]} :
            UpsertStock(p, q, r)

Configure == \E p \in Product, b \in BOOLEAN : SetOversell(p, b)

Next ==
    \/ Sell \/ Browse \/ Restock \/ Withdraw
    \/ ChangeStatus \/ Delete \/ Cascade \/ Patch \/ Configure

Spec == Init /\ [][Next]_vars
-----------------------------------------------------------------------------
(* Properties *)

\* A backorder row never asks for more than its line, never receives more than
\* it asks for, and is closed as fulfilled exactly when it has received all of
\* it (create, addItem, allocateBackorders, restoreStockInTx).
BackordersWellFormed ==
    \A i \in DOMAIN items :
        LET row == items[i] IN
        /\ row.fulfilled <= row.owed /\ row.owed <= row.quantity
        /\ row.backorder = "none" <=> row.owed = 0
        /\ row.backorder = "fulfilled" <=> row.owed > 0 /\ row.fulfilled = row.owed

\* Arrivals go to the oldest line first: while a line of a product still waits,
\* no later line of that product has received a unit, through any sequence of
\* sales, arrivals, cancelations and deletions (allocateBackorders).
OldestServedFirst ==
    \A i, j \in DOMAIN items :
        i < j /\ items[i].product = items[j].product /\ items[i].backorder = "pending"
            => items[j].fulfilled = 0

\* What a product has available falls below zero only if it allows oversell,
\* through orders of several lines of the same product too; only the two manual
\* stock operations may go against that.
OnlyOversellGoesShort ==
    [][\A p \in Product : Available(p)' < 0 /\ Available(p)' < Available(p)
          => allowOversell[p] \/ Withdraw \/ Patch]_vars

\* The orders give back stock only on their way into canceled or deleted, and
\* an order that is canceled already gives back nothing.
RestoredOnceOnLeaving ==
    [][\A o \in DOMAIN orders : \A p \in Product :
          held'[o][p] < held[o][p]
              => orders[o] \in OpenStatus /\ orders'[o] \in {"canceled", "deleted"}]_vars

\* Units of p missing from the stock that no pending backorder accounts for.
Unrecorded(p) == AtLeastZero(Deficit(p) - PendingOwed(p))

\* No sale, arrival, cancelation or deletion of an order leaves units missing
\* that no pending backorder accounts for.  Only the manual stock operations and
\* the cascade of a customer's deletion do, and with the cascade the deletion of
\* an order that is canceled, which is the same step: lines added to the order
\* after it was canceled are erased and their units stay missing.
NoSilentShortage ==
    [][\A p \in Product : Unrecorded(p)' > Unrecorded(p) => Withdraw \/ Patch \/ Cascade]_vars

\* schema.prisma states of backorders: the units owed by the pending rows of a
\* product are the deficit of its stock.
BackordersMatchDeficit == \A p \in Product : PendingOwed(p) = Deficit(p)

\* Sales and arrivals keep that equality, over multi-line orders, oversold and
\* partly covered lines: it is lost only where an order is left or the stock is
\* changed by hand.
SalesAndArrivalsKeepMatch ==
    [][BackordersMatchDeficit /\ ~BackordersMatchDeficit'
          => ChangeStatus \/ Delete \/ Cascade \/ Withdraw \/ Patch]_vars

=============================================================================
