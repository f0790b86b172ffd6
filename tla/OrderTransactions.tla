-------------------------- MODULE OrderTransactions --------------------------
(***************************************************************************)
(* The transactions of OrderStock as PostgreSQL runs them, statement by    *)
(* statement at READ COMMITTED, on several connections at once.            *)
(*                                                                         *)
(* The tables of OrderStock are the committed ones.  A plain read sees     *)
(* them.  A statement that writes (or reads FOR UPDATE) a row first locks  *)
(* it, waits while another transaction holds it, and keeps it until the    *)
(* transaction ends; it then sees the row as last committed.  What a       *)
(* transaction writes is visible to others at its commit, so the writes    *)
(* are modelled there, from what the transaction read on its way.          *)
(* Transactions that wait for each other in a circle are told apart by the *)
(* server: one of them fails.                                              *)
(***************************************************************************)
EXTENDS OrderStock, FiniteSets

CONSTANTS
    Connection,     \* connections of the pool, each running one request
    RowOrder        \* the order in which a scan of store_stock meets its rows

ASSUME RowOrderAssumption == /\ RowOrder \in Seq(Product)
                             /\ Product = {RowOrder[i] : i \in DOMAIN RowOrder}

VARIABLES
    request,    \* what each connection was asked to do
    pc,         \* the next statement of its transaction
    saw,        \* what the transaction has read
    need,       \* rows that statement has yet to lock, by their turn
    holds       \* rows the transaction has locked

txVars == <<request, pc, saw, need, holds>>

allVars == <<hasStock, quantity, reserved, allowOversell, orders, items, held,
             request, pc, saw, need, holds>>

tables == <<hasStock, quantity, reserved, allowOversell, orders, items, held>>

StockRow(p) == <<"stock", p>>
BackorderRow(i) == <<"backorder", i>>

LockedRow == {StockRow(p) : p \in Product} \cup {BackorderRow(i) : i \in 1..MaxItems}

NoRequest == [op |-> "none"]

Request ==
    {NoRequest}
    \cup [op: {"create"}, lines: UNION {[1..n -> Line] : n \in 1..MaxLines}]
    \cup [op: {"addItem"}, order: 1..MaxOrders, lines: [1..1 -> Line]]
    \cup [op: {"in", "out"}, product: Product, quantity: LineQuantity]
    \cup [op: {"status"}, order: 1..MaxOrders, status: OrderStatus]
    \cup [op: {"delete"}, order: 1..MaxOrders]

\* owed: backorder quantity of each new line; level: stock quantity a movement
\* read; given: fulfilled_quantity an arrival is to write, by row; restore:
\* whether the units of the order go back; rows: the items to be given back.
NothingSeen == [owed |-> << >>, level |-> 0, given |-> << >>, restore |-> FALSE, rows |-> {}]

Ended == {"done", "failed"}

TxTypeOK ==
    /\ TypeOK
    /\ request \in [Connection -> Request]
    /\ pc \in [Connection -> {"idle", "check", "pending", "items", "write"} \cup Ended]
    /\ holds \in [Connection -> SUBSET LockedRow]
    /\ DOMAIN saw = Connection /\ DOMAIN need = Connection
    /\ \A c \in Connection :
          /\ saw[c] \in [owed: Seq(Nat), level: IntColumn, given: {saw[c].given},
                         restore: BOOLEAN, rows: SUBSET DOMAIN items]
          /\ DOMAIN saw[c].given \subseteq DOMAIN items
          /\ \A i \in DOMAIN saw[c].given : saw[c].given[i] \in Nat
          /\ DOMAIN need[c] \subseteq Nat /\ \A k \in DOMAIN need[c] : need[c][k] \in LockedRow
          /\ pc[c] \in Ended \cup {"idle"} => holds[c] = {} /\ DOMAIN need[c] = {}
-----------------------------------------------------------------------------
(* Locks *)

\* The turn of the next row that the statement of c is to lock.
Turn(c, k) == k \in DOMAIN need[c] /\ \A j \in DOMAIN need[c] : k <= j

\* Connections that keep c from its next row.
WaitsFor(c) ==
    {d \in Connection \ {c} : \E k \in DOMAIN need[c] : Turn(c, k) /\ need[c][k] \in holds[d]}

\* The next row of a statement is locked once nobody else holds it.
Lock(c) ==
    \E k \in DOMAIN need[c] :
        /\ Turn(c, k)
        /\ WaitsFor(c) = {}
        /\ holds' = [holds EXCEPT ![c] = @ \cup {need[c][k]}]
        /\ need' = [need EXCEPT ![c] = [j \in DOMAIN need[c] \ {k} |-> need[c][j]]]
        /\ UNCHANGED <<tables, request, pc, saw>>

\* c has every row its statement wanted.
At(c, step) == pc[c] = step /\ DOMAIN need[c] = {}

\* The transaction ends and its locks are released.
End(c, outcome) ==
    /\ pc' = [pc EXCEPT ![c] = outcome]
    /\ need' = [need EXCEPT ![c] = << >>]
    /\ holds' = [holds EXCEPT ![c] = {}]
    /\ saw' = [saw EXCEPT ![c] = NothingSeen]
    /\ UNCHANGED request

\* Nothing of a transaction that fails remains.
Fail(c) == End(c, "failed") /\ UNCHANGED tables

\* Connections in a circle, each waiting for another of them.
Circle(D) == \A c \in D : WaitsFor(c) \cap D # {} /\ \E d \in D : c \in WaitsFor(d)

\* Mutant: circles are left to wait.
NoDeadlockVictim(c) == FALSE

\* The deadlock detector of the server fails one of them.
DeadlockVictim(c) ==
    /\ \E D \in SUBSET Connection : c \in D /\ Circle(D)
    /\ Fail(c)

\* The transaction reads first and then wants the rows of its next statement.
Goes(c, step, seen, rows) ==
    /\ pc' = [pc EXCEPT ![c] = step]
    /\ saw' = [saw EXCEPT ![c] = seen]
    /\ need' = [need EXCEPT ![c] = rows]
    /\ UNCHANGED <<tables, holds>>

Begins(c, r, step, seen, rows) ==
    /\ pc[c] = "idle"
    /\ request' = [request EXCEPT ![c] = r]
    /\ Goes(c, step, seen, rows)

Continues(c, step, seen, rows) == Goes(c, step, seen, rows) /\ UNCHANGED request
-----------------------------------------------------------------------------
(* Orders and lines *)

ProductsOf(lines) == {lines[i].product : i \in DOMAIN lines}

\* Mutant: only the first line's stock row is locked.
FirstRowForUpdate(lines) ==
    IF lines[1].product \in hasStock THEN <<StockRow(lines[1].product)>> ELSE << >>

\* Mutant: the rows are read without FOR UPDATE.
NoRowsForUpdate(lines) == << >>

\* SELECT ... FOR UPDATE of the stock rows of an order's products.
RowsForUpdate(lines) ==
    [k \in {j \in DOMAIN RowOrder : RowOrder[j] \in ProductsOf(lines) \cap hasStock} |->
        StockRow(RowOrder[k])]

\* The stock rows that the lines decrement, one after the other.
RowsToDecrement(lines) ==
    [i \in {j \in DOMAIN lines : lines[j].product \in hasStock} |-> StockRow(lines[i].product)]

OwedBy(lines) == [i \in DOMAIN lines |-> Owed(lines, i)]

\* Rows for the lines of order o, with the units owed as they were read.
RowsAsSeen(o, lines, owed) ==
    [i \in DOMAIN lines |->
        [order |-> o, product |-> lines[i].product, quantity |-> lines[i].quantity,
         owed |-> owed[i], fulfilled |-> 0,
         backorder |-> IF owed[i] > 0 THEN "pending" ELSE "none"]]

TakenBy(lines) == [p \in Product |-> Taken(lines, p, Len(lines))]

BeginCreate(c, lines) ==
    Begins(c, [op |-> "create", lines |-> lines], "check", NothingSeen, RowsForUpdate(lines))

\* The lines are checked against what is available; a line that is short of a
\* product that does not allow oversell fails the whole order.
Check(c) ==
    LET lines == request[c].lines
    IN  /\ At(c, "check")
        /\ \/ /\ Acceptable(lines)
              /\ Continues(c, "write", [NothingSeen EXCEPT !.owed = OwedBy(lines)],
                           RowsToDecrement(lines))
           \/ ~Acceptable(lines) /\ Fail(c)

CommitCreate(c) ==
    LET lines == request[c].lines
        o == Len(orders) + 1
    IN  /\ At(c, "write") /\ request[c].op = "create"
        /\ o <= MaxOrders /\ Len(items) + Len(lines) <= MaxItems
        /\ orders' = Append(orders, "pending")
        /\ items' = items \o RowsAsSeen(o, lines, saw[c].owed)
        /\ TakeOut(TakenBy(lines))
        /\ HeldAfter([p \in Product |-> 0], TakenBy(lines)) \in HeldRange
        /\ held' = Append(held, HeldAfter([p \in Product |-> 0], TakenBy(lines)))
        /\ End(c, "done")
        /\ UNCHANGED <<hasStock, reserved, allowOversell>>

\* addItem reads the stock without a lock; its decrement locks the row.
BeginAddItem(c, o, lines) ==
    /\ orders[o] # "deleted"
    /\ Acceptable(lines)
    /\ Begins(c, [op |-> "addItem", order |-> o, lines |-> lines], "write",
              [NothingSeen EXCEPT !.owed = OwedBy(lines)], RowsToDecrement(lines))

CommitAddItem(c) ==
    LET lines == request[c].lines
        o == request[c].order
    IN  /\ At(c, "write") /\ request[c].op = "addItem"
        /\ orders[o] # "deleted"
        /\ Len(items) < MaxItems
        /\ items' = items \o RowsAsSeen(o, lines, saw[c].owed)
        /\ TakeOut(TakenBy(lines))
        /\ HeldAfter(held[o], TakenBy(lines)) \in HeldRange
        /\ held' = [held EXCEPT ![o] = HeldAfter(held[o], TakenBy(lines))]
        /\ End(c, "done")
        /\ UNCHANGED <<hasStock, reserved, allowOversell, orders>>
-----------------------------------------------------------------------------
(* Stock movements *)

\* The quantity is read without a lock; the upsert, which locks the row, writes
\* the sum computed from it.
BeginMovement(c, op, p, n) ==
    /\ p \in hasStock
    /\ op = "out" => quantity[p] - n >= 0
    /\ Begins(c, [op |-> op, product |-> p, quantity |-> n],
              IF op = "in" THEN "pending" ELSE "write",
              [NothingSeen EXCEPT !.level = quantity[p]], <<StockRow(p)>>)

\* The quantity a movement writes.
NewLevel(c) ==
    IF request[c].op = "in" THEN saw[c].level + request[c].quantity
    ELSE saw[c].level - request[c].quantity

CommitRemoval(c) ==
    /\ At(c, "write") /\ request[c].op = "out"
    /\ NewLevel(c) \in IntColumn
    /\ quantity' = [quantity EXCEPT ![request[c].product] = NewLevel(c)]
    /\ End(c, "done")
    /\ UNCHANGED <<hasStock, reserved, allowOversell, orders, items, held>>

\* The fall of the deficit, as the movement computes it from the level it read.
Covered(p, level, n) ==
    AtLeastZero(reserved[p] - level) - AtLeastZero(reserved[p] - (level + n))

\* Mutant: the pending rows are served from the whole arrival, each in full.
GivenToEach(p, n) ==
    [i \in {j \in DOMAIN items : Pending(j, p) /\ n > 0} |-> items[i].fulfilled + n]

\* What each pending row that receives a unit is to have received.
Given(p, n) ==
    [i \in {j \in DOMAIN items : Pending(j, p) /\ Take(p, n, j) > 0} |->
        items[i].fulfilled + Take(p, n, i)]

\* Backorder rows, to be locked in the order of their numbers.
BackorderRows(rows) == [i \in rows |-> BackorderRow(i)]

\* With the stock row locked, the pending backorders are read; each that
\* receives a unit is then written by its id, and locked for it.
ReadPending(c) ==
    LET p == request[c].product
        given == Given(p, Covered(p, saw[c].level, request[c].quantity))
    IN  /\ At(c, "pending")
        /\ Continues(c, "write", [saw[c] EXCEPT !.given = given], BackorderRows(DOMAIN given))

CommitArrival(c) ==
    LET given == saw[c].given
    IN  /\ At(c, "write") /\ request[c].op = "in"
        /\ NewLevel(c) \in IntColumn
        /\ \A i \in DOMAIN given : orders[items[i].order] # "deleted"
        /\ quantity' = [quantity EXCEPT ![request[c].product] = NewLevel(c)]
        /\ items' = [i \in DOMAIN items |->
                        IF i \in DOMAIN given
                        THEN [items[i] EXCEPT !.fulfilled = given[i],
                                              !.backorder = IF given[i] >= items[i].owed
                                                            THEN "fulfilled" ELSE @]
                        ELSE items[i]]
        /\ End(c, "done")
        /\ UNCHANGED <<hasStock, reserved, allowOversell, orders, held>>
-----------------------------------------------------------------------------
(* Leaving an order *)

PendingRowsOf(o) == {i \in DOMAIN items : items[i].order = o /\ items[i].backorder = "pending"}

\* Mutant: the items of every order are read.
RowsOfAny(o) == DOMAIN items

RowsOf(o) == {i \in DOMAIN items : items[i].order = o}

\* The rows that go with the order when it is deleted are locked by that.
CascadeRows(r) == IF r.op = "delete" THEN RowsOf(r.order) ELSE {}

\* What follows from the status as it was read: the backorders of the order are
\* to be canceled first, or nothing is to be given back.
Leaves(c, r, restore) ==
    Begins(c, r, IF restore THEN "items" ELSE "write",
           [NothingSeen EXCEPT !.restore = restore],
           BackorderRows(IF restore THEN PendingRowsOf(r.order) ELSE CascadeRows(r)))

BeginStatus(c, o, status) ==
    /\ orders[o] # "deleted"
    /\ Leaves(c, [op |-> "status", order |-> o, status |-> status], Cancels(o, status))

BeginDelete(c, o) ==
    /\ orders[o] # "deleted"
    /\ Leaves(c, [op |-> "delete", order |-> o], orders[o] # "canceled")

\* The items of the order are read; the stock row of each is locked in turn.
ReadItems(c) ==
    LET rows == RowsOf(request[c].order)
        tracked == {i \in rows : items[i].product \in hasStock}
        n == Len(items)
    IN  /\ At(c, "items")
        /\ Continues(c, "write", [saw[c] EXCEPT !.rows = rows],
                     [k \in tracked \cup {n + i : i \in CascadeRows(request[c])} |->
                         IF k <= n THEN StockRow(items[k].product) ELSE BackorderRow(k - n)])

\* What the items that were read return of p.
Returned(rows, p) ==
    Sum([i \in DOMAIN items |-> IF i \in rows /\ items[i].product = p
                                THEN items[i].quantity ELSE 0], Len(items))

\* The increments of the stock rows and the movements that go with them.
GiveBack(c, o) ==
    LET units == [p \in Product |-> -Returned(saw[c].rows, p)]
    IN  IF saw[c].restore
        THEN /\ TakeOut(units)
             /\ HeldAfter(held[o], units) \in HeldRange
             /\ held' = [held EXCEPT ![o] = HeldAfter(held[o], units)]
        ELSE KeepStock

\* Rows that were pending when the statement locked them.
CanceledAsLocked(c) ==
    [i \in DOMAIN items |->
        IF BackorderRow(i) \in holds[c] /\ items[i].backorder = "pending"
        THEN [items[i] EXCEPT !.backorder = "canceled"] ELSE items[i]]

CommitStatus(c) ==
    LET o == request[c].order
    IN  /\ At(c, "write") /\ request[c].op = "status"
        /\ orders[o] # "deleted"
        /\ orders' = [orders EXCEPT ![o] = request[c].status]
        /\ items' = CanceledAsLocked(c)
        /\ GiveBack(c, o)
        /\ End(c, "done")
        /\ UNCHANGED <<hasStock, reserved, allowOversell>>

CommitDelete(c) ==
    LET o == request[c].order
    IN  /\ At(c, "write") /\ request[c].op = "delete"
        /\ orders[o] # "deleted"
        /\ orders' = [orders EXCEPT ![o] = "deleted"]
        /\ items' = ErasedRows(o)
        /\ GiveBack(c, o)
        /\ End(c, "done")
        /\ UNCHANGED <<hasStock, reserved, allowOversell>>
-----------------------------------------------------------------------------
(* A write that cannot be done *)

\* The order, or the backorder row, that the transaction is about to write is
\* gone, or the stock would leave the range of its column.
Impossible(c) ==
    LET r == request[c]
    IN  \/ r.op \in {"addItem", "status", "delete"} /\ orders[r.order] = "deleted"
        \/ r.op \in {"in", "out"} /\ NewLevel(c) \notin IntColumn
        \/ r.op = "in" /\ \E i \in DOMAIN saw[c].given : orders[items[i].order] = "deleted"
        \/ r.op \in {"create", "addItem"} /\ \E p \in hasStock :
              quantity[p] - TakenBy(r.lines)[p] \notin IntColumn
        \/ saw[c].restore /\ \E p \in hasStock :
              quantity[p] + Returned(saw[c].rows, p) \notin IntColumn

WriteFails(c) == At(c, "write") /\ Impossible(c) /\ Fail(c)
-----------------------------------------------------------------------------
BeginSale(c) ==
    \/ \E lines \in Lines : BeginCreate(c, lines)
    \/ \E o \in DOMAIN orders, line \in Line : BeginAddItem(c, o, <<line>>)

BeginStock(c) ==
    \E op \in {"in", "out"}, p \in Product, n \in LineQuantity : BeginMovement(c, op, p, n)

BeginLeaving(c) ==
    \E o \in DOMAIN orders :
        \/ \E status \in OrderStatus : BeginStatus(c, o, status)
        \/ BeginDelete(c, o)

\* Every step of a transaction that has begun.
Step(c) ==
    \/ Lock(c) \/ DeadlockVictim(c) \/ WriteFails(c)
    \/ Check(c) \/ CommitCreate(c) \/ CommitAddItem(c)
    \/ ReadPending(c) \/ CommitArrival(c) \/ CommitRemoval(c)
    \/ ReadItems(c) \/ CommitStatus(c) \/ CommitDelete(c)

TxNext ==
    \E c \in Connection : BeginSale(c) \/ BeginStock(c) \/ BeginLeaving(c) \/ Step(c)

NoneBegun ==
    /\ request = [c \in Connection |-> NoRequest]
    /\ pc = [c \in Connection |-> "idle"]
    /\ saw = [c \in Connection |-> NothingSeen]
    /\ need = [c \in Connection |-> << >>]
    /\ holds = [c \in Connection |-> {}]

\* Requests on any tables whose rows are as OrderStock keeps them.
TxInit == NoneBegun /\ TypeOK /\ BackordersWellFormed /\ OldestServedFirst

TxSpec == TxInit /\ [][TxNext]_allVars

\* Every statement that can run is run in the end: the server schedules every
\* session, and releases locks at the end of each transaction.
Fairness == \A c \in Connection : WF_allVars(Step(c))
-----------------------------------------------------------------------------
(* Properties *)

\* Every transaction that has begun is answered: circles of locks between
\* cancelations, deletions, arrivals and sales are always broken.
EveryRequestEnds == \A c \in Connection : pc[c] # "idle" ~> pc[c] \in Ended

\* Statement by statement every variable keeps its type, backorders stay well
\* formed, and arrivals serve the oldest line first.
TablesOK == TxTypeOK /\ BackordersWellFormed /\ OldestServedFirst

\* What c read of the stock before it had the row no longer holds when it commits.
WritesStale(c) ==
    \/ CommitAddItem(c) /\ ~Acceptable(request[c].lines)
    \/ (CommitArrival(c) \/ CommitRemoval(c)) /\ saw[c].level # quantity[request[c].product]

\* A removal looks at the quantity alone and may take what is reserved.
TakesReserved(c) == CommitRemoval(c) /\ reserved[request[c].product] > 0

\* A product that does not allow oversell goes short only by an added line or a
\* movement whose reading of the stock, taken without a lock, was overtaken, or by
\* a removal of reserved units: never by the creation of an order, which holds
\* every stock row that it checks.
OnlyStaleReadsOversell ==
    [][\A p \in hasStock :
          ~allowOversell[p] /\ Available(p)' < 0 /\ Available(p)' < Available(p)
              => \E c \in Connection : WritesStale(c) \/ TakesReserved(c)]_allVars

\* An order is created as if alone, whatever sales, movements, cancelations and
\* deletions run at once: its commit is one step of OrderStock, which finds at that
\* moment the stock it was checked against.
CreationsAreAtomic ==
    [][\A c \in Connection :
          CommitCreate(c) => \E lines \in Lines : CreateOrder(lines)]_allVars

\* An order gives back more than it took only if it no longer held all that it
\* ordered, because another request gave its units back first (two cancelations at
\* once, or an order that was canceled and reopened).  While it holds them all, no
\* cancelation or deletion returns too much, whatever lines were added or orders
\* were left since it read the items.
OnlyRepeatsReturnTwice ==
    [][\A o \in DOMAIN orders, p \in Product :
          held[o][p] >= 0 /\ held'[o][p] < 0 => held[o][p] < Ordered(o, p)]_allVars

\* "Lock stock rows to prevent concurrent overselling" (create): a product that
\* does not allow oversell is never short.
NeverOversold == \A p \in hasStock : ~allowOversell[p] => Available(p) >= 0
=============================================================================
