---------------------- MODULE OrderTransactionsProofs ----------------------
(***************************************************************************)
(* Proofs about OrderTransactions, for any number of connections, any      *)
(* tables that OrderStock keeps and any requests: what the row locks       *)
(* protect while a transaction runs, and what it therefore commits.        *)
(***************************************************************************)
EXTENDS OrderTransactions, OrderStockProofs

Running(c) == pc[c] \notin Ended \cup {"idle"}

\* Rows that c has locked, or is to lock before its next statement.
Wanted(c) == holds[c] \cup {need[c][k] : k \in DOMAIN need[c]}

\* The stock rows of an order's lines.
StockRowsOf(lines) == {StockRow(p) : p \in ProductsOf(lines) \cap hasStock}

\* A row is locked by one connection at a time.
LocksApart == \A c, d \in Connection : c # d => holds[c] \cap holds[d] = {}

\* Each statement belongs to the requests that run it, on an order that exists.
StatementOK(c) ==
    /\ pc[c] = "check" => request[c].op = "create"
    /\ pc[c] = "pending" => request[c].op = "in"
    /\ pc[c] = "items" => request[c].op \in {"status", "delete"}
    /\ pc[c] = "write" => request[c].op # "none"
    /\ Running(c) /\ request[c].op \in {"addItem", "status", "delete"}
          => request[c].order \in DOMAIN orders

\* A sale decrements only rows it locks, for lines that owe what they were read
\* to owe; the lines of a new order still owe that, since its rows were locked
\* when they were read.
SaleOK(c) ==
    LET lines == request[c].lines IN
    /\ pc[c] = "check" => StockRowsOf(lines) \subseteq Wanted(c)
    /\ pc[c] = "write" /\ request[c].op \in {"create", "addItem"} =>
          /\ StockRowsOf(lines) \subseteq Wanted(c)
          /\ DOMAIN saw[c].owed = DOMAIN lines
          /\ \A i \in DOMAIN lines : saw[c].owed[i] <= lines[i].quantity
    /\ pc[c] = "write" /\ request[c].op = "create" =>
          /\ StockRowsOf(lines) \subseteq holds[c]
          /\ Acceptable(lines) /\ saw[c].owed = OwedBy(lines)

\* What an arrival is to write: within what each row asks for, and all of it for
\* every earlier row of the product that still waits.
GivenOK(c) ==
    LET p == request[c].product
        given == saw[c].given
    IN  \A j \in DOMAIN given :
            /\ items[j].product = p
            /\ orders[items[j].order] # "deleted" =>
                  items[j].fulfilled <= given[j] /\ given[j] <= items[j].owed /\ items[j].owed > 0
            /\ \A i \in DOMAIN items :
                  i < j /\ Pending(i, p) => i \in DOMAIN given /\ given[i] = items[i].owed

\* A movement writes one stock row, which it locks; an arrival has it locked
\* when it reads the backorders.
MovementOK(c) ==
    /\ Running(c) /\ request[c].op \in {"in", "out"} =>
          /\ request[c].product \in hasStock
          /\ StockRow(request[c].product) \in Wanted(c)
    /\ pc[c] = "write" /\ request[c].op = "in" =>
          StockRow(request[c].product) \in holds[c] /\ GivenOK(c)
    /\ pc[c] = "write" /\ request[c].op = "out" => saw[c].level - request[c].quantity >= 0

\* What goes back to the stock are rows of the order, into rows it locks.
LeavingOK(c) ==
    pc[c] = "write" /\ request[c].op \in {"status", "delete"} /\ saw[c].restore =>
        \A i \in saw[c].rows :
            /\ items[i].order = request[c].order
            /\ items[i].product \in hasStock => StockRow(items[i].product) \in Wanted(c)

ConnectionOK(c) == StatementOK(c) /\ SaleOK(c) /\ MovementOK(c) /\ LeavingOK(c)

\* The inductive invariant.
TxIInv ==
    /\ IInv /\ TxTypeOK /\ LocksApart
    /\ \A c \in Connection : ConnectionOK(c)
-----------------------------------------------------------------------------
(* Reading the invariant *)

\* What a connection was asked, by kind of request.
LEMMA RequestKinds ==
  ASSUME TxIInv, NEW c \in Connection
  PROVE  LET r == request[c] IN
         /\ r.op \in {"none", "create", "addItem", "in", "out", "status", "delete"}
         /\ r.op = "create" => r.lines \in Lines
         /\ r.op = "addItem" => r.lines \in [1..1 -> Line]
         /\ r.op \in {"in", "out"} => r.product \in Product /\ r.quantity \in LineQuantity
         /\ r.op = "status" => r.status \in OrderStatus
<1>1. request[c] \in Request
  BY DEF TxIInv, TxTypeOK
<1> QED BY <1>1 DEF Request, NoRequest, Lines

\* The lines of a sale are numbered from 1.
LEMMA LinesOfSale ==
  ASSUME TxIInv, NEW c \in Connection, request[c].op \in {"create", "addItem"}
  PROVE  \E n \in Nat : /\ request[c].lines \in [1..n -> Line] /\ Len(request[c].lines) = n
                        /\ DOMAIN request[c].lines = 1..n
<1>1. CASE request[c].op = "create"
  <2>1. request[c].lines \in Lines
    BY <1>1, RequestKinds
  <2>2. PICK n \in 1..MaxLines : request[c].lines \in [1..n -> Line]
    BY <2>1 DEF Lines
  <2>3. n \in Nat
    BY BoundAssumption
  <2> QED BY <2>2, <2>3, FunctionIsSequence
<1>2. CASE request[c].op = "addItem"
  <2>1. request[c].lines \in [1..1 -> Line] /\ 1 \in Nat
    BY <1>2, RequestKinds
  <2> QED BY <2>1, FunctionIsSequence
<1> QED BY <1>1, <1>2

\* What a transaction has read has its type.
LEMMA SeenTyped ==
  ASSUME TxIInv, NEW c \in Connection
  PROVE  /\ saw[c] = [owed |-> saw[c].owed, level |-> saw[c].level, given |-> saw[c].given,
                      restore |-> saw[c].restore, rows |-> saw[c].rows]
         /\ saw[c].owed \in Seq(Nat) /\ saw[c].level \in Int /\ saw[c].level \in IntColumn
         /\ saw[c].restore \in BOOLEAN /\ saw[c].rows \subseteq DOMAIN items
<1>1. saw[c] \in [owed: Seq(Nat), level: IntColumn, given: {saw[c].given},
                 restore: BOOLEAN, rows: SUBSET DOMAIN items]
  BY DEF TxIInv, TxTypeOK
<1> QED BY <1>1, ColumnAssumption

\* A statement that has every row it wanted holds all that its transaction
\* locked or was to lock.
LEMMA AllLocked ==
  ASSUME NEW c, DOMAIN need[c] = {}
  PROVE  Wanted(c) = holds[c]
  BY DEF Wanted
-----------------------------------------------------------------------------
(* What a step of one connection leaves of what the others rely on *)

\* Only locked stock rows change, rows are only appended, canceled, erased with
\* their order or served under the lock of their product, and what is deleted
\* stays so.
TableStep(d) ==
    /\ UNCHANGED <<hasStock, reserved, allowOversell>>
    /\ \A p \in Product : quantity'[p] # quantity[p] => StockRow(p) \in holds[d]
    /\ DOMAIN orders \subseteq DOMAIN orders'
    /\ \A o \in DOMAIN orders : orders[o] = "deleted" => orders'[o] = "deleted"
    /\ DOMAIN items \subseteq DOMAIN items'
    /\ \A i \in DOMAIN items :
          /\ items'[i].order = items[i].order /\ items'[i].product = items[i].product
          /\ \/ items'[i] = items[i]
             \/ StockRow(items[i].product) \in holds[d]
             \/ /\ items'[i].backorder # "pending"
                /\ \/ orders'[items[i].order] = "deleted"
                   \/ /\ items'[i].owed = items[i].owed
                      /\ items'[i].fulfilled = items[i].fulfilled

\* A step that writes no table.
LEMMA TablesKept == ASSUME UNCHANGED tables, NEW d PROVE TableStep(d)
  BY DEF tables, TableStep

\* The state of connection c is what it was.
Kept(c) == /\ request'[c] = request[c] /\ pc'[c] = pc[c] /\ saw'[c] = saw[c]
           /\ need'[c] = need[c] /\ holds'[c] = holds[c]

\* Lines are judged as before while the stock rows of their products stay.
LEMMA SameView ==
  ASSUME IInv, NEW n \in Nat, NEW lines \in [1..n -> Line],
         UNCHANGED <<hasStock, reserved, allowOversell>>,
         \A p \in ProductsOf(lines) \cap hasStock : quantity'[p] = quantity[p]
  PROVE  /\ Acceptable(lines) => Acceptable(lines)'
         /\ OwedBy(lines)' = OwedBy(lines)
<1>1. ASSUME NEW i \in 1..n
      PROVE  /\ Short(lines, i)' <=> Short(lines, i)
             /\ lines[i].product \in hasStock => AvailableAt(lines, i)' = AvailableAt(lines, i)
  <2>1. DOMAIN lines = 1..n
    OBVIOUS
  <2>2. lines[i].product \in ProductsOf(lines)
    BY <2>1 DEF ProductsOf
  <2>3. CASE lines[i].product \in hasStock
    <3>1. quantity'[lines[i].product] = quantity[lines[i].product]
      BY <2>2, <2>3
    <3>2. AvailableAt(lines, i)' = AvailableAt(lines, i)
      BY <3>1 DEF AvailableAt, Available
    <3> QED BY <3>2 DEF Short
  <2>4. CASE lines[i].product \notin hasStock
    BY <2>4 DEF Short
  <2> QED BY <2>3, <2>4
<1>2. Acceptable(lines) => Acceptable(lines)'
  BY <1>1 DEF Acceptable
<1>3. \A i \in 1..n : Owed(lines, i)' = Owed(lines, i)
  BY <1>1 DEF Owed, Short
<1> QED BY <1>2, <1>3 DEF OwedBy

\* A step of d keeps what another connection relies on.
LEMMA OthersKeep ==
  ASSUME TxIInv, NEW d \in Connection, NEW c \in Connection, c # d, TableStep(d), Kept(c),
         IInv'
  PROVE  ConnectionOK(c)'
<1>1. StatementOK(c) /\ SaleOK(c) /\ MovementOK(c) /\ LeavingOK(c)
  BY DEF TxIInv, ConnectionOK
<1>2. /\ UNCHANGED <<hasStock, reserved, allowOversell>>
      /\ request'[c] = request[c] /\ pc'[c] = pc[c] /\ saw'[c] = saw[c]
      /\ need'[c] = need[c] /\ holds'[c] = holds[c] /\ Wanted(c)' = Wanted(c)
  BY DEF TableStep, Kept, Wanted
<1>3. \A p \in Product : StockRow(p) \in holds[c] => quantity'[p] = quantity[p]
  BY DEF TableStep, TxIInv, LocksApart
<1>4. hasStock \subseteq Product
  BY DEF TxIInv, IInv, TypeOK
<1>5. StatementOK(c)'
  BY <1>1, <1>2 DEF StatementOK, Running, TableStep
<1>6. SaleOK(c)'
  <2> PICK lines : lines = request[c].lines
    OBVIOUS
  <2>1. StockRowsOf(lines)' = StockRowsOf(lines)
    BY <1>2 DEF StockRowsOf
  <2>2. ASSUME pc[c] = "write", request[c].op = "create"
        PROVE  Acceptable(lines)' /\ OwedBy(lines)' = OwedBy(lines)
    <3>1. PICK n \in Nat : lines \in [1..n -> Line]
      BY <2>2, LinesOfSale
    <3>2. Acceptable(lines) /\ StockRowsOf(lines) \subseteq holds[c]
      BY <1>1, <2>2 DEF SaleOK
    <3>3. \A p \in ProductsOf(lines) \cap hasStock : quantity'[p] = quantity[p]
      BY <1>3, <1>4, <3>2 DEF StockRowsOf
    <3> QED BY <1>2, <3>1, <3>2, <3>3, SameView DEF TxIInv
  <2>3. /\ request'[c].lines = lines
        /\ pc[c] = "check" => StockRowsOf(lines) \subseteq Wanted(c)
        /\ pc[c] = "write" /\ request[c].op \in {"create", "addItem"} =>
              /\ StockRowsOf(lines) \subseteq Wanted(c)
              /\ DOMAIN saw[c].owed = DOMAIN lines
              /\ \A i \in DOMAIN lines : saw[c].owed[i] <= lines[i].quantity
        /\ pc[c] = "write" /\ request[c].op = "create" =>
              /\ StockRowsOf(lines) \subseteq holds[c]
              /\ Acceptable(lines) /\ saw[c].owed = OwedBy(lines)
    BY <1>1, <1>2 DEF SaleOK
  <2> QED BY <1>2, <2>1, <2>2, <2>3 DEF SaleOK
<1>7. MovementOK(c)'
  <2>1. ASSUME pc[c] = "write", request[c].op = "in" PROVE GivenOK(c)'
    <3> DEFINE p == request[c].product
               given == saw[c].given
    <3>1. GivenOK(c) /\ StockRow(p) \in holds[c] /\ DOMAIN given \subseteq DOMAIN items
      BY <1>1, <2>1 DEF MovementOK, TxIInv, TxTypeOK
    <3>2. StockRow(p) \notin holds[d]
      BY <3>1 DEF TxIInv, LocksApart
    <3>3. DOMAIN items \subseteq DOMAIN items' /\ DOMAIN items = 1..Len(items) /\ Len(items) \in Nat
      BY ItemsAreRows DEF TableStep, TxIInv
    <3>4. ASSUME NEW i \in DOMAIN items, items[i].product = p
          PROVE  /\ items'[i].product = p /\ items'[i].order = items[i].order
                 /\ items'[i].backorder = "pending" => items'[i] = items[i]
                 /\ items'[i] # items[i] => orders'[items[i].order] = "deleted"
                                            \/ /\ items'[i].owed = items[i].owed
                                               /\ items'[i].fulfilled = items[i].fulfilled
      BY <3>2, <3>4 DEF TableStep
    <3>5. \A i \in DOMAIN items : items[i].order \in DOMAIN orders
      BY DEF TxIInv, IInv, TypeOK
    <3>6. SUFFICES ASSUME NEW j \in DOMAIN given
          PROVE  /\ items'[j].product = p
                 /\ orders'[items'[j].order] # "deleted" =>
                       /\ items'[j].fulfilled <= given[j] /\ given[j] <= items'[j].owed
                       /\ items'[j].owed > 0
                 /\ \A i \in DOMAIN items' :
                       i < j /\ items'[i].product = p /\ items'[i].backorder = "pending"
                          => i \in DOMAIN given /\ given[i] = items'[i].owed
      BY <1>2 DEF GivenOK, Pending
    <3>7. /\ items[j].product = p /\ j \in DOMAIN items
          /\ orders[items[j].order] # "deleted" =>
                items[j].fulfilled <= given[j] /\ given[j] <= items[j].owed /\ items[j].owed > 0
          /\ \A i \in DOMAIN items : i < j /\ items[i].product = p /\ items[i].backorder = "pending"
                => i \in DOMAIN given /\ given[i] = items[i].owed
      BY <3>1 DEF GivenOK, Pending
    <3>8. orders[items[j].order] = "deleted" => orders'[items[j].order] = "deleted"
      BY <3>5, <3>7 DEF TableStep
    <3>9. ASSUME NEW i \in DOMAIN items', i < j, items'[i].product = p,
                 items'[i].backorder = "pending"
          PROVE  i \in DOMAIN given /\ given[i] = items'[i].owed
      <4>1. i \in DOMAIN items
        <5>1. DOMAIN items' = 1..Len(items') /\ Len(items') \in Nat
          <6>1. items' \in Seq(ItemRow)
            BY DEF IInv, TypeOK
          <6> QED BY <6>1, LenProperties
        <5> QED BY <3>3, <3>7, <3>9, <5>1
      <4>2. items[i].product = p
        BY <3>9, <4>1 DEF TableStep
      <4>3. items'[i] = items[i]
        BY <3>4, <3>9, <4>1, <4>2
      <4> QED BY <3>7, <3>9, <4>1, <4>2, <4>3
    <3> QED BY <3>4, <3>7, <3>8, <3>9
  <2> QED BY <1>1, <1>2, <2>1 DEF MovementOK, Running
<1>8. LeavingOK(c)'
  <2>1. saw[c].rows \subseteq DOMAIN items
    BY SeenTyped
  <2> QED BY <1>1, <1>2, <2>1 DEF LeavingOK, TableStep
<1> QED BY <1>5, <1>6, <1>7, <1>8 DEF ConnectionOK
-----------------------------------------------------------------------------
(* The kinds of step *)

\* The types of what one connection reads, wants and holds.
SeenOK(c) ==
    /\ saw[c] \in [owed: Seq(Nat), level: IntColumn, given: {saw[c].given},
                   restore: BOOLEAN, rows: SUBSET DOMAIN items]
    /\ DOMAIN saw[c].given \subseteq DOMAIN items
    /\ \A i \in DOMAIN saw[c].given : saw[c].given[i] \in Nat
    /\ DOMAIN need[c] \subseteq Nat /\ \A k \in DOMAIN need[c] : need[c][k] \in LockedRow
    /\ pc[c] \in Ended \cup {"idle"} => holds[c] = {} /\ DOMAIN need[c] = {}

\* The invariant after a step of d, from what the step does to d and to the tables.
LEMMA Assembled ==
  ASSUME TxIInv, NEW d \in Connection, TableStep(d), IInv',
         request' \in [Connection -> Request],
         pc' \in [Connection -> {"idle", "check", "pending", "items", "write"} \cup Ended],
         holds' \in [Connection -> SUBSET LockedRow],
         DOMAIN saw' = Connection, DOMAIN need' = Connection,
         \A c \in Connection \ {d} : Kept(c) /\ holds'[c] \cap holds'[d] = {},
         SeenOK(d)', ConnectionOK(d)'
  PROVE  TxIInv'
<1>1. \A c \in Connection \ {d} : ConnectionOK(c)'
  BY OthersKeep
<1>2. LocksApart'
  BY DEF TxIInv, LocksApart, Kept
<1>3. ASSUME NEW c \in Connection \ {d} PROVE SeenOK(c)'
  <2>1. SeenOK(c)
    BY DEF TxIInv, TxTypeOK, SeenOK
  <2>2. /\ saw'[c] = saw[c] /\ need'[c] = need[c] /\ pc'[c] = pc[c] /\ holds'[c] = holds[c]
        /\ DOMAIN items \subseteq DOMAIN items'
    BY DEF Kept, TableStep
  <2> QED BY <2>1, <2>2 DEF SeenOK
<1>4. TxTypeOK'
  BY <1>3 DEF TxTypeOK, SeenOK, IInv
<1> QED BY <1>1, <1>2, <1>4 DEF TxIInv

\* A function that is changed at one connection.
LEMMA ChangedAt ==
  ASSUME NEW f, DOMAIN f = Connection, NEW d \in Connection, NEW x
  PROVE  LET g == [f EXCEPT ![d] = x] IN
         DOMAIN g = Connection /\ g[d] = x /\ \A c \in Connection \ {d} : g[c] = f[c]
  OBVIOUS

LEMMA Domains ==
  ASSUME TxIInv
  PROVE  /\ DOMAIN request = Connection /\ DOMAIN pc = Connection /\ DOMAIN holds = Connection
         /\ DOMAIN saw = Connection /\ DOMAIN need = Connection
  BY DEF TxIInv, TxTypeOK

\* A transaction that ends keeps the invariant if what it commits does.
LEMMA EndKeeps ==
  ASSUME TxIInv, NEW d \in Connection, NEW outcome \in Ended, End(d, outcome), TableStep(d), IInv'
  PROVE  TxIInv'
<1>1. /\ request' = request /\ pc' = [pc EXCEPT ![d] = outcome]
      /\ need' = [need EXCEPT ![d] = << >>] /\ holds' = [holds EXCEPT ![d] = {}]
      /\ saw' = [saw EXCEPT ![d] = NothingSeen]
  BY DEF End
<1>2. /\ pc'[d] = outcome /\ need'[d] = << >> /\ holds'[d] = {} /\ saw'[d] = NothingSeen
      /\ DOMAIN saw' = Connection /\ DOMAIN need' = Connection
      /\ \A c \in Connection \ {d} : Kept(c)
  BY <1>1, Domains, ChangedAt DEF Kept
<1>3. /\ request' \in [Connection -> Request]
      /\ pc' \in [Connection -> {"idle", "check", "pending", "items", "write"} \cup Ended]
      /\ holds' \in [Connection -> SUBSET LockedRow]
  BY <1>1 DEF TxIInv, TxTypeOK
<1>4. DOMAIN << >> = {}
  OBVIOUS
<1>5. SeenOK(d)'
  <2>1. << >> \in Seq(Nat) /\ 0 \in IntColumn
    BY ColumnAssumption
  <2>2. NothingSeen \in [owed: Seq(Nat), level: IntColumn, given: {NothingSeen.given},
                         restore: BOOLEAN, rows: SUBSET DOMAIN items']
    BY <2>1 DEF NothingSeen
  <2>3. NothingSeen.given = << >>
    BY DEF NothingSeen
  <2> QED BY <1>2, <1>4, <2>2, <2>3 DEF SeenOK
<1>6. ConnectionOK(d)'
  <2>1. pc'[d] \in {"done", "failed"}
    BY <1>2 DEF Ended
  <2> QED BY <2>1 DEF ConnectionOK, StatementOK, SaleOK, MovementOK, LeavingOK, Running, Ended
<1> QED BY <1>2, <1>3, <1>5, <1>6, Assembled

\* So does one that fails, of which nothing remains.
LEMMA FailKeeps == ASSUME TxIInv, NEW d \in Connection, Fail(d) PROVE TxIInv'
<1>1. End(d, "failed") /\ UNCHANGED tables /\ "failed" \in Ended
  BY DEF Fail, Ended
<1>2. IInv'
  <2>1. StockOK' /\ OrdersOK' /\ RowsOK'
    BY <1>1, Untouched DEF tables, TxIInv
  <2> QED BY <2>1, Parts
<1> QED BY <1>1, <1>2, TablesKept, EndKeeps

\* A transaction that reads and goes to its next statement keeps the invariant
\* if it can rely on what it read.
LEMMA GoesKeeps ==
  ASSUME TxIInv, NEW d \in Connection, NEW step \in {"check", "pending", "items", "write"},
         NEW seen, NEW rows, Goes(d, step, seen, rows),
         seen \in [owed: Seq(Nat), level: IntColumn, given: {seen.given},
                   restore: BOOLEAN, rows: SUBSET DOMAIN items],
         DOMAIN seen.given \subseteq DOMAIN items, \A i \in DOMAIN seen.given : seen.given[i] \in Nat,
         DOMAIN rows \subseteq Nat, \A k \in DOMAIN rows : rows[k] \in LockedRow,
         request' = request \/ \E r \in Request : request' = [request EXCEPT ![d] = r],
         ConnectionOK(d)'
  PROVE  TxIInv'
<1>1. /\ pc' = [pc EXCEPT ![d] = step] /\ saw' = [saw EXCEPT ![d] = seen]
      /\ need' = [need EXCEPT ![d] = rows] /\ holds' = holds /\ UNCHANGED tables
  BY DEF Goes
<1>2. /\ pc'[d] = step /\ need'[d] = rows /\ holds'[d] = holds[d] /\ saw'[d] = seen
      /\ DOMAIN saw' = Connection /\ DOMAIN need' = Connection
      /\ \A c \in Connection \ {d} : Kept(c)
  BY <1>1, Domains, ChangedAt DEF Kept
<1>3. /\ request' \in [Connection -> Request]
      /\ pc' \in [Connection -> {"idle", "check", "pending", "items", "write"} \cup Ended]
      /\ holds' \in [Connection -> SUBSET LockedRow]
      /\ \A c \in Connection \ {d} : holds'[c] \cap holds'[d] = {}
  BY <1>1, ZenonT(100) DEF TxIInv, TxTypeOK, LocksApart
<1>4. items' = items
  BY <1>1 DEF tables
<1>5. SeenOK(d)'
  BY <1>2, <1>4 DEF SeenOK, Ended
<1>6. IInv'
  <2>1. StockOK' /\ OrdersOK' /\ RowsOK'
    BY <1>1, Untouched DEF tables, TxIInv
  <2> QED BY <2>1, Parts
<1>7. TableStep(d)
  BY <1>1, TablesKept
<1> QED BY <1>2, <1>3, <1>5, <1>6, <1>7, Assembled
-----------------------------------------------------------------------------
(* Locks *)

\* Locking the next row of a statement keeps the invariant: what the connection
\* wants stays the same, and nobody else held the row.
LEMMA LockKeeps == ASSUME TxIInv, NEW d \in Connection, Lock(d) PROVE TxIInv'
<1>1. PICK k \in DOMAIN need[d] :
         /\ Turn(d, k) /\ WaitsFor(d) = {}
         /\ holds' = [holds EXCEPT ![d] = @ \cup {need[d][k]}]
         /\ need' = [need EXCEPT ![d] = [j \in DOMAIN need[d] \ {k} |-> need[d][j]]]
         /\ UNCHANGED <<tables, request, pc, saw>>
  BY DEF Lock
<1> DEFINE left == [j \in DOMAIN need[d] \ {k} |-> need[d][j]]
           more == holds[d] \cup {need[d][k]}
<1>2. /\ need'[d] = left /\ DOMAIN need' = Connection /\ holds'[d] = more
      /\ UNCHANGED <<tables, request, pc, saw>> /\ DOMAIN saw' = Connection
      /\ \A c \in Connection \ {d} : Kept(c)
  BY <1>1, Domains, ChangedAt DEF Kept
<1>3. need[d][k] \in LockedRow /\ pc[d] \notin Ended \cup {"idle"} /\ DOMAIN need[d] \subseteq Nat
      /\ \A j \in DOMAIN need[d] : need[d][j] \in LockedRow
  BY DEF TxIInv, TxTypeOK
<1>4. \A c \in Connection \ {d} : need[d][k] \notin holds[c]
  BY <1>1 DEF WaitsFor
<1>5. \A c \in Connection \ {d} : holds'[c] \cap holds'[d] = {}
  BY <1>2, <1>4 DEF TxIInv, LocksApart, Kept
<1>6. holds' \in [Connection -> SUBSET LockedRow]
  BY <1>1, <1>3 DEF TxIInv, TxTypeOK
<1>7. /\ request' \in [Connection -> Request]
      /\ pc' \in [Connection -> {"idle", "check", "pending", "items", "write"} \cup Ended]
  BY <1>2 DEF TxIInv, TxTypeOK
<1>8. items' = items /\ hasStock' = hasStock /\ orders' = orders /\ quantity' = quantity
      /\ reserved' = reserved /\ allowOversell' = allowOversell
  BY <1>2 DEF tables
<1>9. SeenOK(d)'
  <2>1. SeenOK(d)
    BY DEF TxIInv, TxTypeOK, SeenOK
  <2>2. DOMAIN left \subseteq Nat /\ \A j \in DOMAIN left : left[j] \in LockedRow
    BY <1>3
  <2> HIDE DEF left
  <2> QED BY <1>2, <1>3, <1>8, <2>1, <2>2 DEF SeenOK
<1>10. Wanted(d)' = Wanted(d) /\ holds[d] \subseteq holds'[d]
  <2>1. {left[j] : j \in DOMAIN left} = {need[d][j] : j \in DOMAIN need[d] \ {k}}
    OBVIOUS
  <2>2. {need[d][k]} \cup {need[d][j] : j \in DOMAIN need[d] \ {k}}
           = {need[d][j] : j \in DOMAIN need[d]}
    BY <1>1
  <2> HIDE DEF left
  <2> QED BY <1>2, <2>1, <2>2 DEF Wanted
<1>11. ConnectionOK(d)'
  <2>1. StatementOK(d) /\ SaleOK(d) /\ MovementOK(d) /\ LeavingOK(d)
    BY DEF TxIInv, ConnectionOK
  <2>2. StatementOK(d)'
    BY <1>2, <1>8, <2>1 DEF StatementOK, Running
  <2>3. SaleOK(d)'
    <3> PICK lines : lines = request[d].lines
      OBVIOUS
    <3>1. /\ StockRowsOf(lines)' = StockRowsOf(lines) /\ OwedBy(lines)' = OwedBy(lines)
          /\ Acceptable(lines)' = Acceptable(lines)
      BY <1>8 DEF StockRowsOf, OwedBy, Owed, Short, AvailableAt, Available, Acceptable
    <3> QED BY <1>2, <1>10, <2>1, <3>1 DEF SaleOK
  <2>4. MovementOK(d)'
    <3>1. GivenOK(d)' = GivenOK(d)
      BY <1>2, <1>8 DEF GivenOK, Pending
    <3> QED BY <1>2, <1>8, <1>10, <2>1, <3>1 DEF MovementOK, Running
  <2>5. LeavingOK(d)'
    BY <1>2, <1>8, <1>10, <2>1 DEF LeavingOK
  <2> QED BY <2>2, <2>3, <2>4, <2>5 DEF ConnectionOK
<1>12. TableStep(d)
  BY <1>2, TablesKept
<1>13. IInv'
  <2>1. StockOK' /\ OrdersOK' /\ RowsOK'
    BY <1>2, Untouched DEF tables, TxIInv
  <2> QED BY <2>1, Parts
<1> HIDE DEF left, more
<1> QED BY <1>2, <1>5, <1>6, <1>7, <1>9, <1>11, <1>12, <1>13, Assembled
-----------------------------------------------------------------------------
(* Requests begin *)

\* The state of a connection that begins a request.
LEMMA Begun ==
  ASSUME TxIInv, NEW d \in Connection, NEW r, NEW step, NEW seen, NEW rows,
         Begins(d, r, step, seen, rows)
  PROVE  /\ request' = [request EXCEPT ![d] = r] /\ Goes(d, step, seen, rows) /\ UNCHANGED tables
         /\ request'[d] = r /\ pc'[d] = step /\ saw'[d] = seen /\ need'[d] = rows
         /\ holds'[d] = holds[d]
         /\ Wanted(d)' = holds[d] \cup {rows[k] : k \in DOMAIN rows}
<1>1. /\ request' = [request EXCEPT ![d] = r] /\ Goes(d, step, seen, rows)
      /\ pc' = [pc EXCEPT ![d] = step] /\ saw' = [saw EXCEPT ![d] = seen]
      /\ need' = [need EXCEPT ![d] = rows] /\ holds' = holds /\ UNCHANGED tables
  BY DEF Begins, Goes
<1>2. /\ request'[d] = r /\ pc'[d] = step /\ saw'[d] = seen /\ need'[d] = rows
      /\ holds'[d] = holds[d]
  BY <1>1, Domains
<1> QED BY <1>1, <1>2 DEF Wanted

\* What is read when a request begins: some lines' debts, a level or a decision.
Reading(owed, level, restore) ==
    [owed |-> owed, level |-> level, given |-> << >>, restore |-> restore, rows |-> {}]

\* A record of what is read, with one field replaced.
LEMMA FieldRead ==
  ASSUME NEW r, NEW A, NEW B, NEW C, NEW D, NEW E,
         r \in [owed: A, level: B, given: C, restore: D, rows: E], NEW x
  PROVE  /\ [r EXCEPT !.owed = x] = [owed |-> x, level |-> r.level, given |-> r.given,
                                     restore |-> r.restore, rows |-> r.rows]
         /\ [r EXCEPT !.level = x] = [owed |-> r.owed, level |-> x, given |-> r.given,
                                      restore |-> r.restore, rows |-> r.rows]
         /\ [r EXCEPT !.given = x] = [owed |-> r.owed, level |-> r.level, given |-> x,
                                      restore |-> r.restore, rows |-> r.rows]
         /\ [r EXCEPT !.restore = x] = [owed |-> r.owed, level |-> r.level, given |-> r.given,
                                        restore |-> x, rows |-> r.rows]
         /\ [r EXCEPT !.rows = x] = [owed |-> r.owed, level |-> r.level, given |-> r.given,
                                     restore |-> r.restore, rows |-> x]
  OBVIOUS

LEMMA Readings ==
  /\ NothingSeen = Reading(<< >>, 0, FALSE)
  /\ \A owed : [NothingSeen EXCEPT !.owed = owed] = Reading(owed, 0, FALSE)
  /\ \A level : [NothingSeen EXCEPT !.level = level] = Reading(<< >>, level, FALSE)
  /\ \A restore : [NothingSeen EXCEPT !.restore = restore] = Reading(<< >>, 0, restore)
  /\ << >> \in Seq(Nat) /\ 0 \in IntColumn
<1> DEFINE n == NothingSeen
<1>1. n \in [owed: {<< >>}, level: {0}, given: {<< >>}, restore: {FALSE}, rows: {{}}]
  BY DEF NothingSeen
<1>2. ASSUME NEW x
      PROVE  /\ [n EXCEPT !.owed = x] = Reading(x, 0, FALSE)
             /\ [n EXCEPT !.level = x] = Reading(<< >>, x, FALSE)
             /\ [n EXCEPT !.restore = x] = Reading(<< >>, 0, x)
  <2>1. /\ [n EXCEPT !.owed = x] = [owed |-> x, level |-> n.level, given |-> n.given,
                                    restore |-> n.restore, rows |-> n.rows]
        /\ [n EXCEPT !.level = x] = [owed |-> n.owed, level |-> x, given |-> n.given,
                                     restore |-> n.restore, rows |-> n.rows]
        /\ [n EXCEPT !.restore = x] = [owed |-> n.owed, level |-> n.level, given |-> n.given,
                                       restore |-> x, rows |-> n.rows]
    BY <1>1, FieldRead
  <2>2. n.owed = << >> /\ n.level = 0 /\ n.given = << >> /\ n.restore = FALSE /\ n.rows = {}
    BY DEF NothingSeen
  <2> HIDE DEF n
  <2> QED BY <2>1, <2>2 DEF Reading
<1>3. << >> \in Seq(Nat)
  OBVIOUS
<1>4. 0 \in IntColumn
  BY ColumnAssumption
<1>5. NothingSeen = Reading(<< >>, 0, FALSE)
  BY DEF NothingSeen, Reading
<1> QED BY <1>2, <1>3, <1>4, <1>5

\* Such a reading has its type.
LEMMA ReadingTyped ==
  ASSUME NEW owed \in Seq(Nat), NEW level \in IntColumn, NEW restore \in BOOLEAN
  PROVE  LET seen == Reading(owed, level, restore) IN
         /\ seen \in [owed: Seq(Nat), level: IntColumn, given: {seen.given},
                      restore: BOOLEAN, rows: SUBSET DOMAIN items]
         /\ seen.owed = owed /\ seen.level = level /\ seen.restore = restore
         /\ DOMAIN seen.given \subseteq DOMAIN items
         /\ \A i \in DOMAIN seen.given : seen.given[i] \in Nat
<1>1. DOMAIN << >> = {}
  OBVIOUS
<1> QED BY <1>1 DEF Reading

\* Each line owes between none and all of its units.
LEMMA OwedByLines ==
  ASSUME IInv, NEW n \in Nat, NEW lines \in [1..n -> Line]
  PROVE  /\ OwedBy(lines) \in Seq(Nat) /\ DOMAIN OwedBy(lines) = 1..n
         /\ \A i \in 1..n : OwedBy(lines)[i] = Owed(lines, i) /\ Owed(lines, i) <= lines[i].quantity
<1>1. ASSUME NEW i \in 1..n PROVE Owed(lines, i) \in Nat /\ Owed(lines, i) <= lines[i].quantity
  <2>1. lines[i] \in Line
    OBVIOUS
  <2>2. lines[i].product \in Product /\ lines[i].quantity \in LineQuantity
    BY <2>1 DEF Line
  <2>3. lines[i].quantity \in Nat
    BY <2>2, QuantityAssumption
  <2>4. i - 1 \in 0..n
    OBVIOUS
  <2>5. Taken(lines, lines[i].product, i - 1) \in Nat
    BY <2>2, <2>4, TakenIsNatural
  <2>6. AvailableAt(lines, i) \in Int
    BY <2>2, <2>5, QuantitiesAreIntegers DEF AvailableAt
  <2> QED BY <2>3, <2>6 DEF Owed, Short, AtLeastZero
<1>2. OwedBy(lines) = [i \in 1..n |-> Owed(lines, i)]
  BY DEF OwedBy
<1>3. OwedBy(lines) \in [1..n -> Nat]
  BY <1>1, <1>2
<1>4. OwedBy(lines) \in Seq(Nat)
  BY <1>3, FunctionIsSequence
<1> QED BY <1>1, <1>2, <1>4

\* The rows that a sale's lines decrement are all the stock rows of its products.
LEMMA Decremented ==
  ASSUME IInv, NEW n \in Nat, NEW lines \in [1..n -> Line]
  PROVE  LET rows == RowsToDecrement(lines) IN
         /\ DOMAIN rows \subseteq Nat /\ \A k \in DOMAIN rows : rows[k] \in LockedRow
         /\ {rows[k] : k \in DOMAIN rows} = StockRowsOf(lines)
<1> DEFINE rows == RowsToDecrement(lines)
<1>1. /\ DOMAIN rows = {j \in 1..n : lines[j].product \in hasStock}
      /\ \A k \in DOMAIN rows : rows[k] = StockRow(lines[k].product)
  BY DEF RowsToDecrement
<1>2. hasStock \subseteq Product
  BY DEF IInv, TypeOK
<1>3. ProductsOf(lines) = {lines[i].product : i \in 1..n}
  BY DEF ProductsOf
<1> HIDE DEF rows
<1>4. \A k \in DOMAIN rows : rows[k] \in LockedRow
  BY <1>1, <1>2 DEF LockedRow
<1>5. {rows[k] : k \in DOMAIN rows} = StockRowsOf(lines)
  BY <1>1, <1>3 DEF StockRowsOf
<1>6. DOMAIN rows \subseteq Nat
  BY <1>1
<1> QED BY <1>4, <1>5, <1>6 DEF rows

\* The rows that an order's creation reads FOR UPDATE are those too, in the order
\* of the table.
LEMMA ReadForUpdate ==
  ASSUME IInv, NEW lines, ProductsOf(lines) \subseteq Product
  PROVE  LET rows == RowsForUpdate(lines) IN
         /\ DOMAIN rows \subseteq Nat /\ \A k \in DOMAIN rows : rows[k] \in LockedRow
         /\ {rows[k] : k \in DOMAIN rows} = StockRowsOf(lines)
<1> DEFINE rows == RowsForUpdate(lines)
<1>1. DOMAIN RowOrder = 1..Len(RowOrder) /\ Len(RowOrder) \in Nat
      /\ Product = {RowOrder[i] : i \in DOMAIN RowOrder}
  BY RowOrderAssumption, LenProperties
<1>2. /\ DOMAIN rows = {j \in DOMAIN RowOrder : RowOrder[j] \in ProductsOf(lines) \cap hasStock}
      /\ \A k \in DOMAIN rows : rows[k] = StockRow(RowOrder[k])
  BY DEF RowsForUpdate
<1> HIDE DEF rows
<1>3. DOMAIN rows \subseteq Nat
  BY <1>1, <1>2
<1>4. \A k \in DOMAIN rows : rows[k] \in LockedRow
  BY <1>1, <1>2 DEF LockedRow
<1>5. \A p \in ProductsOf(lines) \cap hasStock : \E k \in DOMAIN rows : RowOrder[k] = p
  BY <1>1, <1>2
<1>6. {rows[k] : k \in DOMAIN rows} = StockRowsOf(lines)
  BY <1>2, <1>5 DEF StockRowsOf
<1> QED BY <1>3, <1>4, <1>6 DEF rows

\* The stock rows of some lines, and what the lines owe, in the state that a
\* step leaves when it writes no table.
LEMMA SameTables ==
  ASSUME UNCHANGED tables, NEW lines
  PROVE  /\ StockRowsOf(lines)' = StockRowsOf(lines) /\ OwedBy(lines)' = OwedBy(lines)
         /\ Acceptable(lines)' = Acceptable(lines)
         /\ items' = items /\ orders' = orders /\ hasStock' = hasStock
  BY DEF tables, StockRowsOf, OwedBy, Owed, Short, AvailableAt, Available, Acceptable

\* An order begins with the locks of its stock rows.
LEMMA BeginCreateKeeps ==
  ASSUME TxIInv, NEW d \in Connection, NEW lines \in Lines, BeginCreate(d, lines)
  PROVE  TxIInv'
<1> DEFINE r == [op |-> "create", lines |-> lines]
           rows == RowsForUpdate(lines)
<1>1. r \in Request /\ r.op = "create" /\ r.lines = lines
  BY DEF Request, Lines
<1> HIDE DEF r
<1>2. Begins(d, r, "check", NothingSeen, rows)
  BY DEF BeginCreate, r
<1>3. ProductsOf(lines) \subseteq Product
  <2>1. PICK n \in 1..MaxLines : lines \in [1..n -> Line]
    BY DEF Lines
  <2>2. \A i \in 1..n : lines[i].product \in Product
    BY <2>1 DEF Line
  <2> QED BY <2>1, <2>2 DEF ProductsOf
<1>4. /\ DOMAIN rows \subseteq Nat /\ \A k \in DOMAIN rows : rows[k] \in LockedRow
      /\ {rows[k] : k \in DOMAIN rows} = StockRowsOf(lines)
  BY <1>3, ReadForUpdate DEF TxIInv
<1> HIDE DEF rows
<1>5. /\ request' = [request EXCEPT ![d] = r] /\ Goes(d, "check", NothingSeen, rows)
      /\ UNCHANGED tables /\ request'[d] = r /\ pc'[d] = "check"
      /\ Wanted(d)' = holds[d] \cup StockRowsOf(lines)
  BY <1>2, <1>4, Begun
<1>6. /\ NothingSeen \in [owed: Seq(Nat), level: IntColumn, given: {NothingSeen.given},
                          restore: BOOLEAN, rows: SUBSET DOMAIN items]
      /\ DOMAIN NothingSeen.given \subseteq DOMAIN items
      /\ \A i \in DOMAIN NothingSeen.given : NothingSeen.given[i] \in Nat
  <2>1. FALSE \in BOOLEAN
    OBVIOUS
  <2> QED BY <2>1, Readings, ReadingTyped
<1>7. ConnectionOK(d)'
  <2>1. StatementOK(d)' /\ MovementOK(d)' /\ LeavingOK(d)'
    BY <1>1, <1>5 DEF StatementOK, MovementOK, LeavingOK, Running
  <2>2. SaleOK(d)'
    BY <1>1, <1>5, SameTables DEF SaleOK
  <2> QED BY <2>1, <2>2 DEF ConnectionOK
<1> QED BY <1>1, <1>4, <1>5, <1>6, <1>7, GoesKeeps

\* A line is added to an order that exists, owing what was read without a lock.
LEMMA BeginAddItemKeeps ==
  ASSUME TxIInv, NEW d \in Connection, NEW o \in DOMAIN orders, NEW line \in Line,
         BeginAddItem(d, o, <<line>>)
  PROVE  TxIInv'
<1> DEFINE lines == <<line>>
           r == [op |-> "addItem", order |-> o, lines |-> lines]
           rows == RowsToDecrement(lines)
           seen == [NothingSeen EXCEPT !.owed = OwedBy(lines)]
<1>0. lines \in [1..1 -> Line] /\ 1 \in Nat /\ DOMAIN lines = 1..1
  OBVIOUS
<1> HIDE DEF lines
<1>1. r \in Request /\ r.op = "addItem" /\ r.lines = lines /\ r.order = o
  <2>1. o \in 1..MaxOrders
    BY OrdersAreRows, BoundAssumption DEF TxIInv, IInv, TypeOK
  <2> QED BY <1>0, <2>1 DEF Request
<1> HIDE DEF r
<1>2. Begins(d, r, "write", seen, rows)
  BY DEF BeginAddItem, r, lines
<1>3. /\ DOMAIN rows \subseteq Nat /\ \A k \in DOMAIN rows : rows[k] \in LockedRow
      /\ {rows[k] : k \in DOMAIN rows} = StockRowsOf(lines)
  BY <1>0, Decremented DEF TxIInv
<1> HIDE DEF rows
<1>4. /\ OwedBy(lines) \in Seq(Nat) /\ DOMAIN OwedBy(lines) = 1..1
      /\ \A i \in 1..1 : OwedBy(lines)[i] <= lines[i].quantity
  BY <1>0, OwedByLines DEF TxIInv
<1>5. /\ seen \in [owed: Seq(Nat), level: IntColumn, given: {seen.given},
                   restore: BOOLEAN, rows: SUBSET DOMAIN items]
      /\ DOMAIN seen.given \subseteq DOMAIN items /\ \A i \in DOMAIN seen.given : seen.given[i] \in Nat
      /\ seen.owed = OwedBy(lines)
  <2>1. seen = Reading(OwedBy(lines), 0, FALSE) /\ 0 \in IntColumn /\ FALSE \in BOOLEAN
    BY Readings
  <2> HIDE DEF seen
  <2> QED BY <1>4, <2>1, ReadingTyped
<1> HIDE DEF seen
<1>6. /\ request' = [request EXCEPT ![d] = r] /\ Goes(d, "write", seen, rows)
      /\ UNCHANGED tables /\ request'[d] = r /\ pc'[d] = "write" /\ saw'[d] = seen
      /\ Wanted(d)' = holds[d] \cup StockRowsOf(lines)
  BY <1>2, <1>3, Begun
<1>7. ConnectionOK(d)'
  <2>1. StatementOK(d)' /\ MovementOK(d)' /\ LeavingOK(d)'
    BY <1>1, <1>6, SameTables DEF StatementOK, MovementOK, LeavingOK, Running
  <2>2. SaleOK(d)'
    BY <1>0, <1>1, <1>4, <1>5, <1>6, SameTables DEF SaleOK
  <2> QED BY <2>1, <2>2 DEF ConnectionOK
<1> QED BY <1>1, <1>3, <1>5, <1>6, <1>7, GoesKeeps

\* A movement begins for a stock row that exists, and wants that row.
LEMMA BeginMovementKeeps ==
  ASSUME TxIInv, NEW d \in Connection, NEW op \in {"in", "out"}, NEW p \in Product,
         NEW n \in LineQuantity, BeginMovement(d, op, p, n)
  PROVE  TxIInv'
<1> DEFINE r == [op |-> op, product |-> p, quantity |-> n]
           step == IF op = "in" THEN "pending" ELSE "write"
           seen == [NothingSeen EXCEPT !.level = quantity[p]]
           rows == <<StockRow(p)>>
<1>1. r \in Request /\ r.op = op /\ r.product = p /\ r.quantity = n
  BY DEF Request
<1>2. Begins(d, r, step, seen, rows) /\ p \in hasStock
  BY DEF BeginMovement
<1>3. /\ DOMAIN rows \subseteq Nat /\ \A k \in DOMAIN rows : rows[k] \in LockedRow
      /\ {rows[k] : k \in DOMAIN rows} = {StockRow(p)}
  <2>1. StockRow(p) \in LockedRow
    BY DEF LockedRow
  <2>2. DOMAIN rows = {1} /\ rows[1] = StockRow(p)
    OBVIOUS
  <2> HIDE DEF rows
  <2> QED BY <2>1, <2>2
<1>4. /\ seen \in [owed: Seq(Nat), level: IntColumn, given: {seen.given},
                   restore: BOOLEAN, rows: SUBSET DOMAIN items]
      /\ DOMAIN seen.given \subseteq DOMAIN items /\ \A i \in DOMAIN seen.given : seen.given[i] \in Nat
      /\ seen.level = quantity[p]
  <2>1. seen = Reading(<< >>, quantity[p], FALSE) /\ << >> \in Seq(Nat) /\ FALSE \in BOOLEAN
    BY Readings
  <2>2. quantity[p] \in IntColumn
    BY DEF TxIInv, IInv, TypeOK
  <2> HIDE DEF seen
  <2> QED BY <2>1, <2>2, ReadingTyped, ZenonT(40)
<1>5. op = "out" => quantity[p] - n >= 0
  BY DEF BeginMovement
<1>6. step \in {"check", "pending", "items", "write"} /\ (op = "in" => step = "pending")
      /\ (op = "out" => step = "write")
  OBVIOUS
<1> HIDE DEF r, step, seen, rows
<1>7. /\ request' = [request EXCEPT ![d] = r] /\ Goes(d, step, seen, rows)
      /\ UNCHANGED tables /\ request'[d] = r /\ pc'[d] = step /\ saw'[d] = seen
      /\ Wanted(d)' = holds[d] \cup {StockRow(p)}
  BY <1>2, <1>3, Begun
<1>8. ConnectionOK(d)'
  <2>1. StatementOK(d)' /\ SaleOK(d)' /\ LeavingOK(d)'
    BY <1>1, <1>6, <1>7 DEF StatementOK, SaleOK, LeavingOK, Running
  <2>2. MovementOK(d)'
    BY <1>1, <1>2, <1>4, <1>5, <1>6, <1>7, SameTables DEF MovementOK, Running
  <2> QED BY <2>1, <2>2 DEF ConnectionOK
<1> QED BY <1>1, <1>3, <1>4, <1>6, <1>7, <1>8, GoesKeeps

\* The cancelation or deletion of an order begins.
LEMMA LeavesKeeps ==
  ASSUME TxIInv, NEW d \in Connection, NEW r \in Request, r.op \in {"status", "delete"},
         r.order \in DOMAIN orders, NEW restore \in BOOLEAN, Leaves(d, r, restore)
  PROVE  TxIInv'
<1> DEFINE step == IF restore THEN "items" ELSE "write"
           seen == [NothingSeen EXCEPT !.restore = restore]
           wanted == IF restore THEN PendingRowsOf(r.order) ELSE CascadeRows(r)
           rows == BackorderRows(wanted)
<1>1. Begins(d, r, step, seen, rows)
  BY DEF Leaves
<1>2. wanted \subseteq DOMAIN items
  BY DEF PendingRowsOf, CascadeRows, RowsOf
<1>3. DOMAIN items \subseteq Nat /\ DOMAIN items \subseteq 1..MaxItems
  BY ItemsAreRows, BoundAssumption DEF TxIInv, IInv, TypeOK
<1>4. DOMAIN rows \subseteq Nat /\ \A k \in DOMAIN rows : rows[k] \in LockedRow
  <2> HIDE DEF wanted
  <2> QED BY <1>2, <1>3 DEF BackorderRows, LockedRow
<1>5. /\ seen \in [owed: Seq(Nat), level: IntColumn, given: {seen.given},
                   restore: BOOLEAN, rows: SUBSET DOMAIN items]
      /\ DOMAIN seen.given \subseteq DOMAIN items /\ \A i \in DOMAIN seen.given : seen.given[i] \in Nat
      /\ seen.rows = {}
  <2>1. seen = Reading(<< >>, 0, restore) /\ << >> \in Seq(Nat) /\ 0 \in IntColumn
    BY Readings
  <2>2. Reading(<< >>, 0, restore).rows = {}
    BY DEF Reading
  <2> HIDE DEF seen
  <2> QED BY <2>1, <2>2, ReadingTyped
<1>6. step \in {"items", "write"} /\ step \in {"check", "pending", "items", "write"}
  OBVIOUS
<1> HIDE DEF step, seen, rows
<1>7. /\ request' = [request EXCEPT ![d] = r] /\ Goes(d, step, seen, rows)
      /\ UNCHANGED tables /\ request'[d] = r /\ pc'[d] = step /\ saw'[d] = seen
  BY <1>1, Begun
<1>8. ConnectionOK(d)'
  <2>1. StatementOK(d)' /\ SaleOK(d)' /\ MovementOK(d)'
    BY <1>6, <1>7, SameTables DEF StatementOK, SaleOK, MovementOK, Running
  <2>2. LeavingOK(d)'
    BY <1>5, <1>7 DEF LeavingOK
  <2> QED BY <2>1, <2>2 DEF ConnectionOK
<1> QED BY <1>4, <1>5, <1>6, <1>7, <1>8, GoesKeeps

LEMMA BeginLeavingKeeps == ASSUME TxIInv, NEW d \in Connection, BeginLeaving(d) PROVE TxIInv'
<1> SUFFICES ASSUME NEW o \in DOMAIN orders,
                    (\E status \in OrderStatus : BeginStatus(d, o, status)) \/ BeginDelete(d, o)
             PROVE  TxIInv'
  BY DEF BeginLeaving
<1>0. o \in 1..MaxOrders
  BY OrdersAreRows, BoundAssumption DEF TxIInv, IInv, TypeOK
<1>1. ASSUME NEW status \in OrderStatus, BeginStatus(d, o, status) PROVE TxIInv'
  <2> DEFINE r == [op |-> "status", order |-> o, status |-> status]
  <2>1. r \in Request /\ r.op = "status" /\ r.order = o
    BY <1>0 DEF Request
  <2>2. Leaves(d, r, Cancels(o, status)) /\ Cancels(o, status) \in BOOLEAN
    BY <1>1 DEF BeginStatus, Cancels
  <2> HIDE DEF r
  <2> QED BY <2>1, <2>2, LeavesKeeps
<1>2. ASSUME BeginDelete(d, o) PROVE TxIInv'
  <2> DEFINE r == [op |-> "delete", order |-> o]
  <2>1. r \in Request /\ r.op = "delete" /\ r.order = o
    BY <1>0 DEF Request
  <2>2. Leaves(d, r, orders[o] # "canceled") /\ (orders[o] # "canceled") \in BOOLEAN
    BY <1>2 DEF BeginDelete
  <2> HIDE DEF r
  <2> QED BY <2>1, <2>2, LeavesKeeps
<1> QED BY <1>1, <1>2
-----------------------------------------------------------------------------
(* Statements that read *)

\* The state of a connection that goes on to its next statement.
LEMMA WentOn ==
  ASSUME TxIInv, NEW d \in Connection, NEW step, NEW seen, NEW rows, Continues(d, step, seen, rows)
  PROVE  /\ Goes(d, step, seen, rows) /\ UNCHANGED tables /\ request' = request
         /\ pc'[d] = step /\ saw'[d] = seen /\ holds'[d] = holds[d]
         /\ Wanted(d)' = holds[d] \cup {rows[k] : k \in DOMAIN rows}
<1>1. /\ request' = request /\ Goes(d, step, seen, rows)
      /\ pc' = [pc EXCEPT ![d] = step] /\ saw' = [saw EXCEPT ![d] = seen]
      /\ need' = [need EXCEPT ![d] = rows] /\ holds' = holds /\ UNCHANGED tables
  BY DEF Continues, Goes
<1>2. pc'[d] = step /\ saw'[d] = seen /\ need'[d] = rows /\ holds'[d] = holds[d]
  BY <1>1, Domains
<1> QED BY <1>1, <1>2 DEF Wanted

\* A new order is checked with all its stock rows locked, and then owes what it
\* was checked to owe.
LEMMA CheckKeeps == ASSUME TxIInv, NEW d \in Connection, Check(d) PROVE TxIInv'
<1> PICK lines : lines = request[d].lines
  OBVIOUS
<1>1. pc[d] = "check" /\ DOMAIN need[d] = {}
  BY DEF Check, At
<1>2. request[d].op = "create" /\ StockRowsOf(lines) \subseteq holds[d]
  BY <1>1, AllLocked DEF TxIInv, ConnectionOK, StatementOK, SaleOK
<1>3. PICK n \in Nat : lines \in [1..n -> Line] /\ DOMAIN lines = 1..n
  BY <1>2, LinesOfSale
<1> DEFINE seen == [NothingSeen EXCEPT !.owed = OwedBy(lines)]
           rows == RowsToDecrement(lines)
<1>4. CASE Acceptable(lines) /\ Continues(d, "write", seen, rows)
  <2>1. /\ DOMAIN rows \subseteq Nat /\ \A k \in DOMAIN rows : rows[k] \in LockedRow
        /\ {rows[k] : k \in DOMAIN rows} = StockRowsOf(lines)
    BY <1>3, Decremented DEF TxIInv
  <2>2. /\ OwedBy(lines) \in Seq(Nat) /\ DOMAIN OwedBy(lines) = 1..n
        /\ \A i \in 1..n : OwedBy(lines)[i] <= lines[i].quantity
    BY <1>3, OwedByLines DEF TxIInv
  <2>3. /\ seen \in [owed: Seq(Nat), level: IntColumn, given: {seen.given},
                     restore: BOOLEAN, rows: SUBSET DOMAIN items]
        /\ DOMAIN seen.given \subseteq DOMAIN items
        /\ \A i \in DOMAIN seen.given : seen.given[i] \in Nat
        /\ seen.owed = OwedBy(lines)
    <3>1. seen = Reading(OwedBy(lines), 0, FALSE) /\ 0 \in IntColumn /\ FALSE \in BOOLEAN
      BY Readings
    <3> HIDE DEF seen
    <3> QED BY <2>2, <3>1, ReadingTyped
  <2> HIDE DEF seen, rows
  <2>4. /\ Goes(d, "write", seen, rows) /\ UNCHANGED tables /\ request' = request
        /\ pc'[d] = "write" /\ saw'[d] = seen /\ holds'[d] = holds[d]
        /\ Wanted(d)' = holds[d] \cup StockRowsOf(lines)
    BY <1>4, <2>1, WentOn
  <2>5. ConnectionOK(d)'
    <3>1. StatementOK(d)' /\ MovementOK(d)' /\ LeavingOK(d)'
      BY <1>2, <2>4 DEF StatementOK, MovementOK, LeavingOK, Running
    <3>2. SaleOK(d)'
      BY <1>2, <1>3, <1>4, <2>2, <2>3, <2>4, SameTables DEF SaleOK
    <3> QED BY <3>1, <3>2 DEF ConnectionOK
  <2> QED BY <2>1, <2>3, <2>4, <2>5, GoesKeeps
<1>5. CASE Fail(d)
  BY <1>5, FailKeeps
<1> QED BY <1>4, <1>5 DEF Check

\* What an arrival covers of the deficit it read.
LEMMA CoveredIsNatural ==
  ASSUME IInv, NEW p \in Product, NEW level \in Int, NEW n \in LineQuantity
  PROVE  Covered(p, level, n) \in Nat
<1>1. n \in Nat /\ reserved[p] \in Int
  BY QuantityAssumption, QuantitiesAreIntegers
<1> QED BY <1>1 DEF Covered, AtLeastZero

\* What is to be given to each pending row is within what the row asks for, and
\* comes after all that earlier rows ask for.
LEMMA GivenInOrder ==
  ASSUME IInv, NEW p \in Product, NEW n \in Nat
  PROVE  LET given == Given(p, n) IN
         /\ DOMAIN given \subseteq DOMAIN items
         /\ \A j \in DOMAIN given :
               /\ given[j] \in Nat /\ items[j].product = p
               /\ items[j].fulfilled <= given[j] /\ given[j] <= items[j].owed /\ items[j].owed > 0
               /\ \A i \in DOMAIN items :
                     i < j /\ Pending(i, p) => i \in DOMAIN given /\ given[i] = items[i].owed
<1> DEFINE given == Given(p, n)
<1>1. Len(items) \in Nat /\ DOMAIN items = 1..Len(items)
  BY ItemsAreRows
<1>2. /\ \A j : j \in DOMAIN given <=> j \in DOMAIN items /\ Pending(j, p) /\ Take(p, n, j) > 0
      /\ \A j \in DOMAIN given : given[j] = items[j].fulfilled + Take(p, n, j)
  BY DEF Given
<1> HIDE DEF given
<1>3. ASSUME NEW j \in DOMAIN items, Pending(j, p)
      PROVE  /\ items[j].fulfilled \in Nat /\ items[j].owed \in Nat /\ items[j].product = p
             /\ Take(p, n, j) \in Nat /\ Take(p, n, j) <= items[j].owed - items[j].fulfilled
             /\ items[j].fulfilled < items[j].owed /\ Remaining(j) = items[j].owed - items[j].fulfilled
  <2>1. GoodRow(items[j]) /\ j \in 1..Len(items)
    BY <1>1, ItemsAreRows
  <2>2. items[j].product = p /\ items[j].backorder = "pending"
    BY <1>3 DEF Pending
  <2>3. /\ items[j].fulfilled \in Nat /\ items[j].owed \in Nat
        /\ items[j].fulfilled < items[j].owed
    BY <2>1, <2>2 DEF GoodRow, ItemRow
  <2>4. OwedOf(p)[j] = items[j].owed - items[j].fulfilled
    BY <1>3 DEF OwedOf, Remaining
  <2>5. Take(p, n, j) \in Nat /\ Take(p, n, j) <= OwedOf(p)[j]
    BY <2>1, OwedAndTaken
  <2> QED BY <2>2, <2>3, <2>4, <2>5 DEF Remaining
<1>4. ASSUME NEW j \in DOMAIN given, NEW i \in DOMAIN items, i < j, Pending(i, p)
      PROVE  i \in DOMAIN given /\ given[i] = items[i].owed
  <2>1. i \in 1..Len(items) /\ j \in 1..Len(items) /\ Take(p, n, j) > 0
    BY <1>1, <1>2
  <2>2. Take(p, n, i) = Remaining(i)
    BY <1>4, <2>1, EarlierFirst
  <2> QED BY <1>2, <1>3, <1>4, <2>2
<1>5. ASSUME NEW j \in DOMAIN given
      PROVE  /\ given[j] \in Nat /\ items[j].product = p
             /\ items[j].fulfilled <= given[j] /\ given[j] <= items[j].owed /\ items[j].owed > 0
  <2>1. j \in DOMAIN items /\ Pending(j, p) /\ given[j] = items[j].fulfilled + Take(p, n, j)
    BY <1>2
  <2> QED BY <1>3, <2>1
<1>6. DOMAIN given \subseteq DOMAIN items
  BY <1>2
<1> QED BY <1>4, <1>5, <1>6 DEF given

\* An arrival reads the pending backorders with its stock row locked.
LEMMA ReadPendingKeeps == ASSUME TxIInv, NEW d \in Connection, ReadPending(d) PROVE TxIInv'
<1> PICK p, n : p = request[d].product /\ n = request[d].quantity
  OBVIOUS
<1> DEFINE given == Given(p, Covered(p, saw[d].level, n))
           seen == [saw[d] EXCEPT !.given = given]
           rows == BackorderRows(DOMAIN given)
<1>1. pc[d] = "pending" /\ DOMAIN need[d] = {} /\ Continues(d, "write", seen, rows)
  BY DEF ReadPending, At
<1>2. request[d].op = "in"
  BY <1>1 DEF TxIInv, ConnectionOK, StatementOK
<1>3. p \in hasStock /\ StockRow(p) \in holds[d]
  BY <1>1, <1>2, AllLocked DEF TxIInv, ConnectionOK, MovementOK, Running, Ended
<1>4. p \in Product /\ n \in LineQuantity
  BY <1>2, RequestKinds
<1>5. saw[d].level \in Int /\ saw[d].level \in IntColumn
  BY SeenTyped
<1>6. Covered(p, saw[d].level, n) \in Nat
  BY <1>4, <1>5, CoveredIsNatural DEF TxIInv
<1>7. /\ DOMAIN given \subseteq DOMAIN items
      /\ \A j \in DOMAIN given :
            /\ given[j] \in Nat /\ items[j].product = p
            /\ items[j].fulfilled <= given[j] /\ given[j] <= items[j].owed /\ items[j].owed > 0
            /\ \A i \in DOMAIN items :
                  i < j /\ Pending(i, p) => i \in DOMAIN given /\ given[i] = items[i].owed
  BY <1>4, <1>6, GivenInOrder DEF TxIInv
<1> HIDE DEF given
<1>8. /\ seen \in [owed: Seq(Nat), level: IntColumn, given: {seen.given},
                   restore: BOOLEAN, rows: SUBSET DOMAIN items]
      /\ seen.given = given
  <2>1. saw[d] \in [owed: Seq(Nat), level: IntColumn, given: {saw[d].given},
                    restore: BOOLEAN, rows: SUBSET DOMAIN items]
    BY DEF TxIInv, TxTypeOK
  <2>2. seen = [owed |-> saw[d].owed, level |-> saw[d].level, given |-> given,
                restore |-> saw[d].restore, rows |-> saw[d].rows]
    BY <2>1, FieldRead
  <2> HIDE DEF seen
  <2> QED BY <2>1, <2>2
<1> HIDE DEF seen
<1>9. DOMAIN rows \subseteq Nat /\ \A k \in DOMAIN rows : rows[k] \in LockedRow
  <2>1. DOMAIN items \subseteq Nat /\ DOMAIN items \subseteq 1..MaxItems
    BY ItemsAreRows, BoundAssumption DEF TxIInv, IInv, TypeOK
  <2> QED BY <1>7, <2>1 DEF BackorderRows, LockedRow
<1> HIDE DEF rows
<1>10. /\ Goes(d, "write", seen, rows) /\ UNCHANGED tables /\ request' = request
       /\ pc'[d] = "write" /\ saw'[d] = seen /\ holds'[d] = holds[d]
       /\ holds[d] \subseteq Wanted(d)'
  BY <1>1, WentOn
<1>11. ConnectionOK(d)'
  <2>1. StatementOK(d)' /\ SaleOK(d)' /\ LeavingOK(d)'
    BY <1>2, <1>10 DEF StatementOK, SaleOK, LeavingOK, Running
  <2>2. GivenOK(d)'
    <3>1. request'[d].product = p /\ saw'[d].given = given /\ items' = items /\ orders' = orders
      BY <1>8, <1>10, SameTables
    <3>2. \A i : Pending(i, p)' <=> Pending(i, p)
      BY <3>1 DEF Pending
    <3> QED BY <1>7, <3>1, <3>2 DEF GivenOK
  <2>3. MovementOK(d)'
    BY <1>2, <1>3, <1>10, <2>2, SameTables DEF MovementOK, Running
  <2> QED BY <2>1, <2>2, <2>3 DEF ConnectionOK
<1> QED BY <1>7, <1>8, <1>9, <1>10, <1>11, GoesKeeps

\* The items of an order are read, and the stock rows of their products wanted.
LEMMA ReadItemsKeeps == ASSUME TxIInv, NEW d \in Connection, ReadItems(d) PROVE TxIInv'
<1> PICK o : o = request[d].order
  OBVIOUS
<1> DEFINE of == RowsOf(o)
           cascade == CascadeRows(request[d])
           tracked == {i \in of : items[i].product \in hasStock}
           n == Len(items)
           seen == [saw[d] EXCEPT !.rows = of]
           rows == [k \in tracked \cup {n + i : i \in cascade} |->
                       IF k <= n THEN StockRow(items[k].product) ELSE BackorderRow(k - n)]
<1>1. pc[d] = "items" /\ DOMAIN need[d] = {} /\ Continues(d, "write", seen, rows)
  BY DEF ReadItems, At
<1>2. request[d].op \in {"status", "delete"} /\ request[d].order \in DOMAIN orders
  BY <1>1 DEF TxIInv, ConnectionOK, StatementOK, Running, Ended
<1>3. /\ of \subseteq DOMAIN items /\ cascade \subseteq DOMAIN items
      /\ n \in Nat /\ n <= MaxItems /\ MaxItems \in Nat /\ DOMAIN items = 1..n
      /\ \A i \in 1..n : items[i].product \in Product
  BY ItemsAreRows, BoundAssumption
     DEF RowsOf, CascadeRows, TxIInv, IInv, TypeOK, GoodRow, ItemRow
<1>4. /\ DOMAIN rows = tracked \cup {n + i : i \in cascade}
      /\ \A k \in tracked : rows[k] = StockRow(items[k].product)
      /\ \A i \in cascade : rows[n + i] = BackorderRow(i)
  <2>1. \A k \in tracked : k <= n
    BY <1>3
  <2>2. \A i \in cascade : ~(n + i <= n) /\ (n + i) - n = i
    BY <1>3
  <2> HIDE DEF of, cascade, tracked, n
  <2> QED BY <2>1, <2>2
<1>5. DOMAIN rows \subseteq Nat /\ \A k \in DOMAIN rows : rows[k] \in LockedRow
  <2> HIDE DEF rows, cascade, of
  <2>1. DOMAIN rows \subseteq Nat
    BY <1>3, <1>4
  <2>2. \A k \in tracked : rows[k] \in LockedRow
    BY <1>3, <1>4 DEF LockedRow
  <2>3. \A i \in cascade : rows[n + i] \in LockedRow
    BY <1>3, <1>4 DEF LockedRow
  <2> HIDE DEF tracked
  <2> QED BY <1>4, <2>1, <2>2, <2>3
<1>6. /\ seen \in [owed: Seq(Nat), level: IntColumn, given: {seen.given},
                   restore: BOOLEAN, rows: SUBSET DOMAIN items]
      /\ seen.rows = of /\ seen.given = saw[d].given
  <2>1. saw[d] \in [owed: Seq(Nat), level: IntColumn, given: {saw[d].given},
                    restore: BOOLEAN, rows: SUBSET DOMAIN items]
    BY DEF TxIInv, TxTypeOK
  <2>2. seen = [owed |-> saw[d].owed, level |-> saw[d].level, given |-> saw[d].given,
                restore |-> saw[d].restore, rows |-> of]
    BY <2>1, FieldRead
  <2> HIDE DEF seen, of
  <2> QED BY <1>3, <2>1, <2>2
<1>7. DOMAIN saw[d].given \subseteq DOMAIN items /\ \A i \in DOMAIN saw[d].given : saw[d].given[i] \in Nat
  BY DEF TxIInv, TxTypeOK
<1> HIDE DEF rows, seen
<1>8. /\ Goes(d, "write", seen, rows) /\ UNCHANGED tables /\ request' = request
      /\ pc'[d] = "write" /\ saw'[d] = seen
      /\ \A k \in DOMAIN rows : rows[k] \in Wanted(d)'
  BY <1>1, WentOn
<1>9. ConnectionOK(d)'
  <2>1. StatementOK(d)' /\ SaleOK(d)' /\ MovementOK(d)'
    BY <1>2, <1>8, SameTables DEF StatementOK, SaleOK, MovementOK, Running
  <2>2. LeavingOK(d)'
    <3>1. \A i \in of : items[i].order = o
      BY DEF RowsOf
    <3>2. \A i \in of : items[i].product \in hasStock => StockRow(items[i].product) \in Wanted(d)'
      BY <1>4, <1>8
    <3>3. items' = items /\ hasStock' = hasStock /\ saw'[d].rows = of /\ request'[d].order = o
      BY <1>6, <1>8, SameTables
    <3> HIDE DEF of
    <3> QED BY <3>1, <3>2, <3>3 DEF LeavingOK
  <2> QED BY <2>1, <2>2 DEF ConnectionOK
<1> QED BY <1>5, <1>6, <1>7, <1>8, <1>9, GoesKeeps
-----------------------------------------------------------------------------
(* Sales commit *)

\* Lines take only products they are of.
LEMMA TakenOnlyOf ==
  ASSUME NEW n \in Nat, NEW lines \in [1..n -> Line], NEW p \in Product, p \notin ProductsOf(lines)
  PROVE  TakenBy(lines)[p] = 0
<1>1. Len(lines) = n /\ DOMAIN lines = 1..n
  BY FunctionIsSequence
<1>2. \A i \in 1..n : UnitsOf(lines, p)[i] = 0
  BY <1>1 DEF UnitsOf, ProductsOf
<1>3. Sum(UnitsOf(lines, p), n) = 0
  BY <1>2, SumZero
<1> QED BY <1>1, <1>3 DEF TakenBy, Taken

\* The rows of lines that owe at most their quantity.
LEMMA RowsSeen ==
  ASSUME NEW n \in Nat, NEW lines \in [1..n -> Line], NEW owed \in Seq(Nat),
         DOMAIN owed = 1..n, \A i \in 1..n : owed[i] <= lines[i].quantity, NEW o \in 1..MaxOrders
  PROVE  LET rows == RowsAsSeen(o, lines, owed) IN
         /\ rows \in Seq(ItemRow) /\ Len(rows) = n
         /\ \A i \in 1..Len(rows) : GoodRow(rows[i]) /\ rows[i].fulfilled = 0 /\ rows[i].order = o
<1> DEFINE row(i) == [order |-> o, product |-> lines[i].product, quantity |-> lines[i].quantity,
                      owed |-> owed[i], fulfilled |-> 0,
                      backorder |-> IF owed[i] > 0 THEN "pending" ELSE "none"]
           rows == RowsAsSeen(o, lines, owed)
<1>1. rows = [i \in 1..n |-> row(i)]
  BY DEF RowsAsSeen
<1>2. ASSUME NEW i \in 1..n
      PROVE  GoodRow(row(i)) /\ row(i).fulfilled = 0 /\ row(i).order = o
  <2>1. lines[i] \in Line /\ owed[i] \in Nat /\ owed[i] <= lines[i].quantity
    <3>1. owed \in [1..n -> Nat]
      <4>1. owed \in [1..Len(owed) -> Nat] /\ DOMAIN owed = 1..Len(owed)
        BY LenProperties
      <4> QED BY <4>1
    <3> QED BY <3>1
  <2>2. lines[i].product \in Product /\ lines[i].quantity \in LineQuantity
    BY <2>1 DEF Line
  <2>3. lines[i].quantity \in Nat
    BY <2>2, QuantityAssumption
  <2> QED BY <2>1, <2>2, <2>3 DEF GoodRow, ItemRow, BackorderStatus
<1> HIDE DEF row, rows
<1>3. rows \in [1..n -> ItemRow]
  BY <1>1, <1>2 DEF GoodRow
<1>4. rows \in Seq(ItemRow) /\ Len(rows) = n
  BY <1>3, FunctionIsSequence
<1>5. \A i \in 1..Len(rows) : GoodRow(rows[i]) /\ rows[i].fulfilled = 0 /\ rows[i].order = o
  BY <1>1, <1>2, <1>4
<1> QED BY <1>4, <1>5 DEF rows

\* A sale decrements locked stock rows and appends rows.
LEMMA SaleStep ==
  ASSUME TxIInv, NEW d \in Connection, NEW n \in Nat, NEW lines \in [1..n -> Line],
         StockRowsOf(lines) \subseteq holds[d], TakeOut(TakenBy(lines)),
         UNCHANGED <<hasStock, reserved, allowOversell>>,
         NEW rows \in Seq(ItemRow), items' = items \o rows,
         orders' = orders \/ orders' = Append(orders, "pending")
  PROVE  TableStep(d)
<1>1. ASSUME NEW p \in Product, quantity'[p] # quantity[p] PROVE StockRow(p) \in holds[d]
  <2>1. p \in hasStock /\ quantity'[p] = quantity[p] - TakenBy(lines)[p]
    BY <1>1 DEF TakeOut
  <2>2. quantity[p] \in Int
    BY QuantitiesAreIntegers DEF TxIInv
  <2>3. TakenBy(lines)[p] # 0
    BY <1>1, <2>1, <2>2
  <2>4. p \in ProductsOf(lines)
    BY <2>3, TakenOnlyOf
  <2> QED BY <2>1, <2>4 DEF StockRowsOf
<1>2. DOMAIN items \subseteq DOMAIN items' /\ \A i \in DOMAIN items : items'[i] = items[i]
  <2>1. items \in Seq(ItemRow) /\ Len(items) \in Nat /\ Len(rows) \in Nat /\ DOMAIN items = 1..Len(items)
    BY LenProperties DEF TxIInv, IInv, TypeOK
  <2>2. /\ items' \in Seq(ItemRow) /\ Len(items') = Len(items) + Len(rows)
        /\ \A i \in 1..(Len(items) + Len(rows)) :
              items'[i] = IF i <= Len(items) THEN items[i] ELSE rows[i - Len(items)]
    BY <2>1, ConcatProperties
  <2>3. DOMAIN items' = 1..(Len(items) + Len(rows))
    BY <2>2, LenProperties
  <2> QED BY <2>1, <2>2, <2>3
<1>3. DOMAIN orders \subseteq DOMAIN orders' /\ \A o \in DOMAIN orders : orders'[o] = orders[o]
  <2>1. CASE orders' = Append(orders, "pending")
    <3>1. "pending" \in OrderStatus \cup {"deleted"}
      BY StatusAssumption DEF OrderStatus
    <3>2. /\ orders \in Seq(OrderStatus \cup {"deleted"}) /\ Len(orders) \in Nat
          /\ DOMAIN orders = 1..Len(orders)
      BY LenProperties DEF TxIInv, IInv, TypeOK
    <3>3. /\ orders' \in Seq(OrderStatus \cup {"deleted"}) /\ Len(orders') = Len(orders) + 1
          /\ \A o \in 1..Len(orders) : orders'[o] = orders[o]
      BY <2>1, <3>1, <3>2, AppendProperties
    <3>4. DOMAIN orders' = 1..(Len(orders) + 1)
      BY <3>3, LenProperties
    <3> QED BY <3>2, <3>3, <3>4
  <2>2. CASE orders' = orders
    BY <2>2
  <2> QED BY <2>1, <2>2
<1> QED BY <1>1, <1>2, <1>3 DEF TableStep

\* The creation of an order commits as one step of OrderStock: nobody changed the
\* stock rows it was checked against.
LEMMA CreateIsAtomic ==
  ASSUME TxIInv, NEW d \in Connection, CommitCreate(d)
  PROVE  request[d].lines \in Lines /\ CreateOrder(request[d].lines)
<1> PICK lines : lines = request[d].lines
  OBVIOUS
<1>1. /\ pc[d] = "write" /\ request[d].op = "create"
      /\ Len(orders) + 1 <= MaxOrders /\ Len(items) + Len(lines) <= MaxItems
      /\ orders' = Append(orders, "pending")
      /\ items' = items \o RowsAsSeen(Len(orders) + 1, lines, saw[d].owed)
      /\ TakeOut(TakenBy(lines))
      /\ HeldAfter([p \in Product |-> 0], TakenBy(lines)) \in HeldRange
      /\ held' = Append(held, HeldAfter([p \in Product |-> 0], TakenBy(lines)))
      /\ UNCHANGED <<hasStock, reserved, allowOversell>>
  BY DEF CommitCreate, At
<1>2. Acceptable(lines) /\ saw[d].owed = OwedBy(lines)
  BY <1>1 DEF TxIInv, ConnectionOK, SaleOK
<1>3. lines \in Lines
  BY <1>1, RequestKinds
<1>4. ASSUME NEW o PROVE RowsAsSeen(o, lines, OwedBy(lines)) = NewRows(o, lines)
  <2>1. \A i \in DOMAIN lines : OwedBy(lines)[i] = Owed(lines, i)
    BY DEF OwedBy
  <2> QED BY <2>1 DEF RowsAsSeen, NewRows, NewRow
<1>5. items' = items \o NewRows(Len(orders) + 1, lines)
  BY <1>1, <1>2, <1>4
<1> QED BY <1>1, <1>2, <1>3, <1>5 DEF CreateOrder, TakenBy

LEMMA CommitCreateKeeps == ASSUME TxIInv, NEW d \in Connection, CommitCreate(d) PROVE TxIInv'
<1> PICK lines : lines = request[d].lines
  OBVIOUS
<1>1. lines \in Lines /\ CreateOrder(lines)
  BY CreateIsAtomic
<1>2. IInv'
  BY <1>1, SellKeeps DEF Sell, TxIInv
<1>3. pc[d] = "write" /\ DOMAIN need[d] = {} /\ request[d].op = "create" /\ End(d, "done")
  BY DEF CommitCreate, At
<1>4. PICK n \in Nat : lines \in [1..n -> Line] /\ DOMAIN lines = 1..n
  BY <1>3, LinesOfSale
<1>5. /\ StockRowsOf(lines) \subseteq holds[d] /\ DOMAIN saw[d].owed = 1..n
      /\ \A i \in 1..n : saw[d].owed[i] <= lines[i].quantity
  BY <1>3, <1>4 DEF TxIInv, ConnectionOK, SaleOK
<1>6. Len(orders) + 1 \in 1..MaxOrders
  BY <1>1, OrdersAreRows, BoundAssumption DEF CreateOrder, TxIInv
<1>7. RowsAsSeen(Len(orders) + 1, lines, saw[d].owed) \in Seq(ItemRow)
  BY <1>4, <1>5, <1>6, RowsSeen, SeenTyped
<1>8. /\ items' = items \o RowsAsSeen(Len(orders) + 1, lines, saw[d].owed)
      /\ orders' = Append(orders, "pending") /\ TakeOut(TakenBy(lines))
      /\ UNCHANGED <<hasStock, reserved, allowOversell>>
  BY DEF CommitCreate
<1>9. TableStep(d)
  BY <1>4, <1>5, <1>7, <1>8, SaleStep
<1>10. "done" \in Ended
  BY DEF Ended
<1> QED BY <1>2, <1>3, <1>9, <1>10, EndKeeps

LEMMA CommitAddItemKeeps == ASSUME TxIInv, NEW d \in Connection, CommitAddItem(d) PROVE TxIInv'
<1> PICK lines, o : lines = request[d].lines /\ o = request[d].order
  OBVIOUS
<1> DEFINE rows == RowsAsSeen(o, lines, saw[d].owed)
           units == TakenBy(lines)
<1>1. /\ pc[d] = "write" /\ DOMAIN need[d] = {} /\ request[d].op = "addItem" /\ End(d, "done")
      /\ Len(items) < MaxItems /\ items' = items \o rows /\ TakeOut(units)
      /\ HeldAfter(held[o], units) \in HeldRange
      /\ held' = [held EXCEPT ![o] = HeldAfter(held[o], units)]
      /\ UNCHANGED <<hasStock, reserved, allowOversell, orders>>
  BY DEF CommitAddItem, At
<1> HIDE DEF units
<1>2. PICK n \in Nat : lines \in [1..n -> Line] /\ DOMAIN lines = 1..n
  BY <1>1, LinesOfSale
<1>3. n = 1
  <2>1. lines \in [1..1 -> Line] /\ 1 \in Nat
    BY <1>1, RequestKinds
  <2>2. Len(lines) = 1
    BY <2>1, FunctionIsSequence
  <2> QED BY <1>2, <2>2, FunctionIsSequence
<1>4. /\ StockRowsOf(lines) \subseteq holds[d] /\ DOMAIN saw[d].owed = 1..n
      /\ \A i \in 1..n : saw[d].owed[i] <= lines[i].quantity
  BY <1>1, <1>2, AllLocked DEF TxIInv, ConnectionOK, SaleOK
<1>5. o \in DOMAIN orders
  BY <1>1 DEF TxIInv, ConnectionOK, StatementOK, Running, Ended
<1>6. o \in 1..MaxOrders
  BY <1>5, OrdersAreRows, BoundAssumption DEF TxIInv, IInv, TypeOK
<1>7. /\ rows \in Seq(ItemRow) /\ Len(rows) = n
      /\ \A i \in 1..Len(rows) : GoodRow(rows[i]) /\ rows[i].fulfilled = 0 /\ rows[i].order = o
  <2> PICK owed : owed = saw[d].owed
    OBVIOUS
  <2>1. owed \in Seq(Nat) /\ DOMAIN owed = 1..n /\ \A i \in 1..n : owed[i] <= lines[i].quantity
    BY <1>4, SeenTyped
  <2>2. rows = RowsAsSeen(o, lines, owed)
    OBVIOUS
  <2> HIDE DEF rows
  <2>3. /\ RowsAsSeen(o, lines, owed) \in Seq(ItemRow) /\ Len(RowsAsSeen(o, lines, owed)) = n
        /\ \A i \in 1..Len(RowsAsSeen(o, lines, owed)) :
              /\ GoodRow(RowsAsSeen(o, lines, owed)[i])
              /\ RowsAsSeen(o, lines, owed)[i].fulfilled = 0
              /\ RowsAsSeen(o, lines, owed)[i].order = o
    <3>1. /\ n \in Nat /\ lines \in [1..n -> Line] /\ o \in 1..MaxOrders
          /\ owed \in Seq(Nat) /\ DOMAIN owed = 1..n
          /\ \A i \in 1..n : owed[i] <= lines[i].quantity
      BY <1>2, <1>6, <2>1
    <3> QED BY ONLY <3>1, RowsSeen, ZenonT(40)
  <2> QED BY <2>2, <2>3
<1> HIDE DEF rows
<1>8. OrdersOK' /\ DOMAIN orders' = DOMAIN orders
  <2>1. "pending" \in OrderStatus \cup {"deleted"}
    BY StatusAssumption DEF OrderStatus
  <2> QED BY <1>1, <1>5, <2>1, OrderChanged DEF TxIInv
<1>9. StockOK'
  BY <1>1, TakenOut DEF TxIInv
<1>10. RowsOK'
  <2>1. Len(items) + Len(rows) <= MaxItems
    BY <1>1, <1>3, <1>7, ItemsAreRows, BoundAssumption DEF TxIInv
  <2>2. DOMAIN orders \subseteq DOMAIN orders'
        /\ \A i \in 1..Len(rows) : rows[i].order \in DOMAIN orders'
    BY <1>5, <1>7, <1>8
  <2> QED BY <1>1, <1>7, <2>1, <2>2, AppendedRows DEF TxIInv
<1>11. IInv'
  BY <1>8, <1>9, <1>10, Parts
<1>12. TableStep(d)
  BY <1>1, <1>2, <1>4, <1>7, SaleStep DEF units
<1>13. "done" \in Ended
  BY DEF Ended
<1> QED BY <1>1, <1>11, <1>12, <1>13, EndKeeps
-----------------------------------------------------------------------------
(* Movements commit *)

\* A movement writes one stock row.
LEMMA RowWritten ==
  ASSUME TxIInv, NEW p \in hasStock, NEW level \in IntColumn,
         quantity' = [quantity EXCEPT ![p] = level],
         UNCHANGED <<hasStock, reserved, allowOversell>>
  PROVE  StockOK' /\ \A q \in Product : quantity'[q] # quantity[q] => q = p
  BY DEF TxIInv, IInv, TypeOK, StockOK

LEMMA CommitRemovalKeeps == ASSUME TxIInv, NEW d \in Connection, CommitRemoval(d) PROVE TxIInv'
<1> PICK p, level : p = request[d].product /\ level = NewLevel(d)
  OBVIOUS
<1>1. /\ pc[d] = "write" /\ DOMAIN need[d] = {} /\ request[d].op = "out" /\ End(d, "done")
      /\ level \in IntColumn /\ quantity' = [quantity EXCEPT ![p] = level]
      /\ UNCHANGED <<hasStock, reserved, allowOversell, orders, items, held>>
  BY DEF CommitRemoval, At
<1>2. p \in hasStock /\ StockRow(p) \in holds[d]
  BY <1>1, AllLocked DEF TxIInv, ConnectionOK, MovementOK, Running, Ended
<1>3. StockOK' /\ \A q \in Product : quantity'[q] # quantity[q] => q = p
  BY <1>1, <1>2, RowWritten
<1>4. IInv'
  BY <1>1, <1>3, Untouched, Parts DEF TxIInv
<1>5. TableStep(d)
  BY <1>1, <1>2, <1>3 DEF TableStep
<1>6. "done" \in Ended
  BY DEF Ended
<1> QED BY <1>1, <1>4, <1>5, <1>6, EndKeeps

\* A row of p that is given units, or is left.
GivenRow(i, given) ==
    IF i \in DOMAIN given
    THEN [items[i] EXCEPT !.fulfilled = given[i],
                          !.backorder = IF given[i] >= items[i].owed THEN "fulfilled" ELSE @]
    ELSE items[i]

LEMMA GivenRowIsGood ==
  ASSUME NEW i, GoodRow(items[i]), NEW given,
         i \in DOMAIN given => /\ given[i] \in Nat /\ items[i].fulfilled <= given[i]
                               /\ given[i] <= items[i].owed /\ items[i].owed > 0
  PROVE  LET row == GivenRow(i, given) IN
         /\ GoodRow(row) /\ row.order = items[i].order /\ row.product = items[i].product
         /\ row.backorder = "pending" => items[i].backorder = "pending"
         /\ i \in DOMAIN given /\ given[i] = items[i].owed => row.backorder = "fulfilled"
<1> DEFINE row == GivenRow(i, given)
           status == IF given[i] >= items[i].owed THEN "fulfilled" ELSE items[i].backorder
<1>1. items[i] \in ItemRow
  BY DEF GoodRow
<1>2. CASE i \in DOMAIN given
  <2>1. row = [items[i] EXCEPT !.fulfilled = given[i], !.backorder = status]
    BY <1>2 DEF GivenRow
  <2>2. given[i] >= items[i].owed => status = "fulfilled"
    OBVIOUS
  <2>3. ~(given[i] >= items[i].owed) => status = items[i].backorder
    OBVIOUS
  <2> HIDE DEF status, row
  <2>4. row = [order |-> items[i].order, product |-> items[i].product,
               quantity |-> items[i].quantity, owed |-> items[i].owed,
               fulfilled |-> given[i], backorder |-> status]
    BY <1>1, <2>1 DEF ItemRow
  <2>5. /\ items[i].order \in 1..MaxOrders /\ items[i].product \in Product
        /\ items[i].quantity \in Nat /\ items[i].owed \in Nat /\ items[i].fulfilled \in Nat
        /\ items[i].backorder \in BackorderStatus /\ items[i].owed <= items[i].quantity
        /\ items[i].backorder = "none" <=> items[i].owed = 0
        /\ items[i].backorder = "fulfilled" <=>
              items[i].owed > 0 /\ items[i].fulfilled = items[i].owed
    BY <1>1 DEF GoodRow, ItemRow
  <2>6. /\ given[i] \in Nat /\ items[i].fulfilled <= given[i]
        /\ given[i] <= items[i].owed /\ items[i].owed > 0
    BY <1>2
  <2>7. CASE given[i] >= items[i].owed
    <3>1. row.backorder = "fulfilled" /\ given[i] = items[i].owed
      BY <2>2, <2>4, <2>5, <2>6, <2>7
    <3> QED BY <2>4, <2>5, <2>6, <3>1 DEF GoodRow, ItemRow, BackorderStatus, row
  <2>8. CASE ~(given[i] >= items[i].owed)
    <3>1. row.backorder = items[i].backorder /\ given[i] # items[i].owed
          /\ items[i].fulfilled # items[i].owed
      BY <2>3, <2>4, <2>5, <2>6, <2>8
    <3> QED BY <2>4, <2>5, <2>6, <3>1 DEF GoodRow, ItemRow, row
  <2> QED BY <2>7, <2>8
<1>3. CASE i \notin DOMAIN given
  BY <1>3 DEF GivenRow
<1> QED BY <1>2, <1>3

\* What was read of the backorders still holds when the arrival commits.
LEMMA CommitArrivalKeeps == ASSUME TxIInv, NEW d \in Connection, CommitArrival(d) PROVE TxIInv'
<1> PICK p, level, given : /\ p = request[d].product /\ level = NewLevel(d)
                           /\ given = saw[d].given
  OBVIOUS
<1> DEFINE m == Len(items)
<1>1. /\ pc[d] = "write" /\ DOMAIN need[d] = {} /\ request[d].op = "in" /\ End(d, "done")
      /\ level \in IntColumn /\ quantity' = [quantity EXCEPT ![p] = level]
      /\ \A i \in DOMAIN given : orders[items[i].order] # "deleted"
      /\ items' = [i \in DOMAIN items |-> GivenRow(i, given)]
      /\ UNCHANGED <<hasStock, reserved, allowOversell, orders, held>>
  BY DEF CommitArrival, At, GivenRow
<1>2. p \in hasStock /\ StockRow(p) \in holds[d] /\ GivenOK(d)
  BY <1>1, AllLocked DEF TxIInv, ConnectionOK, MovementOK, Running, Ended
<1>3. DOMAIN given \subseteq DOMAIN items /\ \A i \in DOMAIN given : given[i] \in Nat
  BY DEF TxIInv, TxTypeOK
<1>4. m \in Nat /\ m <= MaxItems /\ DOMAIN items = 1..m
  BY ItemsAreRows DEF TxIInv, IInv, TypeOK
<1>5. ASSUME NEW i \in DOMAIN given
      PROVE  /\ items[i].product = p /\ items[i].fulfilled <= given[i]
             /\ given[i] <= items[i].owed /\ items[i].owed > 0
  BY <1>1, <1>2 DEF GivenOK
<1>6. ASSUME NEW i \in 1..m
      PROVE  /\ items'[i] = GivenRow(i, given) /\ GoodRow(items'[i])
             /\ items'[i].order = items[i].order /\ items'[i].product = items[i].product
             /\ items'[i].backorder = "pending" => items[i].backorder = "pending"
             /\ i \in DOMAIN given /\ given[i] = items[i].owed => items'[i].backorder = "fulfilled"
  <2>1. items'[i] = GivenRow(i, given) /\ GoodRow(items[i])
    BY <1>1, <1>4, ItemsAreRows DEF TxIInv
  <2>2. i \in DOMAIN given => /\ given[i] \in Nat /\ items[i].fulfilled <= given[i]
                              /\ given[i] <= items[i].owed /\ items[i].owed > 0
    BY <1>3, <1>5
  <2> QED BY <2>1, <2>2, GivenRowIsGood
<1>7. items' \in Seq(ItemRow) /\ Len(items') = m /\ DOMAIN items' = 1..m
  <2>1. items' = [i \in 1..m |-> GivenRow(i, given)]
    BY <1>1, <1>4
  <2>2. items' \in [1..m -> ItemRow]
    BY <1>6, <2>1 DEF GoodRow
  <2> QED BY <1>4, <2>2, FunctionIsSequence
<1>8. OldestServedFirst'
  <2> SUFFICES ASSUME NEW i \in 1..m, NEW j \in 1..m, i < j,
                      items'[i].product = items'[j].product, items'[i].backorder = "pending"
               PROVE  items'[j].fulfilled = 0
    BY <1>7 DEF OldestServedFirst
  <2>1. items[i].product = items[j].product /\ items[i].backorder = "pending"
    BY <1>6
  <2>2. items[j].fulfilled = 0
    BY <1>4, <2>1 DEF TxIInv, IInv, OldestServedFirst
  <2>3. ASSUME j \in DOMAIN given PROVE FALSE
    <3>1. Pending(i, p) /\ i \in DOMAIN items
      BY <1>4, <1>5, <2>1, <2>3 DEF Pending
    <3>2. i \in DOMAIN given /\ given[i] = items[i].owed
      BY <1>2, <2>3, <3>1 DEF GivenOK
    <3>3. items'[i].backorder = "fulfilled"
      BY <1>6, <3>2
    <3> QED BY <3>3
  <2>4. items'[j] = items[j]
    BY <1>6, <2>3 DEF GivenRow
  <2> QED BY <2>2, <2>4
<1>9. OrdersOK' /\ DOMAIN orders' = DOMAIN orders
  BY <1>1, Untouched DEF TxIInv
<1>10. RowsOK'
  <2>1. \A i \in 1..m : items'[i].order \in DOMAIN orders'
    BY <1>6, <1>9, ItemsAreRows DEF TxIInv
  <2>2. BackordersWellFormed'
    BY <1>6, <1>7 DEF BackordersWellFormed, GoodRow
  <2> QED BY <1>4, <1>7, <1>8, <2>1, <2>2 DEF RowsOK
<1>11. StockOK' /\ \A q \in Product : quantity'[q] # quantity[q] => q = p
  BY <1>1, <1>2, RowWritten
<1>12. IInv'
  BY <1>9, <1>10, <1>11, Parts
<1>13. TableStep(d)
  <2>1. \A i \in DOMAIN items : items'[i] = items[i] \/ items[i].product = p
    BY <1>4, <1>5, <1>6 DEF GivenRow
  <2>2. \A i \in DOMAIN items : items'[i].order = items[i].order /\ items'[i].product = items[i].product
    BY <1>4, <1>6
  <2> QED BY <1>1, <1>2, <1>4, <1>7, <1>11, <2>1, <2>2 DEF TableStep
<1>14. "done" \in Ended
  BY DEF Ended
<1> QED BY <1>1, <1>12, <1>13, <1>14, EndKeeps
-----------------------------------------------------------------------------
(* Cancelations and deletions commit *)

\* Rows give back only products they are of.
LEMMA ReturnedOnlyOf ==
  ASSUME IInv, NEW rows, NEW p, \A i \in rows : items[i].product # p
  PROVE  Returned(rows, p) = 0
<1> DEFINE f == [i \in DOMAIN items |-> IF i \in rows /\ items[i].product = p
                                        THEN items[i].quantity ELSE 0]
<1>1. Len(items) \in Nat /\ DOMAIN items = 1..Len(items)
  BY ItemsAreRows
<1>2. \A i \in 1..Len(items) : f[i] = 0
  BY <1>1
<1> HIDE DEF f
<1>3. Sum(f, Len(items)) = 0
  BY <1>1, <1>2, SumZero
<1> QED BY <1>3 DEF Returned, f

\* Giving back changes locked stock rows and what the order holds.
LEMMA GivenBack ==
  ASSUME TxIInv, NEW d \in Connection, pc[d] = "write", DOMAIN need[d] = {},
         request[d].op \in {"status", "delete"}, NEW o, o = request[d].order, GiveBack(d, o),
         UNCHANGED <<hasStock, reserved, allowOversell>>
  PROVE  /\ StockOK' /\ o \in DOMAIN orders
         /\ \E h \in HeldRange : held' = held \/ held' = [held EXCEPT ![o] = h]
         /\ \A p \in Product : quantity'[p] # quantity[p] => StockRow(p) \in holds[d]
<1> DEFINE units == [p \in Product |-> -Returned(saw[d].rows, p)]
<1>0. o \in DOMAIN orders
  BY DEF TxIInv, ConnectionOK, StatementOK, Running, Ended
<1>1. CASE saw[d].restore
  <2>1. /\ TakeOut(units) /\ HeldAfter(held[o], units) \in HeldRange
        /\ held' = [held EXCEPT ![o] = HeldAfter(held[o], units)]
    BY <1>1 DEF GiveBack
  <2>2. ASSUME NEW p \in Product, quantity'[p] # quantity[p] PROVE StockRow(p) \in holds[d]
    <3>1. p \in hasStock /\ quantity'[p] = quantity[p] - (-Returned(saw[d].rows, p))
      BY <2>1, <2>2 DEF TakeOut
    <3>2. quantity[p] \in Int
      BY QuantitiesAreIntegers DEF TxIInv
    <3>3. Returned(saw[d].rows, p) # 0
      BY <2>2, <3>1, <3>2
    <3>4. PICK i \in saw[d].rows : items[i].product = p
      BY <3>3, ReturnedOnlyOf DEF TxIInv
    <3> QED BY <1>1, <3>1, <3>4, AllLocked DEF TxIInv, ConnectionOK, LeavingOK
  <2> HIDE DEF units
  <2> QED BY <1>0, <2>1, <2>2, TakenOut DEF TxIInv
<1>2. CASE ~saw[d].restore
  <2>1. UNCHANGED <<quantity, held>>
    BY <1>2 DEF GiveBack, KeepStock
  <2>2. held[o] \in HeldRange
    BY <1>0, OrdersAreRows DEF TxIInv
  <2> QED BY <1>0, <2>1, <2>2, Untouched DEF TxIInv
<1> QED BY <1>1, <1>2

LEMMA CommitStatusKeeps == ASSUME TxIInv, NEW d \in Connection, CommitStatus(d) PROVE TxIInv'
<1> PICK o, status : o = request[d].order /\ status = request[d].status
  OBVIOUS
<1>1. /\ pc[d] = "write" /\ DOMAIN need[d] = {} /\ request[d].op = "status" /\ End(d, "done")
      /\ orders[o] # "deleted" /\ orders' = [orders EXCEPT ![o] = status]
      /\ items' = CanceledAsLocked(d) /\ GiveBack(d, o)
      /\ UNCHANGED <<hasStock, reserved, allowOversell>>
  BY DEF CommitStatus, At
<1>2. /\ StockOK' /\ o \in DOMAIN orders
      /\ \E h \in HeldRange : held' = held \/ held' = [held EXCEPT ![o] = h]
      /\ \A p \in Product : quantity'[p] # quantity[p] => StockRow(p) \in holds[d]
  BY <1>1, GivenBack
<1>3. status \in OrderStatus
  BY <1>1, RequestKinds
<1>4. OrdersOK' /\ DOMAIN orders' = DOMAIN orders
  <2>1. PICK h \in HeldRange : held' = held \/ held' = [held EXCEPT ![o] = h]
    BY <1>2
  <2> QED BY <1>1, <1>2, <1>3, <2>1, OrderChanged DEF TxIInv
<1>5. Len(items) \in Nat /\ DOMAIN items = 1..Len(items)
  BY ItemsAreRows DEF TxIInv
<1>6. ASSUME NEW i \in 1..Len(items)
      PROVE  /\ GoodRow(items'[i])
             /\ items'[i].order = items[i].order /\ items'[i].product = items[i].product
             /\ items'[i].backorder = "pending" => items[i].backorder = "pending"
             /\ items'[i].fulfilled = items[i].fulfilled /\ items'[i].owed = items[i].owed
             /\ items'[i] = items[i] \/ items'[i].backorder # "pending"
  <2>1. GoodRow(items[i])
    BY ItemsAreRows DEF TxIInv
  <2>2. \/ items'[i] = items[i]
        \/ items[i].backorder = "pending" /\ items'[i] = [items[i] EXCEPT !.backorder = "canceled"]
    BY <1>1, <1>5 DEF CanceledAsLocked
  <2> QED BY <2>1, <2>2 DEF GoodRow, ItemRow, BackorderStatus
<1>7. RowsOK'
  <2>1. items' \in [1..Len(items) -> ItemRow]
    BY <1>1, <1>5, <1>6 DEF CanceledAsLocked, GoodRow
  <2> QED BY <1>4, <1>6, <2>1, RewrittenRows DEF TxIInv
<1>8. IInv'
  BY <1>2, <1>4, <1>7, Parts
<1>9. TableStep(d)
  <2>1. DOMAIN items' = DOMAIN items
    BY <1>1 DEF CanceledAsLocked
  <2>2. \A x \in DOMAIN orders : orders[x] = "deleted" => orders'[x] = "deleted"
    BY <1>1
  <2> QED BY <1>1, <1>2, <1>4, <1>5, <1>6, <2>1, <2>2 DEF TableStep
<1>10. "done" \in Ended
  BY DEF Ended
<1> QED BY <1>1, <1>8, <1>9, <1>10, EndKeeps

LEMMA CommitDeleteKeeps == ASSUME TxIInv, NEW d \in Connection, CommitDelete(d) PROVE TxIInv'
<1> PICK o : o = request[d].order
  OBVIOUS
<1>1. /\ pc[d] = "write" /\ DOMAIN need[d] = {} /\ request[d].op = "delete" /\ End(d, "done")
      /\ orders' = [orders EXCEPT ![o] = "deleted"] /\ items' = ErasedRows(o) /\ GiveBack(d, o)
      /\ UNCHANGED <<hasStock, reserved, allowOversell>>
  BY DEF CommitDelete, At
<1>2. /\ StockOK' /\ o \in DOMAIN orders
      /\ \E h \in HeldRange : held' = held \/ held' = [held EXCEPT ![o] = h]
      /\ \A p \in Product : quantity'[p] # quantity[p] => StockRow(p) \in holds[d]
  BY <1>1, GivenBack
<1>3. OrdersOK' /\ DOMAIN orders' = DOMAIN orders
  <2>1. PICK h \in HeldRange : held' = held \/ held' = [held EXCEPT ![o] = h]
    BY <1>2
  <2> QED BY <1>1, <1>2, <2>1, OrderChanged DEF TxIInv
<1>4. RowsOK'
  BY <1>1, <1>2, <1>3, RowsErased DEF TxIInv
<1>5. IInv'
  BY <1>2, <1>3, <1>4, Parts
<1>6. TableStep(d)
  <2>1. DOMAIN items' = DOMAIN items /\ orders'[o] = "deleted"
    BY <1>1, <1>2 DEF ErasedRows
  <2>2. ASSUME NEW i \in DOMAIN items
        PROVE  /\ items'[i].order = items[i].order /\ items'[i].product = items[i].product
               /\ \/ items'[i] = items[i]
                  \/ items'[i].backorder # "pending" /\ orders'[items[i].order] = "deleted"
    <3>1. items[i] \in ItemRow
      BY <2>2, ItemsAreRows DEF TxIInv, GoodRow
    <3>2. items'[i] = IF items[i].order = o
                      THEN [items[i] EXCEPT !.quantity = 0, !.owed = 0, !.fulfilled = 0,
                                            !.backorder = "none"]
                      ELSE items[i]
      BY <1>1, <2>2 DEF ErasedRows
    <3>3. CASE items[i].order = o
      <4>1. items'[i] = [items[i] EXCEPT !.quantity = 0, !.owed = 0, !.fulfilled = 0,
                                         !.backorder = "none"]
        BY <3>2, <3>3
      <4>2. items'[i] = [order |-> items[i].order, product |-> items[i].product, quantity |-> 0,
                         owed |-> 0, fulfilled |-> 0, backorder |-> "none"]
        BY <3>1, <4>1 DEF ItemRow
      <4> QED BY <2>1, <3>3, <4>2
    <3>4. CASE items[i].order # o
      BY <3>2, <3>4
    <3> QED BY <3>3, <3>4
  <2>3. \A x \in DOMAIN orders : orders[x] = "deleted" => orders'[x] = "deleted"
    BY <1>1
  <2> QED BY <1>1, <1>2, <1>3, <2>1, <2>2, <2>3 DEF TableStep
<1>7. "done" \in Ended
  BY DEF Ended
<1> QED BY <1>1, <1>5, <1>6, <1>7, EndKeeps
-----------------------------------------------------------------------------
(* The invariant is inductive *)

LEMMA BeginKeeps ==
  ASSUME TxIInv, NEW d \in Connection, BeginSale(d) \/ BeginStock(d) \/ BeginLeaving(d)
  PROVE  TxIInv'
<1>1. CASE BeginSale(d)
  BY <1>1, BeginCreateKeeps, BeginAddItemKeeps DEF BeginSale
<1>2. CASE BeginStock(d)
  BY <1>2, BeginMovementKeeps DEF BeginStock
<1> QED BY <1>1, <1>2, BeginLeavingKeeps

LEMMA StepKeeps == ASSUME TxIInv, NEW d \in Connection, Step(d) PROVE TxIInv'
<1>1. CASE Lock(d) \/ DeadlockVictim(d) \/ WriteFails(d)
  BY <1>1, LockKeeps, FailKeeps DEF DeadlockVictim, WriteFails
<1>2. CASE Check(d) \/ ReadPending(d) \/ ReadItems(d)
  BY <1>2, CheckKeeps, ReadPendingKeeps, ReadItemsKeeps
<1>3. CASE CommitCreate(d) \/ CommitAddItem(d) \/ CommitArrival(d) \/ CommitRemoval(d)
  BY <1>3, CommitCreateKeeps, CommitAddItemKeeps, CommitArrivalKeeps, CommitRemovalKeeps
<1>4. CASE CommitStatus(d) \/ CommitDelete(d)
  BY <1>4, CommitStatusKeeps, CommitDeleteKeeps
<1> QED BY <1>1, <1>2, <1>3, <1>4 DEF Step

LEMMA StutterKeeps == ASSUME TxIInv, UNCHANGED allVars PROVE TxIInv'
<1>1. UNCHANGED tables /\ UNCHANGED txVars
  BY DEF allVars, tables, txVars
<1>2. IInv'
  BY <1>1, Untouched, Parts DEF tables, TxIInv
<1>3. TxTypeOK'
  <2>1. items' = items
    BY <1>1, SameTables
  <2> QED BY <1>1, <1>2, <2>1 DEF TxIInv, TxTypeOK, txVars, IInv
<1>4. LocksApart'
  BY <1>1 DEF TxIInv, LocksApart, txVars
<1>5. ASSUME NEW c \in Connection PROVE ConnectionOK(c)'
  <2>1. StatementOK(c) /\ SaleOK(c) /\ MovementOK(c) /\ LeavingOK(c)
    BY DEF TxIInv, ConnectionOK
  <2>2. /\ request' = request /\ pc' = pc /\ saw' = saw /\ holds' = holds
        /\ items' = items /\ orders' = orders /\ hasStock' = hasStock
        /\ Wanted(c)' = Wanted(c)
    BY <1>1, SameTables DEF txVars, Wanted
  <2>3. StatementOK(c)' /\ LeavingOK(c)'
    BY <2>1, <2>2 DEF StatementOK, LeavingOK, Running
  <2>4. SaleOK(c)'
    <3> PICK lines : lines = request[c].lines
      OBVIOUS
    <3>1. /\ StockRowsOf(lines)' = StockRowsOf(lines) /\ OwedBy(lines)' = OwedBy(lines)
          /\ Acceptable(lines)' = Acceptable(lines)
      BY <1>1, SameTables
    <3> QED BY <2>1, <2>2, <3>1 DEF SaleOK
  <2>5. MovementOK(c)'
    <3>1. GivenOK(c)' = GivenOK(c)
      BY <2>2 DEF GivenOK, Pending
    <3> QED BY <2>1, <2>2, <3>1 DEF MovementOK, Running
  <2> QED BY <2>3, <2>4, <2>5 DEF ConnectionOK
<1> QED BY <1>2, <1>3, <1>4, <1>5 DEF TxIInv

LEMMA TxInitHolds == TxInit => TxIInv
<1> SUFFICES ASSUME TxInit PROVE TxIInv
  OBVIOUS
<1>1. ASSUME NEW c \in Connection
      PROVE  /\ request[c] = NoRequest /\ pc[c] = "idle" /\ saw[c] = NothingSeen
             /\ need[c] = << >> /\ holds[c] = {}
  BY DEF TxInit, NoneBegun
<1>2. DOMAIN << >> = {}
  OBVIOUS
<1>3. /\ NothingSeen \in [owed: Seq(Nat), level: IntColumn, given: {NothingSeen.given},
                          restore: BOOLEAN, rows: SUBSET DOMAIN items]
      /\ DOMAIN NothingSeen.given \subseteq DOMAIN items
      /\ \A i \in DOMAIN NothingSeen.given : NothingSeen.given[i] \in Nat
  <2>1. FALSE \in BOOLEAN
    OBVIOUS
  <2> QED BY <2>1, Readings, ReadingTyped
<1>4. TxTypeOK
  <2>1. /\ request \in [Connection -> Request] /\ holds \in [Connection -> SUBSET LockedRow]
        /\ pc \in [Connection -> {"idle", "check", "pending", "items", "write"} \cup Ended]
        /\ DOMAIN saw = Connection /\ DOMAIN need = Connection /\ TypeOK
    BY DEF TxInit, NoneBegun, Request
  <2>2. \A c \in Connection : SeenOK(c)
    BY <1>1, <1>2, <1>3 DEF SeenOK
  <2> QED BY <2>1, <2>2 DEF TxTypeOK, SeenOK
<1>5. LocksApart /\ \A c \in Connection : ConnectionOK(c)
  BY <1>1 DEF LocksApart, ConnectionOK, StatementOK, SaleOK, MovementOK, LeavingOK, Running
<1> QED BY <1>4, <1>5 DEF TxIInv, IInv, TxInit

LEMMA TxNextKeeps == TxIInv /\ [TxNext]_allVars => TxIInv'
<1>1. ASSUME TxIInv, NEW d \in Connection,
             BeginSale(d) \/ BeginStock(d) \/ BeginLeaving(d) \/ Step(d)
      PROVE  TxIInv'
  BY <1>1, BeginKeeps, StepKeeps
<1> QED BY <1>1, StutterKeeps DEF TxNext

\* Statement by statement, on any number of connections, every table keeps its
\* type, backorders stay within their lines, and arrivals serve the oldest line
\* first: row locks are enough for what OrderStock does in one step.
THEOREM TablesStayOK == TxSpec => []TablesOK
<1>1. TxIInv => TablesOK
  BY DEF TxIInv, IInv, TablesOK
<1> QED BY <1>1, TxInitHolds, TxNextKeeps, PTL DEF TxSpec

\* Every order is created as if alone, whatever runs at once.
THEOREM CreatedAsIfAlone == TxSpec => CreationsAreAtomic
<1>1. TxIInv /\ [TxNext]_allVars =>
        [\A c \in Connection :
            CommitCreate(c) => \E lines \in Lines : CreateOrder(lines)]_allVars
  BY CreateIsAtomic
<1> QED BY <1>1, TxInitHolds, TxNextKeeps, PTL DEF TxSpec, CreationsAreAtomic
-----------------------------------------------------------------------------
(* What a step of a transaction may do to the stock *)

\* Only commits write tables.
LEMMA OnlyCommitsWrite ==
  ASSUME [TxNext]_allVars
  PROVE  \/ UNCHANGED tables
         \/ \E d \in Connection : \/ CommitCreate(d) \/ CommitAddItem(d) \/ CommitArrival(d)
                                  \/ CommitRemoval(d) \/ CommitStatus(d) \/ CommitDelete(d)
<1>1. ASSUME NEW d \in Connection, BeginSale(d) \/ BeginStock(d) \/ BeginLeaving(d)
      PROVE  UNCHANGED tables
  BY <1>1 DEF BeginSale, BeginCreate, BeginAddItem, BeginStock, BeginMovement, BeginLeaving,
              BeginStatus, BeginDelete, Leaves, Begins, Goes
<1>2. ASSUME NEW d \in Connection,
             \/ Lock(d) \/ DeadlockVictim(d) \/ WriteFails(d)
             \/ Check(d) \/ ReadPending(d) \/ ReadItems(d)
      PROVE  UNCHANGED tables
  BY <1>2 DEF Lock, DeadlockVictim, WriteFails, Fail, Check, ReadPending, ReadItems, Continues, Goes
<1>3. UNCHANGED allVars => UNCHANGED tables
  BY DEF allVars, tables
<1> QED BY <1>1, <1>2, <1>3 DEF TxNext, Step

\* What rows of an order give back is no more than the order holds.
LEMMA ReturnedWithin ==
  ASSUME IInv, NEW o, NEW rows, \A i \in rows : items[i].order = o, NEW p \in Product
  PROVE  Returned(rows, p) \in Nat /\ Returned(rows, p) <= Ordered(o, p)
<1> DEFINE n == Len(items)
           f == [i \in DOMAIN items |-> IF i \in rows /\ items[i].product = p
                                        THEN items[i].quantity ELSE 0]
           g == ItemsOf(o, p)
           h == [i \in DOMAIN items |-> 0]
<1>1. n \in Nat /\ DOMAIN items = 1..n
  BY ItemsAreRows
<1>2. ASSUME NEW i \in 1..n
      PROVE  f[i] \in Nat /\ g[i] \in Nat /\ h[i] = 0 /\ f[i] <= g[i]
  <2>1. items[i].quantity \in Nat
    BY ItemsAreRows DEF GoodRow, ItemRow
  <2> QED BY <1>1, <2>1 DEF ItemsOf
<1> HIDE DEF f, g, h
<1>3. Sum(f, n) <= Sum(g, n) + Sum(h, n)
  <2>1. \A i \in 1..n : f[i] \in Int /\ g[i] \in Int /\ h[i] \in Int /\ f[i] <= g[i] + h[i]
    BY <1>2
  <2> QED BY <1>1, <2>1, SumBounded
<1>4. Sum(h, n) = 0
  BY <1>1, <1>2, SumZero
<1>5. Sum(f, n) \in Nat /\ Sum(g, n) \in Nat
  <2>1. n \in 0..n /\ n <= n
    BY <1>1
  <2> QED BY <1>1, <1>2, <2>1, SumMonotonic
<1>6. Sum(f, n) <= Sum(g, n)
  BY <1>3, <1>4, <1>5
<1> QED BY <1>5, <1>6 DEF Returned, Ordered, f, g

\* Units given back, when the rows that were read are the order's.
LEMMA GivesBack ==
  ASSUME TxIInv, NEW d \in Connection, CommitStatus(d) \/ CommitDelete(d), NEW p \in Product
  PROVE  \E o \in DOMAIN orders, n \in Nat :
            /\ n <= Ordered(o, p)
            /\ quantity'[p] = quantity[p] + n \/ quantity'[p] = quantity[p]
            /\ \A x \in DOMAIN orders : x # o => held'[x][p] = held[x][p]
            /\ held'[o][p] = held[o][p] - n \/ held'[o][p] = held[o][p]
            /\ reserved' = reserved
<1> PICK o : o = request[d].order
  OBVIOUS
<1>1. /\ pc[d] = "write" /\ request[d].op \in {"status", "delete"} /\ GiveBack(d, o)
      /\ reserved' = reserved
  BY DEF CommitStatus, CommitDelete, At
<1>2. o \in DOMAIN orders
  BY <1>1 DEF TxIInv, ConnectionOK, StatementOK, Running, Ended
<1>3. Ordered(o, p) \in Nat /\ quantity[p] \in Int
  BY OrderedIsNatural, QuantitiesAreIntegers DEF TxIInv
<1>4. held[o][p] \in Int /\ DOMAIN held = DOMAIN orders
  <2>1. held[o] \in HeldRange /\ DOMAIN held = DOMAIN orders
    BY <1>2, OrdersAreRows DEF TxIInv
  <2> QED BY <2>1, BoundAssumption DEF HeldRange
<1>5. CASE saw[d].restore
  <2> DEFINE units == [q \in Product |-> -Returned(saw[d].rows, q)]
             n == Returned(saw[d].rows, p)
  <2>1. TakeOut(units) /\ held' = [held EXCEPT ![o] = HeldAfter(held[o], units)]
    BY <1>1, <1>5 DEF GiveBack
  <2>2. \A i \in saw[d].rows : items[i].order = o
    BY <1>1, <1>5 DEF TxIInv, ConnectionOK, LeavingOK
  <2>3. n \in Nat /\ n <= Ordered(o, p)
    BY <2>2, ReturnedWithin DEF TxIInv
  <2>4. quantity'[p] = IF p \in hasStock THEN quantity[p] - (-n) ELSE quantity[p]
    BY <2>1 DEF TakeOut
  <2>5. held'[o][p] = IF p \in hasStock THEN held[o][p] + (-n) ELSE held[o][p]
    BY <1>2, <1>4, <2>1 DEF HeldAfter
  <2>6. \A x \in DOMAIN orders : x # o => held'[x][p] = held[x][p]
    BY <1>4, <2>1
  <2> HIDE DEF n, units
  <2> QED BY <1>1, <1>2, <1>3, <1>4, <2>3, <2>4, <2>5, <2>6
<1>6. CASE ~saw[d].restore
  <2>1. UNCHANGED <<quantity, held>>
    BY <1>1, <1>6 DEF GiveBack, KeepStock
  <2>2. 0 \in Nat /\ 0 <= Ordered(o, p)
    BY <1>3
  <2> QED BY <1>1, <1>2, <2>1, <2>2
<1> QED BY <1>5, <1>6

\* A removal or an arrival writes the row of its product.
LEMMA MovementWrites ==
  ASSUME TxIInv, NEW d \in Connection, CommitRemoval(d) \/ CommitArrival(d), NEW p \in Product
  PROVE  /\ quantity'[p] = IF p = request[d].product THEN NewLevel(d) ELSE quantity[p]
         /\ reserved' = reserved /\ held' = held
         /\ request[d].product \in Product /\ request[d].quantity \in Nat
<1>1. /\ request[d].op \in {"in", "out"} /\ reserved' = reserved /\ held' = held
      /\ quantity' = [quantity EXCEPT ![request[d].product] = NewLevel(d)]
  BY DEF CommitRemoval, CommitArrival
<1>2. request[d].product \in Product /\ request[d].quantity \in LineQuantity
  BY <1>1, RequestKinds
<1>3. quantity \in [Product -> IntColumn]
  BY DEF TxIInv, IInv, TypeOK
<1> QED BY <1>1, <1>2, <1>3, QuantityAssumption

\* Each step satisfies the body of OnlyStaleReadsOversell.
LEMMA OversellStep ==
  ASSUME TxIInv, [TxNext]_allVars, NEW p \in hasStock,
         ~allowOversell[p], Available(p)' < 0, Available(p)' < Available(p)
  PROVE  \E c \in Connection : WritesStale(c) \/ TakesReserved(c)
<1>0. p \in Product /\ Available(p) \in Int /\ quantity[p] \in Int /\ reserved[p] \in Int
  BY QuantitiesAreIntegers DEF TxIInv, IInv, TypeOK
<1>1. CASE UNCHANGED tables
  <2>1. quantity' = quantity /\ reserved' = reserved
    BY <1>1 DEF tables
  <2> QED BY <1>0, <2>1 DEF Available
<1>2. ASSUME NEW d \in Connection, CommitCreate(d) PROVE FALSE
  <2>1. Sell
    BY <1>2, CreateIsAtomic DEF Sell
  <2> QED BY <1>0, <2>1, SellGoesShort DEF TxIInv
<1>3. ASSUME NEW d \in Connection, CommitAddItem(d), Acceptable(request[d].lines) PROVE FALSE
  <2> PICK lines : lines = request[d].lines
    OBVIOUS
  <2>1. request[d].op = "addItem" /\ TakeOut(TakenBy(lines)) /\ UNCHANGED reserved
    BY <1>3 DEF CommitAddItem
  <2>2. PICK n \in Nat : lines \in [1..n -> Line] /\ Len(lines) = n
    BY <2>1, LinesOfSale
  <2>3. n \in 0..n
    OBVIOUS
  <2>4. \A q \in Product : Taken(lines, q, n) \in Nat
    BY <2>2, <2>3, TakenIsNatural
  <2>5. TakenBy(lines) \in [Product -> Int] /\ TakenBy(lines)[p] = Taken(lines, p, n)
    BY <1>0, <2>2, <2>4 DEF TakenBy
  <2>6. Available(p)' = Available(p) - Taken(lines, p, n)
    BY <1>0, <2>1, <2>5, AvailableAfter DEF TxIInv
  <2>7. Taken(lines, p, n) = 0 \/ Available(p) - Taken(lines, p, n) >= 0
    BY <1>3, <2>2, LinesWithinStock DEF TxIInv
  <2> QED BY <1>0, <2>4, <2>6, <2>7
<1>4. ASSUME NEW d \in Connection, CommitArrival(d) \/ CommitRemoval(d),
             saw[d].level = quantity[request[d].product], ~TakesReserved(d)
      PROVE  FALSE
  <2> PICK q, n : q = request[d].product /\ n = request[d].quantity
    OBVIOUS
  <2>1. /\ quantity'[p] = IF p = q THEN NewLevel(d) ELSE quantity[p]
        /\ reserved' = reserved /\ n \in Nat
    BY <1>0, <1>4, MovementWrites
  <2>2. p = q
    BY <1>0, <2>1 DEF Available
  <2>3. CASE CommitArrival(d)
    <3>1. NewLevel(d) = quantity[p] + n
      BY <1>4, <2>2, <2>3 DEF CommitArrival, NewLevel
    <3> QED BY <1>0, <2>1, <2>2, <3>1 DEF Available
  <2>4. CASE CommitRemoval(d)
    <3>1. request[d].op = "out" /\ pc[d] = "write"
      BY <2>4 DEF CommitRemoval, At
    <3>2. NewLevel(d) = saw[d].level - n
      BY <3>1 DEF NewLevel
    <3>3. saw[d].level - n >= 0
      BY <3>1 DEF TxIInv, ConnectionOK, MovementOK
    <3>4. ~(reserved[p] > 0)
      BY <1>4, <2>2, <2>4 DEF TakesReserved
    <3>5. quantity'[p] = quantity[p] - n /\ quantity[p] - n >= 0
      BY <1>4, <2>1, <2>2, <3>2, <3>3
    <3> QED BY <1>0, <2>1, <3>4, <3>5 DEF Available
  <2> QED BY <1>4, <2>3, <2>4
<1>5. ASSUME NEW d \in Connection, CommitStatus(d) \/ CommitDelete(d) PROVE FALSE
  <2>1. PICK o \in DOMAIN orders, n \in Nat :
           (quantity'[p] = quantity[p] + n \/ quantity'[p] = quantity[p]) /\ reserved' = reserved
    BY <1>0, <1>5, GivesBack
  <2> QED BY <1>0, <2>1 DEF Available
<1> QED BY <1>1, <1>2, <1>3, <1>4, <1>5, OnlyCommitsWrite DEF WritesStale

\* A product that does not allow oversell goes short only by an added line or a
\* movement whose reading was overtaken, or by a removal of reserved units: the
\* creation of an order never oversells, whatever runs at once.
THEOREM OnlyStaleOversell == TxSpec => OnlyStaleReadsOversell
<1>1. TxIInv /\ [TxNext]_allVars =>
        [\A p \in hasStock :
            ~allowOversell[p] /\ Available(p)' < 0 /\ Available(p)' < Available(p)
                => \E c \in Connection : WritesStale(c) \/ TakesReserved(c)]_allVars
  BY OversellStep
<1> QED BY <1>1, TxInitHolds, TxNextKeeps, PTL DEF TxSpec, OnlyStaleReadsOversell

\* Each step satisfies the body of OnlyRepeatsReturnTwice.
LEMMA ReturnStep ==
  ASSUME TxIInv, [TxNext]_allVars, NEW o \in DOMAIN orders, NEW p \in Product,
         held[o][p] >= 0, held'[o][p] < 0
  PROVE  held[o][p] < Ordered(o, p)
<1>0. /\ held \in Seq(HeldRange) /\ DOMAIN held = DOMAIN orders /\ o \in 1..Len(held)
      /\ held[o] \in HeldRange
  BY OrdersAreRows DEF TxIInv, IInv, TypeOK, HeldRange
<1>1. held[o][p] \in Int
  BY <1>0, BoundAssumption DEF HeldRange
<1>2. CASE UNCHANGED tables
  BY <1>1, <1>2 DEF tables
<1>3. ASSUME NEW d \in Connection, CommitCreate(d) PROVE FALSE
  <2>1. PICK h \in HeldRange : held' = Append(held, h)
    BY <1>3 DEF CommitCreate
  <2>2. held'[o] = held[o]
    BY <1>0, <2>1, AppendProperties
  <2> QED BY <1>1, <2>2
<1>4. ASSUME NEW d \in Connection, CommitAddItem(d) PROVE FALSE
  <2> PICK lines, x : lines = request[d].lines /\ x = request[d].order
    OBVIOUS
  <2>1. request[d].op = "addItem" /\ held' = [held EXCEPT ![x] = HeldAfter(held[x], TakenBy(lines))]
    BY <1>4 DEF CommitAddItem
  <2>2. PICK n \in Nat : lines \in [1..n -> Line] /\ Len(lines) = n
    BY <2>1, LinesOfSale
  <2>3. n \in 0..n
    OBVIOUS
  <2>4. TakenBy(lines)[p] \in Nat
    BY <2>2, <2>3, TakenIsNatural DEF TakenBy
  <2>5. CASE x = o
    <3>1. held'[o] = HeldAfter(held[o], TakenBy(lines))
      BY <1>0, <2>1, <2>5
    <3>2. held'[o][p] = IF p \in hasStock THEN held[o][p] + TakenBy(lines)[p] ELSE held[o][p]
      BY <3>1 DEF HeldAfter
    <3> QED BY <1>1, <2>4, <3>2
  <2>6. CASE x # o
    BY <1>0, <1>1, <2>1, <2>6
  <2> QED BY <2>5, <2>6
<1>5. ASSUME NEW d \in Connection, CommitArrival(d) \/ CommitRemoval(d) PROVE FALSE
  BY <1>1, <1>5, MovementWrites
<1>6. ASSUME NEW d \in Connection, CommitStatus(d) \/ CommitDelete(d)
      PROVE  held[o][p] < Ordered(o, p)
  <2>1. PICK x \in DOMAIN orders, n \in Nat :
            /\ n <= Ordered(x, p)
            /\ \A y \in DOMAIN orders : y # x => held'[y][p] = held[y][p]
            /\ held'[x][p] = held[x][p] - n \/ held'[x][p] = held[x][p]
    BY <1>6, GivesBack
  <2>2. x = o
    BY <1>1, <2>1
  <2>3. Ordered(o, p) \in Nat
    BY OrderedIsNatural DEF TxIInv
  <2> QED BY <1>1, <2>1, <2>2, <2>3
<1> QED BY <1>2, <1>3, <1>4, <1>5, <1>6, OnlyCommitsWrite

\* An order gives back more than it took only after another request gave its
\* units back: a cancelation or deletion alone returns at most what the order
\* holds, whatever lines were added and orders were left meanwhile.
THEOREM OnlyRepeatsReturnMore == TxSpec => OnlyRepeatsReturnTwice
<1>1. TxIInv /\ [TxNext]_allVars =>
        [\A o \in DOMAIN orders, p \in Product :
            held[o][p] >= 0 /\ held'[o][p] < 0 => held[o][p] < Ordered(o, p)]_allVars
  BY ReturnStep
<1> QED BY <1>1, TxInitHolds, TxNextKeeps, PTL DEF TxSpec, OnlyRepeatsReturnTwice
=============================================================================
