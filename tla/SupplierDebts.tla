--------------------------- MODULE SupplierDebts ---------------------------
(***************************************************************************)
(* The suppliers of a seller and what is owed to them: debts are made and  *)
(* paid in parts by requests that read first and write later.              *)
(***************************************************************************)
EXTENDS Integers, Sequences

CONSTANTS
    Request,    \* requests that are under way at once
    Supplier,   \* suppliers that may be entered
    Amount,     \* amounts of debts and payments, in cents, positive
    MaxDebts    \* bound: debts made

VARIABLES
    suppliers,  \* "none", "active" or "inactive" for each
    debts,      \* the rows, in order of id
    paid,       \* what was accepted as paid of each debt (for the properties)
    task        \* what each request is in the middle of

vars == <<suppliers, debts, paid, task>>

Idle == [op |-> "none"]

Debt == [supplier : Supplier, amount : Amount, paid_amount : Nat,
         status : {"pending", "partial", "paid"}]

TypeOK ==
    /\ suppliers \in [Supplier -> {"none", "active", "inactive"}]
    /\ debts \in Seq(Debt) /\ Len(debts) <= MaxDebts
    /\ paid \in [DOMAIN debts -> Nat]
    /\ \A r \in Request : task[r].op \in {"none", "debt", "remove", "pay"}
-----------------------------------------------------------------------------
Does(r, t) == task' = [task EXCEPT ![r] = t]

Create(s) ==
    /\ suppliers[s] = "none"
    /\ suppliers' = [suppliers EXCEPT ![s] = "active"]
    /\ UNCHANGED <<debts, paid, task>>

\* What createDebt and remove find first: an active supplier.
FindOne(r, op, s, amount) ==
    /\ task[r] = Idle
    /\ suppliers[s] = "active"
    /\ Does(r, [op |-> op, supplier |-> s, amount |-> amount])
    /\ UNCHANGED <<suppliers, debts, paid>>

CreateDebt(r) ==
    /\ task[r].op = "debt" /\ Len(debts) < MaxDebts
    /\ debts' = Append(debts, [supplier |-> task[r].supplier, amount |-> task[r].amount,
                               paid_amount |-> 0, status |-> "pending"])
    /\ paid' = Append(paid, 0)
    /\ Does(r, Idle)
    /\ UNCHANGED suppliers

\* delete finds the supplier once more before it is made inactive.
Remove(r) ==
    /\ task[r].op = "remove"
    /\ suppliers' = [suppliers EXCEPT ![task[r].supplier] = "inactive"]
    /\ Does(r, Idle)
    /\ UNCHANGED <<debts, paid>>

\* Mutant: each payment is compared with the whole debt.
UpToAll(debt, amount) == amount <= debt.amount

\* A payment may not exceed what is left of the debt.
Fits(debt, amount) == debt.paid_amount + amount <= debt.amount

\* payDebt reads the debt, whether its supplier is active or not ...
LoadDebt(r, d, amount) ==
    /\ task[r] = Idle
    /\ Fits(debts[d], amount)
    /\ Does(r, [op |-> "pay", debt |-> d, amount |-> amount, from |-> debts[d].paid_amount])
    /\ UNCHANGED <<suppliers, debts, paid>>

StatusOf(before, amount, debt) == IF before + amount >= debt.amount THEN "paid" ELSE "partial"

\* ... and writes the sum that it computed.
PayDebt(r) ==
    /\ task[r].op = "pay"
    /\ LET d == task[r].debt
       IN  /\ debts' = [debts EXCEPT
                 ![d].paid_amount = task[r].from + task[r].amount,
                 ![d].status = StatusOf(task[r].from, task[r].amount, debts[d])]
           /\ paid' = [paid EXCEPT ![d] = @ + task[r].amount]
    /\ Does(r, Idle)
    /\ UNCHANGED suppliers

\* A request stops before it writes.
Abandon(r) ==
    /\ task[r] # Idle
    /\ Does(r, Idle)
    /\ UNCHANGED <<suppliers, debts, paid>>
-----------------------------------------------------------------------------
Init ==
    /\ suppliers = [s \in Supplier |-> "none"]
    /\ debts = << >> /\ paid = << >>
    /\ task = [r \in Request |-> Idle]

Next ==
    \/ \E s \in Supplier : Create(s)
    \/ \E r \in Request, s \in Supplier :
          \/ \E amount \in Amount : FindOne(r, "debt", s, amount)
          \/ FindOne(r, "remove", s, 0)
    \/ \E r \in Request, d \in DOMAIN debts, amount \in Amount : LoadDebt(r, d, amount)
    \/ \E r \in Request : CreateDebt(r) \/ Remove(r) \/ PayDebt(r) \/ Abandon(r)

Spec == Init /\ [][Next]_vars
-----------------------------------------------------------------------------
(* Properties *)

\* A debt is not paid beyond its amount, and says that it is paid exactly when all of
\* it is.
DebtAgrees(debt) ==
    /\ debt.paid_amount <= debt.amount
    /\ debt.status = (IF debt.paid_amount = 0 THEN "pending"
                      ELSE IF debt.paid_amount = debt.amount THEN "paid"
                      ELSE "partial")

\* r writes a payment of debt d that it computed before another one was written.
Overlapping(r, d) ==
    PayDebt(r) /\ task[r].debt = d /\ task[r].from # debts[d].paid_amount

\* Payments that overlap do not break the agreement of amount and status, but they
\* alone may lose what was paid: the paid amount falls behind the payments that were
\* accepted by no other step.
OnlyOverlapsLosePayments ==
    [][\A d \in DOMAIN debts :
          /\ DebtAgrees(debts'[d])
          /\ paid'[d] - debts'[d].paid_amount > paid[d] - debts[d].paid_amount =>
                \E r \in Request : Overlapping(r, d)]_vars
=============================================================================
