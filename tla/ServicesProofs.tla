--------------------------- MODULE ServicesProofs ---------------------------
(***************************************************************************)
(* Proofs about the components of MCServices, for any number of requests,  *)
(* any prices, amounts, formats and bounds.  Each component has its own    *)
(* inductive invariant; none needs what another one keeps.                 *)
(***************************************************************************)
EXTENDS MCServices, SumsProofs, SequenceTheorems
-----------------------------------------------------------------------------
(* The debts to suppliers *)

\* A payment on its way, computed from what was paid of the debt when it was read.
PayTask == [op : {"pay"}, debt : 1..Len(debts), amount : DebtAmount, from : Nat]

DebtTask == {SD!Idle} \cup [op : {"debt"}, supplier : Supplier, amount : DebtAmount]
              \cup [op : {"remove"}, supplier : Supplier, amount : {0}] \cup PayTask

DebtTypes ==
    /\ suppliers \in [Supplier -> {"none", "active", "inactive"}]
    /\ debts \in Seq(SD!Debt) /\ Len(debts) <= MaxDebts
    /\ paid \in Seq(Nat) /\ Len(paid) = Len(debts)
    /\ debtTask \in [Request -> DebtTask]

\* Every debt agrees with itself, and no payment on its way exceeds the debt together
\* with what it found paid: so it agrees whatever has been written in between.
DebtInv ==
    /\ DebtTypes
    /\ \A d \in 1..Len(debts) : SD!DebtAgrees(debts[d])
    /\ \A r \in Request : debtTask[r] \in PayTask =>
          debtTask[r].from + debtTask[r].amount <= debts[debtTask[r].debt].amount

\* The types of the tasks and of the rows, one at a time.
LEMMA DebtTaskTypes ==
  ASSUME DebtTypes, NEW r \in Request
  PROVE  /\ debtTask[r].op = "debt" =>
              debtTask[r].supplier \in Supplier /\ debtTask[r].amount \in DebtAmount
         /\ debtTask[r].op = "pay" => debtTask[r] \in PayTask
         /\ debtTask[r] \in PayTask => /\ debtTask[r].debt \in 1..Len(debts)
                                       /\ debtTask[r].amount \in Nat \ {0}
                                       /\ debtTask[r].from \in Nat
<1>1. PICK t \in DebtTask : t = debtTask[r]
  BY DEF DebtTypes
<1>2. CASE t \in PayTask
  <2>1. /\ t.op = "pay" /\ t.debt \in 1..Len(debts)
        /\ t.amount \in DebtAmount /\ t.from \in Nat
    BY <1>2 DEF PayTask
  <2> QED BY <1>1, <1>2, <2>1, DebtsAssumption
<1>3. CASE t \notin PayTask
  <2>1. t.op # "pay"
    BY <1>3 DEF DebtTask, SD!Idle
  <2>2. t.op = "debt" => t.supplier \in Supplier /\ t.amount \in DebtAmount
    BY <1>3 DEF DebtTask, SD!Idle
  <2> QED BY <1>1, <1>3, <2>1, <2>2
<1> QED BY <1>2, <1>3

\* What a payment leaves of a debt agrees with itself.
LEMMA PaymentAgrees ==
  ASSUME NEW debt \in SD!Debt, NEW from \in Nat, NEW amount \in Nat \ {0},
         from + amount <= debt.amount,
         NEW new, new.amount = debt.amount, new.paid_amount = from + amount,
         new.status = SD!StatusOf(from, amount, debt)
  PROVE  SD!DebtAgrees(new)
<1>1. debt.amount \in Nat
  BY DebtsAssumption DEF SD!Debt
<1> QED BY <1>1 DEF SD!DebtAgrees, SD!StatusOf

\* The tasks of the requests that a step leaves alone stay what they are, as long as
\* no debt goes away.
LEMMA DebtTasksKept ==
  ASSUME DebtTypes, NEW r \in Request, NEW t, debtTask' = [debtTask EXCEPT ![r] = t],
         Len(debts') \in Nat, Len(debts) <= Len(debts'), t \in DebtTask',
         t \in PayTask' => t.from + t.amount <= debts'[t.debt].amount,
         \A d \in 1..Len(debts) : debts'[d].amount = debts[d].amount,
         \A q \in Request : debtTask[q] \in PayTask =>
            debtTask[q].from + debtTask[q].amount <= debts[debtTask[q].debt].amount
  PROVE  /\ debtTask' \in [Request -> DebtTask']
         /\ \A q \in Request : debtTask'[q] \in PayTask' =>
              debtTask'[q].from + debtTask'[q].amount <= debts'[debtTask'[q].debt].amount
<1>1. debtTask \in [Request -> DebtTask] /\ Len(debts) \in Nat
  BY DEF DebtTypes
<1>2. PayTask \subseteq PayTask'
  BY <1>1 DEF PayTask
<1>3. DebtTask \subseteq DebtTask'
  BY <1>2 DEF DebtTask, SD!Idle
<1>4. debtTask' \in [Request -> DebtTask']
  BY <1>1, <1>3
<1>5. ASSUME NEW q \in Request, debtTask'[q] \in PayTask'
      PROVE  debtTask'[q].from + debtTask'[q].amount <= debts'[debtTask'[q].debt].amount
  <2>1. CASE q = r
    BY <1>1, <1>5, <2>1
  <2>2. CASE q # r
    <3>1. debtTask'[q] = debtTask[q]
      BY <1>1, <2>2
    <3>2. debtTask[q].op = "pay"
      BY <1>5, <3>1 DEF PayTask
    <3>3. debtTask[q] \in PayTask /\ debtTask[q].debt \in 1..Len(debts)
      BY <3>2, DebtTaskTypes
    <3> QED BY <3>1, <3>3
  <2> QED BY <2>1, <2>2
<1> QED BY <1>4, <1>5

\* A step that writes nothing but a task.
LEMMA DebtTaskStep ==
  ASSUME DebtInv, NEW r \in Request, NEW t \in DebtTask, debtTask' = [debtTask EXCEPT ![r] = t],
         t \in PayTask => t.from + t.amount <= debts[t.debt].amount,
         UNCHANGED <<debts, paid>>,
         suppliers' \in [Supplier -> {"none", "active", "inactive"}]
  PROVE  DebtInv'
<1>1. Len(debts) \in Nat /\ DebtTypes
  BY DEF DebtInv, DebtTypes
<1>2. PayTask' = PayTask /\ DebtTask' = DebtTask
  BY DEF DebtTask, PayTask, SD!Idle
<1>3. /\ Len(debts') \in Nat /\ Len(debts) <= Len(debts') /\ t \in DebtTask'
      /\ t \in PayTask' => t.from + t.amount <= debts'[t.debt].amount
      /\ \A d \in 1..Len(debts) : debts'[d].amount = debts[d].amount
      /\ \A q \in Request : debtTask[q] \in PayTask =>
            debtTask[q].from + debtTask[q].amount <= debts[debtTask[q].debt].amount
  BY <1>1, <1>2 DEF DebtInv
<1>4. /\ debtTask' \in [Request -> DebtTask']
      /\ \A q \in Request : debtTask'[q] \in PayTask' =>
           debtTask'[q].from + debtTask'[q].amount <= debts'[debtTask'[q].debt].amount
  BY <1>1, <1>3, DebtTasksKept
<1>5. DebtTypes'
  BY <1>1, <1>4 DEF DebtTypes
<1> QED BY <1>4, <1>5 DEF DebtInv

LEMMA CreateDebtInv ==
  ASSUME DebtInv, NEW r \in Request, SD!CreateDebt(r)
  PROVE  DebtInv'
<1>1. /\ DebtTypes /\ debts \in Seq(SD!Debt) /\ Len(debts) \in Nat
      /\ paid \in Seq(Nat) /\ Len(paid) = Len(debts)
  BY DEF DebtInv, DebtTypes
<1>2. debtTask[r].supplier \in Supplier /\ debtTask[r].amount \in DebtAmount
  BY <1>1, DebtTaskTypes DEF SD!CreateDebt
<1> DEFINE new == [supplier |-> debtTask[r].supplier, amount |-> debtTask[r].amount,
                   paid_amount |-> 0, status |-> "pending"]
<1>3. new \in SD!Debt /\ SD!DebtAgrees(new)
  <2>1. new.amount \in Nat /\ new.paid_amount = 0 /\ new.status = "pending"
    BY <1>2, DebtsAssumption
  <2>2. new \in SD!Debt
    BY <1>2 DEF SD!Debt
  <2> HIDE DEF new
  <2> QED BY <2>1, <2>2 DEF SD!DebtAgrees
<1>4. debts' = Append(debts, new) /\ paid' = Append(paid, 0) /\ Len(debts) < MaxDebts
  BY DEF SD!CreateDebt
<1> HIDE DEF new
<1>5. /\ debts' \in Seq(SD!Debt) /\ Len(debts') = Len(debts) + 1
      /\ \A d \in 1..Len(debts) : debts'[d] = debts[d]
      /\ debts'[Len(debts) + 1] = new
  BY <1>1, <1>3, <1>4
<1>6. paid' \in Seq(Nat) /\ Len(paid') = Len(debts')
  BY <1>1, <1>4, <1>5
<1>7. debtTask' = [debtTask EXCEPT ![r] = SD!Idle] /\ SD!Idle \in DebtTask' /\ SD!Idle \notin PayTask'
  BY DEF SD!CreateDebt, SD!Does, DebtTask, PayTask, SD!Idle
<1>8. /\ debtTask' \in [Request -> DebtTask']
      /\ \A q \in Request : debtTask'[q] \in PayTask' =>
           debtTask'[q].from + debtTask'[q].amount <= debts'[debtTask'[q].debt].amount
  <2>1. /\ Len(debts') \in Nat /\ Len(debts) <= Len(debts')
        /\ \A d \in 1..Len(debts) : debts'[d].amount = debts[d].amount
        /\ \A q \in Request : debtTask[q] \in PayTask =>
              debtTask[q].from + debtTask[q].amount <= debts[debtTask[q].debt].amount
    BY <1>1, <1>5 DEF DebtInv
  <2> QED BY <1>1, <1>7, <2>1, DebtTasksKept
<1>9. suppliers' \in [Supplier -> {"none", "active", "inactive"}]
  BY DEF DebtInv, DebtTypes, SD!CreateDebt
<1>10. DebtTypes'
  BY <1>1, <1>4, <1>5, <1>6, <1>8, <1>9, DebtsAssumption DEF DebtTypes
<1>11. \A d \in 1..Len(debts') : SD!DebtAgrees(debts'[d])
  BY <1>1, <1>3, <1>5 DEF DebtInv
<1> QED BY <1>8, <1>10, <1>11 DEF DebtInv

DebtRow(s, a, p, status) ==
    [supplier |-> s, amount |-> a, paid_amount |-> p, status |-> status]

\* What PayDebt writes.
LEMMA PayDebtWrites ==
  ASSUME DebtInv, NEW r \in Request, SD!PayDebt(r)
  PROVE  \E e \in 1..Len(debts), new \in SD!Debt :
            /\ e = debtTask[r].debt /\ SD!DebtAgrees(new)
            /\ new.amount = debts[e].amount
            /\ new.paid_amount = debtTask[r].from + debtTask[r].amount
            /\ debts' = [debts EXCEPT ![e] = new]
            /\ paid' = [paid EXCEPT ![e] = paid[e] + debtTask[r].amount]
            /\ debtTask[r].amount \in Nat \ {0} /\ debtTask[r].from \in Nat
<1> DEFINE e == debtTask[r].debt
           from == debtTask[r].from
           amount == debtTask[r].amount
<1>1. DebtTypes /\ debts \in Seq(SD!Debt) /\ paid \in Seq(Nat) /\ Len(paid) = Len(debts)
  BY DEF DebtInv, DebtTypes
<1>2. /\ debtTask[r] \in PayTask /\ e \in 1..Len(debts)
      /\ amount \in Nat \ {0} /\ from \in Nat
  BY <1>1, DebtTaskTypes DEF SD!PayDebt
<1>3. from + amount <= debts[e].amount
  BY <1>2 DEF DebtInv
<1>4. PICK old \in SD!Debt : old = debts[e]
  BY <1>1, <1>2
<1> DEFINE new == DebtRow(old.supplier, old.amount, from + amount,
                          SD!StatusOf(from, amount, old))
<1>5. debts' = [debts EXCEPT ![e].paid_amount = from + amount,
                             ![e].status = SD!StatusOf(from, amount, debts[e])]
  BY DEF SD!PayDebt
<1>6. paid' = [paid EXCEPT ![e] = paid[e] + amount]
  BY DEF SD!PayDebt
<1> HIDE DEF e, from, amount
<1>7. SD!StatusOf(from, amount, old) \in {"pending", "partial", "paid"}
  BY DEF SD!StatusOf
<1>8. /\ new \in SD!Debt
      /\ new.amount = old.amount /\ new.paid_amount = from + amount
      /\ new.status = SD!StatusOf(from, amount, old)
  <2>1. old.supplier \in Supplier /\ old.amount \in DebtAmount
    BY DEF SD!Debt
  <2>2. from + amount \in Nat
    BY <1>2
  <2>3. new \in SD!Debt
    BY <1>7, <2>1, <2>2 DEF SD!Debt, DebtRow
  <2> QED BY <2>3 DEF DebtRow
<1>9. debts' = [debts EXCEPT ![e] = new]
  <2>1. [old EXCEPT !.paid_amount = from + amount,
                    !.status = SD!StatusOf(from, amount, old)] = new
    <3> DEFINE s == old.supplier
               a == old.amount
               p == old.paid_amount
               st == old.status
               q == from + amount
               su == SD!StatusOf(from, amount, old)
    <3>1. old = DebtRow(s, a, p, st)
      BY DEF SD!Debt, DebtRow
    <3> HIDE DEF s, a, p, st, q, su
    <3>2. PICK x : x = DebtRow(s, a, q, st)
      OBVIOUS
    <3>3. [DebtRow(s, a, p, st) EXCEPT !.paid_amount = q] = x
      BY <3>2 DEF DebtRow
    <3>4. [x EXCEPT !.status = su] = DebtRow(s, a, q, su)
      BY <3>2 DEF DebtRow
    <3>5. [old EXCEPT !.paid_amount = q, !.status = su] = DebtRow(s, a, q, su)
      BY <3>1, <3>3, <3>4, Zenon
    <3> QED BY <3>5 DEF s, a, q, su
  <2> HIDE DEF new
  <2> QED BY <1>1, <1>2, <1>4, <1>5, <2>1
<1> HIDE DEF new
<1>10. SD!DebtAgrees(new)
  BY <1>2, <1>3, <1>4, <1>8, PaymentAgrees
<1> QED BY <1>2, <1>4, <1>6, <1>8, <1>9, <1>10 DEF e, from, amount

LEMMA PayDebtInv ==
  ASSUME DebtInv, NEW r \in Request, SD!PayDebt(r)
  PROVE  DebtInv'
<1>1. /\ DebtTypes /\ debts \in Seq(SD!Debt) /\ Len(debts) \in Nat
      /\ paid \in Seq(Nat) /\ Len(paid) = Len(debts)
  BY DEF DebtInv, DebtTypes
<1>2. PICK e \in 1..Len(debts), new \in SD!Debt :
            /\ SD!DebtAgrees(new) /\ new.amount = debts[e].amount
            /\ debts' = [debts EXCEPT ![e] = new]
            /\ paid' = [paid EXCEPT ![e] = paid[e] + debtTask[r].amount]
            /\ debtTask[r].amount \in Nat
  BY PayDebtWrites
<1>3. /\ debts' \in Seq(SD!Debt) /\ Len(debts') = Len(debts)
      /\ \A d \in 1..Len(debts) : debts'[d] = IF d = e THEN new ELSE debts[d]
  BY <1>1, <1>2
<1>4. paid[e] + debtTask[r].amount \in Nat
  BY <1>1, <1>2
<1>5. paid' \in Seq(Nat) /\ Len(paid') = Len(debts')
  BY <1>1, <1>2, <1>3, <1>4
<1>6. debtTask' = [debtTask EXCEPT ![r] = SD!Idle] /\ SD!Idle \in DebtTask' /\ SD!Idle \notin PayTask'
  BY DEF SD!PayDebt, SD!Does, DebtTask, PayTask, SD!Idle
<1>7. /\ debtTask' \in [Request -> DebtTask']
      /\ \A q \in Request : debtTask'[q] \in PayTask' =>
           debtTask'[q].from + debtTask'[q].amount <= debts'[debtTask'[q].debt].amount
  <2>1. /\ Len(debts') \in Nat /\ Len(debts) <= Len(debts')
        /\ \A d \in 1..Len(debts) : debts'[d].amount = debts[d].amount
        /\ \A q \in Request : debtTask[q] \in PayTask =>
              debtTask[q].from + debtTask[q].amount <= debts[debtTask[q].debt].amount
    BY <1>1, <1>2, <1>3 DEF DebtInv
  <2> QED BY <1>1, <1>6, <2>1, DebtTasksKept
<1>8. suppliers' \in [Supplier -> {"none", "active", "inactive"}]
  BY DEF DebtInv, DebtTypes, SD!PayDebt
<1>9. DebtTypes'
  BY <1>1, <1>3, <1>5, <1>7, <1>8, DebtsAssumption DEF DebtTypes
<1>10. \A d \in 1..Len(debts') : SD!DebtAgrees(debts'[d])
  BY <1>2, <1>3 DEF DebtInv
<1> QED BY <1>7, <1>9, <1>10 DEF DebtInv

\* The steps that write no debt.
LEMMA OtherDebtStepsInv ==
  ASSUME DebtInv,
         \/ \E s \in Supplier : SD!Create(s)
         \/ \E r \in Request, s \in Supplier :
               \/ \E amount \in DebtAmount : SD!FindOne(r, "debt", s, amount)
               \/ SD!FindOne(r, "remove", s, 0)
         \/ \E r \in Request, d \in DOMAIN debts, amount \in DebtAmount : SD!LoadDebt(r, d, amount)
         \/ \E r \in Request : SD!Remove(r) \/ SD!Abandon(r)
  PROVE  DebtInv' /\ UNCHANGED <<debts, paid>>
<1>1. DebtTypes /\ debts \in Seq(SD!Debt) /\ DOMAIN debts = 1..Len(debts) /\ Len(debts) \in Nat
  BY DEF DebtInv, DebtTypes
<1>2. SD!Idle \in DebtTask /\ SD!Idle \notin PayTask
  BY DEF DebtTask, PayTask, SD!Idle
<1>3. ASSUME NEW s \in Supplier, SD!Create(s)
      PROVE  DebtInv' /\ UNCHANGED <<debts, paid>>
  <2>1. suppliers' \in [Supplier -> {"none", "active", "inactive"}]
    BY <1>1, <1>3 DEF SD!Create, DebtTypes
  <2>2. UNCHANGED <<debts, paid, debtTask>>
    BY <1>3 DEF SD!Create
  <2>3. PayTask' = PayTask /\ DebtTask' = DebtTask
    BY <2>2 DEF DebtTask, PayTask, SD!Idle
  <2>4. DebtTypes'
    BY <1>1, <2>1, <2>2, <2>3 DEF DebtTypes
  <2> QED BY <2>2, <2>3, <2>4 DEF DebtInv
<1>4. ASSUME NEW r \in Request, NEW s \in Supplier, NEW amount \in DebtAmount,
             SD!FindOne(r, "debt", s, amount)
      PROVE  DebtInv' /\ UNCHANGED <<debts, paid>>
  <2> DEFINE t == [op |-> "debt", supplier |-> s, amount |-> amount]
  <2>1. t \in DebtTask /\ t \notin PayTask
    BY DEF DebtTask, PayTask
  <2>2. /\ debtTask' = [debtTask EXCEPT ![r] = t] /\ UNCHANGED <<debts, paid>>
        /\ suppliers' \in [Supplier -> {"none", "active", "inactive"}]
    BY <1>1, <1>4 DEF SD!FindOne, SD!Does, DebtTypes
  <2> HIDE DEF t
  <2> QED BY <2>1, <2>2, DebtTaskStep
<1>5. ASSUME NEW r \in Request, NEW s \in Supplier, SD!FindOne(r, "remove", s, 0)
      PROVE  DebtInv' /\ UNCHANGED <<debts, paid>>
  <2> DEFINE t == [op |-> "remove", supplier |-> s, amount |-> 0]
  <2>1. t \in DebtTask /\ t \notin PayTask
    BY DEF DebtTask, PayTask
  <2>2. /\ debtTask' = [debtTask EXCEPT ![r] = t] /\ UNCHANGED <<debts, paid>>
        /\ suppliers' \in [Supplier -> {"none", "active", "inactive"}]
    BY <1>1, <1>5 DEF SD!FindOne, SD!Does, DebtTypes
  <2> HIDE DEF t
  <2> QED BY <2>1, <2>2, DebtTaskStep
<1>6. ASSUME NEW r \in Request, NEW d \in DOMAIN debts, NEW amount \in DebtAmount,
             SD!LoadDebt(r, d, amount)
      PROVE  DebtInv' /\ UNCHANGED <<debts, paid>>
  <2> DEFINE t == [op |-> "pay", debt |-> d, amount |-> amount, from |-> debts[d].paid_amount]
  <2>1. debts[d].paid_amount \in Nat
    <3>1. PICK debt \in SD!Debt : debt = debts[d]
      BY <1>1
    <3> QED BY <3>1 DEF SD!Debt
  <2>2. t \in PayTask
    BY <1>1, <2>1 DEF PayTask
  <2>3. t.from + t.amount <= debts[t.debt].amount
    BY <1>6 DEF SD!LoadDebt, SD!Fits
  <2>4. /\ debtTask' = [debtTask EXCEPT ![r] = t] /\ UNCHANGED <<debts, paid>>
        /\ suppliers' \in [Supplier -> {"none", "active", "inactive"}]
    BY <1>1, <1>6 DEF SD!LoadDebt, SD!Does, DebtTypes
  <2> HIDE DEF t
  <2>5. t \in DebtTask
    BY <2>2 DEF DebtTask
  <2> QED BY <2>3, <2>4, <2>5, DebtTaskStep
<1>7. ASSUME NEW r \in Request, SD!Remove(r) \/ SD!Abandon(r)
      PROVE  DebtInv' /\ UNCHANGED <<debts, paid>>
  <2>1. /\ debtTask' = [debtTask EXCEPT ![r] = SD!Idle] /\ UNCHANGED <<debts, paid>>
        /\ suppliers' \in [Supplier -> {"none", "active", "inactive"}]
    BY <1>1, <1>7 DEF SD!Remove, SD!Abandon, SD!Does, DebtTypes
  <2> QED BY <1>2, <2>1, DebtTaskStep
<1> QED BY <1>3, <1>4, <1>5, <1>6, <1>7

\* A step of the debts keeps the invariant, leaves every debt in agreement with itself,
\* and puts payments and debt further apart only by a payment that overlapped another.
LEMMA DebtNextInv ==
  ASSUME DebtInv, SD!Next
  PROVE  /\ DebtInv'
         /\ \A d \in DOMAIN debts :
               /\ SD!DebtAgrees(debts'[d])
               /\ paid'[d] - debts'[d].paid_amount > paid[d] - debts[d].paid_amount =>
                     \E r \in Request : SD!Overlapping(r, d)
<1>1. /\ DebtTypes /\ debts \in Seq(SD!Debt) /\ DOMAIN debts = 1..Len(debts) /\ Len(debts) \in Nat
      /\ paid \in Seq(Nat) /\ Len(paid) = Len(debts)
      /\ \A d \in 1..Len(debts) : SD!DebtAgrees(debts[d])
  BY DEF DebtInv, DebtTypes
<1>2. \A d \in DOMAIN debts : paid[d] \in Nat /\ debts[d].paid_amount \in Nat
  <2> SUFFICES ASSUME NEW d \in DOMAIN debts PROVE debts[d].paid_amount \in Nat
    BY <1>1
  <2>1. PICK debt \in SD!Debt : debt = debts[d]
    BY <1>1
  <2> QED BY <2>1 DEF SD!Debt
<1>3. CASE \/ \E s \in Supplier : SD!Create(s)
           \/ \E r \in Request, s \in Supplier :
                 \/ \E amount \in DebtAmount : SD!FindOne(r, "debt", s, amount)
                 \/ SD!FindOne(r, "remove", s, 0)
           \/ \E r \in Request, d \in DOMAIN debts, amount \in DebtAmount : SD!LoadDebt(r, d, amount)
           \/ \E r \in Request : SD!Remove(r) \/ SD!Abandon(r)
  <2>1. DebtInv' /\ debts' = debts /\ paid' = paid
    BY <1>3, OtherDebtStepsInv
  <2> QED BY <1>1, <1>2, <2>1
<1>4. ASSUME NEW r \in Request, SD!CreateDebt(r)
      PROVE  /\ DebtInv'
             /\ \A d \in DOMAIN debts :
                   SD!DebtAgrees(debts'[d]) /\ debts'[d] = debts[d] /\ paid'[d] = paid[d]
  <2>1. DebtInv'
    BY <1>4, CreateDebtInv
  <2>2. PICK new : debts' = Append(debts, new) /\ paid' = Append(paid, 0)
    BY <1>4 DEF SD!CreateDebt
  <2> QED BY <1>1, <2>1, <2>2
<1>5. ASSUME NEW r \in Request, SD!PayDebt(r), NEW d \in DOMAIN debts
      PROVE  /\ DebtInv' /\ SD!DebtAgrees(debts'[d])
             /\ paid'[d] - debts'[d].paid_amount > paid[d] - debts[d].paid_amount =>
                   SD!Overlapping(r, d)
  <2>1. PICK e \in 1..Len(debts), new \in SD!Debt :
            /\ e = debtTask[r].debt /\ SD!DebtAgrees(new)
            /\ new.paid_amount = debtTask[r].from + debtTask[r].amount
            /\ debts' = [debts EXCEPT ![e] = new]
            /\ paid' = [paid EXCEPT ![e] = paid[e] + debtTask[r].amount]
            /\ debtTask[r].amount \in Nat \ {0} /\ debtTask[r].from \in Nat
    BY <1>5, PayDebtWrites
  <2>2. DebtInv'
    BY <1>5, PayDebtInv
  <2>3. CASE d # e
    <3>1. debts'[d] = debts[d] /\ paid'[d] = paid[d]
      BY <1>1, <2>1, <2>3
    <3> QED BY <1>1, <1>2, <2>2, <3>1
  <2>4. CASE d = e
    <3>1. debts'[d] = new /\ paid'[d] = paid[d] + debtTask[r].amount
      BY <1>1, <2>1, <2>4
    <3>2. paid'[d] - debts'[d].paid_amount > paid[d] - debts[d].paid_amount =>
             debtTask[r].from # debts[d].paid_amount
      BY <1>2, <2>1, <3>1
    <3> QED BY <1>5, <2>1, <2>2, <2>4, <3>1, <3>2 DEF SD!Overlapping
  <2> QED BY <2>3, <2>4
<1>6. ASSUME NEW r \in Request, SD!PayDebt(r) PROVE DebtInv'
  BY <1>6, PayDebtInv
<1>7. \/ \E r \in Request : SD!CreateDebt(r) \/ SD!PayDebt(r)
      \/ \E s \in Supplier : SD!Create(s)
      \/ \E r \in Request, s \in Supplier :
            \/ \E amount \in DebtAmount : SD!FindOne(r, "debt", s, amount)
            \/ SD!FindOne(r, "remove", s, 0)
      \/ \E r \in Request, d \in DOMAIN debts, amount \in DebtAmount : SD!LoadDebt(r, d, amount)
      \/ \E r \in Request : SD!Remove(r) \/ SD!Abandon(r)
  BY DEF SD!Next
<1>8. CASE \E r \in Request : SD!CreateDebt(r)
  BY <1>1, <1>2, <1>4, <1>8
<1>9. CASE \E r \in Request : SD!PayDebt(r)
  BY <1>5, <1>6, <1>9
<1> QED BY <1>3, <1>7, <1>8, <1>9

LEMMA DebtStutter ==
  ASSUME DebtInv, UNCHANGED debtVars
  PROVE  DebtInv'
<1>1. UNCHANGED <<suppliers, debts, paid, debtTask>>
  BY DEF debtVars
<1>2. DebtTask' = DebtTask /\ PayTask' = PayTask
  BY <1>1 DEF DebtTask, PayTask, SD!Idle
<1> QED BY <1>1, <1>2 DEF DebtInv, DebtTypes

LEMMA DebtInitInv ==
  ASSUME SD!Init
  PROVE  DebtInv
<1>1. debts = << >> /\ paid = << >> /\ Len(debts) = 0 /\ debtTask = [r \in Request |-> SD!Idle]
  BY DEF SD!Init
<1>2. debts \in Seq(SD!Debt) /\ paid \in Seq(Nat)
  BY <1>1
<1>3. SD!Idle \in DebtTask /\ SD!Idle \notin PayTask
  BY DEF DebtTask, PayTask, SD!Idle
<1>4. \A r \in Request : debtTask[r] \notin PayTask
  BY <1>1, <1>3
<1>5. DebtTypes
  BY <1>1, <1>2, <1>3, DebtsAssumption DEF SD!Init, DebtTypes
<1> QED BY <1>1, <1>4, <1>5 DEF DebtInv

LEMMA DebtTypeOK ==
  ASSUME DebtInv
  PROVE  SD!TypeOK
<1>1. /\ suppliers \in [Supplier -> {"none", "active", "inactive"}]
      /\ debts \in Seq(SD!Debt) /\ Len(debts) <= MaxDebts
  BY DEF DebtInv, DebtTypes
<1>2. paid \in [DOMAIN debts -> Nat]
  BY DEF DebtInv, DebtTypes
<1>3. ASSUME NEW r \in Request PROVE debtTask[r].op \in {"none", "debt", "remove", "pay"}
  <2>1. PICK t \in DebtTask : t = debtTask[r]
    BY DEF DebtInv, DebtTypes
  <2> QED BY <2>1 DEF DebtTask, PayTask, SD!Idle
<1> QED BY <1>1, <1>2, <1>3 DEF SD!TypeOK
-----------------------------------------------------------------------------
(* The cache of the dashboard *)

Counted == 0..MaxCounted

CountTask == [op : {"count"}, by : DC!Viewer, orders : Counted, during : BOOLEAN]
SumTask == [op : {"sum"}, by : DC!Viewer, orders : Counted, pending : Counted, during : BOOLEAN]
StoreTask == [op : {"store"}, by : DC!Viewer, during : BOOLEAN, result : DC!Figures]
DropTask == [op : {"drop"}, by : DC!Viewer]
LookTask == {DC!Idle} \cup CountTask \cup SumTask \cup StoreTask \cup DropTask

FigureTypes ==
    /\ figures \in DC!Figures
    /\ cache \in [DC!Viewer -> SUBSET DC!Figures]
    /\ excuse \in [DC!Viewer -> BOOLEAN]
    /\ lookTask \in [Request -> LookTask]

\* What a request has computed so far is still so, or it knows of a write since.
Fresh(t) ==
    /\ t \in CountTask /\ ~t.during => t.orders = figures.orders
    /\ t \in SumTask /\ ~t.during => t.orders = figures.orders /\ t.pending = figures.pending
    /\ t \in StoreTask /\ ~t.during => t.result = figures

\* A request that computes figures while nothing is written stores what is in the
\* database: no copy is out of date from the start without an excuse.
FigureInv ==
    /\ FigureTypes
    /\ \A r \in Request : Fresh(lookTask[r])
    /\ DC!OnlyTheseShowOld

LEMMA LookTaskTypes ==
  ASSUME NEW t \in LookTask
  PROVE  /\ t.op = "count" => t \in CountTask
         /\ t.op = "sum" => t \in SumTask
         /\ t.op = "store" => t \in StoreTask
         /\ t.op = "drop" => t \in DropTask
         /\ t \in CountTask => /\ t.op = "count" /\ t.by \in DC!Viewer /\ t.orders \in Counted
                               /\ t.during \in BOOLEAN
         /\ t \in SumTask => /\ t.op = "sum" /\ t.by \in DC!Viewer /\ t.orders \in Counted
                             /\ t.pending \in Counted /\ t.during \in BOOLEAN
         /\ t \in StoreTask => /\ t.op = "store" /\ t.by \in DC!Viewer
                               /\ t.result \in DC!Figures /\ t.during \in BOOLEAN
         /\ t \in DropTask => t.op = "drop" /\ t.by \in DC!Viewer
<1>1. DC!Idle.op = "none"
  BY DEF DC!Idle
<1>2. t \in CountTask => /\ t.op = "count" /\ t.by \in DC!Viewer /\ t.orders \in Counted
                         /\ t.during \in BOOLEAN
  BY DEF CountTask
<1>3. t \in SumTask => /\ t.op = "sum" /\ t.by \in DC!Viewer /\ t.orders \in Counted
                       /\ t.pending \in Counted /\ t.during \in BOOLEAN
  BY DEF SumTask
<1>4. t \in StoreTask => /\ t.op = "store" /\ t.by \in DC!Viewer
                         /\ t.result \in DC!Figures /\ t.during \in BOOLEAN
  BY DEF StoreTask
<1>5. t \in DropTask => t.op = "drop" /\ t.by \in DC!Viewer
  BY DEF DropTask
<1>6. t = DC!Idle \/ t \in CountTask \/ t \in SumTask \/ t \in StoreTask \/ t \in DropTask
  BY DEF LookTask
<1> QED BY <1>1, <1>2, <1>3, <1>4, <1>5, <1>6

\* A task that learns of a write: it stays what it is otherwise.
Warned(t) == IF t.op \in {"count", "sum", "store"} THEN [t EXCEPT !.during = TRUE] ELSE t

LEMMA WarnedTypes ==
  ASSUME NEW t \in LookTask
  PROVE  /\ Warned(t) \in LookTask
         /\ Warned(t) \in CountTask \cup SumTask \cup StoreTask => Warned(t).during
         /\ Warned(t).op = t.op /\ (t.op = "drop" => Warned(t) = t)
<1>1. PICK u : u = Warned(t)
  OBVIOUS
<1>2. CASE t.op = "count"
  <2>1. u = [t EXCEPT !.during = TRUE] /\ t \in CountTask
    BY <1>1, <1>2, LookTaskTypes DEF Warned
  <2>2. u \in CountTask /\ u.during = TRUE /\ u.op = t.op
    BY <2>1 DEF CountTask
  <2> QED BY <1>1, <1>2, <2>2, LookTaskTypes DEF LookTask
<1>3. CASE t.op = "sum"
  <2>1. u = [t EXCEPT !.during = TRUE] /\ t \in SumTask
    BY <1>1, <1>3, LookTaskTypes DEF Warned
  <2>2. u \in SumTask /\ u.during = TRUE /\ u.op = t.op
    BY <2>1 DEF SumTask
  <2> QED BY <1>1, <1>3, <2>2, LookTaskTypes DEF LookTask
<1>4. CASE t.op = "store"
  <2>1. u = [t EXCEPT !.during = TRUE] /\ t \in StoreTask
    BY <1>1, <1>4, LookTaskTypes DEF Warned
  <2>2. u \in StoreTask /\ u.during = TRUE /\ u.op = t.op
    BY <2>1 DEF StoreTask
  <2> QED BY <1>1, <1>4, <2>2, LookTaskTypes DEF LookTask
<1>5. CASE t.op \notin {"count", "sum", "store"}
  <2>1. u = t
    BY <1>1, <1>5 DEF Warned
  <2> QED BY <1>1, <1>5, <2>1, LookTaskTypes
<1> QED BY <1>2, <1>3, <1>4, <1>5

\* A step that writes nothing but one task, from no drop to no drop.
LEMMA LookTaskStep ==
  ASSUME FigureInv, NEW r \in Request, NEW t \in LookTask, Fresh(t),
         lookTask' = [lookTask EXCEPT ![r] = t], lookTask[r].op # "drop",
         UNCHANGED <<figures, cache, excuse>>
  PROVE  FigureInv'
<1>1. FigureTypes /\ lookTask' \in [Request -> LookTask]
  BY DEF FigureInv, FigureTypes
<1>2. ASSUME NEW q \in Request
      PROVE  /\ Fresh(lookTask'[q])
             /\ q # r => lookTask'[q] = lookTask[q]
  BY <1>1, <1>2 DEF FigureTypes, FigureInv
<1>3. \A q \in Request : Fresh(lookTask[q])'
  BY <1>2 DEF Fresh
<1>4. DC!OnlyTheseShowOld'
  <2> SUFFICES ASSUME NEW w \in DC!Viewer, cache[w] \notin {{}, {figures}}, ~excuse[w]
               PROVE  \E q \in Request : lookTask'[q].op = "drop" /\ lookTask'[q].by = w
    BY DEF DC!OnlyTheseShowOld, DC!Viewer
  <2>1. PICK q \in Request : lookTask[q].op = "drop" /\ lookTask[q].by = w
    BY DEF FigureInv, DC!OnlyTheseShowOld
  <2> QED BY <1>2, <2>1
<1>5. FigureTypes'
  BY <1>1 DEF FigureTypes
<1> QED BY <1>3, <1>4, <1>5 DEF FigureInv

LEMMA LooksInv ==
  ASSUME FigureInv, NEW r \in Request,
         (\E w \in DC!Viewer : DC!Look(r, w)) \/ DC!CountPending(r) \/ DC!SumPaid(r)
  PROVE  FigureInv'
<1>1. PICK o : o = lookTask[r]
  OBVIOUS
<1>2. PICK f : f = figures
  OBVIOUS
<1>3. /\ f \in DC!Figures /\ f.orders \in Counted /\ f.pending \in Counted /\ f.paid \in Counted
      /\ o \in LookTask /\ Fresh(o) /\ f = [orders |-> f.orders, pending |-> f.pending, paid |-> f.paid]
  BY <1>1, <1>2 DEF FigureInv, FigureTypes, DC!Figures, Counted
<1>4. ASSUME NEW w \in DC!Viewer, DC!Look(r, w) PROVE FigureInv'
  <2>1. PICK t : t = [op |-> "count", by |-> w, orders |-> f.orders, during |-> FALSE]
    OBVIOUS
  <2>2. t \in CountTask /\ t.op = "count" /\ t.orders = f.orders
    BY <1>3, <2>1 DEF CountTask
  <2>3. t \in LookTask
    BY <2>2 DEF LookTask
  <2>4. Fresh(t)
    BY <1>2, <2>2, <2>3, LookTaskTypes DEF Fresh
  <2>5. lookTask' = [lookTask EXCEPT ![r] = t] /\ o = DC!Idle /\ UNCHANGED <<figures, cache, excuse>>
    BY <1>1, <1>2, <1>4, <2>1 DEF DC!Look, DC!Does
  <2>6. o.op # "drop"
    BY <2>5 DEF DC!Idle
  <2> QED BY <1>1, <2>3, <2>4, <2>5, <2>6, LookTaskStep
<1>5. ASSUME DC!CountPending(r) PROVE FigureInv'
  <2>1. o.op = "count" /\ o \in CountTask
    BY <1>1, <1>3, <1>5, LookTaskTypes DEF DC!CountPending
  <2>2. PICK t : t = [op |-> "sum", by |-> o.by, orders |-> o.orders, pending |-> f.pending,
                      during |-> o.during]
    OBVIOUS
  <2>3. /\ t \in SumTask /\ t.op = "sum" /\ t.during = o.during
        /\ t.orders = o.orders /\ t.pending = f.pending
    BY <1>3, <2>1, <2>2, LookTaskTypes DEF SumTask
  <2>4. t \in LookTask
    BY <2>3 DEF LookTask
  <2>5. Fresh(t)
    BY <1>2, <1>3, <2>1, <2>3, <2>4, LookTaskTypes DEF Fresh
  <2>6. lookTask' = [lookTask EXCEPT ![r] = t] /\ UNCHANGED <<figures, cache, excuse>>
    BY <1>1, <1>2, <1>5, <2>2 DEF DC!CountPending, DC!Does
  <2> QED BY <1>1, <2>1, <2>4, <2>5, <2>6, LookTaskStep
<1>6. ASSUME DC!SumPaid(r) PROVE FigureInv'
  <2>1. o.op = "sum" /\ o \in SumTask
    BY <1>1, <1>3, <1>6, LookTaskTypes DEF DC!SumPaid
  <2>2. PICK x : x = [orders |-> o.orders, pending |-> o.pending, paid |-> f.paid]
    OBVIOUS
  <2>3. x \in DC!Figures
    BY <1>3, <2>1, <2>2, LookTaskTypes DEF DC!Figures, Counted
  <2>4. PICK t : t = [op |-> "store", by |-> o.by, during |-> o.during, result |-> x]
    OBVIOUS
  <2>5. t \in StoreTask /\ t.op = "store" /\ t.during = o.during /\ t.result = x
    BY <2>1, <2>3, <2>4, LookTaskTypes, <1>3 DEF StoreTask
  <2>6. t \in LookTask
    BY <2>5 DEF LookTask
  <2>7. ~o.during => o.orders = f.orders /\ o.pending = f.pending
    BY <1>2, <1>3, <2>1 DEF Fresh
  <2>8. Fresh(t)
    BY <1>2, <1>3, <2>2, <2>5, <2>6, <2>7, LookTaskTypes DEF Fresh
  <2>9. lookTask' = [lookTask EXCEPT ![r] = t] /\ UNCHANGED <<figures, cache, excuse>>
    BY <1>1, <1>2, <1>6, <2>2, <2>4 DEF DC!SumPaid, DC!Does
  <2> QED BY <1>1, <2>1, <2>6, <2>8, <2>9, LookTaskStep
<1> QED BY <1>4, <1>5, <1>6

LEMMA StoreInv ==
  ASSUME FigureInv, NEW r \in Request, DC!Store(r)
  PROVE  FigureInv'
<1>1. PICK o : o = lookTask[r]
  OBVIOUS
<1>2. FigureTypes /\ o \in LookTask /\ Fresh(o)
  BY <1>1 DEF FigureInv, FigureTypes
<1>3. /\ o.op = "store" /\ o \in StoreTask /\ o.by \in DC!Viewer
      /\ o.result \in DC!Figures /\ o.during \in BOOLEAN
  BY <1>1, <1>2, LookTaskTypes DEF DC!Store
<1>4. /\ cache' = [cache EXCEPT ![o.by] = {o.result}]
      /\ excuse' = [excuse EXCEPT ![o.by] = o.during]
      /\ lookTask' = [lookTask EXCEPT ![r] = DC!Idle]
      /\ figures' = figures
  BY <1>1 DEF DC!Store, DC!Does
<1>5. DC!Idle \in LookTask /\ Fresh(DC!Idle)
  BY LookTaskTypes DEF LookTask, Fresh, DC!Idle
<1>6. FigureTypes'
  BY <1>2, <1>3, <1>4, <1>5 DEF FigureTypes
<1>7. \A q \in Request : Fresh(lookTask'[q]) /\ (q # r => lookTask'[q] = lookTask[q])
  BY <1>2, <1>4, <1>5 DEF FigureTypes, FigureInv
<1>8. \A q \in Request : Fresh(lookTask[q])'
  BY <1>4, <1>7 DEF Fresh
<1>9. DC!OnlyTheseShowOld'
  <2> SUFFICES ASSUME NEW w \in DC!Viewer, cache'[w] \notin {{}, {figures}}, ~excuse'[w]
               PROVE  \E q \in Request : lookTask'[q].op = "drop" /\ lookTask'[q].by = w
    BY <1>4 DEF DC!OnlyTheseShowOld, DC!Viewer
  <2>1. w # o.by
    BY <1>2, <1>3, <1>4 DEF Fresh, FigureTypes
  <2>2. cache'[w] = cache[w] /\ excuse'[w] = excuse[w]
    BY <1>2, <1>4, <2>1 DEF FigureTypes
  <2>3. PICK q \in Request : lookTask[q].op = "drop" /\ lookTask[q].by = w
    BY <2>2 DEF FigureInv, DC!OnlyTheseShowOld
  <2>4. q # r
    BY <1>1, <1>3, <2>3
  <2> QED BY <1>7, <2>3, <2>4
<1> QED BY <1>6, <1>8, <1>9 DEF FigureInv

\* What a write of figures does to the tasks.
LEMMA OverlapTypes ==
  ASSUME FigureTypes, NEW warned, warned = DC!Overlap(lookTask)
  PROVE  /\ warned \in [Request -> LookTask]
         /\ \A q \in Request :
               /\ warned[q].op = lookTask[q].op
               /\ warned[q].op = "drop" => warned[q] = lookTask[q]
               /\ warned[q] \in CountTask \cup SumTask \cup StoreTask => warned[q].during
<1>1. warned = [q \in Request |-> Warned(lookTask[q])]
  BY DEF DC!Overlap, Warned
<1>2. ASSUME NEW q \in Request
      PROVE  /\ warned[q] \in LookTask /\ warned[q].op = lookTask[q].op
             /\ warned[q].op = "drop" => warned[q] = lookTask[q]
             /\ warned[q] \in CountTask \cup SumTask \cup StoreTask => warned[q].during
  <2>1. PICK t \in LookTask : t = lookTask[q]
    BY DEF FigureTypes
  <2>2. warned[q] = Warned(t)
    BY <1>1, <2>1
  <2> QED BY <2>1, <2>2, WarnedTypes
<1>3. warned \in [Request -> LookTask]
  <2>1. \A q \in Request : Warned(lookTask[q]) \in LookTask
    BY <1>1, <1>2
  <2> QED BY <1>1, <2>1
<1> QED BY <1>2, <1>3

LEMMA SilentlyInv ==
  ASSUME FigureInv, NEW new, DC!Silently(new)
  PROVE  FigureInv'
<1>1. FigureTypes
  BY DEF FigureInv
<1>2. /\ figures' = new /\ new \in DC!Figures
      /\ excuse' = [w \in DC!Viewer |-> cache[w] # {}]
      /\ lookTask' = DC!Overlap(lookTask) /\ cache' = cache
  BY DEF DC!Silently
<1>3. PICK warned : warned = lookTask'
  OBVIOUS
<1>4. /\ warned \in [Request -> LookTask]
      /\ \A q \in Request :
            warned[q] \in CountTask \cup SumTask \cup StoreTask => warned[q].during
  BY <1>1, <1>2, <1>3, OverlapTypes
<1>5. FigureTypes'
  BY <1>1, <1>2, <1>3, <1>4 DEF FigureTypes
<1>6. \A q \in Request : Fresh(lookTask[q])'
  BY <1>3, <1>4 DEF Fresh
<1>7. DC!OnlyTheseShowOld'
  BY <1>2 DEF DC!OnlyTheseShowOld, DC!Viewer
<1> QED BY <1>5, <1>6, <1>7 DEF FigureInv

LEMMA WriteChargeInv ==
  ASSUME FigureInv, NEW r \in Request, NEW w \in DC!Viewer, NEW paid_ \in Counted,
         DC!WriteCharge(r, w, paid_)
  PROVE  FigureInv'
<1>1. FigureTypes /\ figures \in DC!Figures /\ DC!OnlyTheseShowOld
  BY DEF FigureInv, FigureTypes
<1>2. PICK warned : warned = DC!Overlap(lookTask)
  OBVIOUS
<1>3. /\ figures' = [figures EXCEPT !.paid = paid_]
      /\ lookTask' = [warned EXCEPT ![r] = [op |-> "drop", by |-> w]]
      /\ excuse' = [v \in DC!Viewer |-> excuse[v] \/ (v # w /\ cache[v] # {})]
      /\ cache' = cache /\ lookTask[r] = DC!Idle
  BY <1>2 DEF DC!WriteCharge
<1>4. figures' \in DC!Figures
  BY <1>1, <1>3 DEF DC!Figures, Counted
<1>5. /\ warned \in [Request -> LookTask]
      /\ \A q \in Request :
            /\ warned[q].op = lookTask[q].op
            /\ warned[q].op = "drop" => warned[q] = lookTask[q]
            /\ warned[q] \in CountTask \cup SumTask \cup StoreTask => warned[q].during
  BY <1>1, <1>2, OverlapTypes
<1>6. PICK t : t = [op |-> "drop", by |-> w]
  OBVIOUS
<1>7. t \in DropTask /\ t.op = "drop" /\ t.by = w
  BY <1>6 DEF DropTask
<1>8. t \in LookTask /\ t \notin CountTask \cup SumTask \cup StoreTask
  BY <1>7 DEF LookTask, CountTask, SumTask, StoreTask
<1>9. \A q \in Request : lookTask'[q] = IF q = r THEN t ELSE warned[q]
  BY <1>3, <1>5, <1>6
<1>10. lookTask' \in [Request -> LookTask]
  BY <1>3, <1>5, <1>6, <1>8
<1>11. \A v \in DC!Viewer : excuse[v] \in BOOLEAN
  BY <1>1 DEF FigureTypes
<1>12. FigureTypes'
  BY <1>1, <1>3, <1>4, <1>10, <1>11 DEF FigureTypes
<1>13. \A q \in Request :
          lookTask'[q] \in CountTask \cup SumTask \cup StoreTask => lookTask'[q].during
  BY <1>5, <1>8, <1>9
<1>14. \A q \in Request : Fresh(lookTask[q])'
  BY <1>13 DEF Fresh
<1>15. DC!OnlyTheseShowOld'
  <2> SUFFICES ASSUME NEW v \in DC!Viewer, cache[v] # {}, ~excuse'[v]
               PROVE  \E q \in Request : lookTask'[q].op = "drop" /\ lookTask'[q].by = v
    BY <1>3 DEF DC!OnlyTheseShowOld, DC!Viewer
  <2>1. v = w
    BY <1>3
  <2> QED BY <1>7, <1>9, <2>1
<1> QED BY <1>12, <1>14, <1>15 DEF FigureInv

LEMMA CopyGoesInv ==
  ASSUME FigureInv,
         \/ \E w \in DC!Viewer : DC!Expire(w)
         \/ \E r \in Request : DC!DropCache(r)
  PROVE  FigureInv'
<1>1. FigureTypes /\ DC!OnlyTheseShowOld
  BY DEF FigureInv, FigureTypes
<1>2. ASSUME NEW w \in DC!Viewer, DC!Expire(w) PROVE FigureInv'
  <2>1. /\ cache' = [cache EXCEPT ![w] = {}] /\ excuse' = [excuse EXCEPT ![w] = FALSE]
        /\ figures' = figures /\ lookTask' = lookTask
    BY <1>2 DEF DC!Expire
  <2>2. FigureTypes'
    BY <1>1, <2>1 DEF FigureTypes
  <2>3. \A q \in Request : Fresh(lookTask[q])'
    BY <2>1 DEF Fresh, FigureInv
  <2>4. \A v \in DC!Viewer : cache'[v] = {} \/ (cache'[v] = cache[v] /\ excuse'[v] = excuse[v])
    BY <1>1, <2>1 DEF FigureTypes
  <2>5. DC!OnlyTheseShowOld'
    BY <1>1, <2>1, <2>4 DEF DC!OnlyTheseShowOld, DC!Viewer
  <2> QED BY <2>2, <2>3, <2>5 DEF FigureInv
<1>3. ASSUME NEW r \in Request, DC!DropCache(r) PROVE FigureInv'
  <2>1. PICK o \in LookTask : o = lookTask[r]
    BY <1>1 DEF FigureTypes
  <2>2. o.op = "drop" /\ o.by \in DC!Viewer
    BY <1>3, <2>1, LookTaskTypes DEF DC!DropCache
  <2>3. /\ cache' = [v \in DC!Viewer |-> IF v = o.by THEN {} ELSE cache[v]]
        /\ excuse' = [v \in DC!Viewer |-> v # o.by /\ excuse[v]]
        /\ figures' = figures /\ lookTask' = [lookTask EXCEPT ![r] = DC!Idle]
    BY <1>3, <2>1 DEF DC!DropCache, DC!KeysOf, DC!Does
  <2>4. DC!Idle \in LookTask /\ Fresh(DC!Idle)
    BY LookTaskTypes DEF LookTask, Fresh, DC!Idle
  <2>5. \A v \in DC!Viewer : (v # o.by /\ excuse[v]) \in BOOLEAN
    BY <1>1 DEF FigureTypes
  <2>6. FigureTypes'
    BY <1>1, <2>3, <2>4, <2>5 DEF FigureTypes
  <2>7. \A q \in Request : Fresh(lookTask'[q]) /\ (q # r => lookTask'[q] = lookTask[q])
    BY <1>1, <2>3, <2>4 DEF FigureTypes, FigureInv
  <2>8. \A q \in Request : Fresh(lookTask[q])'
    BY <2>3, <2>7 DEF Fresh
  <2>9. DC!OnlyTheseShowOld'
    <3> SUFFICES ASSUME NEW w \in DC!Viewer, cache'[w] \notin {{}, {figures}}, ~excuse'[w]
                 PROVE  \E q \in Request : lookTask'[q].op = "drop" /\ lookTask'[q].by = w
      BY <2>3 DEF DC!OnlyTheseShowOld, DC!Viewer
    <3>1. w # o.by /\ cache'[w] = cache[w] /\ ~excuse[w]
      BY <2>3
    <3>2. PICK q \in Request : lookTask[q].op = "drop" /\ lookTask[q].by = w
      BY <1>1, <3>1 DEF DC!OnlyTheseShowOld
    <3> QED BY <2>1, <2>7, <3>1, <3>2
  <2> QED BY <2>6, <2>8, <2>9 DEF FigureInv
<1> QED BY <1>2, <1>3

LEMMA FigureNextInv ==
  ASSUME FigureInv, DC!Next
  PROVE  FigureInv'
<1>1. ASSUME NEW new, DC!Silently(new) PROVE FigureInv'
  BY <1>1, SilentlyInv
<1>2. CASE \E r \in Request :
              (\E w \in DC!Viewer : DC!Look(r, w)) \/ DC!CountPending(r) \/ DC!SumPaid(r)
  BY <1>2, LooksInv
<1>3. CASE \E r \in Request : DC!Store(r)
  BY <1>3, StoreInv
<1>4. CASE \E r \in Request, w \in DC!Viewer, paid_ \in Counted : DC!WriteCharge(r, w, paid_)
  BY <1>4, WriteChargeInv
<1>5. CASE (\E w \in DC!Viewer : DC!Expire(w)) \/ \E r \in Request : DC!DropCache(r)
  BY <1>5, CopyGoesInv
<1>6. CASE DC!PlaceOrder
  BY <1>1, <1>6 DEF DC!PlaceOrder
<1>7. CASE DC!SettleOrder
  BY <1>1, <1>7 DEF DC!SettleOrder
<1>8. CASE DC!CancelPaid
  BY <1>1, <1>8 DEF DC!CancelPaid
<1>9. CASE DC!DeleteCharge
  BY <1>1, <1>9 DEF DC!DeleteCharge
<1>10. CASE \E pending, paid_ \in {0, 1} : DC!DeleteOrder(pending, paid_)
  BY <1>1, <1>10 DEF DC!DeleteOrder
<1> QED BY <1>2, <1>3, <1>4, <1>5, <1>6, <1>7, <1>8, <1>9, <1>10 DEF DC!Next, Counted

LEMMA FigureStutter ==
  ASSUME FigureInv, UNCHANGED figureVars
  PROVE  FigureInv'
<1>1. UNCHANGED <<figures, cache, excuse, lookTask>>
  BY DEF figureVars
<1>2. FigureTypes'
  BY <1>1 DEF FigureInv, FigureTypes
<1>3. \A r \in Request : Fresh(lookTask[r])'
  BY <1>1 DEF FigureInv, Fresh
<1>4. DC!OnlyTheseShowOld'
  BY <1>1 DEF FigureInv, DC!OnlyTheseShowOld, DC!Viewer
<1> QED BY <1>2, <1>3, <1>4 DEF FigureInv

LEMMA FigureInitInv ==
  ASSUME DC!Init
  PROVE  FigureInv
<1>1. /\ figures = [orders |-> 0, pending |-> 0, paid |-> 0]
      /\ cache = [w \in DC!Viewer |-> {}] /\ excuse = [w \in DC!Viewer |-> FALSE]
      /\ lookTask = [r \in Request |-> DC!Idle]
  BY DEF DC!Init
<1>2. figures \in DC!Figures
  BY <1>1, DashboardAssumption DEF DC!Figures
<1>3. DC!Idle \in LookTask /\ Fresh(DC!Idle)
  BY LookTaskTypes DEF LookTask, Fresh, DC!Idle
<1>4. FigureTypes
  BY <1>1, <1>2, <1>3 DEF FigureTypes
<1>5. \A r \in Request : Fresh(lookTask[r])
  BY <1>1, <1>3
<1>6. DC!OnlyTheseShowOld
  BY <1>1 DEF DC!OnlyTheseShowOld
<1> QED BY <1>4, <1>5, <1>6 DEF FigureInv

LEMMA FigureTypeOK ==
  ASSUME FigureInv
  PROVE  DC!TypeOK
<1>1. ASSUME NEW r \in Request
      PROVE  lookTask[r].op \in {"none", "count", "sum", "store", "drop"}
  <2>1. PICK t \in LookTask : t = lookTask[r]
    BY DEF FigureInv, FigureTypes
  <2> QED BY <2>1 DEF LookTask, CountTask, SumTask, StoreTask, DropTask, DC!Idle
<1> QED BY <1>1 DEF FigureInv, FigureTypes, DC!TypeOK
-----------------------------------------------------------------------------
(* Uploads and the erasure of an account *)

\* A set of integers with an upper bound has a greatest element, and Max is it.
LEMMA MaxIsGreatest ==
  ASSUME NEW S \in SUBSET Nat, S # {}, NEW n \in Nat, \A x \in S : x <= n
  PROVE  UP!Max(S) \in S /\ \A x \in S : x <= UP!Max(S)
<1> DEFINE T == {m \in Nat : \A x \in S : x <= m}
<1>1. PICK m \in T : \A l \in T : m <= l
  <2>1. n \in T
    OBVIOUS
  <2> HIDE DEF T
  <2>2. T \in SUBSET Nat
    BY DEF T
  <2> QED BY <2>1, <2>2, LeastNatural
<1>2. m \in S
  <2> SUFFICES ASSUME m \notin S PROVE FALSE
    OBVIOUS
  <2>1. \A x \in S : x < m
    BY <1>1
  <2>2. m > 0
    <3>1. PICK x : x \in S
      OBVIOUS
    <3> QED BY <2>1, <3>1
  <2>3. m - 1 \in T
    BY <1>1, <2>1, <2>2
  <2> QED BY <1>1, <2>3
<1>3. \E x \in S : \A y \in S : x >= y
  BY <1>1, <1>2
<1>4. UP!Max(S) \in S /\ \A y \in S : UP!Max(S) >= y
  BY <1>3, Zenon DEF UP!Max
<1> QED BY <1>4

\* The instance of FiniteSets that Uploads refers to counts the same.
LEMMA SameCount == \A S : UP!Cardinality(S) = Cardinality(S)
  BY DEF UP!Cardinality, Cardinality

LEMMA ProductKeysFinite ==
  ASSUME NEW S \in SUBSET UP!ProductKey
  PROVE  IsFiniteSet(S)
<1> DEFINE key == [n \in 1..MaxFiles |-> [kind |-> "product", at |-> n]]
<1>1. IsFiniteSet(1..MaxFiles)
  BY UploadsAssumption, FS_Interval
<1>2. key \in Surjection(1..MaxFiles, UP!ProductKey)
  <2>1. \A n \in 1..MaxFiles : key[n] \in UP!ProductKey
    BY DEF UP!ProductKey
  <2>2. ASSUME NEW k \in UP!ProductKey PROVE \E n \in 1..MaxFiles : key[n] = k
    <3>1. k.at \in 1..MaxFiles /\ k = [kind |-> "product", at |-> k.at]
      BY DEF UP!ProductKey
    <3> QED BY <3>1
  <2> HIDE DEF key
  <2>3. key \in [1..MaxFiles -> UP!ProductKey]
    BY <2>1 DEF key
  <2> QED BY <2>2, <2>3 DEF Surjection
<1> HIDE DEF key
<1>3. IsFiniteSet(UP!ProductKey)
  BY <1>1, <1>2, FS_Surjection
<1> QED BY <1>3, FS_Subset

\* A page of the keys that a listing finds has the oldest of them: all of them, if it
\* is the last page, and else some, which are older than those it leaves out.
LEMMA PageHasOldest ==
  ASSUME NEW found \in SUBSET UP!ProductKey, NEW page,
         page = {k \in found : Cardinality({l \in found : l.at < k.at}) < PageSize}
  PROVE  /\ \A k \in found \ page, p \in page : p.at < k.at
         /\ UP!Truncated(found) => page # {}
         /\ ~UP!Truncated(found) => page = found
<1> DEFINE older(k) == {l \in found : l.at < k.at}
<1>1. IsFiniteSet(found) /\ Cardinality(found) \in Nat
  BY ProductKeysFinite, FS_CardinalityType
<1>2. \A k \in found : k.at \in Nat
  BY UploadsAssumption DEF UP!ProductKey
<1>3. \A k \in found : IsFiniteSet(older(k)) /\ Cardinality(older(k)) \in Nat
  BY <1>1, FS_Subset, FS_CardinalityType
<1>4. page = {k \in found : Cardinality(older(k)) < PageSize}
  OBVIOUS
<1>5. ASSUME NEW k \in found \ page, NEW p \in page PROVE p.at < k.at
  <2> SUFFICES ASSUME k.at <= p.at PROVE FALSE
    BY <1>2
  <2>1. older(k) \in SUBSET older(p)
    BY <1>2
  <2> HIDE DEF older
  <2>2. Cardinality(older(k)) <= Cardinality(older(p))
    BY <1>3, <2>1, FS_Subset
  <2> QED BY <1>3, <1>4, <2>2, UploadsAssumption
<1>6. ASSUME found # {} PROVE page # {}
  <2> DEFINE ats == {k.at : k \in found}
  <2>1. PICK n \in ats : \A m \in ats : n <= m
    <3>1. ats \subseteq Nat /\ ats # {}
      BY <1>2, <1>6
    <3> QED BY <3>1, LeastNatural, Zenon
  <2>2. PICK k \in found : k.at = n
    BY <2>1
  <2>3. older(k) = {}
    BY <1>2, <2>1, <2>2
  <2>4. Cardinality(older(k)) = 0
    BY <2>3, FS_EmptySet
  <2> QED BY <1>4, <2>4, UploadsAssumption
<1>7. UP!Truncated(found) => found # {}
  BY <1>1, FS_EmptySet, SameCount, UploadsAssumption DEF UP!Truncated
<1>8. ASSUME ~UP!Truncated(found), NEW k \in found PROVE k \in page
  <2>1. Cardinality(found) <= PageSize
    BY <1>1, <1>8, SameCount, UploadsAssumption DEF UP!Truncated
  <2>2. IsFiniteSet(found \ {k}) /\ Cardinality(found \ {k}) = Cardinality(found) - 1
    BY <1>1, FS_RemoveElement
  <2>3. older(k) \in SUBSET (found \ {k})
    BY <1>2
  <2> HIDE DEF older
  <2>4. Cardinality(older(k)) <= Cardinality(found \ {k})
    BY <2>2, <2>3, FS_Subset
  <2>5. Cardinality(older(k)) < PageSize
    BY <1>1, <1>3, <2>1, <2>2, <2>4, UploadsAssumption
  <2> QED BY <1>4, <2>5
<1> QED BY <1>4, <1>5, <1>6, <1>7, <1>8

Key == UP!Profile \cup UP!ProductKey
Avatar == UP!Profile \cup {UP!None, UP!External}

SetTask == [op : {"set"}, key : UP!Profile]
EraseTask == [op : {"erase"}, key : Avatar]
ListTask == [op : {"list"}, key : Avatar, after : 0..MaxFiles]
PageTask == [op : {"page"}, key : Avatar, page : SUBSET UP!ProductKey, more : BOOLEAN]
LastTask == [op : {"anonymize"}, key : Avatar]
FileTask == {UP!Idle} \cup SetTask \cup [op : {"remove"}, key : Avatar] \cup [op : {"clear"}]
              \cup EraseTask \cup ListTask \cup PageTask \cup LastTask

FileTypes ==
    /\ objects \subseteq Key
    /\ avatar \in Avatar
    /\ files \in 0..MaxFiles /\ erased \in BOOLEAN /\ faults \in 0..MaxFaults
    /\ late \subseteq Key /\ unread \subseteq Key /\ failed \subseteq Key
    /\ fileTask \in [Request -> FileTask]

ProductObjects == objects \cap UP!ProductKey

\* Why an object may be left that an erasure has looked for.
Excused == late \cup failed

\* What an erasure has dealt with so far: the avatar that it read, once it lists; of
\* the product images those up to the last page, in a page those up to its end, and
\* when there is no more all of them.
Swept(t) ==
    /\ t \in ListTask \cup PageTask \cup LastTask => t.key \notin objects \ Excused
    /\ t \in ListTask =>
          t.after <= files /\ \A k \in ProductObjects : k.at > t.after \/ k \in Excused
    /\ t \in PageTask /\ t.more =>
          /\ t.page # {} /\ \A p \in t.page : p.at <= files
          /\ \A k \in ProductObjects \ t.page : (\A p \in t.page : k.at > p.at) \/ k \in Excused
    /\ t \in PageTask /\ ~t.more => \A k \in ProductObjects \ t.page : k \in Excused
    /\ t \in LastTask => ProductObjects \subseteq Excused

\* Keys of product images only grow, so that a new one is in no page that is listed.
FileInv ==
    /\ FileTypes
    /\ \A k \in ProductObjects : k.at <= files
    /\ \A r \in Request : Swept(fileTask[r])
    /\ UP!OnlyTheseOutlive

LEMMA KeyTypes ==
  ASSUME NEW k \in Key
  PROVE  /\ k.kind = "profile" <=> k \in UP!Profile
         /\ k.kind = "product" <=> k \in UP!ProductKey
         /\ k \in UP!ProductKey => k.at \in 1..MaxFiles /\ k.at \in Nat
<1>1. k \in UP!Profile => k.kind = "profile"
  BY DEF UP!Profile
<1>2. k \in UP!ProductKey => k.kind = "product" /\ k.at \in 1..MaxFiles /\ k.at \in Nat
  BY UploadsAssumption DEF UP!ProductKey
<1> QED BY <1>1, <1>2 DEF Key

LEMMA FileTaskTypes ==
  ASSUME NEW t \in FileTask
  PROVE  /\ t.op = "set" => t \in SetTask
         /\ t.op = "erase" => t \in EraseTask
         /\ t.op = "list" => t \in ListTask
         /\ t.op = "page" => t \in PageTask
         /\ t.op = "anonymize" => t \in LastTask
         /\ t \in SetTask => t.op = "set" /\ t.key \in UP!Profile
         /\ t \in EraseTask => t.op = "erase" /\ t.key \in Avatar
         /\ t \in ListTask => t.op = "list" /\ t.key \in Avatar /\ t.after \in Nat
         /\ t \in PageTask => /\ t.op = "page" /\ t.key \in Avatar
                              /\ t.page \subseteq UP!ProductKey /\ t.more \in BOOLEAN
         /\ t \in LastTask => t.op = "anonymize" /\ t.key \in Avatar
         /\ t.op \in {"none", "set", "remove", "clear", "erase", "list", "page", "anonymize"}
<1>1. UP!Idle.op = "none"
  BY DEF UP!Idle
<1>2. t \in SetTask => t.op = "set" /\ t.key \in UP!Profile
  BY DEF SetTask
<1>3. t \in EraseTask => t.op = "erase" /\ t.key \in Avatar
  BY DEF EraseTask
<1>4. t \in ListTask => t.op = "list" /\ t.key \in Avatar /\ t.after \in Nat
  BY UploadsAssumption DEF ListTask
<1>5. t \in PageTask => /\ t.op = "page" /\ t.key \in Avatar
                        /\ t.page \subseteq UP!ProductKey /\ t.more \in BOOLEAN
  BY DEF PageTask
<1>6. t \in LastTask => t.op = "anonymize" /\ t.key \in Avatar
  BY DEF LastTask
<1>7. t \in [op : {"remove"}, key : Avatar] => t.op = "remove"
  OBVIOUS
<1>8. t \in [op : {"clear"}] => t.op = "clear"
  OBVIOUS
<1>9. \/ t = UP!Idle \/ t \in SetTask \/ t \in [op : {"remove"}, key : Avatar]
      \/ t \in [op : {"clear"}] \/ t \in EraseTask \/ t \in ListTask
      \/ t \in PageTask \/ t \in LastTask
  BY DEF FileTask
<1> QED BY <1>1, <1>2, <1>3, <1>4, <1>5, <1>6, <1>7, <1>8, <1>9

\* A step that saves nothing, and forgets no excuse, takes away nothing that an
\* erasure has dealt with.
LEMMA SweptKept ==
  ASSUME NEW t \in FileTask, Swept(t), objects' \subseteq objects, Excused \subseteq Excused',
         files' = files
  PROVE  Swept(t)'
<1>1. ProductObjects' \subseteq ProductObjects
  BY DEF ProductObjects
<1>2. PICK e : e = Excused'
  OBVIOUS
<1> QED BY <1>1, <1>2 DEF Swept

\* Nor does a step that saves a key which is late if the erasure looks for it no more.
LEMMA SweptSave ==
  ASSUME FileTypes, NEW t \in FileTask, Swept(t), NEW k \in Key,
         objects' = objects \cup {k}, Excused \ {k} \subseteq Excused',
         UP!LooksNoMore(t, k) => k \in Excused',
         files <= files', files' \in Nat, k \in UP!ProductKey => k.at = files + 1
  PROVE  Swept(t)'
<1>1. PICK e : e = Excused' /\ \A j \in Excused : j = k \/ j \in e
  OBVIOUS
<1>2. PICK po : /\ po = ProductObjects'
                /\ \A j \in po : \/ j \in ProductObjects /\ j # k
                                 \/ j = k /\ k \in UP!ProductKey
  BY DEF ProductObjects
<1>3. files \in Nat /\ files <= files' /\ files' \in Nat
  BY UploadsAssumption DEF FileTypes
<1>4. CASE t \in ListTask
  <2>1. t.op = "list" /\ t.key \in Avatar /\ t.after \in Nat
    BY <1>4, FileTaskTypes
  <2>2. k \in UP!Profile => k \in e
    BY <1>1, <2>1, KeyTypes DEF UP!LooksNoMore
  <2>3. t.key \notin UP!ProductKey
    BY <2>1, KeyTypes DEF Avatar, Key, UP!None, UP!External
  <2>4. t.key \notin objects' \ e
    BY <1>1, <1>4, <2>2, <2>3 DEF Swept, Key
  <2>5. t.after <= files /\ \A j \in ProductObjects : j.at > t.after \/ j \in Excused
    BY <1>4 DEF Swept
  <2>6. k \in UP!ProductKey => k.at > t.after
    BY <1>3, <2>1, <2>5
  <2>7. t.after <= files'
    BY <1>3, <2>1, <2>5
  <2>8. \A j \in po : j.at > t.after \/ j \in e
    BY <1>1, <1>2, <2>5, <2>6
  <2>9. t \notin PageTask /\ t \notin LastTask
    BY <2>1, FileTaskTypes
  <2> QED BY <1>1, <1>2, <1>4, <2>4, <2>7, <2>8, <2>9 DEF Swept
<1>5. CASE t \in PageTask
  <2>1. t.op = "page" /\ t.key \in Avatar /\ t.page \subseteq UP!ProductKey /\ t.more \in BOOLEAN
    BY <1>5, FileTaskTypes
  <2>2. k \in UP!Profile => k \in e
    BY <1>1, <2>1, KeyTypes DEF UP!LooksNoMore
  <2>3. t.key \notin UP!ProductKey
    BY <2>1, KeyTypes DEF Avatar, Key, UP!None, UP!External
  <2>4. t.key \notin objects' \ e
    BY <1>1, <1>5, <2>2, <2>3 DEF Swept, Key
  <2>5. \A p \in t.page : p.at \in Nat
    BY <2>1, KeyTypes DEF Key
  <2>6. ASSUME t.more
        PROVE  /\ t.page # {} /\ \A p \in t.page : p.at <= files'
               /\ \A j \in po \ t.page : (\A p \in t.page : j.at > p.at) \/ j \in e
    <3>1. /\ t.page # {} /\ \A p \in t.page : p.at <= files
          /\ \A j \in ProductObjects \ t.page : (\A p \in t.page : j.at > p.at) \/ j \in Excused
      BY <1>5, <2>6 DEF Swept
    <3>2. \A p \in t.page : p.at <= files' /\ (k \in UP!ProductKey => k.at > p.at)
      BY <1>3, <2>5, <3>1
    <3> QED BY <1>1, <1>2, <3>1, <3>2
  <2>7. ~t.more /\ k \in UP!ProductKey => k \in e
    BY <1>1, <2>1, KeyTypes DEF UP!LooksNoMore
  <2>8. ASSUME ~t.more PROVE \A j \in po \ t.page : j \in e
    <3>1. \A j \in ProductObjects \ t.page : j \in Excused
      BY <1>5, <2>8 DEF Swept
    <3> QED BY <1>1, <1>2, <2>7, <2>8, <3>1
  <2>9. t \notin ListTask /\ t \notin LastTask
    BY <2>1, FileTaskTypes
  <2> QED BY <1>1, <1>2, <1>5, <2>4, <2>6, <2>8, <2>9 DEF Swept
<1>6. CASE t \in LastTask
  <2>1. t.op = "anonymize" /\ t.key \in Avatar
    BY <1>6, FileTaskTypes
  <2>2. k \in e
    BY <1>1, <2>1, KeyTypes DEF UP!LooksNoMore, Key
  <2>3. t.key \notin objects' \ e /\ po \subseteq e
    BY <1>1, <1>2, <1>6, <2>2 DEF Swept
  <2>4. t \notin ListTask /\ t \notin PageTask
    BY <2>1, FileTaskTypes
  <2> QED BY <1>1, <1>2, <1>6, <2>3, <2>4 DEF Swept
<1> QED BY <1>4, <1>5, <1>6 DEF Swept

\* A step that saves nothing and erases no account.
LEMMA FileKept ==
  ASSUME FileInv, objects' \subseteq objects, avatar' \in Avatar, files' = files, erased' = erased,
         faults' \in 0..MaxFaults, late' = late, unread' = unread,
         failed \subseteq failed', failed' \subseteq Key,
         fileTask' \in [Request -> FileTask],
         \A q \in Request : fileTask'[q] = fileTask[q] \/ Swept(fileTask[q])'
  PROVE  FileInv'
<1>1. FileTypes
  BY DEF FileInv
<1>2. FileTypes'
  BY <1>1 DEF FileTypes
<1>3. \A k \in ProductObjects' : k.at <= files'
  BY DEF FileInv, ProductObjects
<1>4. Excused \subseteq Excused'
  BY DEF Excused
<1>5. ASSUME NEW q \in Request PROVE Swept(fileTask[q])'
  <2>1. PICK t : t = fileTask'[q]
    OBVIOUS
  <2>2. CASE t = fileTask[q]
    <3>1. t \in FileTask /\ Swept(t)
      BY <1>1, <2>2 DEF FileInv, FileTypes
    <3>2. Swept(t)'
      BY <1>4, <3>1, SweptKept
    <3> QED BY <2>1, <3>2 DEF Swept
  <2>3. CASE t # fileTask[q]
    BY <2>1, <2>3
  <2> QED BY <2>2, <2>3
<1>6. UP!OnlyTheseOutlive'
  BY <1>4 DEF FileInv, UP!OnlyTheseOutlive
<1> QED BY <1>2, <1>3, <1>5, <1>6 DEF FileInv

\* ... when one request goes on to a task.
LEMMA FileTaskStep ==
  ASSUME FileInv, objects' \subseteq objects, avatar' \in Avatar, files' = files, erased' = erased,
         faults' \in 0..MaxFaults, late' = late, unread' = unread,
         failed \subseteq failed', failed' \subseteq Key,
         NEW r \in Request, NEW t \in FileTask, fileTask' = [fileTask EXCEPT ![r] = t], Swept(t)'
  PROVE  FileInv'
<1>1. fileTask \in [Request -> FileTask]
  BY DEF FileInv, FileTypes
<1>2. fileTask' \in [Request -> FileTask]
  BY <1>1
<1>3. ASSUME NEW q \in Request PROVE fileTask'[q] = fileTask[q] \/ Swept(fileTask[q])'
  <2>1. CASE q = r
    <3>1. fileTask'[q] = t
      BY <1>1, <2>1
    <3> QED BY <3>1 DEF Swept
  <2>2. CASE q # r
    BY <1>1, <2>2
  <2> QED BY <2>1, <2>2
<1> QED BY <1>2, <1>3, FileKept

\* Only an erasure in progress has dealt with anything.
LEMMA NothingSwept ==
  ASSUME NEW t \in FileTask, t.op \notin {"list", "page", "anonymize"}
  PROVE  Swept(t)'
<1>1. t \notin ListTask /\ t \notin PageTask /\ t \notin LastTask
  BY FileTaskTypes
<1> QED BY <1>1 DEF Swept

\* What a deletion in the storage does.
LEMMA DeleteWrites ==
  ASSUME FileTypes, NEW key, NEW ok \in BOOLEAN, UP!Delete(key, ok)
  PROVE  /\ objects' \subseteq objects /\ faults' \in 0..MaxFaults
         /\ failed \subseteq failed' /\ failed' \subseteq Key
         /\ key \notin objects' \ failed'
<1>1. CASE ok
  BY <1>1 DEF UP!Delete, FileTypes
<1>2. CASE ~ok
  <2>1. /\ objects' = objects /\ failed' = failed \cup ({key} \cap objects)
        /\ faults < MaxFaults /\ faults' = faults + 1
    BY <1>2 DEF UP!Delete, UP!Fault
  <2>2. faults' \in 0..MaxFaults
    BY <2>1, UploadsAssumption DEF FileTypes
  <2> QED BY <2>1, <2>2 DEF FileTypes
<1> QED BY <1>1, <1>2

\* The steps of a request that leave an erasure where it is, or begin or drop it.
LEMMA PlainFileSteps ==
  ASSUME FileInv,
         \/ \E r \in Request :
               \/ UP!SetAvatar(r) \/ UP!BeginRemove(r) \/ UP!ClearAvatar(r)
               \/ UP!BeginErasure(r) \/ UP!Stops(r)
               \/ \E ok \in BOOLEAN : UP!RemoveFile(r, ok)
         \/ \E key \in objects, ok \in BOOLEAN : UP!DeleteFile(key, ok)
  PROVE  FileInv'
<1>1. FileTypes /\ failed \subseteq Key /\ avatar \in Avatar /\ faults \in 0..MaxFaults
  BY DEF FileInv, FileTypes
<1>2. UP!Idle \in FileTask /\ UP!Idle.op = "none" /\ UP!None \in Avatar
  BY DEF FileTask, UP!Idle, Avatar
<1>3. ASSUME NEW r \in Request, UP!SetAvatar(r) PROVE FileInv'
  <2>1. PICK o \in FileTask : o = fileTask[r]
    BY <1>1 DEF FileTypes
  <2>2. o.key \in Avatar
    BY <1>3, <2>1, FileTaskTypes DEF UP!SetAvatar, Avatar
  <2>3. fileTask' = [fileTask EXCEPT ![r] = UP!Idle] /\ avatar' = o.key
    BY <1>3, <2>1 DEF UP!SetAvatar, UP!Does
  <2>4. UNCHANGED <<objects, files, erased, faults, late, unread, failed>>
    BY <1>3 DEF UP!SetAvatar, UP!history
  <2> QED BY <1>1, <1>2, <2>2, <2>3, <2>4, NothingSwept, FileTaskStep
<1>4. ASSUME NEW r \in Request, NEW op \in {"remove", "erase"},
             fileTask' = [fileTask EXCEPT ![r] = [op |-> op, key |-> avatar]],
             UNCHANGED <<objects, avatar, files, erased, faults, late, unread, failed>>
      PROVE  FileInv'
  <2>1. PICK t : t = [op |-> op, key |-> avatar]
    OBVIOUS
  <2>2. t \in FileTask /\ t.op \notin {"list", "page", "anonymize"}
    BY <1>1, <2>1 DEF FileTask, EraseTask
  <2> QED BY <1>1, <1>4, <2>1, <2>2, NothingSwept, FileTaskStep
<1>5. ASSUME NEW r \in Request, UP!ClearAvatar(r) \/ UP!Stops(r) PROVE FileInv'
  <2>1. fileTask' = [fileTask EXCEPT ![r] = UP!Idle]
    BY <1>5 DEF UP!ClearAvatar, UP!Stops, UP!Does
  <2>2. UNCHANGED <<objects, files, erased, late, unread, failed>> /\ avatar' \in {avatar, UP!None}
    BY <1>5 DEF UP!ClearAvatar, UP!Stops, UP!history
  <2>3. faults' \in 0..MaxFaults
    BY <1>1, <1>5, UploadsAssumption DEF UP!ClearAvatar, UP!Stops, UP!Fault
  <2> QED BY <1>1, <1>2, <2>1, <2>2, <2>3, NothingSwept, FileTaskStep
<1>6. ASSUME NEW r \in Request, NEW ok \in BOOLEAN, UP!RemoveFile(r, ok) PROVE FileInv'
  <2>1. PICK t : t = [op |-> "clear"]
    OBVIOUS
  <2>2. t \in FileTask /\ t.op \notin {"list", "page", "anonymize"}
    BY <2>1 DEF FileTask
  <2>3. /\ objects' \subseteq objects /\ faults' \in 0..MaxFaults
        /\ failed \subseteq failed' /\ failed' \subseteq Key
    BY <1>1, <1>6, DeleteWrites DEF UP!RemoveFile
  <2>4. fileTask' = [fileTask EXCEPT ![r] = t] /\ UNCHANGED <<avatar, files, erased, late, unread>>
    BY <1>6, <2>1 DEF UP!RemoveFile, UP!Does
  <2> QED BY <1>1, <2>2, <2>3, <2>4, NothingSwept, FileTaskStep
<1>7. ASSUME NEW key \in objects, NEW ok \in BOOLEAN, UP!DeleteFile(key, ok) PROVE FileInv'
  <2>1. /\ objects' \subseteq objects /\ faults' \in 0..MaxFaults
        /\ failed \subseteq failed' /\ failed' \subseteq Key
    BY <1>1, <1>7, DeleteWrites DEF UP!DeleteFile
  <2>2. UNCHANGED <<avatar, files, erased, fileTask, late, unread>>
    BY <1>7 DEF UP!DeleteFile
  <2>3. fileTask' \in [Request -> FileTask] /\ \A q \in Request : fileTask'[q] = fileTask[q]
    BY <1>1, <2>2 DEF FileTypes
  <2> QED BY <1>1, <2>1, <2>2, <2>3, FileKept
<1>8. ASSUME NEW r \in Request, UP!BeginRemove(r) \/ UP!BeginErasure(r) PROVE FileInv'
  <2>1. \E op \in {"remove", "erase"} : fileTask' = [fileTask EXCEPT ![r] = [op |-> op, key |-> avatar]]
    BY <1>8 DEF UP!BeginRemove, UP!BeginErasure, UP!Does
  <2>2. UNCHANGED <<objects, avatar, files, erased, faults, late, unread, failed>>
    BY <1>8 DEF UP!BeginRemove, UP!BeginErasure, UP!history
  <2> QED BY <1>4, <2>1, <2>2
<1> QED BY <1>3, <1>5, <1>6, <1>7, <1>8

\* A saved image has an excuse if the account is erased or an erasure looks for it no more.
LEMMA SaveInv ==
  ASSUME FileInv, NEW k \in Key, UP!Save(k), avatar' = avatar, erased' = erased, faults' = faults,
         files' \in 0..MaxFiles, files <= files',
         k \in UP!ProductKey => k.at = files + 1 /\ k.at <= files',
         fileTask' \in [Request -> FileTask],
         \A q \in Request : fileTask'[q] = fileTask[q]
                              \/ fileTask'[q].op \notin {"list", "page", "anonymize"}
  PROVE  FileInv'
<1>1. FileTypes /\ files \in Nat /\ files' \in Nat
  BY UploadsAssumption DEF FileInv, FileTypes
<1>2. /\ objects' = objects \cup {k}
      /\ late' = IF erased \/ \E r \in Request : UP!LooksNoMore(fileTask[r], k)
                 THEN late \cup {k} ELSE late \ {k}
      /\ unread' = unread \ {k} /\ failed' = failed \ {k}
  BY DEF UP!Save
<1>3. FileTypes'
  BY <1>1, <1>2 DEF FileTypes
<1>4. Excused \ {k} \subseteq Excused'
  BY <1>2 DEF Excused
<1>5. ASSUME NEW j \in ProductObjects' PROVE j.at <= files'
  <2>1. (j = k /\ k \in UP!ProductKey) \/ j \in ProductObjects
    BY <1>2 DEF ProductObjects
  <2>2. j \in ProductObjects => j.at <= files /\ j.at \in Nat
    BY <1>1, KeyTypes DEF FileInv, ProductObjects, Key
  <2> QED BY <1>1, <2>1, <2>2
<1>6. ASSUME NEW q \in Request PROVE Swept(fileTask[q])'
  <2>1. PICK t : t = fileTask'[q]
    OBVIOUS
  <2>2. t \in FileTask
    BY <2>1
  <2>3. CASE t.op \notin {"list", "page", "anonymize"}
    BY <2>1, <2>2, <2>3, NothingSwept DEF Swept
  <2>4. CASE t = fileTask[q]
    <3>1. Swept(t)
      BY <2>4 DEF FileInv
    <3>2. UP!LooksNoMore(t, k) => k \in Excused'
      BY <1>2, <2>4 DEF Excused
    <3>3. k \in UP!ProductKey => k.at = files + 1
      OBVIOUS
    <3>4. Swept(t)'
      BY <1>1, <1>2, <1>4, <2>2, <3>1, <3>2, <3>3, SweptSave
    <3> QED BY <2>1, <3>4 DEF Swept
  <2> QED BY <2>1, <2>3, <2>4
<1>7. UP!OnlyTheseOutlive'
  <2> SUFFICES ASSUME erased PROVE objects' \subseteq late' \cup unread' \cup failed'
    BY DEF UP!OnlyTheseOutlive
  <2>1. objects \subseteq late \cup unread \cup failed
    BY DEF FileInv, UP!OnlyTheseOutlive
  <2> QED BY <1>2, <2>1
<1> QED BY <1>3, <1>5, <1>6, <1>7 DEF FileInv

LEMMA UploadsInv ==
  ASSUME FileInv, (\E r \in Request, ext \in Ext : UP!UploadAvatar(r, ext)) \/ UP!UploadProduct
  PROVE  FileInv'
<1>1. FileTypes /\ files \in 0..MaxFiles /\ fileTask \in [Request -> FileTask]
  BY DEF FileInv, FileTypes
<1>2. ASSUME NEW r \in Request, NEW ext \in Ext, UP!UploadAvatar(r, ext) PROVE FileInv'
  <2>1. PICK k : k = [kind |-> "profile", ext |-> ext]
    OBVIOUS
  <2>2. k \in UP!Profile /\ k \in Key
    BY <2>1 DEF UP!Profile, Key
  <2>3. k \notin UP!ProductKey
    BY <2>1 DEF UP!ProductKey
  <2>4. PICK t : t = [op |-> "set", key |-> k]
    OBVIOUS
  <2>5. t \in FileTask /\ t.op = "set"
    BY <2>2, <2>4 DEF FileTask, SetTask
  <2>6. /\ UP!Save(k) /\ fileTask' = [fileTask EXCEPT ![r] = t]
        /\ UNCHANGED <<avatar, files, erased, faults>>
    BY <1>2, <2>1, <2>4 DEF UP!UploadAvatar, UP!Does
  <2>7. fileTask' \in [Request -> FileTask] /\ files <= files'
    BY <1>1, <2>5, <2>6, UploadsAssumption
  <2>8. \A q \in Request : fileTask'[q] = fileTask[q]
                              \/ fileTask'[q].op \notin {"list", "page", "anonymize"}
    BY <1>1, <2>5, <2>6
  <2> QED BY <1>1, <2>2, <2>3, <2>6, <2>7, <2>8, SaveInv
<1>3. ASSUME UP!UploadProduct PROVE FileInv'
  <2>1. PICK k : k = [kind |-> "product", at |-> files + 1]
    OBVIOUS
  <2>2. /\ UP!Save(k) /\ files < MaxFiles /\ files' = files + 1
        /\ UNCHANGED <<avatar, erased, fileTask, faults>>
    BY <1>3, <2>1 DEF UP!UploadProduct
  <2>3. files' \in 0..MaxFiles /\ files <= files' /\ files + 1 \in 1..MaxFiles
    BY <1>1, <2>2, UploadsAssumption
  <2>4. k \in Key /\ k.at = files + 1 /\ k.at <= files'
    BY <2>1, <2>2, <2>3 DEF UP!ProductKey, Key
  <2>5. fileTask' \in [Request -> FileTask] /\ \A q \in Request : fileTask'[q] = fileTask[q]
    BY <1>1, <2>2
  <2> QED BY <2>2, <2>3, <2>4, <2>5, SaveInv
<1> QED BY <1>2, <1>3

\* The erasure deletes the avatar that it read, and begins to list.
LEMMA EraseAvatarInv ==
  ASSUME FileInv, NEW r \in Request, NEW ok \in BOOLEAN, UP!EraseAvatar(r, ok)
  PROVE  FileInv'
<1>1. FileTypes /\ files \in Nat /\ avatar \in Avatar
  BY UploadsAssumption DEF FileInv, FileTypes
<1>2. PICK o \in FileTask : o = fileTask[r]
  BY <1>1 DEF FileTypes
<1>3. o.key \in Avatar
  BY <1>2, FileTaskTypes DEF UP!EraseAvatar
<1>4. PICK t : t = [op |-> "list", key |-> o.key, after |-> 0]
  OBVIOUS
<1>5. t \in ListTask /\ t \in FileTask /\ t.key = o.key /\ t.after = 0 /\ t.op = "list"
  BY <1>3, <1>4, UploadsAssumption DEF ListTask, FileTask
<1>6. /\ UP!Delete(o.key, ok) /\ fileTask' = [fileTask EXCEPT ![r] = t]
      /\ UNCHANGED <<avatar, files, erased, late, unread>>
  BY <1>2, <1>4 DEF UP!EraseAvatar, UP!Does
<1>7. /\ objects' \subseteq objects /\ faults' \in 0..MaxFaults
      /\ failed \subseteq failed' /\ failed' \subseteq Key
      /\ o.key \notin objects' \ failed'
  BY <1>1, <1>6, DeleteWrites
<1>8. \A k \in ProductObjects' : k.at > 0
  BY UploadsAssumption DEF ProductObjects, UP!ProductKey
<1>9. t \notin PageTask /\ t \notin LastTask
  BY <1>5, FileTaskTypes
<1>10. t.key \notin objects' \ Excused'
  BY <1>5, <1>7 DEF Excused
<1>11. t.after <= files'
  BY <1>1, <1>5, <1>6
<1>12. Swept(t)'
  BY <1>5, <1>8, <1>9, <1>10, <1>11 DEF Swept
<1> QED BY <1>1, <1>5, <1>6, <1>7, <1>12, FileTaskStep

\* A page has the oldest of what the erasure has not dealt with yet.
LEMMA ListPageInv ==
  ASSUME FileInv, NEW r \in Request, UP!ListPage(r)
  PROVE  FileInv'
<1>1. FileTypes /\ avatar \in Avatar /\ objects \subseteq Key
  BY DEF FileInv, FileTypes
<1>2. PICK o \in FileTask : o = fileTask[r]
  BY <1>1 DEF FileTypes
<1>3. o.op = "list" /\ o \in ListTask /\ o.key \in Avatar /\ o.after \in Nat /\ Swept(o)
  BY <1>2, FileTaskTypes DEF UP!ListPage, FileInv
<1>4. PICK found : found = {k \in objects : k.kind = "product" /\ k.at > o.after}
  OBVIOUS
<1>5. PICK page : page = {k \in found : Cardinality({l \in found : l.at < k.at}) < PageSize}
  OBVIOUS
<1>6. /\ found \in SUBSET UP!ProductKey /\ found \subseteq ProductObjects
      /\ \A k \in ProductObjects \ found : ~(k.at > o.after)
  BY <1>1, <1>4, KeyTypes DEF ProductObjects, Key
<1>7. /\ \A k \in found \ page, p \in page : p.at < k.at
      /\ UP!Truncated(found) => page # {}
      /\ ~UP!Truncated(found) => page = found
  BY <1>5, <1>6, PageHasOldest
<1>8. PICK more \in BOOLEAN : more <=> UP!Truncated(found)
  OBVIOUS
<1>9. PICK t : t = [op |-> "page", key |-> o.key, page |-> page, more |-> more]
  OBVIOUS
<1>10. /\ t \in PageTask /\ t \in FileTask /\ t.op = "page"
       /\ t.key = o.key /\ t.page = page /\ t.more = more
  BY <1>3, <1>5, <1>6, <1>9 DEF PageTask, FileTask
<1>11. fileTask' = [fileTask EXCEPT ![r] = t]
  <2>1. UP!Truncated(found) \in BOOLEAN
    BY DEF UP!Truncated
  <2>2. t = [op |-> "page", key |-> o.key, page |-> page, more |-> UP!Truncated(found)]
    BY <1>8, <1>9, <2>1
  <2>3. page = {k \in found : UP!Cardinality({l \in found : l.at < k.at}) < PageSize}
    BY <1>5, SameCount
  <2> QED BY <1>2, <1>4, <2>2, <2>3, Zenon DEF UP!ListPage, UP!Does
<1>12. UNCHANGED <<objects, avatar, files, erased, faults, late, unread, failed>>
  BY DEF UP!ListPage, UP!history
<1>13. \A k \in ProductObjects \ found : k \in Excused
  BY <1>3, <1>6 DEF Swept
<1>14. \A p \in page : p \in ProductObjects /\ p.at \in Nat /\ p.at <= files
  BY <1>1, <1>5, <1>6, KeyTypes DEF FileInv, Key
<1>15. \A k \in found : k.at \in Nat
  BY <1>6, KeyTypes DEF Key
<1>16. more => /\ page # {}
               /\ \A k \in ProductObjects \ page : (\A p \in page : k.at > p.at) \/ k \in Excused
  BY <1>7, <1>8, <1>13, <1>14, <1>15
<1>17. ~more => \A k \in ProductObjects \ page : k \in Excused
  BY <1>7, <1>8, <1>13
<1>18. t.key \notin objects \ Excused
  BY <1>3, <1>10 DEF Swept
<1>19. t \notin ListTask /\ t \notin LastTask
  BY <1>10, FileTaskTypes
<1>20. Swept(t)
  BY <1>10, <1>14, <1>16, <1>17, <1>18, <1>19 DEF Swept
<1>21. Swept(t)'
  BY <1>10, <1>12, <1>20, SweptKept DEF Excused
<1>22. /\ faults' \in 0..MaxFaults /\ failed' \subseteq Key /\ objects' \subseteq objects
       /\ avatar' \in Avatar /\ failed \subseteq failed'
  BY <1>1, <1>12 DEF FileTypes
<1> QED BY <1>10, <1>11, <1>12, <1>21, <1>22, FileTaskStep

LEMMA DeletePageInv ==
  ASSUME FileInv, NEW r \in Request, UP!DeletePage(r)
  PROVE  FileInv'
<1>1. FileTypes /\ avatar \in Avatar /\ files \in Nat /\ files <= MaxFiles /\ MaxFiles \in Nat
  BY UploadsAssumption DEF FileInv, FileTypes
<1>2. PICK o \in FileTask : o = fileTask[r]
  BY <1>1 DEF FileTypes
<1>3. /\ o.op = "page" /\ o \in PageTask /\ o.key \in Avatar /\ Swept(o)
      /\ o.page \subseteq UP!ProductKey /\ o.more \in BOOLEAN
  BY <1>2, FileTaskTypes DEF UP!DeletePage, FileInv
<1>4. /\ objects' = objects \ o.page
      /\ UNCHANGED <<avatar, files, erased, faults, late, unread, failed>>
  BY <1>2 DEF UP!DeletePage, UP!history
<1>5. /\ faults' \in 0..MaxFaults /\ failed' \subseteq Key /\ objects' \subseteq objects
      /\ avatar' \in Avatar /\ failed \subseteq failed' /\ Excused' = Excused
  BY <1>1, <1>4 DEF FileTypes, Excused
<1>6. ProductObjects' = ProductObjects \ o.page
  BY <1>4 DEF ProductObjects
<1>7. o.key \notin objects' \ Excused'
  BY <1>3, <1>5 DEF Swept
<1>8. CASE o.more
  <2> DEFINE ats == {k.at : k \in o.page}
  <2>1. /\ o.page # {} /\ \A p \in o.page : p.at <= files
        /\ \A k \in ProductObjects \ o.page : (\A p \in o.page : k.at > p.at) \/ k \in Excused
    BY <1>3, <1>8 DEF Swept
  <2>2. \A p \in o.page : p.at \in Nat
    BY <1>3, KeyTypes DEF Key
  <2>3. ats \in SUBSET Nat /\ ats # {} /\ \A x \in ats : x <= files
    BY <2>1, <2>2
  <2>4. PICK last : last = UP!Max(ats)
    OBVIOUS
  <2> HIDE DEF ats
  <2>5. last \in ats
    BY <1>1, <2>3, <2>4, MaxIsGreatest
  <2>6. last \in 0..MaxFiles /\ last <= files
    BY <1>1, <2>3, <2>5
  <2>7. PICK p \in o.page : p.at = last
    BY <2>5 DEF ats
  <2>8. PICK t : t = [op |-> "list", key |-> o.key, after |-> last]
    OBVIOUS
  <2>9. t \in ListTask /\ t \in FileTask /\ t.key = o.key /\ t.after = last /\ t.op = "list"
    BY <1>3, <2>6, <2>8 DEF ListTask, FileTask
  <2>10. fileTask' = [fileTask EXCEPT ![r] = t]
    BY <1>2, <1>8, <2>4, <2>8, Zenon DEF UP!DeletePage, UP!Does, ats
  <2>11. \A k \in ProductObjects' : k.at > t.after \/ k \in Excused'
    BY <1>5, <1>6, <2>1, <2>7, <2>9
  <2>12. t \notin PageTask /\ t \notin LastTask
    BY <2>9, FileTaskTypes
  <2>13. t.after <= files'
    BY <1>4, <2>6, <2>9
  <2>14. Swept(t)'
    BY <1>7, <2>9, <2>11, <2>12, <2>13 DEF Swept
  <2> QED BY <1>4, <1>5, <2>9, <2>10, <2>14, FileTaskStep
<1>9. CASE ~o.more
  <2>1. PICK t : t = [op |-> "anonymize", key |-> o.key]
    OBVIOUS
  <2>2. t \in LastTask /\ t \in FileTask /\ t.key = o.key /\ t.op = "anonymize"
    BY <1>3, <2>1 DEF LastTask, FileTask
  <2>3. fileTask' = [fileTask EXCEPT ![r] = t]
    BY <1>2, <1>9, <2>1, Zenon DEF UP!DeletePage, UP!Does
  <2>4. ProductObjects' \subseteq Excused'
    BY <1>3, <1>5, <1>6, <1>9 DEF Swept
  <2>5. t \notin ListTask /\ t \notin PageTask
    BY <2>2, FileTaskTypes
  <2>6. Swept(t)'
    BY <1>7, <2>2, <2>4, <2>5 DEF Swept
  <2> QED BY <1>4, <1>5, <2>2, <2>3, <2>6, FileTaskStep
<1> QED BY <1>3, <1>8, <1>9

LEMMA PrefixFailsInv ==
  ASSUME FileInv, NEW r \in Request, UP!PrefixFails(r)
  PROVE  FileInv'
<1>1. FileTypes /\ avatar \in Avatar /\ failed \subseteq Key /\ objects \subseteq Key
  BY DEF FileInv, FileTypes
<1>2. PICK o \in FileTask : o = fileTask[r]
  BY <1>1 DEF FileTypes
<1>3. o.key \in Avatar /\ Swept(o) /\ o \in ListTask \cup PageTask
  BY <1>2, FileTaskTypes DEF UP!PrefixFails, FileInv
<1>4. /\ failed' = failed \cup {k \in objects : k.kind = "product"}
      /\ UNCHANGED <<objects, avatar, files, erased, late, unread>>
      /\ faults < MaxFaults /\ faults' = faults + 1
  BY DEF UP!PrefixFails, UP!Fault
<1>5. faults' \in 0..MaxFaults
  BY <1>1, <1>4, UploadsAssumption DEF FileTypes
<1>6. PICK t : t = [op |-> "anonymize", key |-> o.key]
  OBVIOUS
<1>7. t \in LastTask /\ t \in FileTask /\ t.key = o.key /\ t.op = "anonymize"
  BY <1>3, <1>6 DEF LastTask, FileTask
<1>8. fileTask' = [fileTask EXCEPT ![r] = t]
  BY <1>2, <1>6 DEF UP!PrefixFails, UP!Does
<1>9. ProductObjects' \subseteq failed'
  BY <1>1, <1>4, KeyTypes DEF ProductObjects
<1>10. ProductObjects' \subseteq Excused'
  BY <1>9 DEF Excused
<1>11. t.key \notin objects' \ Excused'
  BY <1>3, <1>4, <1>7 DEF Swept, Excused
<1>12. t \notin ListTask /\ t \notin PageTask
  BY <1>7, FileTaskTypes
<1>13. Swept(t)'
  BY <1>7, <1>10, <1>11, <1>12 DEF Swept
<1>14. failed \subseteq failed' /\ failed' \subseteq Key /\ objects' \subseteq objects /\ avatar' \in Avatar
  BY <1>1, <1>4
<1> QED BY <1>4, <1>5, <1>7, <1>8, <1>13, <1>14, FileTaskStep

\* When the account is anonymized everything that is left has an excuse.
LEMMA AnonymizeInv ==
  ASSUME FileInv, NEW r \in Request, UP!Anonymize(r)
  PROVE  FileInv'
<1>1. FileTypes /\ objects \subseteq Key
  BY DEF FileInv, FileTypes
<1>2. PICK o \in FileTask : o = fileTask[r]
  BY <1>1 DEF FileTypes
<1>3. o \in LastTask /\ Swept(o)
  BY <1>2, FileTaskTypes DEF UP!Anonymize, FileInv
<1>4. /\ erased' = TRUE /\ avatar' = UP!None
      /\ unread' = unread \cup {k \in objects : k.kind = "profile" /\ k # o.key}
      /\ fileTask' = [fileTask EXCEPT ![r] = UP!Idle]
      /\ UNCHANGED <<objects, files, faults, late, failed>>
  BY <1>2 DEF UP!Anonymize, UP!Does
<1>5. UP!Idle \in FileTask /\ UP!Idle.op = "none" /\ UP!None \in Avatar
  BY DEF FileTask, UP!Idle, Avatar
<1>6. FileTypes'
  BY <1>1, <1>4, <1>5 DEF FileTypes
<1>7. Excused' = Excused /\ ProductObjects' = ProductObjects
  BY <1>4 DEF Excused, ProductObjects
<1>8. \A k \in ProductObjects' : k.at <= files'
  BY <1>4, <1>7 DEF FileInv
<1>9. ASSUME NEW q \in Request PROVE Swept(fileTask[q])'
  <2>1. PICK t : t = fileTask'[q]
    OBVIOUS
  <2>2. CASE t = UP!Idle
    BY <1>5, <2>1, <2>2, NothingSwept DEF Swept
  <2>3. CASE t # UP!Idle
    <3>1. t = fileTask[q]
      BY <1>1, <1>4, <2>1, <2>3 DEF FileTypes
    <3>2. t \in FileTask /\ Swept(t)
      BY <1>1, <3>1 DEF FileInv, FileTypes
    <3>3. Swept(t)'
      BY <1>4, <1>7, <3>2, SweptKept
    <3> QED BY <2>1, <3>3 DEF Swept
  <2> QED BY <2>2, <2>3
<1>10. ASSUME NEW k \in objects PROVE k \in late \cup unread' \cup failed
  <2>1. CASE k \in UP!ProductKey
    BY <1>3, <2>1 DEF Swept, ProductObjects, Excused
  <2>2. CASE k \in UP!Profile
    <3>1. k = o.key => k \in Excused
      BY <1>3, <1>10 DEF Swept
    <3>2. k.kind = "profile"
      BY <1>1, <2>2, KeyTypes
    <3> QED BY <1>4, <3>1, <3>2 DEF Excused
  <2> QED BY <1>1, <2>1, <2>2 DEF Key
<1>11. UP!OnlyTheseOutlive'
  BY <1>4, <1>10 DEF UP!OnlyTheseOutlive
<1> QED BY <1>6, <1>8, <1>9, <1>11 DEF FileInv

LEMMA FileNextInv ==
  ASSUME FileInv, UP!Next
  PROVE  FileInv'
<1>1. CASE \/ \E r \in Request :
                 \/ UP!SetAvatar(r) \/ UP!BeginRemove(r) \/ UP!ClearAvatar(r)
                 \/ UP!BeginErasure(r) \/ UP!Stops(r)
                 \/ \E ok \in BOOLEAN : UP!RemoveFile(r, ok)
           \/ \E key \in objects, ok \in BOOLEAN : UP!DeleteFile(key, ok)
  BY <1>1, PlainFileSteps
<1>2. CASE (\E r \in Request, ext \in Ext : UP!UploadAvatar(r, ext)) \/ UP!UploadProduct
  BY <1>2, UploadsInv
<1>3. CASE \E r \in Request, ok \in BOOLEAN : UP!EraseAvatar(r, ok)
  BY <1>3, EraseAvatarInv
<1>4. CASE \E r \in Request : UP!ListPage(r)
  BY <1>4, ListPageInv
<1>5. CASE \E r \in Request : UP!DeletePage(r)
  BY <1>5, DeletePageInv
<1>6. CASE \E r \in Request : UP!PrefixFails(r)
  BY <1>6, PrefixFailsInv
<1>7. CASE \E r \in Request : UP!Anonymize(r)
  BY <1>7, AnonymizeInv
<1> QED BY <1>1, <1>2, <1>3, <1>4, <1>5, <1>6, <1>7 DEF UP!Next

LEMMA FileStutter ==
  ASSUME FileInv, UNCHANGED fileVars
  PROVE  FileInv'
<1>1. UNCHANGED <<objects, avatar, files, erased, faults, late, unread, failed, fileTask>>
  BY DEF fileVars
<1>2. FileTypes /\ objects' \subseteq objects /\ avatar' \in Avatar /\ faults' \in 0..MaxFaults
  BY <1>1 DEF FileInv, FileTypes
<1>3. /\ failed \subseteq failed' /\ failed' \subseteq Key
      /\ fileTask' \in [Request -> FileTask] /\ \A q \in Request : fileTask'[q] = fileTask[q]
  BY <1>1, <1>2 DEF FileTypes
<1> QED BY <1>1, <1>2, <1>3, FileKept

LEMMA FileInitInv ==
  ASSUME UP!Init
  PROVE  FileInv
<1>1. /\ objects = {} /\ avatar \in {UP!None, UP!External} /\ files = 0 /\ erased = FALSE
      /\ faults = 0 /\ fileTask = [r \in Request |-> UP!Idle]
      /\ late = {} /\ unread = {} /\ failed = {}
  BY DEF UP!Init
<1>2. UP!Idle \in FileTask /\ UP!Idle.op = "none"
  BY DEF FileTask, UP!Idle
<1>3. FileTypes
  <2>1. avatar \in Avatar
    BY <1>1 DEF Avatar
  <2>2. fileTask \in [Request -> FileTask]
    BY <1>1, <1>2
  <2>3. files \in 0..MaxFiles /\ faults \in 0..MaxFaults
    BY <1>1, UploadsAssumption
  <2> QED BY <1>1, <2>1, <2>2, <2>3 DEF FileTypes
<1>4. ProductObjects = {}
  BY <1>1 DEF ProductObjects
<1>5. UP!Idle \notin ListTask /\ UP!Idle \notin PageTask /\ UP!Idle \notin LastTask
  BY <1>2, FileTaskTypes
<1>6. Swept(UP!Idle)
  BY <1>5 DEF Swept
<1>7. \A r \in Request : Swept(fileTask[r])
  BY <1>1, <1>6
<1> QED BY <1>1, <1>3, <1>4, <1>7 DEF FileInv, UP!OnlyTheseOutlive

LEMMA FileTypeOK ==
  ASSUME FileInv
  PROVE  UP!TypeOK
<1>1. ASSUME NEW r \in Request
      PROVE  fileTask[r].op \in {"none", "set", "remove", "clear", "erase",
                                 "list", "page", "anonymize"}
  <2>1. PICK t \in FileTask : t = fileTask[r]
    BY DEF FileInv, FileTypes
  <2> QED BY <2>1, FileTaskTypes
<1> QED BY <1>1 DEF FileInv, FileTypes, UP!TypeOK, Key, Avatar
-----------------------------------------------------------------------------
(* The storefront *)

Price == [amount : SalePrice, from : SF!Day, active : BOOLEAN]
Promotion == [amount : Int, start : SF!Day, end : 1..MaxDay + 1, ended : BOOLEAN]
Place == {"list", "page"}

LookingTask == [op : {"look"}, place : Place, shown : Int]
PricesTask == [op : {"prices"}, place : Place, shown : Int, lines : SF!Lines, enough : BOOLEAN]
PromotionsTask == [op : {"promotions"}, place : Place, shown : Int, lines : SF!Lines,
                   enough : BOOLEAN, price : Int]
CreateTask == [op : {"create"}, place : Place, shown : Int, lines : SF!Lines,
               enough : BOOLEAN, charge : Int]
BuyerTask == {SF!Idle} \cup LookingTask \cup PricesTask \cup PromotionsTask \cup CreateTask

Ordering(t) == t \in PricesTask \cup PromotionsTask \cup CreateTask

ShopTypes ==
    /\ shopDay \in SF!Day /\ active \in BOOLEAN
    /\ prices \in Seq(Price)
    /\ promotions \in Seq(Promotion)
    /\ \A i \in DOMAIN promotions : promotions[i].start < promotions[i].end
    /\ stock \in 0..MaxQuantity \cup {SF!Untracked}
    /\ buyerTask \in BuyerTask

\* What the buyer was shown, and what the order has read, is still so, unless a change
\* has struck out what was shown; and as much as each line asks for is there, unless
\* the stock has changed.
UpToDate(t) ==
    /\ t # SF!Idle /\ t.shown # SF!None =>
          /\ t.place = "list" => SF!PriceNow # SF!None /\ t.shown = SF!Listed
          /\ t.place = "page" => t.shown = SF!OnPage
          /\ t \in PromotionsTask => t.price = SF!PriceNow
          /\ t \in CreateTask => t.charge = SF!ChargeOf(SF!PriceNow)
    /\ Ordering(t) /\ t.enough => SF!Enough(t.lines)

ShopInv == ShopTypes /\ UpToDate(buyerTask)

LEMMA BuyerTaskTypes ==
  ASSUME NEW t \in BuyerTask
  PROVE  /\ t.op = "none" <=> t = SF!Idle
         /\ t.op = "look" <=> t \in LookingTask
         /\ t.op = "prices" <=> t \in PricesTask
         /\ t.op = "promotions" <=> t \in PromotionsTask
         /\ t.op = "create" <=> t \in CreateTask
         /\ t # SF!Idle => t.place \in Place /\ t.shown \in Int
         /\ Ordering(t) => t.lines \in SF!Lines /\ t.enough \in BOOLEAN
         /\ t \in PromotionsTask => t.price \in Int
         /\ t \in CreateTask => t.charge \in Int
<1>1. SF!Idle.op = "none"
  BY DEF SF!Idle
<1>2. t \in LookingTask => t.op = "look" /\ t.place \in Place /\ t.shown \in Int
  BY DEF LookingTask
<1>3. t \in PricesTask => /\ t.op = "prices" /\ t.place \in Place /\ t.shown \in Int
                          /\ t.lines \in SF!Lines /\ t.enough \in BOOLEAN
  BY DEF PricesTask
<1>4. t \in PromotionsTask => /\ t.op = "promotions" /\ t.place \in Place /\ t.shown \in Int
                              /\ t.lines \in SF!Lines /\ t.enough \in BOOLEAN /\ t.price \in Int
  BY DEF PromotionsTask
<1>5. t \in CreateTask => /\ t.op = "create" /\ t.place \in Place /\ t.shown \in Int
                          /\ t.lines \in SF!Lines /\ t.enough \in BOOLEAN /\ t.charge \in Int
  BY DEF CreateTask
<1>6. \/ t = SF!Idle \/ t \in LookingTask \/ t \in PricesTask
      \/ t \in PromotionsTask \/ t \in CreateTask
  BY DEF BuyerTask
<1> QED BY <1>1, <1>2, <1>3, <1>4, <1>5, <1>6 DEF Ordering

\* A task after a change of prices, promotions or date: nothing that was shown counts.
LEMMA OutdatedTypes ==
  ASSUME NEW t \in BuyerTask, NEW u, u = IF t = SF!Idle THEN SF!Idle ELSE [t EXCEPT !.shown = SF!None]
  PROVE  /\ u \in BuyerTask
         /\ u = SF!Idle \/ u.shown = SF!None
         /\ Ordering(u) => Ordering(t) /\ u.enough = t.enough /\ u.lines = t.lines
<1>1. CASE t = SF!Idle
  BY <1>1, BuyerTaskTypes
<1>2. ASSUME t # SF!Idle, u \in BuyerTask, u.op = t.op, u.shown = SF!None,
             t.op # "look" => u.enough = t.enough /\ u.lines = t.lines
      PROVE  /\ u = SF!Idle \/ u.shown = SF!None
             /\ Ordering(u) => Ordering(t) /\ u.enough = t.enough /\ u.lines = t.lines
  BY <1>2, BuyerTaskTypes DEF Ordering
<1>3. SF!None \in Int
  BY DEF SF!None
<1>4. CASE t \in LookingTask
  <2>1. u = [t EXCEPT !.shown = SF!None] /\ t # SF!Idle /\ t.op = "look"
    BY <1>4, BuyerTaskTypes
  <2>2. u \in LookingTask /\ u.op = t.op /\ u.shown = SF!None
    BY <1>3, <1>4, <2>1 DEF LookingTask
  <2> QED BY <1>2, <2>1, <2>2 DEF BuyerTask
<1>5. CASE t \in PricesTask
  <2>1. u = [t EXCEPT !.shown = SF!None] /\ t # SF!Idle
    BY <1>5, BuyerTaskTypes
  <2>2. u \in PricesTask /\ u.op = t.op /\ u.shown = SF!None /\ u.enough = t.enough /\ u.lines = t.lines
    BY <1>3, <1>5, <2>1 DEF PricesTask
  <2> QED BY <1>2, <2>1, <2>2 DEF BuyerTask
<1>6. CASE t \in PromotionsTask
  <2>1. u = [t EXCEPT !.shown = SF!None] /\ t # SF!Idle
    BY <1>6, BuyerTaskTypes
  <2>2. u \in PromotionsTask /\ u.op = t.op /\ u.shown = SF!None /\ u.enough = t.enough /\ u.lines = t.lines
    BY <1>3, <1>6, <2>1 DEF PromotionsTask
  <2> QED BY <1>2, <2>1, <2>2 DEF BuyerTask
<1>7. CASE t \in CreateTask
  <2>1. u = [t EXCEPT !.shown = SF!None] /\ t # SF!Idle
    BY <1>7, BuyerTaskTypes
  <2>2. u \in CreateTask /\ u.op = t.op /\ u.shown = SF!None /\ u.enough = t.enough /\ u.lines = t.lines
    BY <1>3, <1>7, <2>1 DEF CreateTask
  <2> QED BY <1>2, <2>1, <2>2 DEF BuyerTask
<1> QED BY <1>1, <1>4, <1>5, <1>6, <1>7 DEF BuyerTask

LEMMA ExtremesExist ==
  ASSUME NEW n \in Nat, NEW S \in SUBSET (1..n), S # {}
  PROVE  SF!Max(S) \in S /\ SF!Min(S) \in S
<1>1. S \in SUBSET Nat /\ \A x \in S : x <= n
  OBVIOUS
<1>2. UP!Max(S) \in S
  BY <1>1, MaxIsGreatest
<1>3. SF!Max(S) = UP!Max(S)
  BY Zenon DEF SF!Max, UP!Max
<1>4. \E x \in S : \A y \in S : x <= y
  BY <1>1, LeastNatural
<1>5. SF!Min(S) \in S
  BY <1>4 DEF SF!Min
<1> QED BY <1>2, <1>3, <1>5

\* What the buyer is shown and charged are numbers.
LEMMA ShopValues ==
  ASSUME ShopTypes
  PROVE  /\ SF!PriceNow \in Int /\ SF!Listed \in Int /\ SF!OnPage \in Int
         /\ \A p \in Int : SF!ChargeOf(p) \in Int
         /\ SF!Latest \in Int
<1>1. /\ Len(prices) \in Nat /\ DOMAIN prices = 1..Len(prices)
      /\ \A i \in DOMAIN prices : prices[i].amount \in Int
  <2>1. \A i \in DOMAIN prices : prices[i] \in Price
    BY DEF ShopTypes
  <2>2. \A p \in Price : p.amount \in SalePrice
    BY DEF Price
  <2>3. Len(prices) \in Nat /\ DOMAIN prices = 1..Len(prices)
    BY DEF ShopTypes
  <2>4. \A i \in DOMAIN prices : prices[i].amount \in SalePrice
    BY <2>1, <2>2
  <2>5. SalePrice \subseteq Int
    BY StorefrontAssumption
  <2> QED BY <2>3, <2>4, <2>5
<1>2. /\ Len(promotions) \in Nat /\ DOMAIN promotions = 1..Len(promotions)
      /\ \A i \in DOMAIN promotions : promotions[i].amount \in Int
  <2>1. \A i \in DOMAIN promotions : promotions[i] \in Promotion
    BY DEF ShopTypes
  <2>2. \A p \in Promotion : p.amount \in Int
    BY DEF Promotion
  <2>3. Len(promotions) \in Nat /\ DOMAIN promotions = 1..Len(promotions)
    BY DEF ShopTypes
  <2> QED BY <2>1, <2>2, <2>3
<1>3. SF!PriceNow \in Int
  <2>1. SF!InForce \in SUBSET (1..Len(prices))
    BY <1>1 DEF SF!InForce
  <2>2. SF!InForce # {} => SF!Max(SF!InForce) \in DOMAIN prices
    BY <1>1, <2>1, ExtremesExist
  <2> QED BY <1>1, <2>2 DEF SF!PriceNow, SF!None
<1>4. SF!Running # {} =>
         SF!Max(SF!Running) \in DOMAIN promotions /\ SF!Min(SF!Running) \in DOMAIN promotions
  <2>1. SF!Running \in SUBSET (1..Len(promotions))
    BY <1>2 DEF SF!Running
  <2> QED BY <1>2, <2>1, ExtremesExist
<1>5. SF!Listed \in Int
  BY <1>2, <1>3, <1>4 DEF SF!Listed
<1>6. SF!OnPage \in Int
  BY <1>3 DEF SF!OnPage
<1>7. \A p \in Int : SF!ChargeOf(p) \in Int
  BY <1>2, <1>4 DEF SF!ChargeOf
<1>8. SF!Latest \in Int
  <2> DEFINE on == {i \in DOMAIN prices : prices[i].active}
  <2>1. on \in SUBSET (1..Len(prices))
    BY <1>1
  <2>2. on # {} => SF!Max(on) \in DOMAIN prices
    BY <1>1, <2>1, ExtremesExist
  <2>3. SF!Latest = IF on = {} THEN 0 ELSE prices[SF!Max(on)].amount
    BY DEF SF!Latest
  <2> QED BY <1>1, <2>2, <2>3
<1> QED BY <1>3, <1>5, <1>6, <1>7, <1>8

LEMMA UpToDateKept ==
  ASSUME NEW t, UpToDate(t), UNCHANGED <<shopDay, prices, promotions, stock>>
  PROVE  UpToDate(t)'
<1>1. /\ shopDay' = shopDay /\ prices' = prices
      /\ promotions' = promotions /\ stock' = stock
  OBVIOUS
<1> QED BY <1>1 DEF UpToDate, SF!PriceNow, SF!InForce, SF!Listed, SF!Running, SF!OnPage,
                  SF!ChargeOf, SF!Enough

\* The steps of the buyer leave all but the order alone.
LEMMA BuyerStep ==
  ASSUME ShopInv, UNCHANGED <<shopDay, active, prices, promotions, stock>>,
         NEW t \in BuyerTask, buyerTask' = t, UpToDate(t)
  PROVE  ShopInv'
<1>1. ShopTypes'
  BY DEF ShopInv, ShopTypes
<1>2. UpToDate(t)'
  BY UpToDateKept
<1> QED BY <1>1, <1>2 DEF ShopInv

LEMMA LookInv ==
  ASSUME ShopInv, SF!BrowseList \/ SF!OpenPage
  PROVE  ShopInv'
<1>1. SF!Listed \in Int /\ SF!OnPage \in Int
  BY ShopValues DEF ShopInv
<1>2. CASE SF!BrowseList
  <2>1. /\ SF!PriceNow # SF!None
        /\ buyerTask' = [op |-> "look", place |-> "list", shown |-> SF!Listed]
        /\ UNCHANGED <<shopDay, active, prices, promotions, stock>>
    BY <1>2 DEF SF!BrowseList, SF!Look
  <2>2. PICK t : t = [op |-> "look", place |-> "list", shown |-> SF!Listed]
    OBVIOUS
  <2>3. t \in LookingTask /\ t.place = "list" /\ t.shown = SF!Listed
    BY <1>1, <2>2 DEF LookingTask, Place
  <2>4. t \in BuyerTask
    BY <2>3 DEF BuyerTask
  <2>5. t \notin PromotionsTask /\ t \notin CreateTask /\ ~Ordering(t)
    BY <2>3, <2>4, BuyerTaskTypes DEF Ordering
  <2>6. UpToDate(t)
    BY <2>1, <2>3, <2>5 DEF UpToDate
  <2>7. buyerTask' = t
    BY <2>1, <2>2
  <2> QED BY <2>1, <2>4, <2>6, <2>7, BuyerStep
<1>3. CASE SF!OpenPage
  <2>1. /\ buyerTask' = [op |-> "look", place |-> "page", shown |-> SF!OnPage]
        /\ UNCHANGED <<shopDay, active, prices, promotions, stock>>
    BY <1>3 DEF SF!OpenPage, SF!Look
  <2>2. PICK t : t = [op |-> "look", place |-> "page", shown |-> SF!OnPage]
    OBVIOUS
  <2>3. t \in LookingTask /\ t.place = "page" /\ t.shown = SF!OnPage
    BY <1>1, <2>2 DEF LookingTask, Place
  <2>4. t \in BuyerTask
    BY <2>3 DEF BuyerTask
  <2>5. t \notin PromotionsTask /\ t \notin CreateTask /\ ~Ordering(t)
    BY <2>3, <2>4, BuyerTaskTypes DEF Ordering
  <2>6. UpToDate(t)
    BY <2>3, <2>5 DEF UpToDate
  <2>7. buyerTask' = t
    BY <2>1, <2>2
  <2> QED BY <2>1, <2>4, <2>6, <2>7, BuyerStep
<1> QED BY <1>2, <1>3

LEMMA OrderInv ==
  ASSUME ShopInv, \/ \E lines \in SF!Lines : SF!CheckStock(lines)
                  \/ SF!ReadPrices \/ SF!ReadPromotions \/ SF!CreateOrder
  PROVE  ShopInv'
<1>1. PICK b \in BuyerTask : b = buyerTask /\ UpToDate(b)
  BY DEF ShopInv, ShopTypes
<1>2. SF!PriceNow \in Int /\ \A p \in Int : SF!ChargeOf(p) \in Int
  BY ShopValues DEF ShopInv
<1>3. ASSUME NEW lines \in SF!Lines, SF!CheckStock(lines)
      PROVE  ShopInv'
  <2>1. /\ b.op = "look" /\ SF!Enough(lines)
        /\ buyerTask' = [op |-> "prices", place |-> b.place, shown |-> b.shown,
                         lines |-> lines, enough |-> TRUE]
        /\ UNCHANGED <<shopDay, active, prices, promotions, stock>>
    BY <1>1, <1>3 DEF SF!CheckStock
  <2>2. b \in LookingTask /\ b # SF!Idle /\ b.place \in Place /\ b.shown \in Int
    BY <2>1, BuyerTaskTypes DEF SF!Idle
  <2>3. PICK t : t = [op |-> "prices", place |-> b.place, shown |-> b.shown,
                      lines |-> lines, enough |-> TRUE]
    OBVIOUS
  <2>4. /\ t \in PricesTask /\ t.place = b.place /\ t.shown = b.shown
        /\ t.lines = lines
    BY <2>2, <2>3 DEF PricesTask
  <2>5. t \in BuyerTask
    BY <2>4 DEF BuyerTask
  <2>6. t \notin PromotionsTask /\ t \notin CreateTask
    BY <2>4, <2>5, BuyerTaskTypes
  <2>7. UpToDate(t)
    BY <1>1, <2>1, <2>2, <2>4, <2>6 DEF UpToDate
  <2>8. buyerTask' = t
    BY <2>1, <2>3
  <2> QED BY <2>1, <2>5, <2>7, <2>8, BuyerStep
<1>4. CASE SF!ReadPrices
  <2>1. /\ b.op = "prices"
        /\ buyerTask' = [op |-> "promotions", place |-> b.place, shown |-> b.shown,
                         lines |-> b.lines, enough |-> b.enough, price |-> SF!PriceNow]
        /\ UNCHANGED <<shopDay, active, prices, promotions, stock>>
    BY <1>1, <1>4 DEF SF!ReadPrices
  <2>2. /\ b \in PricesTask /\ b # SF!Idle /\ b.place \in Place /\ b.shown \in Int
        /\ Ordering(b) /\ b.lines \in SF!Lines /\ b.enough \in BOOLEAN
    BY <2>1, BuyerTaskTypes DEF SF!Idle, Ordering
  <2>3. PICK t : t = [op |-> "promotions", place |-> b.place, shown |-> b.shown,
                      lines |-> b.lines, enough |-> b.enough, price |-> SF!PriceNow]
    OBVIOUS
  <2>4. /\ t \in PromotionsTask /\ t.place = b.place /\ t.shown = b.shown
        /\ t.lines = b.lines /\ t.enough = b.enough /\ t.price = SF!PriceNow
    BY <1>2, <2>2, <2>3 DEF PromotionsTask
  <2>5. t \in BuyerTask
    BY <2>4 DEF BuyerTask
  <2>6. t \notin CreateTask
    BY <2>4, <2>5, BuyerTaskTypes
  <2>7. UpToDate(t)
    BY <1>1, <2>1, <2>2, <2>4, <2>6 DEF UpToDate
  <2>8. buyerTask' = t
    BY <2>1, <2>3
  <2> QED BY <2>1, <2>5, <2>7, <2>8, BuyerStep
<1>5. CASE SF!ReadPromotions
  <2>1. /\ b.op = "promotions"
        /\ buyerTask' = [op |-> "create", place |-> b.place, shown |-> b.shown,
                         lines |-> b.lines, enough |-> b.enough,
                         charge |-> SF!ChargeOf(b.price)]
        /\ UNCHANGED <<shopDay, active, prices, promotions, stock>>
    BY <1>1, <1>5 DEF SF!ReadPromotions
  <2>2. /\ b \in PromotionsTask /\ b # SF!Idle /\ b.place \in Place /\ b.shown \in Int
        /\ Ordering(b) /\ b.lines \in SF!Lines /\ b.enough \in BOOLEAN /\ b.price \in Int
    BY <2>1, BuyerTaskTypes DEF SF!Idle, Ordering
  <2>3. PICK c \in Int : c = SF!ChargeOf(b.price)
    BY <1>2, <2>2
  <2>4. PICK t : t = [op |-> "create", place |-> b.place, shown |-> b.shown,
                      lines |-> b.lines, enough |-> b.enough, charge |-> c]
    OBVIOUS
  <2>5. /\ t \in CreateTask /\ t.place = b.place /\ t.shown = b.shown
        /\ t.lines = b.lines /\ t.enough = b.enough /\ t.charge = c
    BY <2>2, <2>4 DEF CreateTask
  <2>6. t \in BuyerTask
    BY <2>5 DEF BuyerTask
  <2>7. t \notin PromotionsTask
    BY <2>5, <2>6, BuyerTaskTypes
  <2>8. UpToDate(t)
    BY <1>1, <2>1, <2>2, <2>3, <2>5, <2>7 DEF UpToDate
  <2>9. buyerTask' = t
    BY <2>1, <2>3, <2>4
  <2> QED BY <2>1, <2>6, <2>8, <2>9, BuyerStep
<1>6. CASE SF!CreateOrder
  <2>1. /\ buyerTask' = SF!Idle
        /\ UNCHANGED <<shopDay, active, prices, promotions, stock>>
    BY <1>6 DEF SF!CreateOrder
  <2>2. SF!Idle \in BuyerTask /\ SF!Idle.op = "none"
    BY DEF BuyerTask, SF!Idle
  <2>3. ~Ordering(SF!Idle)
    BY <2>2, BuyerTaskTypes DEF Ordering
  <2>4. UpToDate(SF!Idle)
    BY <2>3 DEF UpToDate
  <2> QED BY <2>1, <2>2, <2>4, BuyerStep
<1> QED BY <1>3, <1>4, <1>5, <1>6

\* Changes of prices, promotions and date strike out what the buyer was shown.
LEMMA OutdateInv ==
  ASSUME ShopInv, SF!Outdate, UNCHANGED <<active, stock>>,
         shopDay' \in SF!Day, prices' \in Seq(Price), promotions' \in Seq(Promotion),
         \A i \in DOMAIN promotions' : promotions'[i].start < promotions'[i].end
  PROVE  ShopInv'
<1>1. PICK b \in BuyerTask : b = buyerTask /\ UpToDate(b)
  BY DEF ShopInv, ShopTypes
<1>2. PICK u : u = IF b = SF!Idle THEN SF!Idle ELSE [b EXCEPT !.shown = SF!None]
  OBVIOUS
<1>3. buyerTask' = u
  BY <1>1, <1>2 DEF SF!Outdate
<1>4. /\ u \in BuyerTask
      /\ u = SF!Idle \/ u.shown = SF!None
      /\ Ordering(u) => Ordering(b) /\ u.enough = b.enough /\ u.lines = b.lines
  BY <1>2, OutdatedTypes
<1>5. Ordering(u) /\ u.enough => SF!Enough(u.lines)
  BY <1>1, <1>4 DEF UpToDate
<1>6. Ordering(u) /\ u.enough => SF!Enough(u.lines)'
  BY <1>5 DEF SF!Enough
<1>7. UpToDate(u)'
  BY <1>4, <1>6 DEF UpToDate
<1>8. ShopTypes'
  BY <1>3, <1>4 DEF ShopTypes, ShopInv
<1> QED BY <1>3, <1>7, <1>8 DEF ShopInv

LEMMA PriceStepsInv ==
  ASSUME ShopInv, NEW amount \in SalePrice, NEW from \in SF!Day, NEW on \in BOOLEAN,
         \/ SF!AddPrice(amount, from)
         \/ \E i \in DOMAIN prices : SF!UpdatePrice(i, amount, from, on)
  PROVE  ShopInv'
<1>1. /\ prices \in Seq(Price) /\ promotions \in Seq(Promotion) /\ shopDay \in SF!Day
      /\ \A i \in DOMAIN promotions : promotions[i].start < promotions[i].end
  BY DEF ShopInv, ShopTypes
<1>2. [amount |-> amount, from |-> from, active |-> TRUE] \in Price
  BY DEF Price
<1>3. [amount |-> amount, from |-> from, active |-> on] \in Price
  BY DEF Price
<1>4. CASE SF!AddPrice(amount, from)
  <2>1. /\ prices' = Append(prices, [amount |-> amount, from |-> from, active |-> TRUE])
        /\ SF!Outdate /\ UNCHANGED <<shopDay, active, promotions, stock>>
    BY <1>4 DEF SF!AddPrice
  <2>2. prices' \in Seq(Price)
    BY <1>1, <1>2, <2>1
  <2> QED BY <1>1, <2>1, <2>2, OutdateInv
<1>5. ASSUME NEW i \in DOMAIN prices, SF!UpdatePrice(i, amount, from, on)
      PROVE  ShopInv'
  <2>1. PICK price \in Price : price = [amount |-> amount, from |-> from, active |-> on]
    BY <1>3
  <2>2. /\ prices' = [prices EXCEPT ![i] = price]
        /\ SF!Outdate /\ UNCHANGED <<shopDay, active, promotions, stock>>
    BY <1>5, <2>1 DEF SF!UpdatePrice
  <2>3. prices' \in Seq(Price)
    BY <1>1, <2>2
  <2> QED BY <1>1, <2>2, <2>3, OutdateInv
<1> QED BY <1>4, <1>5

LEMMA PromotionStepsInv ==
  ASSUME ShopInv,
         \/ \E percent \in Percent, start \in SF!Day, end \in 1..MaxDay + 1 :
               SF!CreatePromotion(percent, start, end)
         \/ \E i \in DOMAIN promotions : SF!EndPromotion(i)
  PROVE  ShopInv'
<1>1. /\ prices \in Seq(Price) /\ promotions \in Seq(Promotion) /\ shopDay \in SF!Day
      /\ \A i \in DOMAIN promotions : promotions[i].start < promotions[i].end
  BY DEF ShopInv, ShopTypes
<1>2. ASSUME NEW percent \in Percent, NEW start \in SF!Day, NEW end \in 1..MaxDay + 1,
             SF!CreatePromotion(percent, start, end)
      PROVE  ShopInv'
  <2>1. SF!Discounted(SF!Latest, percent) \in Int
    <3>1. PICK l \in Int : l = SF!Latest
      BY ShopValues DEF ShopInv
    <3>2. percent \in Int
      BY StorefrontAssumption
    <3>3. SF!Discounted(l, percent) \in Int
      BY <3>2 DEF SF!Discounted
    <3> QED BY <3>1, <3>3
  <2>2. PICK p : p = [amount |-> SF!Discounted(SF!Latest, percent),
                      start |-> start, end |-> end, ended |-> FALSE]
    OBVIOUS
  <2>3. p \in Promotion /\ p.start = start /\ p.end = end
    BY <2>1, <2>2 DEF Promotion
  <2>4. /\ start < end /\ promotions' = Append(promotions, p)
        /\ SF!Outdate /\ UNCHANGED <<shopDay, active, prices, stock>>
    BY <1>2, <2>2 DEF SF!CreatePromotion
  <2>5. promotions' \in Seq(Promotion)
    BY <1>1, <2>3, <2>4
  <2>6. \A i \in DOMAIN promotions' :
           \/ promotions'[i] = p
           \/ i \in DOMAIN promotions /\ promotions'[i] = promotions[i]
    BY <1>1, <2>3, <2>4
  <2>7. \A i \in DOMAIN promotions' : promotions'[i].start < promotions'[i].end
    BY <1>1, <2>3, <2>4, <2>6
  <2> QED BY <1>1, <2>4, <2>5, <2>7, OutdateInv
<1>3. ASSUME NEW i \in DOMAIN promotions, SF!EndPromotion(i)
      PROVE  ShopInv'
  <2>1. PICK p \in Promotion : p = promotions[i] /\ p.start < p.end
    BY <1>1, ElementOfSeq
  <2>2. PICK q : q = [p EXCEPT !.ended = TRUE]
    OBVIOUS
  <2>3. q \in Promotion /\ q.start = p.start /\ q.end = p.end
    BY <2>1, <2>2 DEF Promotion
  <2>4. promotions' = [promotions EXCEPT ![i] = q]
    BY <1>3, <2>1, <2>2 DEF SF!EndPromotion
  <2>5. SF!Outdate /\ UNCHANGED <<shopDay, active, prices, stock>>
    BY <1>3 DEF SF!EndPromotion
  <2>6. promotions' \in Seq(Promotion) /\ DOMAIN promotions' = DOMAIN promotions
    BY <1>1, <2>3, <2>4
  <2>7. \A j \in DOMAIN promotions' : promotions'[j] = q \/ promotions'[j] = promotions[j]
    BY <1>1, <2>4, <2>6
  <2>8. \A j \in DOMAIN promotions' : promotions'[j].start < promotions'[j].end
    BY <1>1, <2>1, <2>3, <2>6, <2>7
  <2> QED BY <1>1, <2>5, <2>6, <2>8, OutdateInv
<1> QED BY <1>2, <1>3

\* A change of the stock puts an end to what the order found of it.
LEMMA SetStockInv ==
  ASSUME ShopInv, NEW level \in 0..MaxQuantity \cup {SF!Untracked}, SF!SetStock(level)
  PROVE  ShopInv'
<1>1. PICK b \in BuyerTask : b = buyerTask /\ UpToDate(b)
  BY DEF ShopInv, ShopTypes
<1>2. /\ stock' = level
      /\ buyerTask' = IF b.op \in {"none", "look"} THEN b ELSE [b EXCEPT !.enough = FALSE]
      /\ UNCHANGED <<shopDay, active, prices, promotions>>
  BY <1>1 DEF SF!SetStock
<1>3. PICK u : u = IF b.op \in {"none", "look"} THEN b ELSE [b EXCEPT !.enough = FALSE]
  OBVIOUS
<1>4. /\ u \in BuyerTask
      /\ ~(Ordering(u) /\ u.enough)
      /\ u # SF!Idle => b # SF!Idle /\ u.shown = b.shown /\ u.place = b.place
      /\ u \in PromotionsTask => b \in PromotionsTask /\ u.price = b.price
      /\ u \in CreateTask => b \in CreateTask /\ u.charge = b.charge
  <2>1. CASE b = SF!Idle \/ b \in LookingTask
    BY <1>3, <2>1, BuyerTaskTypes DEF Ordering
  <2>2. CASE b \in PricesTask
    <3>1. u = [b EXCEPT !.enough = FALSE] /\ b # SF!Idle
      BY <1>3, <2>2, BuyerTaskTypes
    <3>2. /\ u \in PricesTask /\ u.op = b.op /\ u.shown = b.shown /\ u.place = b.place
          /\ u.enough = FALSE
      BY <2>2, <3>1 DEF PricesTask
    <3>3. u \in BuyerTask
      BY <3>2 DEF BuyerTask
    <3> QED BY <3>1, <3>2, <3>3, BuyerTaskTypes
  <2>3. CASE b \in PromotionsTask
    <3>1. u = [b EXCEPT !.enough = FALSE] /\ b # SF!Idle
      BY <1>3, <2>3, BuyerTaskTypes
    <3>2. /\ u \in PromotionsTask /\ u.op = b.op /\ u.shown = b.shown /\ u.place = b.place
          /\ u.enough = FALSE /\ u.price = b.price
      BY <2>3, <3>1 DEF PromotionsTask
    <3>3. u \in BuyerTask
      BY <3>2 DEF BuyerTask
    <3> QED BY <2>3, <3>1, <3>2, <3>3, BuyerTaskTypes
  <2>4. CASE b \in CreateTask
    <3>1. u = [b EXCEPT !.enough = FALSE] /\ b # SF!Idle
      BY <1>3, <2>4, BuyerTaskTypes
    <3>2. /\ u \in CreateTask /\ u.op = b.op /\ u.shown = b.shown /\ u.place = b.place
          /\ u.enough = FALSE /\ u.charge = b.charge
      BY <2>4, <3>1 DEF CreateTask
    <3>3. u \in BuyerTask
      BY <3>2 DEF BuyerTask
    <3> QED BY <2>4, <3>1, <3>2, <3>3, BuyerTaskTypes
  <2> QED BY <2>1, <2>2, <2>3, <2>4 DEF BuyerTask
<1>5. /\ SF!PriceNow' = SF!PriceNow /\ SF!Listed' = SF!Listed /\ SF!OnPage' = SF!OnPage
      /\ SF!ChargeOf(SF!PriceNow)' = SF!ChargeOf(SF!PriceNow)
  BY <1>2 DEF SF!PriceNow, SF!InForce, SF!Listed, SF!Running, SF!OnPage, SF!ChargeOf
<1>6. UpToDate(u)'
  BY <1>1, <1>4, <1>5 DEF UpToDate
<1>7. buyerTask' = u
  BY <1>2, <1>3
<1>8. ShopTypes'
  BY <1>2, <1>4, <1>7 DEF ShopInv, ShopTypes
<1> QED BY <1>6, <1>7, <1>8 DEF ShopInv

LEMMA ShopNextInv ==
  ASSUME ShopInv, SF!Next
  PROVE  ShopInv'
<1>1. CASE SF!Buy
  BY <1>1, LookInv, OrderInv DEF SF!Buy
<1>2. CASE SF!Sell
  <2>1. ASSUME NEW amount \in SalePrice, NEW from \in SF!Day, SF!AddPrice(amount, from)
        PROVE  ShopInv'
    BY <2>1, PriceStepsInv
  <2>2. ASSUME NEW i \in DOMAIN prices, NEW amount \in SalePrice, NEW from \in SF!Day,
               NEW on \in BOOLEAN, SF!UpdatePrice(i, amount, from, on)
        PROVE  ShopInv'
    BY <2>2, PriceStepsInv
  <2>3. ASSUME NEW i \in DOMAIN prices, SF!DeactivatePrice(i)
        PROVE  ShopInv'
    <3>1. PICK p \in Price : p = prices[i]
      BY ElementOfSeq DEF ShopInv, ShopTypes
    <3>2. p.amount \in SalePrice /\ p.from \in SF!Day
      BY DEF Price
    <3>3. SF!UpdatePrice(i, p.amount, p.from, FALSE)
      BY <2>3, <3>1 DEF SF!DeactivatePrice
    <3> QED BY <2>2, <3>2, <3>3
  <2>4. ASSUME NEW on \in BOOLEAN, SF!SetActive(on)
        PROVE  ShopInv'
    <3>1. /\ active' = on /\ UNCHANGED <<shopDay, prices, promotions, stock, buyerTask>>
          /\ buyerTask \in BuyerTask
      BY <2>4 DEF SF!SetActive, ShopInv, ShopTypes
    <3>2. PICK b \in BuyerTask : b = buyerTask /\ UpToDate(b)
      BY <3>1 DEF ShopInv
    <3>3. UpToDate(b)'
      BY <3>1, <3>2, UpToDateKept
    <3>4. ShopTypes'
      BY <3>1 DEF ShopInv, ShopTypes
    <3> QED BY <3>1, <3>2, <3>3, <3>4 DEF ShopInv
  <2> QED BY <1>2, <2>1, <2>2, <2>3, <2>4, PromotionStepsInv, SetStockInv DEF SF!Sell
<1>3. CASE SF!Pass
  <2>1. /\ SF!Outdate /\ UNCHANGED <<active, prices, promotions, stock>>
        /\ shopDay < MaxDay /\ shopDay' = shopDay + 1
    BY <1>3 DEF SF!Pass
  <2>2. shopDay' \in SF!Day
    BY <2>1, StorefrontAssumption DEF ShopInv, ShopTypes, SF!Day
  <2> QED BY <2>1, <2>2, OutdateInv DEF ShopInv, ShopTypes
<1> QED BY <1>1, <1>2, <1>3 DEF SF!Next

LEMMA ShopStutter ==
  ASSUME ShopInv, UNCHANGED shopVars
  PROVE  ShopInv'
<1>1. UNCHANGED <<shopDay, active, prices, promotions, stock, buyerTask>>
  BY DEF shopVars
<1>2. PICK b \in BuyerTask : b = buyerTask /\ UpToDate(b)
  BY DEF ShopInv, ShopTypes
<1> QED BY <1>1, <1>2, BuyerStep

LEMMA ShopInitInv ==
  ASSUME SF!Init
  PROVE  ShopInv
<1>1. /\ shopDay = 0 /\ active = TRUE /\ prices = << >> /\ promotions = << >>
      /\ stock \in 0..MaxQuantity \cup {SF!Untracked} /\ buyerTask = SF!Idle
  BY DEF SF!Init
<1>2. SF!Idle \in BuyerTask /\ SF!Idle.op = "none"
  BY DEF BuyerTask, SF!Idle
<1>3. ~Ordering(SF!Idle)
  BY <1>2, BuyerTaskTypes DEF Ordering
<1>4. shopDay \in SF!Day
  BY <1>1, StorefrontAssumption DEF SF!Day
<1> QED BY <1>1, <1>2, <1>3, <1>4 DEF ShopInv, ShopTypes, UpToDate

LEMMA ShopTypeOK ==
  ASSUME ShopInv
  PROVE  SF!TypeOK
<1>1. PICK b \in BuyerTask : b = buyerTask
  BY DEF ShopInv, ShopTypes
<1>2. buyerTask = SF!Idle \/ buyerTask.op \in {"look", "prices", "promotions", "create"}
  BY <1>1, BuyerTaskTypes DEF BuyerTask
<1> QED BY <1>2 DEF ShopInv, ShopTypes, Price, SF!TypeOK

LEMMA SameShopCount == \A S : SF!Cardinality(S) = Cardinality(S)
  BY DEF SF!Cardinality, Cardinality

\* What an order charges and takes, in the step that creates it.
LEMMA CreateOrderServes ==
  ASSUME ShopInv, SF!CreateOrder
  PROVE  /\ buyerTask.charge # buyerTask.shown => SF!MayMisprice
         /\ stock # SF!Untracked /\ SF!Units(buyerTask.lines) > stock => SF!MayOversell
<1>1. PICK b \in BuyerTask : b = buyerTask /\ UpToDate(b)
  BY DEF ShopInv, ShopTypes
<1>2. /\ b \in CreateTask /\ b # SF!Idle /\ Ordering(b) /\ b.place \in Place
      /\ b.lines \in SF!Lines /\ b.enough \in BOOLEAN
  <2>1. b.op = "create"
    BY <1>1 DEF SF!CreateOrder
  <2> QED BY <2>1, BuyerTaskTypes DEF Ordering, SF!Idle
<1>3. /\ SF!Running \in SUBSET (1..Len(promotions)) /\ Len(promotions) \in Nat
      /\ SF!PriceNow \in Int
  <2>1. SF!PriceNow \in Int
    BY ShopValues DEF ShopInv
  <2>2. DOMAIN promotions = 1..Len(promotions) /\ Len(promotions) \in Nat
    BY DEF ShopInv, ShopTypes
  <2> QED BY <2>1, <2>2 DEF SF!Running
<1>4. ASSUME ~SF!MayMisprice
      PROVE  b.charge = b.shown
  <2>1. b.shown # SF!None /\ ~(SF!Cardinality(SF!Running) > 1)
        /\ ~(b.place = "page" /\ SF!Running # {})
    BY <1>1, <1>4 DEF SF!MayMisprice
  <2>2. SF!Running # {} => SF!Max(SF!Running) = SF!Min(SF!Running)
    <3> SUFFICES ASSUME SF!Running # {} PROVE SF!Max(SF!Running) = SF!Min(SF!Running)
      OBVIOUS
    <3>1. IsFiniteSet(SF!Running)
      <4>1. IsFiniteSet(1..Len(promotions))
        BY <1>3, FS_Interval
      <4> QED BY <1>3, <4>1, FS_Subset
    <3>2. Cardinality(SF!Running) \in Nat /\ Cardinality(SF!Running) # 0
      BY <3>1, FS_CardinalityType, FS_EmptySet
    <3>3. Cardinality(SF!Running) = 1
      BY <2>1, <3>2, SameShopCount
    <3>4. PICK x : SF!Running = {x}
      BY <3>1, <3>3, FS_Singleton
    <3> QED BY <1>3, <3>4, ExtremesExist
  <2>3. b.charge = SF!ChargeOf(SF!PriceNow)
    BY <1>1, <1>2, <2>1 DEF UpToDate
  <2>4. CASE b.place = "list"
    <3>1. SF!PriceNow # SF!None /\ b.shown = SF!Listed
      BY <1>1, <1>2, <2>1, <2>4 DEF UpToDate
    <3> QED BY <2>2, <2>3, <3>1 DEF SF!ChargeOf, SF!Listed
  <2>5. CASE b.place = "page"
    <3>1. b.shown = SF!OnPage /\ SF!Running = {}
      BY <1>1, <1>2, <2>1, <2>5 DEF UpToDate
    <3> QED BY <2>3, <3>1 DEF SF!ChargeOf, SF!OnPage
  <2> QED BY <1>2, <2>4, <2>5 DEF Place
<1>5. ASSUME stock # SF!Untracked, ~SF!MayOversell
      PROVE  ~(SF!Units(b.lines) > stock)
  <2>1. b.enough /\ ~(Len(b.lines) > 1)
    BY <1>1, <1>5 DEF SF!MayOversell
  <2>2. PICK l \in SF!Lines : l = b.lines
    BY <1>2
  <2>3. /\ Len(l) = 1
        /\ \A n \in DOMAIN l : stock >= l[n]
        /\ l[1] \in Int
    <3>1. \A n \in DOMAIN l : stock >= l[n]
      BY <1>1, <1>2, <1>5, <2>1, <2>2 DEF UpToDate, SF!Enough
    <3>2. CASE l \in {<<q>> : q \in SF!Quantity}
      BY <3>1, <3>2 DEF SF!Quantity
    <3>3. CASE l \in SF!Quantity \X SF!Quantity
      BY <2>1, <2>2, <3>3
    <3> QED BY <3>2, <3>3 DEF SF!Lines
  <2>4. stock \in Int /\ stock >= l[1] /\ SF!Units(l) = l[1]
    <3>1. 1 \in DOMAIN l
      BY <2>2, <2>3 DEF SF!Lines
    <3>2. stock \in Int
      BY StorefrontAssumption DEF ShopInv, ShopTypes, SF!Untracked
    <3> QED BY <2>3, <3>1, <3>2 DEF SF!Units
  <2> QED BY <2>2, <2>3, <2>4
<1> QED BY <1>1, <1>4, <1>5
-----------------------------------------------------------------------------
(* Due dates *)

LEMMA MonthLengths ==
  ASSUME NEW y \in Nat, NEW m \in 0..11
  PROVE  /\ LastDay(y, m) \in 28..31
         /\ m \in {0, 2, 4, 6, 7, 9, 11} => LastDay(y, m) = 31
         /\ m \in {3, 5, 8, 10} => LastDay(y, m) = 30
         /\ m = 1 => LastDay(y, m) = IF Leap(y) THEN 29 ELSE 28
BY DEF LastDay

\* Days of the common era up to the day before the first of a month.
DaysUpTo(y, m) ==
    LET p == y - 1
    IN  365 * p + p \div 4 - p \div 100 + p \div 400 + DaysBefore(y, m)

LEMMA DaysOfYears ==
  ASSUME NEW y \in Nat
  PROVE  365 * y + y \div 4 - y \div 100 + y \div 400
           = 365 * (y - 1) + (y - 1) \div 4 - (y - 1) \div 100 + (y - 1) \div 400
             + IF Leap(y) THEN 366 ELSE 365
<1>1. y \div 4 = (y - 1) \div 4 + IF y % 4 = 0 THEN 1 ELSE 0
  OBVIOUS
<1>2. y \div 100 = (y - 1) \div 100 + IF y % 100 = 0 THEN 1 ELSE 0
  OBVIOUS
<1>3. y \div 400 = (y - 1) \div 400 + IF y % 400 = 0 THEN 1 ELSE 0
  OBVIOUS
<1>4. /\ y % 400 = 0 => y % 100 = 0
      /\ y % 100 = 0 => y % 4 = 0
  OBVIOUS
<1> QED BY <1>1, <1>2, <1>3, <1>4 DEF Leap

LEMMA DaysOfMonths ==
  ASSUME NEW y \in Nat
  PROVE  /\ DaysBefore(y, 0) = 0
         /\ \A m \in 0..11 : DaysBefore(y, m + 1) = DaysBefore(y, m) + LastDay(y, m)
         /\ \A m \in 0..12 : DaysBefore(y, m) \in Int
<1> DEFINE f == [m \in 1..12 |-> LastDay(y, m - 1)]
<1>1. \A m \in 1..12 : f[m] = LastDay(y, m - 1) /\ m - 1 \in 0..11
  OBVIOUS
<1>2. \A m \in 1..12 : f[m] \in Int
  BY <1>1, MonthLengths
<1>3. \A m : DaysBefore(y, m) = Sum(f, m)
  BY DEF DaysBefore
<1> HIDE DEF f
<1>4. \A m \in 0..12 : Sum(f, m) \in Int
  BY <1>2, SumInt
<1>5. \A m \in 0..11 : Sum(f, m + 1) = Sum(f, m) + f[m + 1]
  BY SumDef
<1>6. \A m \in 0..11 : f[m + 1] = LastDay(y, m)
  <2>1. \A m \in 0..11 : m + 1 \in 1..12 /\ (m + 1) - 1 = m
    OBVIOUS
  <2> QED BY <1>1, <2>1
<1>7. Sum(f, 0) = 0
  BY SumDef
<1> QED BY <1>3, <1>4, <1>5, <1>6, <1>7

LEMMA DaysOfYear ==
  ASSUME NEW y \in Nat
  PROVE  DaysBefore(y, 11) = IF Leap(y) THEN 335 ELSE 334
<1>1. \A m \in 0..11 : DaysBefore(y, m + 1) = DaysBefore(y, m) + LastDay(y, m)
  BY DaysOfMonths
<1>2. DaysBefore(y, 0) = 0
  BY DaysOfMonths
<1>3. DaysBefore(y, 1) = 31
  <2>1. DaysBefore(y, 0 + 1) = DaysBefore(y, 0) + LastDay(y, 0)
    BY <1>1
  <2> QED BY <1>2, <2>1, MonthLengths
<1>4. DaysBefore(y, 2) = IF Leap(y) THEN 60 ELSE 59
  <2>1. DaysBefore(y, 1 + 1) = DaysBefore(y, 1) + LastDay(y, 1)
    BY <1>1
  <2> QED BY <1>3, <2>1, MonthLengths
<1>5. DaysBefore(y, 5) = IF Leap(y) THEN 152 ELSE 151
  <2>1. /\ DaysBefore(y, 2 + 1) = DaysBefore(y, 2) + LastDay(y, 2)
        /\ DaysBefore(y, 3 + 1) = DaysBefore(y, 3) + LastDay(y, 3)
        /\ DaysBefore(y, 4 + 1) = DaysBefore(y, 4) + LastDay(y, 4)
    BY <1>1
  <2>2. LastDay(y, 2) = 31 /\ LastDay(y, 3) = 30 /\ LastDay(y, 4) = 31
    BY MonthLengths
  <2> QED BY <1>4, <2>1, <2>2
<1>6. DaysBefore(y, 8) = IF Leap(y) THEN 244 ELSE 243
  <2>1. /\ DaysBefore(y, 5 + 1) = DaysBefore(y, 5) + LastDay(y, 5)
        /\ DaysBefore(y, 6 + 1) = DaysBefore(y, 6) + LastDay(y, 6)
        /\ DaysBefore(y, 7 + 1) = DaysBefore(y, 7) + LastDay(y, 7)
    BY <1>1
  <2>2. LastDay(y, 5) = 30 /\ LastDay(y, 6) = 31 /\ LastDay(y, 7) = 31
    BY MonthLengths
  <2> QED BY <1>5, <2>1, <2>2
<1>7. /\ DaysBefore(y, 8 + 1) = DaysBefore(y, 8) + LastDay(y, 8)
      /\ DaysBefore(y, 9 + 1) = DaysBefore(y, 9) + LastDay(y, 9)
      /\ DaysBefore(y, 10 + 1) = DaysBefore(y, 10) + LastDay(y, 10)
  BY <1>1
<1>8. LastDay(y, 8) = 30 /\ LastDay(y, 9) = 31 /\ LastDay(y, 10) = 30
  BY MonthLengths
<1> QED BY <1>6, <1>7, <1>8

\* The year and month that follow.
Following(y, m) == NextMonth([year |-> y, month |-> m])

LEMMA NextMonthDays ==
  ASSUME NEW y \in Nat, NEW m \in 0..11
  PROVE  /\ Following(y, m).year \in Nat /\ Following(y, m).month \in 0..11
         /\ Following(y, m).month # m
         /\ DaysUpTo(Following(y, m).year, Following(y, m).month) = DaysUpTo(y, m) + LastDay(y, m)
         /\ DaysUpTo(y, m) \in Int
<1> DEFINE next == Following(y, m)
<1>1. next = [year |-> IF m = 11 THEN y + 1 ELSE y, month |-> (m + 1) % 12]
  BY DEF Following, NextMonth
<1>2. \A k \in 0..12 : DaysBefore(y, k) \in Int
  BY DaysOfMonths
<1>3. DaysUpTo(y, m) \in Int
  BY <1>2 DEF DaysUpTo
<1>4. CASE m = 11
  <2>1. next.year = y + 1 /\ next.month = 0
    BY <1>1, <1>4
  <2>2. DaysBefore(y + 1, 0) = 0
    BY DaysOfMonths
  <2>3. DaysUpTo(y + 1, 0) = 365 * y + y \div 4 - y \div 100 + y \div 400
    <3>1. (y + 1) - 1 = y
      OBVIOUS
    <3> QED BY <2>2, <3>1 DEF DaysUpTo
  <2>4. DaysUpTo(y, 11) = 365 * (y - 1) + (y - 1) \div 4 - (y - 1) \div 100 + (y - 1) \div 400
                             + IF Leap(y) THEN 335 ELSE 334
    BY DaysOfYear DEF DaysUpTo
  <2>5. LastDay(y, 11) = 31
    BY MonthLengths
  <2> QED BY <1>3, <1>4, <2>1, <2>3, <2>4, <2>5, DaysOfYears
<1>5. CASE m # 11
  <2>1. next.year = y /\ next.month = m + 1
    BY <1>1, <1>5
  <2>2. DaysBefore(y, m + 1) = DaysBefore(y, m) + LastDay(y, m)
    BY DaysOfMonths
  <2>3. DaysBefore(y, m) \in Int /\ LastDay(y, m) \in Int
    BY <1>2, MonthLengths
  <2>4. DaysUpTo(y, m + 1) = DaysUpTo(y, m) + LastDay(y, m)
    BY <2>2, <2>3 DEF DaysUpTo
  <2> QED BY <1>3, <1>5, <2>1, <2>4
<1> QED BY <1>4, <1>5

\* A date is written <<y, m, d>> in what follows by its record.
On(y, m, d) == [year |-> y, month |-> m, day |-> d]

LEMMA RealDate ==
  ASSUME NEW date
  PROVE  Real(date) <=> \E y \in Nat, m \in 0..11, d \in 1..31 :
                            date = On(y, m, d) /\ d <= LastDay(y, m)
<1>1. ASSUME Real(date)
      PROVE  \E y \in Nat, m \in 0..11, d \in 1..31 : date = On(y, m, d) /\ d <= LastDay(y, m)
  <2>1. /\ date = On(date.year, date.month, date.day)
        /\ date.year \in Nat /\ date.month \in 0..11 /\ date.day \in 1..31
    BY <1>1 DEF Real, Date, On
  <2> QED BY <1>1, <2>1 DEF Real
<1>2. ASSUME NEW y \in Nat, NEW m \in 0..11, NEW d \in 1..31,
             date = On(y, m, d), d <= LastDay(y, m)
      PROVE  Real(date)
  BY <1>2 DEF Real, Date, On
<1> QED BY <1>1, <1>2

\* A date up to a month ahead, in this month or in the next one.
LEMMA DateAhead ==
  ASSUME NEW y \in Nat, NEW m \in 0..11, NEW d \in 1..31, d <= LastDay(y, m),
         NEW n \in 0..31
  PROVE  /\ DayNumber(On(y, m, d)) = DaysUpTo(y, m) + d
         /\ d + n <= LastDay(y, m) => PlusDays(On(y, m, d), n) = On(y, m, d + n)
         /\ ~(d + n <= LastDay(y, m)) =>
               PlusDays(On(y, m, d), n) = On(Following(y, m).year, Following(y, m).month, d + n - LastDay(y, m))
         /\ n <= 28 => /\ Real(PlusDays(On(y, m, d), n))
                       /\ DayNumber(PlusDays(On(y, m, d), n)) = DaysUpTo(y, m) + d + n
<1> DEFINE next == Following(y, m)
<1>1. LastDay(y, m) \in 28..31
  BY MonthLengths
<1>2. /\ next.year \in Nat /\ next.month \in 0..11
      /\ DaysUpTo(next.year, next.month) = DaysUpTo(y, m) + LastDay(y, m)
      /\ DaysUpTo(y, m) \in Int
  BY NextMonthDays
<1>3. ASSUME NEW yy, NEW mm, NEW dd
      PROVE  DayNumber(On(yy, mm, dd)) = DaysUpTo(yy, mm) + dd
  BY DEF DayNumber, DaysUpTo, On
<1>4. /\ d + n <= LastDay(y, m) => PlusDays(On(y, m, d), n) = On(y, m, d + n)
      /\ ~(d + n <= LastDay(y, m)) =>
            PlusDays(On(y, m, d), n) = On(next.year, next.month, d + n - LastDay(y, m))
  <2>1. PlusDays(On(y, m, d), n) = DateOf(y, m, d + n)
    BY DEF PlusDays, On
  <2>2. PICK k \in Int : k = d + n
    OBVIOUS
  <2>3. /\ k <= LastDay(y, m) => DateOf(y, m, k) = On(y, m, k)
        /\ ~(k <= LastDay(y, m)) =>
              DateOf(y, m, k) = On(next.year, next.month, k - LastDay(y, m))
    BY DEF DateOf, On, Following
  <2> QED BY <1>1, <2>1, <2>2, <2>3
<1>5. ASSUME n <= 28
      PROVE  /\ Real(PlusDays(On(y, m, d), n))
             /\ DayNumber(PlusDays(On(y, m, d), n)) = DaysUpTo(y, m) + d + n
  <2>1. CASE d + n <= LastDay(y, m)
    <3>1. d + n \in 1..31
      BY <1>1, <2>1
    <3>2. Real(On(y, m, d + n))
      BY <2>1, <3>1, RealDate
    <3> QED BY <1>2, <1>3, <1>4, <2>1, <3>2
  <2>2. CASE ~(d + n <= LastDay(y, m))
    <3>1. PICK dd : dd = d + n - LastDay(y, m)
      OBVIOUS
    <3>2. dd \in 1..28
      BY <1>1, <1>5, <2>2, <3>1
    <3>3. LastDay(next.year, next.month) \in 28..31
      BY <1>2, MonthLengths
    <3>4. Real(On(next.year, next.month, dd))
      <4>1. dd \in 1..31 /\ dd <= LastDay(next.year, next.month)
        BY <3>2, <3>3
      <4>2. next.year \in Nat /\ next.month \in 0..11
        BY <1>2
      <4> QED BY <4>1, <4>2, RealDate
    <3>5. PlusDays(On(y, m, d), n) = On(next.year, next.month, dd)
      BY <1>4, <2>2, <3>1
    <3>6. DayNumber(On(next.year, next.month, dd)) = DaysUpTo(y, m) + d + n
      BY <1>1, <1>2, <1>3, <3>1, <3>2
    <3> QED BY <3>4, <3>5, <3>6
  <2> QED BY <2>1, <2>2
<1> QED BY <1>3, <1>4, <1>5

\* Where n days from a day of month m lead: to a day of that month or of the next one.
Ahead(y, m, d, n) ==
    /\ d + n <= LastDay(y, m) => PlusDays(On(y, m, d), n) = On(y, m, d + n)
    /\ ~(d + n <= LastDay(y, m)) =>
          PlusDays(On(y, m, d), n) = On(Following(y, m).year, Following(y, m).month, d + n - LastDay(y, m))

LEMMA DayAhead ==
  ASSUME NEW y \in Nat, NEW m \in 0..11, NEW d \in 1..31, d <= LastDay(y, m),
         NEW n \in 0..31
  PROVE  Ahead(y, m, d, n)
<1>1. /\ d + n <= LastDay(y, m) => PlusDays(On(y, m, d), n) = On(y, m, d + n)
      /\ ~(d + n <= LastDay(y, m)) =>
            PlusDays(On(y, m, d), n) = On(Following(y, m).year, Following(y, m).month, d + n - LastDay(y, m))
  BY DateAhead, ZenonT(60)
<1> QED BY <1>1, Zenon DEF Ahead

\* The billing day of a month.
LEMMA InMonthDay ==
  ASSUME NEW y \in Nat, NEW m \in 0..11, NEW day \in 1..31
  PROVE  \E l \in 1..31 : /\ l = Lesser(day, LastDay(y, m)) /\ InMonth(y, m, day) = On(y, m, l)
                          /\ l <= LastDay(y, m) /\ l <= day
                          /\ l = day \/ l = LastDay(y, m)
<1>1. PICK last \in 28..31 : last = LastDay(y, m)
  BY MonthLengths
<1>2. PICK l \in 1..31 : /\ l = Lesser(day, last) /\ l <= last /\ l <= day
                         /\ l = day \/ l = last
  <2>1. Lesser(day, last) \in 1..31
    BY DEF Lesser
  <2> QED BY <2>1 DEF Lesser
<1>3. InMonth(y, m, day) = DateOf(y, m, l)
  BY <1>1, <1>2 DEF InMonth
<1>4. DateOf(y, m, l) = On(y, m, l)
  BY <1>1, <1>2 DEF DateOf, On
<1> QED BY <1>1, <1>2, <1>3, <1>4

\* Of a date the paydays of its month and of the next one, and the one that comes next.
Paydays(y, m, d, day, l, k) ==
    LET next == Following(y, m)
    IN  /\ l = Lesser(day, LastDay(y, m)) /\ l \in 1..31
        /\ l <= LastDay(y, m) /\ l <= day /\ (l = day \/ l = LastDay(y, m))
        /\ k = Lesser(day, LastDay(next.year, next.month)) /\ k \in 1..31
        /\ k <= LastDay(next.year, next.month) /\ k <= day
        /\ k = day \/ k = LastDay(next.year, next.month)
        /\ d < l => Monthly(On(y, m, d), day) = On(y, m, l)
        /\ ~(d < l) => Monthly(On(y, m, d), day) = On(next.year, next.month, k)

LEMMA MonthlyDue ==
  ASSUME NEW y \in Nat, NEW m \in 0..11, NEW d \in 1..31, d <= LastDay(y, m), NEW day \in 1..31
  PROVE  \E l, k \in 1..31 : Paydays(y, m, d, day, l, k)
<1> DEFINE next == Following(y, m)
<1>1. next.year \in Nat /\ next.month \in 0..11
  BY NextMonthDays
<1>2. PICK l \in 1..31 : /\ l = Lesser(day, LastDay(y, m)) /\ InMonth(y, m, day) = On(y, m, l)
                         /\ l <= LastDay(y, m) /\ l <= day
                         /\ l = day \/ l = LastDay(y, m)
  BY InMonthDay
<1>3. PICK k \in 1..31 :
         /\ k = Lesser(day, LastDay(next.year, next.month))
         /\ InMonth(next.year, next.month, day) = On(next.year, next.month, k)
         /\ k <= LastDay(next.year, next.month) /\ k <= day
         /\ k = day \/ k = LastDay(next.year, next.month)
  BY <1>1, InMonthDay
<1>4. Before(On(y, m, d), On(y, m, l)) <=> d < l
  BY DEF Before, On
<1>5. NextMonth(On(y, m, d)) = next
  BY DEF NextMonth, On, Following
<1>6. Monthly(On(y, m, d), day) = IF Before(On(y, m, d), On(y, m, l)) THEN On(y, m, l)
                                  ELSE On(next.year, next.month, k)
  <2>1. On(y, m, d).year = y /\ On(y, m, d).month = m
    BY DEF On
  <2> QED BY <1>2, <1>3, <1>5, <2>1, Zenon DEF Monthly
<1>7. Paydays(y, m, d, day, l, k)
  BY <1>2, <1>3, <1>4, <1>6 DEF Paydays
<1> QED BY <1>7

\* Payday, for a billing day.
Pays(date, day) ==
    \/ date.day = day
    \/ date.day < day /\ date.day = LastDay(date.year, date.month)

\* The due date of a charge of a customer who pays by the month.
LEMMA MonthlyOccurrence ==
  ASSUME NEW y \in Nat, NEW m \in 0..11, NEW d \in 1..31, d <= LastDay(y, m),
         NEW day \in 1..31, NEW due, due = Monthly(On(y, m, d), day)
  PROVE  /\ Real(due) /\ DayNumber(due) > DayNumber(On(y, m, d))
         /\ Pays(due, day)
         /\ \A n \in 1..31 : n < DayNumber(due) - DayNumber(On(y, m, d)) =>
                                 ~Pays(PlusDays(On(y, m, d), n), day)
<1> DEFINE next == Following(y, m)
<1>2. PICK last \in 28..31 : last = LastDay(y, m)
  BY MonthLengths
<1>3. PICK l \in 1..31, k \in 1..31 :
         /\ l <= LastDay(y, m) /\ l <= day /\ (l = day \/ l = LastDay(y, m))
         /\ k <= LastDay(next.year, next.month) /\ k <= day
         /\ k = day \/ k = LastDay(next.year, next.month)
         /\ d < l => Monthly(On(y, m, d), day) = On(y, m, l)
         /\ ~(d < l) => Monthly(On(y, m, d), day) = On(next.year, next.month, k)
  <2>1. PICK l \in 1..31, k \in 1..31 : Paydays(y, m, d, day, l, k)
    BY MonthlyDue
  <2> QED BY <2>1 DEF Paydays
<1>4. /\ next.year \in Nat /\ next.month \in 0..11
      /\ DaysUpTo(next.year, next.month) = DaysUpTo(y, m) + last
      /\ DaysUpTo(y, m) \in Int
  BY <1>2, NextMonthDays
<1>5. ASSUME NEW n \in 1..31
      PROVE  /\ d + n <= last => PlusDays(On(y, m, d), n) = On(y, m, d + n)
             /\ ~(d + n <= last) =>
                   PlusDays(On(y, m, d), n) = On(next.year, next.month, d + n - last)
  <2>1. n \in 0..31
    OBVIOUS
  <2>2. /\ d + n <= LastDay(y, m) => PlusDays(On(y, m, d), n) = On(y, m, d + n)
        /\ ~(d + n <= LastDay(y, m)) =>
              PlusDays(On(y, m, d), n) = On(next.year, next.month, d + n - LastDay(y, m))
    <3>1. Ahead(y, m, d, n)
      BY <2>1, DayAhead
    <3> QED BY <3>1, Zenon DEF Ahead
  <2> QED BY <1>2, <2>2
<1>6. \A yy, mm, dd : /\ On(yy, mm, dd).year = yy /\ On(yy, mm, dd).month = mm
                      /\ On(yy, mm, dd).day = dd
                      /\ DayNumber(On(yy, mm, dd)) = DaysUpTo(yy, mm) + dd
  BY DEF On, DayNumber, DaysUpTo
<1>7. CASE d < l
  <2>1. due = On(y, m, l)
    BY <1>3, <1>7
  <2>2. Real(due)
    BY <1>2, <1>3, <2>1, RealDate
  <2>3. DayNumber(due) = DaysUpTo(y, m) + l
    BY <1>6, <2>1
  <2>4. due.day = l /\ due.year = y /\ due.month = m
    BY <1>6, <2>1
  <2>5. ASSUME NEW n \in 1..31, n < DayNumber(due) - DayNumber(On(y, m, d)),
               NEW date, date = PlusDays(On(y, m, d), n)
        PROVE  ~Pays(date, day)
    <3>1. n < l - d
      BY <1>4, <1>6, <2>3, <2>5
    <3>2. date = On(y, m, d + n)
      BY <1>2, <1>3, <1>5, <2>5, <3>1
    <3>3. date.day = d + n /\ date.year = y /\ date.month = m
      BY <1>6, <3>2
    <3> QED BY <1>2, <1>3, <3>1, <3>3 DEF Pays
  <2>6. Pays(due, day)
    BY <1>3, <2>4 DEF Pays
  <2> QED BY <1>4, <1>6, <1>7, <2>2, <2>3, <2>5, <2>6
<1>8. CASE ~(d < l)
  <2>1. due = On(next.year, next.month, k)
    BY <1>3, <1>8
  <2>2. Real(due)
    BY <1>3, <1>4, <2>1, RealDate
  <2>3. DayNumber(due) = DaysUpTo(y, m) + last + k
    BY <1>4, <1>6, <2>1
  <2>4. due.day = k /\ due.year = next.year /\ due.month = next.month
    BY <1>6, <2>1
  <2>5. ASSUME NEW n \in 1..31, n < DayNumber(due) - DayNumber(On(y, m, d)),
               NEW date, date = PlusDays(On(y, m, d), n)
        PROVE  ~Pays(date, day)
    <3>1. n < last + k - d
      BY <1>4, <1>6, <2>3, <2>5
    <3>2. CASE d + n <= last
      <4>1. date = On(y, m, d + n)
        BY <1>5, <2>5, <3>2
      <4>2. date.day = d + n
        BY <1>6, <4>1
      <4>3. d + n > l
        BY <1>8
      <4> QED BY <1>2, <1>3, <3>2, <4>1, <4>2, <4>3, <1>6 DEF Pays
    <3>3. CASE ~(d + n <= last)
      <4>1. date = On(next.year, next.month, d + n - last)
        BY <1>5, <2>5, <3>3
      <4>2. date.day = d + n - last /\ date.year = next.year /\ date.month = next.month
        BY <1>6, <4>1
      <4>3. LastDay(next.year, next.month) \in 28..31
        BY <1>4, MonthLengths
      <4>4. date.day \in Int /\ date.day < k
        BY <1>2, <3>1, <4>2
      <4> QED BY <1>3, <4>2, <4>3, <4>4 DEF Pays
    <3> QED BY <3>2, <3>3
  <2>6. last + k > d
    BY <1>2
  <2>7. Pays(due, day)
    BY <1>3, <2>4 DEF Pays
  <2> QED BY <1>4, <1>6, <2>2, <2>3, <2>5, <2>6, <2>7
<1> QED BY <1>7, <1>8

LEMMA SameDate ==
  ASSUME NEW y, NEW m, NEW d, NEW yy, NEW mm, NEW dd
  PROVE  /\ On(y, m, d) = On(yy, mm, dd) <=> y = yy /\ m = mm /\ d = dd
         /\ NextMonth(On(y, m, d)) = Following(y, m)
         /\ On(y, m, d).year = y /\ On(y, m, d).month = m /\ On(y, m, d).day = d
BY DEF On, NextMonth, Following

\* From one day to the next the due date of a month stays, until its day comes.
MonthlySteps(due, date, after) ==
    /\ after # due <=> date = due
    /\ date = due => after.year = NextMonth(due).year /\ after.month = NextMonth(due).month

LEMMA MonthlyStep ==
  ASSUME NEW y \in Nat, NEW m \in 0..11, NEW d \in 1..31, d <= LastDay(y, m), NEW day \in 1..31
  PROVE  MonthlySteps(Monthly(On(y, m, d), day), PlusDays(On(y, m, d), 1),
                      Monthly(PlusDays(On(y, m, d), 1), day))
<1> DEFINE ny == Following(y, m).year
           nm == Following(y, m).month
<1>1. ny \in Nat /\ nm \in 0..11 /\ nm # m
  BY NextMonthDays
<1>2. PICK last \in 28..31 : last = LastDay(y, m)
  BY MonthLengths
<1>3. /\ d + 1 <= last => PlusDays(On(y, m, d), 1) = On(y, m, d + 1)
      /\ ~(d + 1 <= last) => PlusDays(On(y, m, d), 1) = On(ny, nm, 1)
  <2>1. /\ d + 1 <= LastDay(y, m) => PlusDays(On(y, m, d), 1) = On(y, m, d + 1)
        /\ ~(d + 1 <= LastDay(y, m)) => PlusDays(On(y, m, d), 1) = On(ny, nm, d + 1 - LastDay(y, m))
    <3>1. PICK n \in 0..31 : n = 1
      OBVIOUS
    <3>2. /\ d + n <= LastDay(y, m) => PlusDays(On(y, m, d), n) = On(y, m, d + n)
          /\ ~(d + n <= LastDay(y, m)) => PlusDays(On(y, m, d), n) = On(ny, nm, d + n - LastDay(y, m))
      <4>1. Ahead(y, m, d, n)
        BY DayAhead
      <4> QED BY <4>1, Zenon DEF Ahead
    <3> QED BY <3>1, <3>2
  <2>2. ~(d + 1 <= last) => d + 1 - LastDay(y, m) = 1
    BY <1>2
  <2> QED BY <1>2, <2>1, <2>2
<1>4. PICK l \in 1..31, k \in 1..31 : Paydays(y, m, d, day, l, k)
  BY MonthlyDue
<1>5. /\ l = Lesser(day, LastDay(y, m)) /\ l <= last
      /\ k = Lesser(day, LastDay(ny, nm))
      /\ d < l => Monthly(On(y, m, d), day) = On(y, m, l)
      /\ ~(d < l) => Monthly(On(y, m, d), day) = On(ny, nm, k)
  BY <1>2, <1>4 DEF Paydays
<1>6. CASE d + 1 <= last
  <2>1. d + 1 \in 1..31 /\ d + 1 <= LastDay(y, m)
    BY <1>2, <1>6
  <2>2. PICK l2 \in 1..31, k2 \in 1..31 : Paydays(y, m, d + 1, day, l2, k2)
    BY <2>1, MonthlyDue
  <2>3. /\ d + 1 < l => Monthly(On(y, m, d + 1), day) = On(y, m, l)
        /\ ~(d + 1 < l) => Monthly(On(y, m, d + 1), day) = On(ny, nm, k)
    BY <1>5, <2>2 DEF Paydays
  <2>4. PICK date : date = PlusDays(On(y, m, d), 1) /\ date = On(y, m, d + 1)
    BY <1>3, <1>6
  <2>5. CASE d + 1 < l
    <3>1. Monthly(On(y, m, d), day) = On(y, m, l) /\ Monthly(date, day) = On(y, m, l)
      BY <1>5, <2>3, <2>4, <2>5
    <3>2. date # On(y, m, l)
      BY <2>4, <2>5, SameDate
    <3> QED BY <2>4, <3>1, <3>2 DEF MonthlySteps
  <2>6. CASE d + 1 = l
    <3>1. Monthly(On(y, m, d), day) = date /\ Monthly(date, day) = On(ny, nm, k)
      BY <1>5, <2>3, <2>4, <2>6
    <3>2. date # On(ny, nm, k) /\ NextMonth(date) = Following(y, m)
      BY <1>1, <2>4, SameDate
    <3>3. On(ny, nm, k).year = ny /\ On(ny, nm, k).month = nm
      BY SameDate
    <3> QED BY <2>4, <3>1, <3>2, <3>3 DEF MonthlySteps
  <2>7. CASE ~(d < l)
    <3>1. Monthly(On(y, m, d), day) = On(ny, nm, k) /\ Monthly(date, day) = On(ny, nm, k)
      BY <1>5, <2>3, <2>4, <2>7
    <3>2. date # On(ny, nm, k)
      BY <1>1, <2>4, SameDate
    <3> QED BY <2>4, <3>1, <3>2 DEF MonthlySteps
  <2> QED BY <2>5, <2>6, <2>7
<1>7. CASE ~(d + 1 <= last)
  <2>1. Monthly(On(y, m, d), day) = On(ny, nm, k)
    BY <1>2, <1>5, <1>7
  <2>2. 1 \in 1..31 /\ 1 <= LastDay(ny, nm)
    BY <1>1, MonthLengths
  <2>3. PICK l2 \in 1..31, k2 \in 1..31 : Paydays(ny, nm, 1, day, l2, k2)
    BY <1>1, <2>2, MonthlyDue
  <2> DEFINE yy == Following(ny, nm).year
             mm == Following(ny, nm).month
  <2>4. /\ 1 < k => Monthly(On(ny, nm, 1), day) = On(ny, nm, k)
        /\ ~(1 < k) => Monthly(On(ny, nm, 1), day) = On(yy, mm, k2)
    BY <1>5, <2>3 DEF Paydays
  <2>5. PICK date : date = PlusDays(On(y, m, d), 1) /\ date = On(ny, nm, 1)
    BY <1>3, <1>7
  <2>6. CASE 1 < k
    <3>1. date # On(ny, nm, k)
      BY <2>5, <2>6, SameDate
    <3> QED BY <2>1, <2>4, <2>5, <2>6, <3>1 DEF MonthlySteps
  <2>7. CASE k = 1
    <3>1. mm # nm
      BY <1>1, NextMonthDays
    <3>2. date # On(yy, mm, k2) /\ NextMonth(date) = Following(ny, nm)
      BY <2>5, <3>1, SameDate
    <3>3. On(yy, mm, k2).year = yy /\ On(yy, mm, k2).month = mm
      BY SameDate
    <3>4. Monthly(date, day) = On(yy, mm, k2) /\ Monthly(On(y, m, d), day) = date
      BY <2>1, <2>4, <2>5, <2>7
    <3> QED BY <2>5, <3>2, <3>3, <3>4 DEF MonthlySteps
  <2> QED BY <2>6, <2>7
<1> QED BY <1>6, <1>7

LEMMA WeekdaysAhead ==
  ASSUME NEW target \in 0..6, NEW current \in 0..6
  PROVE  /\ DaysUntil(target, current) \in 1..7
         /\ (current + DaysUntil(target, current)) % 7 = target
         /\ (current + 1) % 7 \in 0..6
         /\ DaysUntil(target, (current + 1) % 7) = IF DaysUntil(target, current) = 1 THEN 7
                                                   ELSE DaysUntil(target, current) - 1
BY DEF DaysUntil

LEMMA PlusOneDay ==
  ASSUME NEW y \in Nat, NEW m \in 0..11, NEW d \in 1..31, d <= LastDay(y, m), NEW n \in 0..7
  PROVE  PlusDays(PlusDays(On(y, m, d), 1), n) = PlusDays(On(y, m, d), n + 1)
<1> DEFINE ny == Following(y, m).year
           nm == Following(y, m).month
<1>1. PICK last \in 28..31 : last = LastDay(y, m)
  BY MonthLengths
<1>2. ny \in Nat /\ nm \in 0..11 /\ LastDay(ny, nm) \in 28..31
  BY NextMonthDays, MonthLengths
<1>3. ASSUME NEW i \in 0..31
      PROVE  /\ d + i <= last => PlusDays(On(y, m, d), i) = On(y, m, d + i)
             /\ ~(d + i <= last) => PlusDays(On(y, m, d), i) = On(ny, nm, d + i - last)
  <2>1. /\ d + i <= LastDay(y, m) => PlusDays(On(y, m, d), i) = On(y, m, d + i)
        /\ ~(d + i <= LastDay(y, m)) => PlusDays(On(y, m, d), i) = On(ny, nm, d + i - LastDay(y, m))
    <3>1. Ahead(y, m, d, i)
      BY DayAhead
    <3> QED BY <3>1, Zenon DEF Ahead
  <2> QED BY <1>1, <2>1
<1>4. 1 \in 0..31 /\ n + 1 \in 0..31 /\ n \in 0..31
  OBVIOUS
<1>5. CASE d + 1 <= last
  <2>1. PICK e \in 1..31 : e = d + 1 /\ e <= LastDay(y, m)
    BY <1>1, <1>5
  <2>2. PlusDays(On(y, m, d), 1) = On(y, m, e)
    BY <1>3, <1>4, <1>5, <2>1
  <2>3. /\ e + n <= LastDay(y, m) => PlusDays(On(y, m, e), n) = On(y, m, e + n)
        /\ ~(e + n <= LastDay(y, m)) => PlusDays(On(y, m, e), n) = On(ny, nm, e + n - LastDay(y, m))
    <3>1. Ahead(y, m, e, n)
      BY <1>4, <2>1, DayAhead
    <3> QED BY <3>1, Zenon DEF Ahead
  <2>4. PICK i \in 0..31 : i = n + 1 /\ d + i = e + n
    BY <1>4, <2>1
  <2>5. PlusDays(On(y, m, e), n) = PlusDays(On(y, m, d), i)
    BY <1>1, <1>3, <2>3, <2>4
  <2> QED BY <2>2, <2>4, <2>5
<1>6. CASE ~(d + 1 <= last)
  <2>1. d = last
    BY <1>1, <1>6
  <2>2. PlusDays(On(y, m, d), 1) = On(ny, nm, 1)
    <3>1. PlusDays(On(y, m, d), 1) = On(ny, nm, d + 1 - last)
      BY <1>3, <1>4, <1>6
    <3>2. d + 1 - last = 1
      BY <2>1
    <3> QED BY <3>1, <3>2
  <2>3. PlusDays(On(ny, nm, 1), n) = On(ny, nm, 1 + n)
    <3>1. 1 \in 1..31 /\ 1 <= LastDay(ny, nm) /\ 1 + n <= LastDay(ny, nm)
      BY <1>2
    <3>2. Ahead(ny, nm, 1, n)
      BY <1>2, <1>4, <3>1, DayAhead
    <3> HIDE DEF ny, nm
    <3> QED BY <3>1, <3>2, Zenon DEF Ahead
  <2>4. PlusDays(On(y, m, d), n + 1) = On(ny, nm, 1 + n)
    <3>1. ~(d + (n + 1) <= last) /\ d + (n + 1) - last = 1 + n
      BY <2>1
    <3> QED BY <1>3, <1>4, <3>1
  <2> QED BY <2>2, <2>3, <2>4
<1> QED BY <1>5, <1>6

\* Of the customer the mode and the day of the week or of the month.
LEMMA CustomerTypes ==
  ASSUME customer \in Customers
  PROVE  /\ customer.mode \in {"per_sale", "biweekly", "custom", "weekly", "monthly"}
         /\ Weeklies => WeeklyDay(customer.day) \in 0..6
         /\ Monthlies => MonthlyDay(customer.day) \in 1..31
<1>1. PICK c \in Customers : c = customer
  OBVIOUS
<1>2. \/ c.mode \in {"per_sale", "biweekly", "custom"} /\ c.day = NoDay
      \/ c.mode = "weekly" /\ c.day \in {NoDay} \cup 0..6
      \/ c.mode = "monthly" /\ c.day \in {NoDay} \cup 1..31
  BY CustomersAssumption
<1>3. c.mode = "weekly" => c.day \in {NoDay} \cup 0..6
  BY <1>2
<1>4. c.mode = "monthly" => c.day \in {NoDay} \cup 1..31
  BY <1>2
<1>5. c.mode = "weekly" => WeeklyDay(c.day) \in 0..6
  BY <1>3 DEF WeeklyDay, NoDay
<1>6. c.mode = "monthly" => MonthlyDay(c.day) \in 1..31
  BY <1>4 DEF MonthlyDay, NoDay
<1> QED BY <1>1, <1>2, <1>5, <1>6 DEF Weeklies, Monthlies

LEMMA DueModes ==
  /\ Monthlies => Due = Monthly(today, MonthlyDay(customer.day))
  /\ Weeklies => Due = PlusDays(today, DaysUntil(WeeklyDay(customer.day), weekday))
  /\ customer.mode = "biweekly" => Due = PlusDays(today, 14)
BY DEF Monthlies, Weeklies, Due, computeDueDate

LEMMA DueNextTypes ==
  ASSUME TypeOK, Next
  PROVE  TypeOK'
<1>1. PICK y \in Nat, m \in 0..11, d \in 1..31 : today = On(y, m, d) /\ d <= LastDay(y, m)
  BY RealDate DEF TypeOK
<1>2. /\ passed < Days /\ today' = PlusDays(today, 1) /\ weekday' = (weekday + 1) % 7
      /\ passed' = passed + 1 /\ UNCHANGED customer
  BY DEF Next, DayPasses
<1>3. PICK n \in 0..31 : n = 1 /\ n <= 28
  OBVIOUS
<1>4. Real(PlusDays(On(y, m, d), n))
  BY <1>1, <1>3, DateAhead
<1>5. PICK date : date = PlusDays(On(y, m, d), n)
  OBVIOUS
<1>6. today' = date /\ Real(date)
  BY <1>1, <1>2, <1>3, <1>4, <1>5
<1>7. Real(today')
  BY <1>6
<1>8. weekday' \in 0..6
  BY <1>2 DEF TypeOK
<1>9. passed' \in 0..Days
  BY <1>2, DaysAssumption DEF TypeOK
<1>10. Real(today)'
  BY <1>7 DEF Real
<1> QED BY <1>2, <1>8, <1>9, <1>10 DEF TypeOK

LEMMA DueIsNext ==
  ASSUME TypeOK
  PROVE  NextOccurrence
<1>1. PICK y \in Nat, m \in 0..11, d \in 1..31 : today = On(y, m, d) /\ d <= LastDay(y, m)
  BY RealDate DEF TypeOK
<1>2. DaysUpTo(y, m) \in Int
  BY NextMonthDays
<1>3. ASSUME NEW n \in 0..28
      PROVE  /\ Real(PlusDays(today, n))
             /\ DayNumber(PlusDays(today, n)) - DayNumber(today) = n
  <2>1. PICK i \in 0..31 : i = n /\ i <= 28
    OBVIOUS
  <2>2. /\ DayNumber(On(y, m, d)) = DaysUpTo(y, m) + d
        /\ Real(PlusDays(On(y, m, d), i))
        /\ DayNumber(PlusDays(On(y, m, d), i)) = DaysUpTo(y, m) + d + i
    BY <1>1, <2>1, DateAhead
  <2> QED BY <1>1, <1>2, <2>1, <2>2
<1> DEFINE ahead == DayNumber(Due) - DayNumber(today)
<1>4. ASSUME Monthlies
      PROVE  /\ Real(Due) /\ ahead > 0 /\ Payday(Due)
             /\ \A n \in 1..31 : n < ahead => ~Payday(PlusDays(today, n))
  <2>1. PICK day \in 1..31 : day = MonthlyDay(customer.day)
    BY <1>4, CustomerTypes DEF TypeOK
  <2>2. PICK due : due = Monthly(On(y, m, d), day)
    OBVIOUS
  <2>3. Due = due
    BY <1>1, <1>4, <2>1, <2>2, DueModes
  <2>4. /\ Real(due) /\ DayNumber(due) > DayNumber(On(y, m, d))
        /\ Pays(due, day)
        /\ \A n \in 1..31 : n < DayNumber(due) - DayNumber(On(y, m, d)) =>
                                ~Pays(PlusDays(On(y, m, d), n), day)
    BY <1>1, <2>2, MonthlyOccurrence
  <2>5. \A date : Payday(date) <=> Pays(date, day)
    BY <2>1 DEF Payday, Pays
  <2>6. DayNumber(due) \in Int /\ DayNumber(On(y, m, d)) \in Int
    <3>1. PICK yy \in Nat, mm \in 0..11, dd \in 1..31 : due = On(yy, mm, dd) /\ dd <= LastDay(yy, mm)
      BY <2>4, RealDate
    <3>2. DaysUpTo(yy, mm) \in Int
      BY NextMonthDays
    <3>3. DayNumber(On(yy, mm, dd)) = DaysUpTo(yy, mm) + dd
      BY DEF On, DayNumber, DaysUpTo
    <3>4. DayNumber(On(y, m, d)) = DaysUpTo(y, m) + d
      BY DEF On, DayNumber, DaysUpTo
    <3> QED BY <1>2, <3>1, <3>2, <3>3, <3>4
  <2> QED BY <1>1, <2>3, <2>4, <2>5, <2>6
<1>5. ASSUME Weeklies
      PROVE  /\ Real(Due) /\ ahead \in 1..7
             /\ (weekday + ahead) % 7 = WeeklyDay(customer.day)
  <2>1. PICK target \in 0..6 : target = WeeklyDay(customer.day)
    BY <1>5, CustomerTypes DEF TypeOK
  <2>2. PICK current \in 0..6 : current = weekday
    BY DEF TypeOK
  <2>3. PICK n \in 1..7 : n = DaysUntil(target, current) /\ (current + n) % 7 = target
    BY WeekdaysAhead
  <2>4. Due = PlusDays(today, n)
    BY <1>5, <2>1, <2>2, <2>3, DueModes
  <2>5. Real(Due) /\ ahead = n
    <3>1. n \in 0..28
      OBVIOUS
    <3> QED BY <1>3, <2>4, <3>1
  <2> QED BY <2>1, <2>2, <2>3, <2>5
<1>6. ASSUME customer.mode = "biweekly"
      PROVE  Real(Due) /\ ahead = 14
  <2>1. 14 \in 0..28
    OBVIOUS
  <2> QED BY <1>3, <1>6, <2>1, DueModes
<1> QED BY <1>4, <1>5, <1>6 DEF NextOccurrence

LEMMA DueSteps ==
  ASSUME TypeOK, Next
  PROVE  NoPeriodSkipped
<1>1. PICK y \in Nat, m \in 0..11, d \in 1..31 : today = On(y, m, d) /\ d <= LastDay(y, m)
  BY RealDate DEF TypeOK
<1>2. /\ today' = PlusDays(today, 1) /\ weekday' = (weekday + 1) % 7 /\ customer' = customer
  BY DEF Next, DayPasses
<1>3. PICK date : date = PlusDays(On(y, m, d), 1) /\ today' = date
  BY <1>1, <1>2
<1>4. ASSUME Monthlies
      PROVE  MonthlySteps(Due, today', Due')
  <2>1. PICK day \in 1..31 : day = MonthlyDay(customer.day)
    BY <1>4, CustomerTypes DEF TypeOK
  <2>2. Due = Monthly(On(y, m, d), day)
    BY <1>1, <1>4, <2>1, DueModes
  <2>3. Due' = Monthly(date, day)
    BY <1>2, <1>3, <1>4, <2>1 DEF Due, computeDueDate, Monthlies
  <2>4. MonthlySteps(Monthly(On(y, m, d), day), PlusDays(On(y, m, d), 1),
                     Monthly(PlusDays(On(y, m, d), 1), day))
    BY <1>1, MonthlyStep
  <2> QED BY <1>3, <2>2, <2>3, <2>4
<1>5. ASSUME Weeklies
      PROVE  /\ Due' # Due <=> today' = Due
             /\ today' = Due => DayNumber(Due') = DayNumber(Due) + 7
  <2>1. PICK target \in 0..6 : target = WeeklyDay(customer.day)
    BY <1>5, CustomerTypes DEF TypeOK
  <2>2. PICK current \in 0..6 : current = weekday
    BY DEF TypeOK
  <2>3. PICK a \in 1..7 : a = DaysUntil(target, current)
    BY WeekdaysAhead
  <2>4. PICK b \in 1..7 : /\ b = IF a = 1 THEN 7 ELSE a - 1
                          /\ b = DaysUntil(target, (current + 1) % 7)
    BY <2>3, WeekdaysAhead
  <2>5. Due = PlusDays(On(y, m, d), a)
    BY <1>1, <1>5, <2>1, <2>2, <2>3, DueModes
  <2>6. Due' = PlusDays(date, b)
    <3>1. Due' = PlusDays(date, DaysUntil(WeeklyDay(customer.day), weekday'))
      BY <1>2, <1>3, <1>5 DEF Due, computeDueDate, Weeklies
    <3> QED BY <1>2, <2>1, <2>2, <2>4, <3>1
  <2>7. Due' = PlusDays(On(y, m, d), b + 1)
    <3>1. b \in 0..7
      OBVIOUS
    <3> QED BY <1>1, <1>3, <2>6, <3>1, PlusOneDay
  <2>8. DaysUpTo(y, m) \in Int
    BY NextMonthDays
  <2>9. ASSUME NEW n \in 0..28
        PROVE  DayNumber(PlusDays(On(y, m, d), n)) = DaysUpTo(y, m) + d + n
    <3>1. n \in 0..31 /\ n <= 28
      OBVIOUS
    <3> QED BY <1>1, <3>1, DateAhead
  <2>10. PICK one \in 0..28 : one = 1
    OBVIOUS
  <2>11. PICK i \in 0..28 : i = a
    OBVIOUS
  <2>12. PICK j \in 0..28 : j = b + 1
    OBVIOUS
  <2>13. PICK n \in Int : n = DaysUpTo(y, m) + d
    BY <2>8
  <2>14. /\ today' = PlusDays(On(y, m, d), one) /\ DayNumber(PlusDays(On(y, m, d), one)) = n + 1
         /\ Due = PlusDays(On(y, m, d), i) /\ DayNumber(PlusDays(On(y, m, d), i)) = n + a
         /\ Due' = PlusDays(On(y, m, d), j) /\ DayNumber(PlusDays(On(y, m, d), j)) = n + b + 1
    BY <1>3, <2>5, <2>7, <2>8, <2>9, <2>10, <2>11, <2>12, <2>13
  <2>15. today' = Due <=> a = 1
    BY <2>10, <2>11, <2>14
  <2>16. Due' # Due <=> a = 1
    BY <2>4, <2>11, <2>12, <2>14
  <2>17. a = 1 => DayNumber(Due') = DayNumber(Due) + 7
    <3> SUFFICES ASSUME a = 1 PROVE DayNumber(Due') = DayNumber(Due) + 7
      OBVIOUS
    <3>1. b = 7
      BY <2>4
    <3> QED BY <2>14, <3>1
  <2> QED BY <2>15, <2>16, <2>17
<1> QED BY <1>4, <1>5 DEF NoPeriodSkipped, MonthlySteps, Monthlies, Weeklies

LEMMA DueInitTypes ==
  ASSUME Init
  PROVE  TypeOK
<1>1. PICK first \in FirstDays : today = first.date /\ weekday = first.weekday
  BY DEF Init
<1>2. Real(first.date) /\ first.weekday \in 0..6
  BY FirstDaysAssumption
<1> QED BY <1>1, <1>2, DaysAssumption DEF Init, TypeOK

LEMMA DueStutter ==
  ASSUME TypeOK, UNCHANGED dueVars
  PROVE  TypeOK'
BY DEF TypeOK, dueVars, Real
-----------------------------------------------------------------------------
(* Reports *)

LEMMA ReportNextTypes ==
  ASSUME RE!TypeOK, RE!Next
  PROVE  RE!TypeOK'
<1>1. /\ now \in 0..2 * FinalDay + 1 /\ orders \in Seq(RE!Order) /\ Len(orders) <= MaxOrders
  BY DEF RE!TypeOK
<1>2. CASE RE!Tick
  BY <1>1, <1>2, ReportsAssumption DEF RE!Tick, RE!TypeOK
<1>3. ASSUME NEW c \in Customer, NEW p \in Product, RE!Place(c, p)
      PROVE  RE!TypeOK'
  <2>1. PICK total \in Nat : total = IF orders = << >> THEN 1 ELSE 2 * orders[Len(orders)].total
    <3>1. CASE orders = << >>
      BY <3>1
    <3>2. CASE orders # << >>
      <4>1. Len(orders) \in DOMAIN orders
        BY <1>1, <3>2
      <4>2. PICK o \in RE!Order : o = orders[Len(orders)]
        BY <1>1, <4>1, ElementOfSeq
      <4>3. o.total \in Nat
        BY DEF RE!Order
      <4> QED BY <3>2, <4>2, <4>3
    <3> QED BY <3>1, <3>2
  <2>2. PICK o : o = [at |-> now, total |-> total, customer |-> c,
                      product |-> p, status |-> "pending"]
    OBVIOUS
  <2>3. o \in RE!Order
    BY <1>1, <2>1, <2>2 DEF RE!Order
  <2>4. Len(orders) < MaxOrders /\ orders' = Append(orders, o) /\ now' = now
    BY <1>3, <2>1, <2>2 DEF RE!Place
  <2>5. orders' \in Seq(RE!Order) /\ Len(orders') <= MaxOrders
    BY <1>1, <2>3, <2>4, ReportsAssumption
  <2> QED BY <1>1, <2>4, <2>5 DEF RE!TypeOK
<1>4. ASSUME NEW i \in DOMAIN orders, RE!Cancel(i)
      PROVE  RE!TypeOK'
  <2>1. PICK o \in RE!Order : o = orders[i]
    BY <1>1, ElementOfSeq
  <2>2. PICK p : p = [o EXCEPT !.status = IF @ = "canceled" THEN "pending" ELSE "canceled"]
    OBVIOUS
  <2>3. p \in RE!Order
    BY <2>1, <2>2 DEF RE!Order
  <2>4. orders' = [orders EXCEPT ![i] = p] /\ now' = now
    BY <1>4, <2>1, <2>2 DEF RE!Cancel
  <2>5. orders' \in Seq(RE!Order) /\ Len(orders') = Len(orders)
    BY <1>1, <2>3, <2>4
  <2> QED BY <1>1, <2>4, <2>5 DEF RE!TypeOK
<1> QED BY <1>2, <1>3, <1>4 DEF RE!Next

LEMMA ReportStutter ==
  ASSUME RE!TypeOK, UNCHANGED reportVars
  PROVE  RE!TypeOK'
BY DEF reportVars, RE!TypeOK

LEMMA ReportInitTypes ==
  ASSUME RE!Init
  PROVE  RE!TypeOK
BY ReportsAssumption DEF RE!Init, RE!TypeOK, RE!Midnight
-----------------------------------------------------------------------------
(* The run *)

\* What holds of each component throughout.
Inv == DebtInv /\ FigureInv /\ FileInv /\ ShopInv /\ TypeOK /\ RE!TypeOK

LEMMA InitInv ==
  ASSUME InitAll
  PROVE  Inv
BY ShopInitInv, DebtInitInv, FigureInitInv, FileInitInv, ReportInitTypes, DueInitTypes
   DEF InitAll, Inv

LEMMA NextInv ==
  ASSUME Inv, [NextAll]_allVars
  PROVE  Inv'
<1>1. SF!Next \/ UNCHANGED shopVars
  BY DEF NextAll, allVars
<1>2. SD!Next \/ UNCHANGED debtVars
  BY DEF NextAll, allVars
<1>3. DC!Next \/ UNCHANGED figureVars
  BY DEF NextAll, allVars
<1>4. UP!Next \/ UNCHANGED fileVars
  BY DEF NextAll, allVars
<1>5. RE!Next \/ UNCHANGED reportVars
  BY DEF NextAll, allVars
<1>6. Next \/ UNCHANGED dueVars
  BY DEF NextAll, allVars
<1>7. ShopInv'
  BY <1>1, ShopNextInv, ShopStutter DEF Inv
<1>8. DebtInv'
  BY <1>2, DebtNextInv, DebtStutter DEF Inv
<1>9. FigureInv'
  BY <1>3, FigureNextInv, FigureStutter DEF Inv
<1>10. FileInv'
  BY <1>4, FileNextInv, FileStutter DEF Inv
<1>11. RE!TypeOK'
  BY <1>5, ReportNextTypes, ReportStutter DEF Inv
<1>12. TypeOK'
  BY <1>6, DueNextTypes, DueStutter DEF Inv
<1> QED BY <1>7, <1>8, <1>9, <1>10, <1>11, <1>12 DEF Inv

LEMMA AlwaysInv == SpecAll => []Inv
BY InitInv, NextInv, PTL DEF SpecAll
-----------------------------------------------------------------------------
(* Theorems *)

\* Every variable of every component has its type, whichever component runs.
THEOREM ServiceTypes == SpecAll => []TypesOK
<1>1. Inv => TypesOK
  BY ShopTypeOK, DebtTypeOK, FigureTypeOK, FileTypeOK DEF Inv, TypesOK
<1> QED BY <1>1, AlwaysInv, PTL

\* The dashboard shows figures out of date only of a copy that is about to be dropped,
\* or since whose computation there was a write of orders, a deletion of a charge or an
\* edit by somebody else, none of which drop it, or during which there was a write.
THEOREM OldFigures == SpecAll => []OnlyTheseShowOld
<1>1. Inv => OnlyTheseShowOld
  BY DEF Inv, FigureInv, OnlyTheseShowOld
<1> QED BY <1>1, AlwaysInv, PTL

\* An image outlives its account only if it was saved when the erasure had already
\* looked for it, if it is a profile image that was not the avatar when the erasure
\* read the account, or if the storage refused to delete it.
THEOREM FilesErased == SpecAll => []OnlyTheseOutlive
<1>1. Inv => OnlyTheseOutlive
  BY DEF Inv, FileInv, OnlyTheseOutlive
<1> QED BY <1>1, AlwaysInv, PTL

\* A payment of a debt is lost, of those accepted, only by the overlap of two.
THEOREM PaymentsKept == SpecAll => OnlyOverlapsLosePayments
<1> DEFINE Kept == \A d \in DOMAIN debts :
                      /\ SD!DebtAgrees(debts'[d])
                      /\ paid'[d] - debts'[d].paid_amount > paid[d] - debts[d].paid_amount =>
                            \E r \in Request : SD!Overlapping(r, d)
<1>1. Inv /\ [NextAll]_allVars => [Kept]_(SD!vars)
  <2> SUFFICES ASSUME Inv, [NextAll]_allVars PROVE [Kept]_(SD!vars)
    OBVIOUS
  <2>1. SD!Next \/ UNCHANGED debtVars
    BY DEF NextAll, allVars
  <2>2. CASE SD!Next
    BY <2>2, DebtNextInv DEF Inv
  <2>3. CASE UNCHANGED debtVars
    BY <2>3 DEF debtVars, SD!vars
  <2> QED BY <2>1, <2>2, <2>3
<1>2. SpecAll => [][Kept]_(SD!vars)
  BY <1>1, AlwaysInv, PTL DEF SpecAll
<1> QED BY <1>2 DEF OnlyOverlapsLosePayments, SD!OnlyOverlapsLosePayments

\* An order charges what the buyer was shown, and asks for what there is, but for the
\* cases named: changes in between, several promotions, the page of the product, and
\* several lines of one product.
THEOREM OrdersServed == SpecAll => OnlyTheseMisserve
<1> DEFINE Served == SF!CreateOrder =>
              /\ buyerTask.charge # buyerTask.shown => SF!MayMisprice
              /\ stock # SF!Untracked /\ SF!Units(buyerTask.lines) > stock => SF!MayOversell
<1>1. Inv => [Served]_(SF!vars)
  BY CreateOrderServes DEF Inv
<1>2. SpecAll => [][Served]_(SF!vars)
  BY <1>1, AlwaysInv, PTL DEF SpecAll
<1> QED BY <1>2 DEF OnlyTheseMisserve, SF!OnlyTheseMisserve

\* Every charge falls due on the customer's next payday, and as the days pass the due
\* date moves on by one month, or one week, when it comes and not before.  This holds
\* of every date of the calendar and for every billing day.
THEOREM ChargesDueOnTime == SpecAll => DueOnTime
<1>1. Inv => NextOccurrence
  BY DueIsNext DEF Inv
<1>2. Inv /\ [NextAll]_allVars => [NoPeriodSkipped]_vars
  <2> SUFFICES ASSUME Inv, [NextAll]_allVars PROVE [NoPeriodSkipped]_vars
    OBVIOUS
  <2>1. Next \/ UNCHANGED dueVars
    BY DEF NextAll, allVars
  <2>2. CASE UNCHANGED dueVars
    BY <2>2 DEF dueVars, vars
  <2> QED BY <2>1, <2>2, DueSteps DEF Inv
<1>3. SpecAll => []NextOccurrence /\ [][NoPeriodSkipped]_vars
  BY <1>1, <1>2, AlwaysInv, PTL DEF SpecAll
<1> QED BY <1>3, PTL DEF DueOnTime
=============================================================================
