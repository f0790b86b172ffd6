-------------------------- MODULE DashboardCache --------------------------
(***************************************************************************)
(* The figures of the dashboard, computed by several queries and kept in   *)
(* Redis for a minute under the id of who looks, next to the writers of    *)
(* orders and charges.  Only the edit and the cancelation of a charge drop *)
(* a copy, that of whoever edits.  A seller sees its figures, and the      *)
(* administrator those of all sellers, of which there is one here.         *)
(***************************************************************************)
EXTENDS Integers, FiniteSets

CONSTANTS
    Request,    \* requests that are under way at once
    MaxOrders   \* bound: orders made

Viewer == {"seller", "admin"}

VARIABLES
    figures,    \* of the database: orders, pending ones, and what is paid
    cache,      \* the copy in Redis, if any, as a set
    excuse,     \* whether a write missed the copy (for the properties)
    task        \* what each request is in the middle of

vars == <<figures, cache, excuse, task>>

Figures == [orders : 0..MaxOrders, pending : 0..MaxOrders, paid : 0..MaxOrders]
Idle == [op |-> "none"]

TypeOK ==
    /\ figures \in Figures
    /\ cache \in [Viewer -> SUBSET Figures]
    /\ excuse \in [Viewer -> BOOLEAN]
    /\ \A r \in Request : task[r].op \in {"none", "count", "sum", "store", "drop"}
-----------------------------------------------------------------------------
(* Looking at the dashboard *)

Does(r, t) == task' = [task EXCEPT ![r] = t]

\* A copy there is the answer; without one the figures are computed.
Look(r, w) ==
    /\ task[r] = Idle
    /\ cache[w] = {}
    /\ Does(r, [op |-> "count", by |-> w, orders |-> figures.orders, during |-> FALSE])
    /\ UNCHANGED <<figures, cache, excuse>>

\* The queries are not one transaction: the pending orders are counted apart from
\* all orders, and what is paid is summed after both.
CountPending(r) ==
    /\ task[r].op = "count"
    /\ Does(r, [op |-> "sum", by |-> task[r].by, orders |-> task[r].orders,
                pending |-> figures.pending, during |-> task[r].during])
    /\ UNCHANGED <<figures, cache, excuse>>

SumPaid(r) ==
    /\ task[r].op = "sum"
    /\ Does(r, [op |-> "store", by |-> task[r].by, during |-> task[r].during,
                result |-> [orders |-> task[r].orders, pending |-> task[r].pending,
                            paid |-> figures.paid]])
    /\ UNCHANGED <<figures, cache, excuse>>

Store(r) ==
    /\ task[r].op = "store"
    /\ cache' = [cache EXCEPT ![task[r].by] = {task[r].result}]
    /\ excuse' = [excuse EXCEPT ![task[r].by] = task[r].during]
    /\ Does(r, Idle)
    /\ UNCHANGED figures

Expire(w) ==
    /\ cache[w] # {}
    /\ cache' = [cache EXCEPT ![w] = {}]
    /\ excuse' = [excuse EXCEPT ![w] = FALSE]
    /\ UNCHANGED <<figures, task>>
-----------------------------------------------------------------------------
(* Writers *)

\* Whoever computes figures while something is written misses it, perhaps.
Overlap(t) == [q \in Request |-> IF t[q].op \in {"count", "sum", "store"}
                                 THEN [t[q] EXCEPT !.during = TRUE] ELSE t[q]]

\* A write that drops no copy.
Silently(new) ==
    /\ new \in Figures /\ new # figures
    /\ figures' = new
    /\ excuse' = [w \in Viewer |-> cache[w] # {}]
    /\ task' = Overlap(task)
    /\ UNCHANGED cache

\* create of an order, and its change of status.
PlaceOrder == Silently([figures EXCEPT !.orders = @ + 1, !.pending = @ + 1])

SettleOrder ==
    /\ figures.pending > 0
    /\ Silently([figures EXCEPT !.pending = @ - 1])

\* A deletion takes the charge of the order along.
DeleteOrder(pending, paid) ==
    /\ figures.pending - pending < figures.orders
    /\ figures.paid - paid < figures.orders
    /\ Silently([orders |-> figures.orders - 1, pending |-> figures.pending - pending,
                 paid |-> figures.paid - paid])

\* A cancelation voids the charges of its order.
CancelPaid ==
    /\ figures.pending > 0 /\ figures.paid > 0
    /\ Silently([figures EXCEPT !.pending = @ - 1, !.paid = @ - 1])

DeleteCharge == figures.paid > 0 /\ Silently([figures EXCEPT !.paid = @ - 1])

\* update and cancel of a charge: it is written ...
WriteCharge(r, w, paid) ==
    /\ task[r] = Idle
    /\ paid \in {figures.paid - 1, figures.paid + 1} \cap 0..figures.orders
    /\ figures' = [figures EXCEPT !.paid = paid]
    /\ task' = [Overlap(task) EXCEPT ![r] = [op |-> "drop", by |-> w]]
    /\ excuse' = [v \in Viewer |-> excuse[v] \/ (v # w /\ cache[v] # {})]
    /\ UNCHANGED cache

\* Mutant: the copy of nobody is dropped.
NoKey(w) == {}

\* The key is that of whoever edits.
KeysOf(w) == {w}

\* ... and then the copy is dropped.
DropCache(r) ==
    /\ task[r].op = "drop"
    /\ cache' = [w \in Viewer |-> IF w \in KeysOf(task[r].by) THEN {} ELSE cache[w]]
    /\ excuse' = [w \in Viewer |-> w \notin KeysOf(task[r].by) /\ excuse[w]]
    /\ Does(r, Idle)
    /\ UNCHANGED figures
-----------------------------------------------------------------------------
Init ==
    /\ figures = [orders |-> 0, pending |-> 0, paid |-> 0]
    /\ cache = [w \in Viewer |-> {}]
    /\ excuse = [w \in Viewer |-> FALSE]
    /\ task = [r \in Request |-> Idle]

Next ==
    \/ \E r \in Request :
          \/ \E w \in Viewer : Look(r, w)
          \/ CountPending(r) \/ SumPaid(r) \/ Store(r)
          \/ \E w \in Viewer, paid \in 0..MaxOrders : WriteCharge(r, w, paid)
          \/ DropCache(r)
    \/ \E w \in Viewer : Expire(w)
    \/ PlaceOrder \/ SettleOrder \/ CancelPaid \/ DeleteCharge
    \/ \E pending, paid \in {0, 1} : DeleteOrder(pending, paid)

Spec == Init /\ [][Next]_vars
-----------------------------------------------------------------------------
(* Properties *)

\* A copy that is out of date is about to be dropped, or there was since it was
\* computed a write of orders, a deletion of a charge or an edit by somebody else,
\* none of which drop it, or a write while it was computed.  An edit of a charge by
\* whoever looks is seen at once.
OnlyTheseShowOld ==
    \A w \in Viewer :
        cache[w] \notin {{}, {figures}} =>
            \/ excuse[w]
            \/ \E r \in Request : task[r].op = "drop" /\ task[r].by = w
=============================================================================
