--------------------------- MODULE Subscriptions ---------------------------
(***************************************************************************)
(* The plan of each account and the local rows of its subscriptions, kept  *)
(* in step with Stripe by webhooks and by a reconcile job.                 *)
(*                                                                         *)
(* Stripe is external: a subscription moves through its Lifecycle, and     *)
(* Stripe announces what happened by events that it repeats, in any order  *)
(* and several at once, until one delivery is acknowledged.  A delivery    *)
(* that fails is one that Stripe repeats.  Every statement of a handler is *)
(* an action; between two of them anything may happen, a crash included.   *)
(***************************************************************************)
EXTENDS Naturals, Sequences, FiniteSets, SequencesExt

CONSTANTS
    Account,
    Sub,            \* subscriptions that may ever be bought
    Lifecycle,      \* steps <<from, to>> that a subscription takes at Stripe
    Hook,           \* requests of Stripe that are handled at once
    Desk,           \* requests of administrators that are handled at once
    Cron,           \* the worker of the queue that reconciles every day
    MaxEvents,      \* bound: events that Stripe ever sends
    MaxMishaps      \* bound: failures, events given up and changes by hand

\* The statuses of Stripe; a subscription that is not bought yet has the status "none".
StripeStatus == {"incomplete", "incomplete_expired", "trialing", "active", "past_due",
                 "unpaid", "canceled", "paused"}

Nobody == "nobody"      \* the owner of a subscription that is not bought yet

Ended == {"canceled", "incomplete_expired"}

\* At Stripe the end of a subscription is final.
ASSUME LifecycleAssumption ==
    Lifecycle \subseteq ({"none"} \cup (StripeStatus \ Ended)) \X StripeStatus
ASSUME AccountAssumption == Nobody \notin Account /\ IsFiniteSet(Sub)
ASSUME BoundAssumption == MaxEvents \in Nat /\ MaxMishaps \in Nat

VARIABLES
    stripe,     \* who bought each subscription, and its status at Stripe
    plan,       \* plan_type of each account
    rows,       \* rows of subscriptions
    events,     \* what Stripe has announced
    processed,  \* events whose row of webhook_events is marked processed
    acked,      \* events that were answered with success
    givenUp,    \* events that Stripe no longer repeats
    task,       \* what each worker is in the middle of
    mishaps     \* failures, events given up and changes by hand so far

stripeVars == <<stripe, events, acked, givenUp>>
vars == <<stripe, plan, rows, events, processed, acked, givenUp, task, mishaps>>

Live == {"active", "trialing"}

\* In dunning a seller keeps the plan.
Dunning == "past_due"

\* Mutant: subscriptions in dunning are not listed.
ManagedLive == <<"active", "trialing">>

\* The statuses that listManagedSubscriptions asks for, one call each.
Managed == <<"active", "trialing", "past_due">>

Status == {"none", "active"} \cup UNION {{step[1], step[2]} : step \in Lifecycle}

Plans == {"free", "paid", "deleted"}

Idle == [op |-> "none"]

Worker == Hook \cup Desk \cup {Cron}

TypeOK ==
    /\ stripe \in [Sub -> [owner: Account \cup {Nobody}, status: Status]]
    /\ \A s \in Sub : stripe[s].status = "none" <=> stripe[s].owner = Nobody
    /\ plan \in [Account -> Plans]
    /\ \A r \in DOMAIN rows :
          /\ rows[r].sub \in Sub /\ stripe[rows[r].sub].status # "none"
          /\ plan[stripe[rows[r].sub].owner] = "deleted" <=> rows[r].status = "erased"
    /\ Len(events) <= MaxEvents
    /\ \A marks \in {processed, acked, givenUp} : marks \subseteq DOMAIN events
    /\ \A w \in Worker : task[w].op \in {"none", "webhook", "reconcile", "suspend"}
    /\ mishaps \in 0..MaxMishaps
-----------------------------------------------------------------------------
(* Stripe *)

Owner(s) == stripe[s].owner

OwnedBy(a) == {s \in Sub : stripe[s].owner = a}

\* The account has a subscription that Stripe collects for.
Pays(a) == \E s \in OwnedBy(a) : stripe[s].status \in Live

InDunning(a) == \E s \in OwnedBy(a) : stripe[s].status = Dunning

Event(type, s, status) == [type |-> type, sub |-> s, status |-> status]

\* Each change of a subscription is announced by an event of its own.
Announced(s, from, to) ==
    CASE from = "none" -> Event("created", s, to)
      [] to = "canceled" -> Event("deleted", s, to)
      [] OTHER -> Event("updated", s, to)

Announce(event) ==
    /\ Len(events) < MaxEvents
    /\ events' = Append(events, event)

\* History: each reconcile keeps the accounts that change at Stripe meanwhile.
Seen(a) ==
    task' = [w \in Worker |->
                IF task[w].op = "reconcile" THEN [task[w] EXCEPT !.moved = @ \cup {a}]
                ELSE task[w]]

\* An account buys subscription s.  Nothing looks for one it has already.
Buy(a, s, status) ==
    /\ stripe[s].status = "none" /\ plan[a] # "deleted"
    /\ <<"none", status>> \in Lifecycle
    /\ stripe' = [stripe EXCEPT ![s] = [owner |-> a, status |-> status]]
    /\ Announce(Announced(s, "none", status))
    /\ Seen(a)
    /\ UNCHANGED <<plan, rows, processed, acked, givenUp, mishaps>>

\* A payment, a missed one, the end of the dunning, a cancelation.
Move(s, status) ==
    /\ stripe[s].status # "none"
    /\ <<stripe[s].status, status>> \in Lifecycle
    /\ stripe' = [stripe EXCEPT ![s].status = status]
    /\ Announce(Announced(s, stripe[s].status, status))
    /\ Seen(Owner(s))
    /\ UNCHANGED <<plan, rows, processed, acked, givenUp, mishaps>>

\* The checkout of s is complete; an invoice of s is paid, or is not.
Report(s) ==
    /\ \/ stripe[s].status \in Live /\ Announce(Event("checkout", s, stripe[s].status))
       \/ stripe[s].status \in Live /\ Announce(Event("paid", s, stripe[s].status))
       \/ stripe[s].status = Dunning /\ Announce(Event("failed", s, Dunning))
    /\ UNCHANGED <<stripe, plan, rows, processed, acked, givenUp, task, mishaps>>

Mishap == mishaps < MaxMishaps /\ mishaps' = mishaps + 1

Outstanding(e) == e \notin acked \cup givenUp

\* Stripe stops repeating an event after some days.
GiveUp(e) ==
    /\ Outstanding(e)
    /\ plan[Owner(events[e].sub)] # "deleted" => Mishap
    /\ plan[Owner(events[e].sub)] = "deleted" => UNCHANGED mishaps
    /\ givenUp' = givenUp \cup {e}
    /\ UNCHANGED <<stripe, plan, rows, events, processed, acked, task>>
-----------------------------------------------------------------------------
(* Statements that webhooks and the reconcile job share *)

Does(w, t) == task' = [task EXCEPT ![w] = t]

Ends(w) == Does(w, Idle)

Goes(w, at) == Does(w, [task[w] EXCEPT !.at = at])

At(w, at) == task[w].op # "none" /\ task[w].at = at

RowsOf(s) == {r \in DOMAIN rows : rows[r].sub = s /\ rows[r].status # "erased"}

\* Mutant: a status that is not listed counts as active.
MappedByDefault(status) ==
    IF status \in {"trialing", "past_due", "canceled", "paused"} THEN status ELSE "active"

\* statusMap
Mapped(status) ==
    CASE status \in {"unpaid", "incomplete"} -> "past_due"
      [] status = "incomplete_expired" -> "canceled"
      [] OTHER -> status

\* Mutant: a row that was canceled is not found.
FoundUncanceled(s) ==
    LET found == {r \in RowsOf(s) : rows[r].status # "canceled"}
    IN  IF found = {} THEN {0} ELSE found

\* findFirst: any of the rows of a subscription, or 0 when there is none.
Found(s) == IF RowsOf(s) = {} THEN {0} ELSE RowsOf(s)

\* Mutant: the plan is granted whatever the status of the subscription.
AlwaysGrants(w) == "grant"

\* Mutant: only the first row of a subscription grants a plan.
GrantsOnce(w) == IF task[w].op = "webhook" /\ task[w].row = 0 THEN "grantNew" ELSE "done"

\* What follows the write of a row: the plan, if the subscription is live, or
\* if a webhook has just created the row, whatever the status.
AfterWrite(w) ==
    IF task[w].op = "webhook" /\ task[w].row = 0 THEN "grantNew"
    ELSE IF task[w].status \in Live THEN "grant" ELSE "done"

WriteRow(w) ==
    LET t == task[w]
    IN  /\ At(w, "write")
        /\ \/ /\ t.row = 0 /\ plan[Owner(t.sub)] # "deleted"
              /\ rows' = Append(rows, [sub |-> t.sub, status |-> Mapped(t.status)])
           \/ /\ t.row # 0 /\ rows[t.row].status # "erased"
              /\ rows' = [rows EXCEPT ![t.row].status = Mapped(t.status)]
        /\ Goes(w, AfterWrite(w))
        /\ UNCHANGED <<stripeVars, plan, processed, mishaps>>

\* updateAccountPlan
SetPlan(a, p) ==
    /\ plan[a] # "deleted"
    /\ plan' = [plan EXCEPT ![a] = p]

Grant(w) ==
    /\ At(w, "grant") \/ At(w, "grantNew")
    /\ SetPlan(Owner(task[w].sub), "paid")
    /\ Goes(w, IF At(w, "grantNew") /\ task[w].status \in Live THEN "grant" ELSE "done")
    /\ UNCHANGED <<stripeVars, rows, processed, mishaps>>
-----------------------------------------------------------------------------
(* Webhooks *)

\* The first statement of an event's handler.
First(type) ==
    CASE type = "checkout" -> "grant"
      [] type \in {"created", "updated"} -> "find"
      [] OTHER -> "set"

\* Mutant: an event that was recorded is taken for processed.
AnyDelivery(e) == \E w \in Worker : task[w].op = "webhook" /\ task[w].event = e

\* findWebhookEvent
Known(e) == e \in processed

\* A delivery of event e: it is looked up and recorded, which another delivery
\* of it may do at the same time.
Receive(w, e) ==
    /\ task[w] = Idle
    /\ Outstanding(e) /\ ~Known(e)
    /\ Does(w, [op |-> "webhook", event |-> e, sub |-> events[e].sub,
                status |-> events[e].status, row |-> 0, since |-> 0,
                at |-> First(events[e].type)])
    /\ UNCHANGED <<stripeVars, plan, rows, processed, mishaps>>

\* The delivery that has processed event e, or one that finds it processed, is
\* answered; or the answer is lost, and the event is delivered again.
Answer(e) ==
    /\ Outstanding(e) /\ Known(e)
    /\ acked' = acked \cup {e}
    /\ UNCHANGED <<stripe, events, givenUp, plan, rows, processed, task, mishaps>>

\* findSubscriptionByProviderId
FindRow(w) ==
    /\ At(w, "find")
    /\ \E r \in Found(task[w].sub) :
          Does(w, [task[w] EXCEPT !.row = r, !.since = Len(rows), !.at = "write"])
    /\ UNCHANGED <<stripeVars, plan, rows, processed, mishaps>>

\* updateSubscriptionsByProviderId
SetRows(w) ==
    LET type == events[task[w].event].type
        status == CASE type = "deleted" -> "canceled"
                    [] type = "paid" -> "active"
                    [] type = "failed" -> "past_due"
    IN  /\ At(w, "set") /\ task[w].op = "webhook"
        /\ rows' = [r \in DOMAIN rows |->
                       IF r \in RowsOf(task[w].sub) THEN [rows[r] EXCEPT !.status = status]
                       ELSE rows[r]]
        /\ Goes(w, IF type = "deleted" THEN "revoke" ELSE "done")
        /\ UNCHANGED <<stripeVars, plan, processed, mishaps>>

\* handleSubscriptionEnded: whatever other subscriptions the account has.
Revoke(w) ==
    /\ At(w, "revoke") /\ task[w].op = "webhook"
    /\ SetPlan(Owner(task[w].sub), "free")
    /\ Goes(w, "done")
    /\ UNCHANGED <<stripeVars, rows, processed, mishaps>>

MarkProcessed(w) ==
    /\ At(w, "done") /\ task[w].op = "webhook"
    /\ processed' = processed \cup {task[w].event}
    /\ Ends(w)
    /\ UNCHANGED <<stripeVars, plan, rows, mishaps>>
-----------------------------------------------------------------------------
(* The reconcile job, every day and whenever an administrator asks for it *)

Listed(i) == {[sub |-> s, status |-> stripe[s].status] :
                 s \in {s \in Sub : stripe[s].status = Managed[i]}}

BeginReconcile(w) ==
    /\ task[w] = Idle
    /\ Does(w, [op |-> "reconcile", at |-> "list", calls |-> 0, listed |-> {}, todo |-> {},
                moved |-> {}, sub |-> Nobody, status |-> "none", row |-> 0, since |-> 0])
    /\ UNCHANGED <<stripeVars, plan, rows, processed, mishaps>>

\* One status is listed after the other.
List(w) ==
    LET i == task[w].calls + 1
        listed == task[w].listed \cup Listed(i)
    IN  /\ At(w, "list")
        /\ Does(w, [task[w] EXCEPT !.calls = i, !.listed = listed, !.todo = listed,
                                   !.at = IF i = Len(Managed) THEN "done" ELSE "list"])
        /\ UNCHANGED <<stripeVars, plan, rows, processed, mishaps>>

\* Each subscription that is listed is looked for and stored in turn ...
StoreNext(w) ==
    /\ At(w, "done") /\ task[w].op = "reconcile"
    /\ \E next \in task[w].todo : \E r \in Found(next.sub) :
          Does(w, [task[w] EXCEPT !.todo = @ \ {next}, !.sub = next.sub,
                                  !.status = next.status, !.row = r,
                                  !.since = Len(rows), !.at = "write"])
    /\ UNCHANGED <<stripeVars, plan, rows, processed, mishaps>>

PaidAccounts(w) == {Owner(next.sub) : next \in task[w].listed}

\* ... and then the accounts that have a plan and are not among the owners lose it.
Downgrades(w, accounts) ==
    IF accounts = {} THEN Ends(w)
    ELSE Does(w, [op |-> "reconcile", at |-> "downgrade", todo |-> accounts,
                  moved |-> task[w].moved])

FindPaid(w) ==
    /\ At(w, "done") /\ task[w].op = "reconcile" /\ task[w].todo = {}
    /\ Downgrades(w, {a \in Account : plan[a] = "paid"} \ PaidAccounts(w))
    /\ UNCHANGED <<stripeVars, plan, rows, processed, mishaps>>

Downgrade(w) ==
    /\ At(w, "downgrade")
    /\ \E a \in task[w].todo : SetPlan(a, "free") /\ Downgrades(w, task[w].todo \ {a})
    /\ UNCHANGED <<stripeVars, rows, processed, mishaps>>
-----------------------------------------------------------------------------
(* Administrators *)

\* AdminService.updateAccountPlan
ChangePlan(a, p) ==
    /\ Mishap
    /\ SetPlan(a, p)
    /\ UNCHANGED <<stripeVars, rows, processed, task>>

\* suspendAccount first cancels the rows that are active, here and not at Stripe, ...
CancelActive(w, a) ==
    /\ Mishap
    /\ task[w] = Idle /\ plan[a] # "deleted"
    /\ rows' = [r \in DOMAIN rows |->
                   IF Owner(rows[r].sub) = a /\ rows[r].status = "active"
                   THEN [rows[r] EXCEPT !.status = "canceled"] ELSE rows[r]]
    /\ Does(w, [op |-> "suspend", at |-> "suspend", account |-> a])
    /\ UNCHANGED <<stripeVars, plan, processed>>

\* ... then takes the plan.
Suspend(w) ==
    /\ At(w, "suspend")
    /\ SetPlan(task[w].account, "free")
    /\ Ends(w)
    /\ UNCHANGED <<stripeVars, rows, processed, mishaps>>

\* The rows of an account go with it; its subscriptions at Stripe stay.
DeleteAccount(a) ==
    /\ Mishap
    /\ SetPlan(a, "deleted")
    /\ rows' = [r \in DOMAIN rows |->
                   IF Owner(rows[r].sub) = a THEN [rows[r] EXCEPT !.status = "erased"]
                   ELSE rows[r]]
    /\ UNCHANGED <<stripeVars, processed, task>>
-----------------------------------------------------------------------------
(* Failures *)

\* The row or the account that w is about to write is gone.
Missing(w) ==
    \/ /\ At(w, "write")
       /\ IF task[w].row = 0 THEN plan[Owner(task[w].sub)] = "deleted"
          ELSE rows[task[w].row].status = "erased"
    \/ /\ At(w, "grant") \/ At(w, "grantNew") \/ At(w, "revoke")
       /\ plan[Owner(task[w].sub)] = "deleted"
    \/ /\ At(w, "downgrade")
       /\ \E a \in task[w].todo : plan[a] = "deleted"
    \/ At(w, "suspend") /\ plan[task[w].account] = "deleted"

\* The statement fails, and with it the whole request or job.
NotFound(w) ==
    /\ Missing(w)
    /\ Ends(w)
    /\ UNCHANGED <<stripeVars, plan, rows, processed, mishaps>>

\* A statement fails for another reason, or the process stops.
Fail(w) ==
    /\ Mishap
    /\ task[w] # Idle
    /\ Ends(w)
    /\ UNCHANGED <<stripeVars, plan, rows, processed>>
-----------------------------------------------------------------------------
\* Some subscriptions have been bought before, and all is in step.
Init ==
    /\ \E buyer \in [Sub -> Account \cup {Nobody}] :
          LET old == SetToSeq({s \in Sub : buyer[s] # Nobody})
          IN  /\ stripe = [s \in Sub |->
                             [owner |-> buyer[s],
                              status |-> IF buyer[s] = Nobody THEN "none" ELSE "active"]]
              /\ plan = [a \in Account |-> IF \E s \in Sub : buyer[s] = a THEN "paid" ELSE "free"]
              /\ rows = [i \in DOMAIN old |-> [sub |-> old[i], status |-> "active"]]
    /\ events = << >>
    /\ processed = {} /\ acked = {} /\ givenUp = {}
    /\ task = [w \in Worker |-> Idle]
    /\ mishaps = 0

Stripe ==
    \/ \E s \in Sub, status \in Status :
          Move(s, status) \/ \E a \in Account : Buy(a, s, status)
    \/ \E s \in Sub : Report(s)
    \/ \E e \in DOMAIN events : GiveUp(e)

Webhook(w) == FindRow(w) \/ SetRows(w) \/ Revoke(w) \/ MarkProcessed(w)

Reconcile(w) == List(w) \/ StoreNext(w) \/ FindPaid(w) \/ Downgrade(w)

Step(w) ==
    WriteRow(w) \/ Grant(w) \/ Webhook(w) \/ Reconcile(w) \/ Suspend(w) \/ NotFound(w)

Admin ==
    \E a \in Account :
        \/ \E p \in Plans \ {"deleted"} : ChangePlan(a, p)
        \/ \E w \in Desk : CancelActive(w, a)
        \/ DeleteAccount(a)

Next ==
    \/ Stripe \/ Admin
    \/ \E e \in DOMAIN events : Answer(e) \/ \E w \in Hook : Receive(w, e)
    \/ \E w \in Desk \cup {Cron} : BeginReconcile(w)
    \/ \E w \in Worker : Step(w) \/ Fail(w)

\* What is begun goes on, the job runs every day, Stripe repeats what is not
\* acknowledged, and gives up what fails for good.
Fairness ==
    /\ \A w \in Worker : WF_vars(Step(w))
    /\ SF_vars(BeginReconcile(Cron))
    /\ \A e \in 1..MaxEvents :
          /\ SF_vars(e \in DOMAIN events /\ \E w \in Hook : Receive(w, e))
          /\ WF_vars(e \in DOMAIN events /\ Answer(e))
          /\ WF_vars(e \in DOMAIN events /\ plan[Owner(events[e].sub)] = "deleted" /\ GiveUp(e))

Spec == Init /\ [][Next]_vars /\ Fairness
-----------------------------------------------------------------------------
(* Properties *)

\* What Stripe may count on, whatever fails or runs at once: an event is
\* acknowledged only once its handler has run to the end, and every event is
\* acknowledged in the end unless it is given up; and every variable keeps its type.
Delivered == INSTANCE AtLeastOnce WITH
    Item <- 1..MaxEvents, sent <- DOMAIN events, applied <- processed

NoEventIsLost == []TypeOK /\ Delivered!Spec

\* w stores a row for a subscription, all of whose rows were stored since w looked.
StoresLate(w) ==
    /\ At(w, "write") /\ task[w].row = 0
    /\ \A r \in RowsOf(task[w].sub) : r > task[w].since
    /\ WriteRow(w)

\* A subscription comes to have two rows only when two workers that looked for
\* its row at once both store one: provider_subscription_id is not unique.
OnlyRacesDuplicate ==
    [][\A s \in Sub :
          RowsOf(s) # {} /\ Cardinality(RowsOf(s)') > Cardinality(RowsOf(s))
              => \E w \in Worker : StoresLate(w)]_vars

\* What w goes by is not how its subscription stands by now.
Stale(w) == task[w].status # stripe[task[w].sub].status

\* An account that Stripe collects nothing from gets a plan only by hand, by an
\* event or a list that the subscription has moved on from, or by an event that
\* brings the first row of a subscription that is not live.
OnlyTheseGiveAway ==
    [][\A a \in Account :
          plan[a] = "free" /\ plan'[a] = "paid" /\ ~Pays(a) =>
              \/ ChangePlan(a, "paid")
              \/ \E w \in Worker :
                    /\ Grant(w)
                    /\ IF task[w].op = "reconcile" THEN a \in task[w].moved
                       ELSE Stale(w) \/ (At(w, "grantNew") /\ task[w].status \notin Live)]_vars

\* An account that pays, or is in dunning, loses its plan only by hand, by the end
\* of another of its subscriptions, or by a reconcile that lists while one moves.
OnlyTheseTakeAway ==
    [][\A a \in Account :
          plan[a] = "paid" /\ plan'[a] = "free" /\ (Pays(a) \/ InDunning(a)) =>
              \/ ChangePlan(a, "free")
              \/ \E w \in Worker :
                    \/ Suspend(w)
                    \/ Revoke(w) /\ stripe[task[w].sub].status \in Ended
                    \/ Downgrade(w) /\ a \in task[w].moved]_vars

\* A row comes to say that a subscription is live when it is not only by an event
\* or a list that the subscription has moved on from.
OnlyStaleNewsRevives ==
    [][\A r \in DOMAIN rows' :
          (/\ rows'[r].status \in Live
           /\ stripe[rows'[r].sub].status \notin Live
           /\ r \in DOMAIN rows => rows[r].status \notin Live)
              => \E w \in Worker :
                    /\ WriteRow(w) \/ SetRows(w)
                    /\ Stale(w) /\ task[w].sub = rows'[r].sub]_vars

InStep(a) ==
    /\ Pays(a) => plan[a] = "paid"
    /\ plan[a] = "paid" => Pays(a) \/ InDunning(a)

\* A subscription that Stripe still collects for an account that was deleted.
Orphaned(a) == plan[a] = "deleted" /\ (Pays(a) \/ InDunning(a))

\* The reconcile job is the safety net for any webhook that was missed: once
\* Stripe comes to rest, every account has the plan that it pays for.
SafetyNet == <>[](\A a \in Account : plan[a] # "deleted" => InStep(a))

\* So it is, unless an account is deleted whose subscription lives on at Stripe.
EventuallyInStep == SafetyNet \/ <>[](\E a \in Account : Orphaned(a))
=============================================================================
