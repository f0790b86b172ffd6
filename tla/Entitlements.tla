---------------------------- MODULE Entitlements ----------------------------
(***************************************************************************)
(* What an account may create and which features it may use.  A guard asks *)
(* before every creation, on the plan written in the caller's token; the   *)
(* screens ask on the plan in the database.  Administrators add exceptions *)
(* to an account, change the free plan's limits and open a period in which *)
(* the free plan has none.  Products, customers and orders have limits of  *)
(* their own, so that a behaviour is about one kind of them.               *)
(***************************************************************************)
EXTENDS Integers, FiniteSetsExt, SequencesExt

CONSTANTS
    Request,        \* requests that run at once
    LimitOf,        \* what each plan allows, of each kind
    Custom,         \* limits that administrators give
    MaxCount,       \* bound: resources at once
    MaxExceptions   \* bound: exceptions of the account at once

VARIABLES
    kind,       \* the kind of resource that is counted
    count,      \* how many there are (orders: this month)
    plan,       \* account.plan_type
    claimed,    \* plan_type in the token of the account's session
    exceptions, \* those that are in force or still to come, oldest first
    window,     \* is the unlimited period open?
    override,   \* the free plan's limit as administrators set it, or None
    task        \* what each request is in the middle of

vars == <<kind, count, plan, claimed, exceptions, window, override, task>>

None == -2
Unlimited == -1
Plan == {"free", "pro", "enterprise"}
Kind == {"product", "customer", "order"}

\* PLAN_LIMITS: a feature of paid plans, and one of the highest plan.
FeaturesOf == [free |-> {}, pro |-> {"reports"}, enterprise |-> {"reports", "customBranding"}]

Exception ==
    {[type |-> "unlimited_window"]}
        \cup [type : {"plan_grant"}, granted : Plan \ {"free"}]
        \cup [type : {"custom_limits"}, limit : Custom]

Idle == [op |-> "none"]

TypeOK ==
    /\ kind \in Kind /\ count \in 0..MaxCount
    /\ {plan, claimed} \subseteq Plan
    /\ exceptions \in Seq([what : Exception, begun : BOOLEAN])
    /\ window \in BOOLEAN
    /\ override \in Custom \cup {None}
    /\ \A r \in Request : task[r] = Idle \/ task[r].sure \in BOOLEAN
-----------------------------------------------------------------------------
InForceOf(type) ==
    {i \in DOMAIN exceptions : exceptions[i].begun /\ exceptions[i].what.type = type}

\* resolveActiveExceptions: of each type the newest one that is in force.
NewestOf(type) == exceptions[Max(InForceOf(type))].what

\* The plan and the limit that exceptions leave: an unlimited window hides the others.
resolveEffectivePlan(p) ==
    IF InForceOf("unlimited_window") # {} THEN [plan |-> p, unlimited |-> TRUE, custom |-> None]
    ELSE [plan |-> IF InForceOf("plan_grant") = {} THEN p ELSE NewestOf("plan_grant").granted,
          unlimited |-> FALSE,
          custom |-> IF InForceOf("custom_limits") = {} THEN None
                     ELSE NewestOf("custom_limits").limit]

\* The limit that the check before a creation goes by.
LimitFor(p) ==
    LET resolved == resolveEffectivePlan(p)
    IN  CASE \/ resolved.unlimited
             \/ LimitOf[resolved.plan][kind] = Unlimited
             \/ resolved.plan = "free" /\ window -> Unlimited
          [] OTHER ->
               IF resolved.custom # None THEN resolved.custom
               ELSE IF resolved.plan = "free" /\ override # None THEN override
               ELSE LimitOf[resolved.plan][kind]

\* Mutant: one more than the limit.
RoomUpTo(limit) == limit = Unlimited \/ count <= limit

RoomUnder(limit) == limit = Unlimited \/ count < limit

\* getEffectiveFeatures
FeaturesFor(p) ==
    LET resolved == resolveEffectivePlan(p)
        lifted == resolved.plan = "free" /\ (resolved.unlimited \/ window)
    IN  FeaturesOf[IF lifted THEN "pro" ELSE resolved.plan]

\* getSubscriptionInfo: what the screens tell an account of its plan.
ShownLimit ==
    IF plan = "free" /\ window THEN Unlimited ELSE LimitOf[plan][kind]

ShownFeatures == FeaturesFor(plan)

\* FeatureGuard: what the routes of paid plans let through, on the token's plan.
FeaturesAllowed == FeaturesFor(claimed)
-----------------------------------------------------------------------------
\* For the properties: a request that has passed the guard is sure as long as
\* neither the count nor the limit moves.
Aged ==
    [r \in Request |->
        IF task[r].op = "create" /\ (count' # count \/ LimitFor(plan)' # LimitFor(plan))
        THEN [task[r] EXCEPT !.sure = FALSE] ELSE task[r]]

Does(r, t) == task' = [Aged EXCEPT ![r] = t]

Meanwhile == task' = Aged

\* The guard of a route that creates: on the token's plan, before the handler.
PassGuard(r) ==
    /\ task[r] = Idle
    /\ RoomUnder(LimitFor(claimed))
    /\ UNCHANGED <<kind, count, plan, claimed, exceptions, window, override>>
    /\ Does(r, [op |-> "create", sure |-> LimitFor(claimed) = LimitFor(plan)])

\* The handler creates without asking again.
Create(r) ==
    /\ task[r].op = "create"
    /\ count < MaxCount
    /\ count' = count + 1
    /\ UNCHANGED <<kind, plan, claimed, exceptions, window, override>>
    /\ Does(r, Idle)

\* The creation fails for a reason of its own.
Fail(r) ==
    /\ task[r] # Idle
    /\ UNCHANGED <<kind, count, plan, claimed, exceptions, window, override>>
    /\ Does(r, Idle)

\* A buyer orders at the public catalog: nothing asks, and a new buyer is a new customer.
OrderAtCatalog ==
    /\ kind \in {"customer", "order"}
    /\ count < MaxCount
    /\ count' = count + 1
    /\ UNCHANGED <<kind, plan, claimed, exceptions, window, override>>
    /\ Meanwhile

\* One is deleted.
Delete ==
    /\ count > 0
    /\ count' = count - 1
    /\ UNCHANGED <<kind, plan, claimed, exceptions, window, override>>
    /\ Meanwhile

\* countOrdersThisMonth starts afresh.
NewMonth ==
    /\ kind = "order"
    /\ count' = 0
    /\ UNCHANGED <<kind, plan, claimed, exceptions, window, override>>
    /\ Meanwhile

\* Stripe's events or an administrator change the plan in the database.
ChangePlan(p) ==
    /\ plan' = p
    /\ UNCHANGED <<kind, count, claimed, exceptions, window, override>>
    /\ Meanwhile

\* The token gets its plan at login; a refresh copies it from the token before.
Login ==
    /\ claimed' = plan
    /\ UNCHANGED <<kind, count, plan, exceptions, window, override, task>>

\* What administrators change: the exceptions of the account, and the settings.
Excepts(new) ==
    /\ exceptions' = new
    /\ UNCHANGED <<kind, count, plan, claimed, window, override>>
    /\ Meanwhile

\* An exception is created, to begin at once or later.
AddException(what, begun) ==
    /\ Len(exceptions) < MaxExceptions
    /\ Excepts(Append(exceptions, [what |-> what, begun |-> begun]))

\* effective_from is reached.
Begin(i) == ~exceptions[i].begun /\ Excepts([exceptions EXCEPT ![i].begun = TRUE])

\* effective_until is reached, or an administrator revokes the exception.
End(i) == Excepts(RemoveAt(exceptions, i))

SwitchWindow ==
    /\ window' = ~window
    /\ UNCHANGED <<kind, count, plan, claimed, exceptions, override>>
    /\ Meanwhile

SetOverride(limit) ==
    /\ override' = limit
    /\ UNCHANGED <<kind, count, plan, claimed, exceptions, window>>
    /\ Meanwhile
-----------------------------------------------------------------------------
Init ==
    /\ kind \in Kind /\ count = 0
    /\ plan \in Plan /\ claimed = plan
    /\ exceptions = <<>>
    /\ window = FALSE
    /\ override = None
    /\ task = [r \in Request |-> Idle]

Administer ==
    \/ \E what \in Exception, begun \in BOOLEAN : AddException(what, begun)
    \/ \E i \in DOMAIN exceptions : Begin(i) \/ End(i)
    \/ SwitchWindow
    \/ \E limit \in Custom \cup {None} : SetOverride(limit)

Next ==
    \/ \E r \in Request : PassGuard(r) \/ Create(r) \/ Fail(r)
    \/ OrderAtCatalog \/ Delete \/ NewMonth \/ Login
    \/ \E p \in Plan : ChangePlan(p)
    \/ Administer

Spec == Init /\ [][Next]_vars
-----------------------------------------------------------------------------
(* Properties *)

Exceeds(n1, n2) == n2 # Unlimited /\ (n1 = Unlimited \/ n1 > n2)

\* A creation since whose check another one came or the limit changed, or whose
\* token told of an earlier plan.
CreatesUnsurely == \E r \in Request : Create(r) /\ ~task[r].sure

\* The screens and the checks agree on limit and features, but for a token of
\* an earlier plan and, of limits, for exceptions and for administrators'
\* limits on the free plan, of which the screens know nothing.
Stated ==
    /\ FeaturesAllowed # ShownFeatures => claimed # plan
    /\ LimitFor(claimed) # ShownLimit =>
          \/ claimed # plan
          \/ \E e \in ToSet(exceptions) : e.begun
          \/ plan = "free" /\ override # None

\* A grant of a plan with fewer features than the account has.
Lowers(what) ==
    /\ what.type = "plan_grant"
    /\ FeaturesOf[what.granted] # FeaturesFor(plan)
    /\ FeaturesOf[what.granted] \subseteq FeaturesFor(plan)

\* An exception that begins is meant to give.  It takes room only if it sets a
\* limit, or grants a lower plan, or a plan with a limit while the free one has
\* none or a greater one from administrators; and features only if it grants a
\* lower plan, or is an unlimited window that hides a grant.
Gives(what) ==
    /\ Exceeds(LimitFor(plan), LimitFor(plan)') =>
          \/ what.type = "custom_limits"
          \/ Lowers(what)
          \/ what.type = "plan_grant" /\ (window \/ Exceeds(override, LimitOf[what.granted][kind]))
    /\ ~(FeaturesFor(plan) \subseteq FeaturesFor(plan)') =>
          \/ Lowers(what)
          \/ what.type = "unlimited_window" /\ InForceOf("plan_grant") # {}

\* A step takes an account over the limit of its plan and exceptions only when it is an
\* order of the catalog or an unsure creation; and only in the cases above is an account
\* told something else than it gets, or given less by an exception than it had.
OnlyTheseMisjudge ==
    [][/\ count' > count /\ Exceeds(count', LimitFor(plan)) =>
             OrderAtCatalog \/ CreatesUnsurely
       /\ Stated'
       /\ \A i \in DOMAIN exceptions' :
             i \notin DOMAIN exceptions \/ Begin(i) => Gives(exceptions'[i].what)]_vars
=============================================================================
