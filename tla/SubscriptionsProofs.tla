------------------------ MODULE SubscriptionsProofs ------------------------
(***************************************************************************)
(* Proofs about module Subscriptions, for any accounts, subscriptions,     *)
(* workers, events and mishaps, and any lifecycle that ends for good.  The *)
(* inductive invariant says what a worker knows: how what it has read,     *)
(* listed and noted relates to what is stored and to Stripe by now.        *)
(***************************************************************************)
EXTENDS Subscriptions, FiniteSetTheorems, TLAPS

RowStatus == StripeStatus \cup {"erased"}

Event_ == [type : {"created", "updated", "deleted", "checkout", "paid", "failed"},
           sub : Sub, status : StripeStatus]

Listing == [sub : Sub, status : StripeStatus]

\* What a webhook, a reconcile on its way through the lists, one that takes plans and an
\* administrator are in the middle of.
WebhookTask ==
    [op : {"webhook"}, event : Nat, sub : Sub, status : StripeStatus, row : Nat, since : Nat,
     at : {"grant", "find", "set", "write", "grantNew", "revoke", "done"}]

ReconcileTask ==
    [op : {"reconcile"}, at : {"list", "write", "grant", "done"}, calls : Nat,
     listed : SUBSET Listing, todo : SUBSET Listing, moved : SUBSET Account,
     sub : Sub \cup {Nobody}, status : StripeStatus \cup {"none"}, row : Nat, since : Nat]

DowngradeTask ==
    [op : {"reconcile"}, at : {"downgrade"}, todo : SUBSET Account, moved : SUBSET Account]

SuspendTask == [op : {"suspend"}, at : {"suspend"}, account : Account]

TablesTyped ==
    /\ stripe \in [Sub -> [owner: Account \cup {Nobody}, status: StripeStatus \cup {"none"}]]
    /\ \A s \in Sub : /\ stripe[s].status \in Status
                      /\ stripe[s].status = "none" <=> stripe[s].owner = Nobody
    /\ plan \in [Account -> Plans]
    /\ rows \in Seq([sub : Sub, status : RowStatus])
    /\ events \in Seq(Event_) /\ Len(events) <= MaxEvents
    /\ processed \subseteq DOMAIN events /\ acked \subseteq DOMAIN events
    /\ givenUp \subseteq DOMAIN events
    /\ mishaps \in 0..MaxMishaps

\* A row is of a subscription that was bought, and is erased with its account.
RowsOK ==
    \A r \in DOMAIN rows :
        /\ stripe[rows[r].sub].status # "none"
        /\ plan[Owner(rows[r].sub)] = "deleted" <=> rows[r].status = "erased"

\* What an event says was so at Stripe, and its end still is.
EventsOK ==
    \A e \in DOMAIN events :
        /\ stripe[events[e].sub].status # "none"
        /\ events[e].type \in {"checkout", "paid"} => events[e].status \in Live
        /\ events[e].type = "deleted" => stripe[events[e].sub].status = "canceled"

\* The row that was found is of the subscription; where none was found there is none
\* that is older than the search.
Searched(t) ==
    /\ t.since <= Len(rows)
    /\ t.row # 0 => t.row \in DOMAIN rows /\ rows[t.row].sub = t.sub
    /\ t.row = 0 => \A r \in RowsOf(t.sub) : r > t.since

Handles(t) ==
    /\ stripe[t.sub].status # "none"
    /\ t.at = "write" => Searched(t)
    /\ t.at = "grant" => t.status \in Live

WebhookOK(t) ==
    /\ t.event \in DOMAIN events
    /\ t.sub = events[t.event].sub /\ t.status = events[t.event].status
    /\ t.at = "set" => events[t.event].type \in {"paid", "failed", "deleted"}
    /\ t.at = "revoke" => events[t.event].type = "deleted"
    /\ Handles(t)

\* What is listed is so unless its owner moved since; and what has one of the statuses
\* that were listed is, unless its owner moved.
ReconcileOK(t) ==
    /\ t.calls \in 0..Len(Managed)
    /\ t.at # "list" <=> t.calls = Len(Managed)
    /\ \A l \in t.listed :
          /\ stripe[l.sub].status # "none"
          /\ stripe[l.sub].status = l.status \/ Owner(l.sub) \in t.moved
    /\ \A s \in Sub :
          (\E i \in 1..t.calls : stripe[s].status = Managed[i]) =>
             Owner(s) \in t.moved \/ \E l \in t.listed : l.sub = s
    /\ t.todo \subseteq t.listed
    /\ t.at \in {"write", "grant"} => /\ [sub |-> t.sub, status |-> t.status] \in t.listed
                                      /\ Handles(t)

DowngradeOK(t) == \A a \in t.todo : a \in t.moved \/ ~(Pays(a) \/ InDunning(a))

TaskOK(t) ==
    \/ t = Idle
    \/ t \in WebhookTask /\ WebhookOK(t)
    \/ t \in ReconcileTask /\ ReconcileOK(t)
    \/ t \in DowngradeTask /\ DowngradeOK(t)
    \/ t \in SuspendTask

TasksOK == task = [w \in Worker |-> task[w]] /\ \A w \in Worker : TaskOK(task[w])

SubInv == TablesTyped /\ RowsOK /\ EventsOK /\ TasksOK
-----------------------------------------------------------------------------
(* Tasks field by field *)

Web(event, sub, status, row, since, at) ==
    [op |-> "webhook", event |-> event, sub |-> sub, status |-> status, row |-> row,
     since |-> since, at |-> at]

Rec(at, calls, listed, todo, moved, sub, status, row, since) ==
    [op |-> "reconcile", at |-> at, calls |-> calls, listed |-> listed, todo |-> todo,
     moved |-> moved, sub |-> sub, status |-> status, row |-> row, since |-> since]

Down(todo, moved) ==
    [op |-> "reconcile", at |-> "downgrade", todo |-> todo, moved |-> moved]

LEMMA WebFields ==
    ASSUME NEW e, NEW s, NEW st, NEW r, NEW n, NEW at
    PROVE  /\ Web(e, s, st, r, n, at).op = "webhook"
           /\ Web(e, s, st, r, n, at).event = e
           /\ Web(e, s, st, r, n, at).sub = s
           /\ Web(e, s, st, r, n, at).status = st
           /\ Web(e, s, st, r, n, at).row = r
           /\ Web(e, s, st, r, n, at).since = n
           /\ Web(e, s, st, r, n, at).at = at
BY DEF Web

LEMMA WebTyped ==
    ASSUME NEW t \in WebhookTask
    PROVE  /\ t = Web(t.event, t.sub, t.status, t.row, t.since, t.at)
           /\ t.op = "webhook" /\ t.event \in Nat /\ t.sub \in Sub /\ t.status \in StripeStatus
           /\ t.row \in Nat /\ t.since \in Nat
           /\ t.at \in {"grant", "find", "set", "write", "grantNew", "revoke", "done"}
BY DEF WebhookTask, Web

LEMMA WebIsTask ==
    ASSUME NEW e \in Nat, NEW s \in Sub, NEW st \in StripeStatus, NEW r \in Nat, NEW n \in Nat,
           NEW at \in {"grant", "find", "set", "write", "grantNew", "revoke", "done"}
    PROVE  Web(e, s, st, r, n, at) \in WebhookTask
BY DEF WebhookTask, Web

LEMMA WebChanges ==
    ASSUME NEW e, NEW s, NEW st, NEW r, NEW n, NEW at, NEW v
    PROVE  /\ [Web(e, s, st, r, n, at) EXCEPT !.at = v] = Web(e, s, st, r, n, v)
           /\ [Web(e, s, st, r, n, at) EXCEPT !.row = v] = Web(e, s, st, v, n, at)
           /\ [Web(e, s, st, r, n, at) EXCEPT !.since = v] = Web(e, s, st, r, v, at)
BY DEF Web

LEMMA RecFields ==
    ASSUME NEW at, NEW c, NEW l, NEW td, NEW m, NEW s, NEW st, NEW r, NEW n
    PROVE  /\ Rec(at, c, l, td, m, s, st, r, n).op = "reconcile"
           /\ Rec(at, c, l, td, m, s, st, r, n).at = at
           /\ Rec(at, c, l, td, m, s, st, r, n).calls = c
           /\ Rec(at, c, l, td, m, s, st, r, n).listed = l
           /\ Rec(at, c, l, td, m, s, st, r, n).todo = td
           /\ Rec(at, c, l, td, m, s, st, r, n).moved = m
           /\ Rec(at, c, l, td, m, s, st, r, n).sub = s
           /\ Rec(at, c, l, td, m, s, st, r, n).status = st
           /\ Rec(at, c, l, td, m, s, st, r, n).row = r
           /\ Rec(at, c, l, td, m, s, st, r, n).since = n
BY DEF Rec

LEMMA RecTyped ==
    ASSUME NEW t \in ReconcileTask
    PROVE  /\ t = Rec(t.at, t.calls, t.listed, t.todo, t.moved, t.sub, t.status, t.row, t.since)
           /\ t.op = "reconcile" /\ t.at \in {"list", "write", "grant", "done"}
           /\ t.calls \in Nat /\ t.listed \subseteq Listing /\ t.todo \subseteq Listing
           /\ t.moved \subseteq Account /\ t.sub \in Sub \cup {Nobody}
           /\ t.status \in StripeStatus \cup {"none"} /\ t.row \in Nat /\ t.since \in Nat
BY DEF ReconcileTask, Rec

LEMMA RecIsTask ==
    ASSUME NEW at \in {"list", "write", "grant", "done"}, NEW c \in Nat,
           NEW l \in SUBSET Listing, NEW td \in SUBSET Listing, NEW m \in SUBSET Account,
           NEW s \in Sub \cup {Nobody}, NEW st \in StripeStatus \cup {"none"},
           NEW r \in Nat, NEW n \in Nat
    PROVE  Rec(at, c, l, td, m, s, st, r, n) \in ReconcileTask
BY DEF ReconcileTask, Rec

LEMMA RecChanges ==
    ASSUME NEW at, NEW c, NEW l, NEW td, NEW m, NEW s, NEW st, NEW r, NEW n, NEW v
    PROVE  /\ [Rec(at, c, l, td, m, s, st, r, n) EXCEPT !.at = v] = Rec(v, c, l, td, m, s, st, r, n)
           /\ [Rec(at, c, l, td, m, s, st, r, n) EXCEPT !.calls = v] = Rec(at, v, l, td, m, s, st, r, n)
           /\ [Rec(at, c, l, td, m, s, st, r, n) EXCEPT !.listed = v] = Rec(at, c, v, td, m, s, st, r, n)
           /\ [Rec(at, c, l, td, m, s, st, r, n) EXCEPT !.todo = v] = Rec(at, c, l, v, m, s, st, r, n)
           /\ [Rec(at, c, l, td, m, s, st, r, n) EXCEPT !.moved = v] = Rec(at, c, l, td, v, s, st, r, n)
           /\ [Rec(at, c, l, td, m, s, st, r, n) EXCEPT !.sub = v] = Rec(at, c, l, td, m, v, st, r, n)
           /\ [Rec(at, c, l, td, m, s, st, r, n) EXCEPT !.status = v] = Rec(at, c, l, td, m, s, v, r, n)
           /\ [Rec(at, c, l, td, m, s, st, r, n) EXCEPT !.row = v] = Rec(at, c, l, td, m, s, st, v, n)
           /\ [Rec(at, c, l, td, m, s, st, r, n) EXCEPT !.since = v] = Rec(at, c, l, td, m, s, st, r, v)
BY DEF Rec

LEMMA DownTyped ==
    /\ \A t \in DowngradeTask : /\ t = Down(t.todo, t.moved) /\ t.op = "reconcile"
                                /\ t.at = "downgrade"
                                /\ t.todo \subseteq Account /\ t.moved \subseteq Account
    /\ \A td, m : /\ Down(td, m).todo = td /\ Down(td, m).moved = m
                  /\ Down(td, m).op = "reconcile" /\ Down(td, m).at = "downgrade"
    /\ \A td, m \in SUBSET Account : Down(td, m) \in DowngradeTask
    /\ \A td, m, v : [Down(td, m) EXCEPT !.moved = v] = Down(td, v)
BY DEF DowngradeTask, Down

\* The kind of a task, from its operation and where it is.
LEMMA TaskKinds ==
    ASSUME NEW t, TaskOK(t)
    PROVE  /\ t.op = "none" => t = Idle
           /\ t.op = "webhook" => t \in WebhookTask /\ WebhookOK(t)
           /\ t.op # "none" /\ t.at \in {"grantNew", "find", "set", "revoke"} =>
                 t \in WebhookTask /\ WebhookOK(t)
           /\ t.op # "none" /\ t.op # "webhook" /\ t.at \in {"list", "write", "grant", "done"} =>
                 t \in ReconcileTask /\ ReconcileOK(t)
           /\ t.op # "none" /\ t.at = "downgrade" => t \in DowngradeTask /\ DowngradeOK(t)
           /\ t.op # "none" /\ t.at = "suspend" => t \in SuspendTask
<1>1. Idle.op = "none"
  BY DEF Idle
<1>2. t \in SuspendTask => t.op = "suspend" /\ t.at = "suspend"
  BY DEF SuspendTask
<1>3. t \in WebhookTask => /\ t.op = "webhook"
                           /\ t.at \in {"grant", "find", "set", "write", "grantNew", "revoke", "done"}
  BY WebTyped
<1>4. t \in ReconcileTask => t.op = "reconcile" /\ t.at \in {"list", "write", "grant", "done"}
  BY RecTyped
<1>5. t \in DowngradeTask => t.op = "reconcile" /\ t.at = "downgrade"
  BY DownTyped
<1> QED BY <1>1, <1>2, <1>3, <1>4, <1>5 DEF TaskOK
-----------------------------------------------------------------------------
(* What a worker knows stays true while others work *)

\* Rows are added at the end, keep their subscription and are erased for good.
RowsGo ==
    /\ Len(rows) <= Len(rows')
    /\ \A r \in DOMAIN rows :
          /\ r \in DOMAIN rows' /\ rows'[r].sub = rows[r].sub
          /\ rows[r].status = "erased" => rows'[r].status = "erased"
    /\ \A r \in DOMAIN rows' : r \in DOMAIN rows \/ r > Len(rows)

EventsGo ==
    \A e \in DOMAIN events : e \in DOMAIN events' /\ events'[e] = events[e]

LEMMA LengthsTyped ==
    ASSUME TablesTyped
    PROVE  /\ Len(rows) \in Nat /\ DOMAIN rows = 1..Len(rows)
           /\ Len(events) \in Nat /\ DOMAIN events = 1..Len(events)
BY DEF TablesTyped

LEMMA BuyerTyped ==
    ASSUME TablesTyped, NEW s \in Sub, stripe[s].status # "none"
    PROVE  Owner(s) \in Account
BY DEF TablesTyped, Owner

LEMMA RowTyped ==
    ASSUME TablesTyped, NEW r \in DOMAIN rows
    PROVE  /\ r \in Nat \ {0} /\ rows[r] \in [sub : Sub, status : RowStatus]
           /\ rows[r].sub \in Sub /\ rows[r].status \in RowStatus
<1>0. PICK R : R = [sub : Sub, status : RowStatus]
  OBVIOUS
<1>1. rows[r] \in R
  <2>1. rows \in Seq(R)
    BY <1>0 DEF TablesTyped
  <2> QED BY <2>1
<1>2. r \in Nat \ {0}
  BY DEF TablesTyped
<1> QED BY <1>0, <1>1, <1>2

LEMMA EventTyped ==
    ASSUME TablesTyped, NEW e \in DOMAIN events
    PROVE  /\ e \in Nat \ {0} /\ events[e] \in Event_
           /\ events[e].sub \in Sub /\ events[e].status \in StripeStatus
           /\ events[e].type \in {"created", "updated", "deleted", "checkout", "paid", "failed"}
<1>1. events[e] \in Event_
  BY DEF TablesTyped
<1>2. e \in Nat \ {0}
  BY DEF TablesTyped
<1> QED BY <1>1, <1>2 DEF Event_

LEMMA SearchedKept ==
    ASSUME TablesTyped, TablesTyped', RowsGo, NEW t, t.since \in Nat, Searched(t)
    PROVE  (Searched(t))'
<1>1. Len(rows) \in Nat /\ Len(rows') \in Nat /\ DOMAIN rows = 1..Len(rows)
  BY DEF TablesTyped
<1>2. t.since <= Len(rows')
  BY <1>1 DEF Searched, RowsGo
<1>3. t.row # 0 => t.row \in DOMAIN rows' /\ rows'[t.row].sub = t.sub
  BY DEF Searched, RowsGo
<1>4. ASSUME t.row = 0, NEW r \in (RowsOf(t.sub))' PROVE r > t.since
  <2>1. r \in DOMAIN rows' /\ rows'[r].sub = t.sub /\ rows'[r].status # "erased"
    BY <1>4 DEF RowsOf
  <2>2. r \in DOMAIN rows => r \in RowsOf(t.sub)
    BY <2>1 DEF RowsOf, RowsGo
  <2>3. r \in DOMAIN rows \/ r > Len(rows)
    BY <2>1 DEF RowsGo
  <2>4. r \in Nat
    BY <2>1 DEF TablesTyped
  <2> QED BY <1>1, <1>4, <2>2, <2>3, <2>4 DEF Searched
<1> QED BY <1>2, <1>3, <1>4 DEF Searched

LEMMA HandlesKept ==
    ASSUME TablesTyped, TablesTyped', RowsGo, NEW t, t.since \in Nat, Handles(t),
           stripe'[t.sub].status # "none"
    PROVE  (Handles(t))'
BY SearchedKept DEF Handles

LEMMA WebhookKept ==
    ASSUME TablesTyped, TablesTyped', RowsGo, EventsGo, NEW t \in WebhookTask, WebhookOK(t),
           stripe'[t.sub].status # "none"
    PROVE  (WebhookOK(t))'
<1>1. t.since \in Nat
  BY WebTyped
<1> QED BY <1>1, HandlesKept DEF WebhookOK, EventsGo

LEMMA TaskKept ==
    ASSUME TablesTyped, TablesTyped', UNCHANGED stripe, RowsGo, EventsGo, NEW t, TaskOK(t)
    PROVE  (TaskOK(t))'
<1>1. CASE t \in WebhookTask /\ WebhookOK(t)
  <2>1. stripe'[t.sub].status # "none"
    BY <1>1 DEF WebhookOK, Handles
  <2> QED BY <1>1, <2>1, WebhookKept DEF TaskOK, WebhookTask
<1>2. CASE t \in ReconcileTask /\ ReconcileOK(t)
  <2>1. t.since \in Nat
    BY <1>2, RecTyped
  <2>2. t.at \in {"write", "grant"} => (Handles(t))'
    BY <1>2, <2>1, HandlesKept DEF ReconcileOK, Handles
  <2>3. (ReconcileOK(t))'
    BY <1>2, <2>2 DEF ReconcileOK, Owner
  <2> QED BY <1>2, <2>3 DEF TaskOK, ReconcileTask, Listing
<1>3. CASE t \in DowngradeTask /\ DowngradeOK(t)
  BY <1>3 DEF TaskOK, DowngradeOK, DowngradeTask, Pays, InDunning, OwnedBy
<1>4. CASE t \in SuspendTask \/ t = Idle
  BY <1>4 DEF TaskOK, SuspendTask
<1> QED BY <1>1, <1>2, <1>3, <1>4 DEF TaskOK

LEMMA TasksKept ==
    ASSUME TablesTyped, TablesTyped', UNCHANGED stripe, RowsGo, EventsGo, TasksOK, UNCHANGED task
    PROVE  TasksOK'
<1>1. \A w \in Worker : (TaskOK(task[w]))'
  <2> SUFFICES ASSUME NEW w \in Worker PROVE (TaskOK(task[w]))'
    OBVIOUS
  <2>1. PICK t : t = task[w]
    OBVIOUS
  <2>2. (TaskOK(t))'
    BY <2>1, TaskKept DEF TasksOK
  <2> QED BY <2>1, <2>2
<1> QED BY <1>1 DEF TasksOK

LEMMA OneTask ==
    ASSUME TablesTyped, TablesTyped', UNCHANGED stripe, RowsGo, EventsGo, TasksOK,
           NEW w \in Worker, NEW t, Does(w, t), (TaskOK(t))'
    PROVE  TasksOK'
<1>1. task' = [task EXCEPT ![w] = t] /\ task = [v \in Worker |-> task[v]]
  BY DEF Does, TasksOK
<1>2. task' = [v \in Worker |-> IF v = w THEN t ELSE task[v]]
  BY <1>1
<1>3. \A v \in Worker : (TaskOK(task[v]))'
  <2> SUFFICES ASSUME NEW v \in Worker PROVE (TaskOK(task[v]))'
    OBVIOUS
  <2>1. PICK u : u = task'[v]
    OBVIOUS
  <2>2. (TaskOK(u))'
    <3>1. CASE v = w
      BY <1>2, <2>1, <3>1
    <3>2. CASE v # w
      <4>1. u = task[v]
        BY <1>2, <2>1, <3>2
      <4> QED BY <4>1, TaskKept DEF TasksOK
    <3> QED BY <3>1, <3>2
  <2> QED BY <2>1, <2>2
<1> QED BY <1>2, <1>3 DEF TasksOK

\* A change at Stripe is noted by each reconcile under way.
SeenIn(t, a) == IF t.op = "reconcile" THEN [t EXCEPT !.moved = @ \cup {a}] ELSE t

StripeMoves(s, a, status) ==
    /\ s \in Sub /\ a \in Account /\ status \in StripeStatus
    /\ stripe[s].status = "none" \/ stripe[s].owner = a
    /\ stripe' = [stripe EXCEPT ![s] = [owner |-> a, status |-> status]]

LEMMA StripeMoved ==
    ASSUME TablesTyped, NEW s, NEW a, NEW status, StripeMoves(s, a, status)
    PROVE  /\ stripe'[s].owner = a /\ stripe'[s].status = status
           /\ \A x \in Sub : x # s => stripe'[x] = stripe[x]
           /\ \A x \in Sub : stripe[x].status # "none" =>
                 stripe'[x].status # "none" /\ stripe'[x].owner = stripe[x].owner
           /\ \A c \in Account : c # a => OwnedBy(c)' = OwnedBy(c) /\ s \notin OwnedBy(c)
<1>1. stripe'[s] = [owner |-> a, status |-> status]
  BY DEF StripeMoves, TablesTyped
<1>2. \A x \in Sub : x # s => stripe'[x] = stripe[x]
  BY DEF StripeMoves, TablesTyped
<1>3. stripe'[s].owner = a /\ stripe'[s].status = status /\ status # "none"
  BY <1>1 DEF StripeMoves, StripeStatus
<1>4. stripe[s].owner = Nobody \/ stripe[s].owner = a
  BY DEF StripeMoves, TablesTyped
<1>5. \A c \in Account : c # a => OwnedBy(c)' = OwnedBy(c) /\ s \notin OwnedBy(c)
  BY <1>2, <1>3, <1>4, AccountAssumption DEF OwnedBy
<1>6. \A x \in Sub : stripe[x].status # "none" =>
         stripe'[x].status # "none" /\ stripe'[x].owner = stripe[x].owner
  BY <1>2, <1>3 DEF StripeMoves
<1> QED BY <1>2, <1>3, <1>5, <1>6

LEMMA SeenTask ==
    ASSUME TablesTyped, TablesTyped', UNCHANGED rows, EventsGo,
           NEW s, NEW a, NEW status, StripeMoves(s, a, status), NEW t, TaskOK(t)
    PROVE  (TaskOK(SeenIn(t, a)))'
<1>0. RowsGo
  BY LengthsTyped DEF RowsGo
<1>a. a \in Account
  BY DEF StripeMoves
<1>1. CASE t \in WebhookTask /\ WebhookOK(t)
  <2>1. t.sub \in Sub /\ stripe[t.sub].status # "none"
    BY <1>1, WebTyped DEF WebhookOK, Handles
  <2>2. stripe'[t.sub].status # "none"
    BY <2>1, StripeMoved
  <2>3. (WebhookOK(t))'
    BY <1>0, <1>1, <2>2, WebhookKept
  <2>4. SeenIn(t, a) = t
    BY <1>1, WebTyped DEF SeenIn
  <2>5. (t \in WebhookTask)'
    BY <1>1 DEF WebhookTask
  <2> QED BY <2>3, <2>4, <2>5 DEF TaskOK
<1>2. CASE t \in ReconcileTask /\ ReconcileOK(t)
  <2> DEFINE u == Rec(t.at, t.calls, t.listed, t.todo, t.moved \cup {a}, t.sub, t.status, t.row, t.since)
  <2>1. SeenIn(t, a) = u
    <3>1. PICK m : m = t.moved \cup {a}
      OBVIOUS
    <3>2. PICK x : x = Rec(t.at, t.calls, t.listed, t.todo, t.moved, t.sub, t.status, t.row, t.since)
      OBVIOUS
    <3>3. t = x /\ t.op = "reconcile"
      BY <1>2, <3>2, RecTyped
    <3>4. [x EXCEPT !.moved = m] = u
      BY <3>1, <3>2 DEF Rec
    <3> HIDE DEF u
    <3> QED BY <3>1, <3>3, <3>4, Zenon DEF SeenIn
  <2>2. u \in ReconcileTask
    <3>1. t.moved \cup {a} \in SUBSET Account
      BY <1>2, <1>a, RecTyped
    <3> QED BY <1>2, <3>1, RecTyped, RecIsTask
  <2>3. /\ u.at = t.at /\ u.calls = t.calls /\ u.listed = t.listed /\ u.todo = t.todo
        /\ u.moved = t.moved \cup {a} /\ u.sub = t.sub /\ u.status = t.status
        /\ u.row = t.row /\ u.since = t.since
    BY RecFields
  <2> HIDE DEF u
  <2>4. \A l \in t.listed : l.sub \in Sub
    BY <1>2, RecTyped DEF Listing
  <2>5. \A l \in t.listed : /\ stripe'[l.sub].status # "none"
                            /\ stripe'[l.sub].status = l.status \/ stripe'[l.sub].owner \in u.moved
    <3> SUFFICES ASSUME NEW l \in t.listed
                 PROVE  /\ stripe'[l.sub].status # "none"
                        /\ stripe'[l.sub].status = l.status \/ stripe'[l.sub].owner \in u.moved
      OBVIOUS
    <3>1. stripe[l.sub].status # "none" /\ (stripe[l.sub].status = l.status \/ stripe[l.sub].owner \in t.moved)
      BY <1>2 DEF ReconcileOK, Owner
    <3>2. CASE l.sub = s
      BY <2>3, <2>4, <3>1, <3>2, StripeMoved
    <3>3. CASE l.sub # s
      BY <2>3, <2>4, <3>1, <3>3, StripeMoved
    <3> QED BY <3>2, <3>3
  <2>6. \A x \in Sub : (\E i \in 1..t.calls : stripe'[x].status = Managed[i]) =>
           stripe'[x].owner \in u.moved \/ \E l \in t.listed : l.sub = x
    <3> SUFFICES ASSUME NEW x \in Sub, \E i \in 1..t.calls : stripe'[x].status = Managed[i]
                 PROVE  stripe'[x].owner \in u.moved \/ \E l \in t.listed : l.sub = x
      OBVIOUS
    <3>1. CASE x = s
      BY <2>3, <3>1, StripeMoved
    <3>2. CASE x # s
      BY <1>2, <2>3, <3>2, StripeMoved DEF ReconcileOK, Owner
    <3> QED BY <3>1, <3>2
  <2>7. t.at \in {"write", "grant"} => (Handles(t))'
    <3> SUFFICES ASSUME t.at \in {"write", "grant"} PROVE (Handles(t))'
      OBVIOUS
    <3>1. [sub |-> t.sub, status |-> t.status] \in t.listed /\ Handles(t)
      BY <1>2 DEF ReconcileOK
    <3>2. t.sub \in Sub
      BY <2>4, <3>1
    <3>3. stripe'[t.sub].status # "none"
      BY <3>1, <3>2, StripeMoved DEF Handles
    <3> QED BY <1>0, <1>2, <3>1, <3>3, HandlesKept, RecTyped
  <2>8. t.at \in {"write", "grant"} => (Handles(u))'
    BY <2>3, <2>7 DEF Handles, Searched
  <2>9. (ReconcileOK(u))'
    BY <1>2, <2>3, <2>5, <2>6, <2>8 DEF ReconcileOK, Owner
  <2> QED BY <2>1, <2>2, <2>9 DEF TaskOK, ReconcileTask, Listing
<1>3. CASE t \in DowngradeTask /\ DowngradeOK(t)
  <2> DEFINE u == Down(t.todo, t.moved \cup {a})
  <2>1. SeenIn(t, a) = u
    <3>1. PICK m : m = t.moved \cup {a}
      OBVIOUS
    <3>2. PICK x : x = Down(t.todo, t.moved)
      OBVIOUS
    <3>3. t = x /\ t.op = "reconcile"
      BY <1>3, <3>2, DownTyped
    <3>4. [x EXCEPT !.moved = m] = u
      BY <3>1, <3>2, SMTT(60) DEF Down
    <3> HIDE DEF u
    <3> QED BY <3>1, <3>3, <3>4, Zenon DEF SeenIn
  <2>2. u \in DowngradeTask /\ u.todo = t.todo /\ u.moved = t.moved \cup {a}
    BY <1>3, <1>a, DownTyped
  <2> HIDE DEF u
  <2>3. ASSUME NEW c \in u.todo PROVE c \in u.moved \/ ~(Pays(c) \/ InDunning(c))'
    <3>1. c \in Account
      BY <1>3, <2>2, DownTyped
    <3>2. CASE c = a
      BY <2>2, <3>2
    <3>3. CASE c # a
      <4>1. OwnedBy(c)' = OwnedBy(c) /\ s \notin OwnedBy(c)
        BY <3>1, <3>3, StripeMoved
      <4>2. \A x \in OwnedBy(c) : stripe'[x] = stripe[x]
        BY <4>1, StripeMoved DEF OwnedBy
      <4> QED BY <1>3, <2>2, <4>1, <4>2 DEF DowngradeOK, Pays, InDunning
    <3> QED BY <3>2, <3>3
  <2>4. (DowngradeOK(u))'
    BY <2>3 DEF DowngradeOK
  <2> QED BY <2>1, <2>2, <2>4 DEF TaskOK, DowngradeTask
<1>4. CASE t \in SuspendTask \/ t = Idle
  <2>1. SeenIn(t, a) = t
    BY <1>4 DEF SeenIn, SuspendTask, Idle
  <2> QED BY <1>4, <2>1 DEF TaskOK, SuspendTask
<1> QED BY <1>1, <1>2, <1>3, <1>4 DEF TaskOK

LEMMA SeenTasks ==
    ASSUME TablesTyped, TablesTyped', UNCHANGED rows, EventsGo, TasksOK,
           NEW s, NEW a, NEW status, StripeMoves(s, a, status), Seen(a)
    PROVE  TasksOK'
<1>1. task' = [w \in Worker |-> SeenIn(task[w], a)]
  BY DEF Seen, SeenIn
<1>2. ASSUME NEW w \in Worker PROVE (TaskOK(task[w]))'
  <2>1. PICK t : t = task[w]
    OBVIOUS
  <2>2. PICK u : u = SeenIn(t, a)
    OBVIOUS
  <2>3. (TaskOK(u))'
    BY <2>1, <2>2, SeenTask DEF TasksOK
  <2>4. task'[w] = u
    BY <1>1, <2>1, <2>2
  <2> QED BY <2>3, <2>4
<1> QED BY <1>1, <1>2 DEF TasksOK
-----------------------------------------------------------------------------
(* Steps that leave Stripe and the rows alone *)

\* A plan that changes for another, and marks and mishaps that change.
OnlyPlans ==
    /\ UNCHANGED <<stripe, rows, events>>
    /\ plan' \in [Account -> Plans]
    /\ \A a \in Account : plan'[a] = "deleted" <=> plan[a] = "deleted"
    /\ processed' \subseteq DOMAIN events /\ acked' \subseteq DOMAIN events
    /\ givenUp' \subseteq DOMAIN events
    /\ mishaps' \in 0..MaxMishaps

LEMMA PlansStep ==
    ASSUME SubInv, OnlyPlans
    PROVE  /\ TablesTyped /\ TasksOK /\ TablesTyped' /\ RowsOK' /\ EventsOK'
           /\ UNCHANGED stripe /\ RowsGo /\ EventsGo
<1>1. TablesTyped /\ TasksOK /\ RowsOK /\ EventsOK
  BY DEF SubInv
<1>2. TablesTyped'
  BY <1>1 DEF TablesTyped, OnlyPlans, Event_, RowStatus
<1>3. RowsGo /\ EventsGo
  BY <1>1, LengthsTyped DEF RowsGo, EventsGo, OnlyPlans
<1>4. \A r \in DOMAIN rows : Owner(rows[r].sub) \in Account
  BY <1>1, RowTyped, BuyerTyped DEF RowsOK
<1>5. RowsOK'
  BY <1>1, <1>4 DEF RowsOK, OnlyPlans, Owner
<1>6. EventsOK'
  BY <1>1 DEF EventsOK, OnlyPlans
<1> QED BY <1>1, <1>2, <1>3, <1>5, <1>6 DEF OnlyPlans

LEMMA PlansTask ==
    ASSUME SubInv, OnlyPlans, NEW w \in Worker, NEW t, Does(w, t), TaskOK(t)
    PROVE  SubInv'
<1>1. (TaskOK(t))'
  BY PlansStep, TaskKept
<1> QED BY <1>1, PlansStep, OneTask DEF SubInv

LEMMA PlansNoTask ==
    ASSUME SubInv, OnlyPlans, UNCHANGED task
    PROVE  SubInv'
BY PlansStep, TasksKept DEF SubInv

LEMMA Unchanged ==
    ASSUME SubInv, UNCHANGED <<stripe, plan, rows, events>>,
           processed' \subseteq DOMAIN events, acked' \subseteq DOMAIN events,
           givenUp' \subseteq DOMAIN events, mishaps' \in 0..MaxMishaps
    PROVE  OnlyPlans
BY DEF OnlyPlans, SubInv, TablesTyped

LEMMA UnchangedButTask ==
    ASSUME SubInv, UNCHANGED <<stripeVars, plan, rows, processed, mishaps>>
    PROVE  OnlyPlans
BY DEF OnlyPlans, SubInv, TablesTyped, stripeVars

LEMMA MishapTyped ==
    ASSUME SubInv, Mishap
    PROVE  mishaps' \in 0..MaxMishaps
BY BoundAssumption DEF SubInv, TablesTyped, Mishap

LEMMA PlanSet ==
    ASSUME SubInv, UNCHANGED <<stripeVars, rows, processed>>, mishaps' \in 0..MaxMishaps,
           NEW a \in Account, NEW p \in Plans \ {"deleted"}, SetPlan(a, p)
    PROVE  OnlyPlans
<1>1. plan \in [Account -> Plans]
  BY DEF SubInv, TablesTyped
<1> QED BY <1>1 DEF OnlyPlans, SubInv, TablesTyped, stripeVars, SetPlan

LEMMA IdleOK == TaskOK(Idle)
BY DEF TaskOK
-----------------------------------------------------------------------------
(* A task that goes on to its next statement *)

LEMMA WebGoes ==
    ASSUME NEW t \in WebhookTask, WebhookOK(t),
           NEW at \in {"grant", "write", "grantNew", "revoke", "done"},
           at = "write" => Searched(t),
           at = "revoke" => events[t.event].type = "deleted",
           at = "grant" => t.status \in Live
    PROVE  TaskOK([t EXCEPT !.at = at])
<1>1. PICK x : x = Web(t.event, t.sub, t.status, t.row, t.since, t.at)
  OBVIOUS
<1>2. PICK u : u = Web(t.event, t.sub, t.status, t.row, t.since, at)
  OBVIOUS
<1>3. t = x
  BY <1>1, WebTyped
<1>4. [x EXCEPT !.at = at] = u
  BY <1>1, <1>2 DEF Web
<1>5. u \in WebhookTask
  BY <1>2, WebTyped, WebIsTask
<1>6. /\ u.event = t.event /\ u.sub = t.sub /\ u.status = t.status /\ u.row = t.row
      /\ u.since = t.since /\ u.at = at
  BY <1>2, WebFields
<1>7. Handles(u)
  BY <1>6 DEF WebhookOK, Handles, Searched
<1>8. WebhookOK(u)
  BY <1>6, <1>7 DEF WebhookOK
<1>9. [t EXCEPT !.at = at] = u
  BY <1>3, <1>4, Zenon
<1> QED BY <1>5, <1>8, <1>9 DEF TaskOK

LEMMA RecGoes ==
    ASSUME NEW t \in ReconcileTask, ReconcileOK(t), t.at \in {"write", "grant"},
           NEW at \in {"grant", "done"}, at = "grant" => t.status \in Live
    PROVE  TaskOK([t EXCEPT !.at = at])
<1>1. PICK x : x = Rec(t.at, t.calls, t.listed, t.todo, t.moved, t.sub, t.status, t.row, t.since)
  OBVIOUS
<1>2. PICK u : u = Rec(at, t.calls, t.listed, t.todo, t.moved, t.sub, t.status, t.row, t.since)
  OBVIOUS
<1>3. t = x
  BY <1>1, RecTyped
<1>4. [x EXCEPT !.at = at] = u
  BY <1>1, <1>2 DEF Rec
<1>5. u \in ReconcileTask
  <2>1. at \in {"list", "write", "grant", "done"}
    OBVIOUS
  <2> QED BY <1>2, <2>1, RecTyped, RecIsTask
<1>6. /\ u.calls = t.calls /\ u.listed = t.listed /\ u.todo = t.todo /\ u.moved = t.moved
      /\ u.sub = t.sub /\ u.status = t.status /\ u.row = t.row /\ u.since = t.since /\ u.at = at
  BY <1>2, RecFields
<1>7. [sub |-> t.sub, status |-> t.status] \in t.listed /\ Handles(t)
  BY DEF ReconcileOK
<1>8. Handles(u)
  BY <1>6, <1>7 DEF Handles
<1>9. ReconcileOK(u)
  BY <1>6, <1>7, <1>8 DEF ReconcileOK
<1>10. [t EXCEPT !.at = at] = u
  BY <1>3, <1>4, Zenon
<1> QED BY <1>5, <1>9, <1>10 DEF TaskOK
-----------------------------------------------------------------------------
(* Webhooks *)

LEMMA AtTask ==
    ASSUME SubInv, NEW w \in Worker, NEW at, At(w, at)
    PROVE  /\ at \in {"grantNew", "find", "set", "revoke"} =>
                 task[w] \in WebhookTask /\ WebhookOK(task[w])
           /\ at \in {"list", "write", "grant", "done"} =>
                 \/ task[w] \in WebhookTask /\ WebhookOK(task[w])
                 \/ task[w] \in ReconcileTask /\ ReconcileOK(task[w])
           /\ at = "downgrade" => task[w] \in DowngradeTask /\ DowngradeOK(task[w])
           /\ at = "suspend" => task[w] \in SuspendTask
           /\ task[w].at = at
<1>1. PICK t : t = task[w]
  OBVIOUS
<1>2. TaskOK(t) /\ t.op # "none" /\ t.at = at
  BY <1>1 DEF SubInv, TasksOK, At
<1>3. /\ at \in {"grantNew", "find", "set", "revoke"} => t \in WebhookTask /\ WebhookOK(t)
      /\ at \in {"list", "write", "grant", "done"} =>
            \/ t \in WebhookTask /\ WebhookOK(t)
            \/ t \in ReconcileTask /\ ReconcileOK(t)
      /\ at = "downgrade" => t \in DowngradeTask /\ DowngradeOK(t)
      /\ at = "suspend" => t \in SuspendTask
  BY <1>2, TaskKinds
<1> QED BY <1>1, <1>2, <1>3

LEMMA ReceiveInv ==
    ASSUME SubInv, NEW w \in Worker, NEW e \in DOMAIN events, Receive(w, e)
    PROVE  SubInv'
<1>1. PICK t : t = Web(e, events[e].sub, events[e].status, 0, 0, First(events[e].type))
  OBVIOUS
<1>2. Does(w, t)
  BY <1>1 DEF Receive, Web
<1>3. TablesTyped /\ EventsOK
  BY DEF SubInv
<1>4. /\ t.event = e /\ t.sub = events[e].sub /\ t.status = events[e].status
      /\ t.at = First(events[e].type)
  BY <1>1, WebFields
<1>5. /\ First(events[e].type) \in {"grant", "find", "set"}
      /\ First(events[e].type) = "grant" => events[e].type = "checkout"
      /\ First(events[e].type) = "set" => events[e].type \in {"paid", "failed", "deleted"}
  BY <1>3, EventTyped DEF First
<1>6. t \in WebhookTask
  <2>1. e \in Nat /\ events[e].sub \in Sub /\ events[e].status \in StripeStatus
    BY <1>3, EventTyped
  <2>2. PICK at : at = First(events[e].type)
    OBVIOUS
  <2>3. at \in {"grant", "find", "set", "write", "grantNew", "revoke", "done"} /\ 0 \in Nat
    BY <1>5, <2>2
  <2>4. t = Web(e, events[e].sub, events[e].status, 0, 0, at)
    BY <1>1, <2>2
  <2> QED BY <2>1, <2>3, <2>4, WebIsTask
<1>7. Handles(t)
  BY <1>3, <1>4, <1>5 DEF Handles, EventsOK
<1>8. WebhookOK(t)
  BY <1>4, <1>5, <1>7 DEF WebhookOK
<1>9. OnlyPlans
  BY UnchangedButTask DEF Receive
<1> QED BY <1>2, <1>6, <1>8, <1>9, PlansTask DEF TaskOK

LEMMA AnswerInv ==
    ASSUME SubInv, NEW e \in DOMAIN events, Answer(e)
    PROVE  SubInv'
<1>1. OnlyPlans
  BY Unchanged DEF Answer, SubInv, TablesTyped
<1> QED BY <1>1, PlansNoTask DEF Answer

\* What findFirst finds.
LEMMA FoundTyped ==
    ASSUME TablesTyped, NEW s \in Sub, NEW r \in Found(s)
    PROVE  /\ r \in Nat
           /\ r = 0 => RowsOf(s) = {}
           /\ r # 0 => r \in DOMAIN rows /\ rows[r].sub = s /\ rows[r].status # "erased"
<1>1. \A i \in RowsOf(s) : i \in DOMAIN rows /\ rows[i].sub = s /\ rows[i].status # "erased"
  BY DEF RowsOf
<1>2. \A i \in RowsOf(s) : i \in Nat \ {0}
  BY <1>1, RowTyped
<1> QED BY <1>1, <1>2 DEF Found

LEMMA FindRowInv ==
    ASSUME SubInv, NEW w \in Worker, FindRow(w)
    PROVE  SubInv'
<1>1. PICK t : t = task[w]
  OBVIOUS
<1>2. t \in WebhookTask /\ WebhookOK(t)
  BY <1>1, AtTask DEF FindRow
<1>3. TablesTyped /\ Len(rows) \in Nat
  BY LengthsTyped DEF SubInv
<1>4. PICK r \in Found(t.sub) : Does(w, [t EXCEPT !.row = r, !.since = Len(rows), !.at = "write"])
  BY <1>1 DEF FindRow
<1>5. t.sub \in Sub
  BY <1>2, WebTyped
<1>6. PICK n : n = Len(rows)
  OBVIOUS
<1>7. PICK u : u = Web(t.event, t.sub, t.status, r, n, "write")
  OBVIOUS
<1>8. [t EXCEPT !.row = r, !.since = n, !.at = "write"] = u
  <2>1. PICK x : x = Web(t.event, t.sub, t.status, t.row, t.since, t.at)
    OBVIOUS
  <2>2. t = x
    BY <1>2, <2>1, WebTyped
  <2>3. PICK y : y = Web(t.event, t.sub, t.status, r, t.since, t.at)
    OBVIOUS
  <2>4. PICK z : z = Web(t.event, t.sub, t.status, r, n, t.at)
    OBVIOUS
  <2>5. [x EXCEPT !.row = r] = y
    BY <2>1, <2>3 DEF Web
  <2>6. [y EXCEPT !.since = n] = z
    BY <2>3, <2>4 DEF Web
  <2>7. [z EXCEPT !.at = "write"] = u
    BY <1>7, <2>4 DEF Web
  <2> QED BY <2>2, <2>5, <2>6, <2>7, Zenon
<1>9. Does(w, u)
  BY <1>4, <1>6, <1>8, Zenon
<1>10. r \in Nat
  BY <1>3, <1>5, FoundTyped
<1>11. u \in WebhookTask
  BY <1>2, <1>3, <1>6, <1>7, <1>10, WebTyped, WebIsTask
<1>12. /\ u.event = t.event /\ u.sub = t.sub /\ u.status = t.status /\ u.row = r
       /\ u.since = n /\ u.at = "write"
  BY <1>7, WebFields
<1>13. Searched(u)
  BY <1>3, <1>5, <1>6, <1>12, FoundTyped DEF Searched
<1>14. WebhookOK(u)
  BY <1>2, <1>12, <1>13 DEF WebhookOK, Handles
<1>15. OnlyPlans
  BY UnchangedButTask DEF FindRow
<1> QED BY <1>9, <1>11, <1>14, <1>15, PlansTask DEF TaskOK

LEMMA MarkProcessedInv ==
    ASSUME SubInv, NEW w \in Worker, MarkProcessed(w)
    PROVE  SubInv'
<1>1. task[w] \in WebhookTask \/ task[w] \in ReconcileTask
  BY AtTask DEF MarkProcessed
<1>2. \/ task[w] \in WebhookTask /\ WebhookOK(task[w])
      \/ task[w] \in ReconcileTask /\ ReconcileOK(task[w])
  BY AtTask DEF MarkProcessed
<1>3. task[w] \notin ReconcileTask
  BY RecTyped DEF MarkProcessed
<1>4. task[w].event \in DOMAIN events
  BY <1>2, <1>3 DEF WebhookOK
<1>5. OnlyPlans
  BY <1>4, Unchanged DEF MarkProcessed, SubInv, TablesTyped, stripeVars
<1> QED BY <1>5, IdleOK, PlansTask DEF MarkProcessed, Ends

LEMMA RevokeInv ==
    ASSUME SubInv, NEW w \in Worker, Revoke(w)
    PROVE  SubInv'
<1>1. task[w] \in WebhookTask /\ WebhookOK(task[w])
  BY AtTask DEF Revoke
<1>2. task[w].sub \in Sub /\ stripe[task[w].sub].status # "none"
  BY <1>1, WebTyped DEF WebhookOK, Handles
<1>3. Owner(task[w].sub) \in Account /\ "free" \in Plans \ {"deleted"}
  BY <1>2, BuyerTyped DEF SubInv, Plans
<1>4. mishaps' \in 0..MaxMishaps
  BY DEF Revoke, SubInv, TablesTyped
<1>5. OnlyPlans
  BY <1>3, <1>4, PlanSet DEF Revoke
<1>6. TaskOK([task[w] EXCEPT !.at = "done"])
  BY <1>1, WebGoes
<1> QED BY <1>5, <1>6, PlansTask DEF Revoke, Goes

LEMMA GrantInv ==
    ASSUME SubInv, NEW w \in Worker, Grant(w)
    PROVE  SubInv'
<1>1. \/ task[w] \in WebhookTask /\ WebhookOK(task[w])
      \/ task[w] \in ReconcileTask /\ ReconcileOK(task[w]) /\ task[w].at = "grant"
  BY AtTask DEF Grant
<1>2. task[w].sub \in Sub /\ stripe[task[w].sub].status # "none"
  <2>1. CASE task[w] \in WebhookTask /\ WebhookOK(task[w])
    BY <2>1, WebTyped DEF WebhookOK, Handles
  <2>2. CASE task[w] \in ReconcileTask /\ ReconcileOK(task[w]) /\ task[w].at = "grant"
    <3>1. [sub |-> task[w].sub, status |-> task[w].status] \in Listing
      BY <2>2, RecTyped DEF ReconcileOK
    <3>2. task[w].sub \in Sub
      BY <3>1 DEF Listing
    <3> QED BY <2>2, <3>2 DEF ReconcileOK, Handles
  <2> QED BY <1>1, <2>1, <2>2
<1>3. Owner(task[w].sub) \in Account /\ "paid" \in Plans \ {"deleted"}
  BY <1>2, BuyerTyped DEF SubInv, Plans
<1>4. mishaps' \in 0..MaxMishaps
  BY DEF Grant, SubInv, TablesTyped
<1>5. OnlyPlans
  BY <1>3, <1>4, PlanSet DEF Grant
<1>6. PICK at : at = IF At(w, "grantNew") /\ task[w].status \in Live THEN "grant" ELSE "done"
  OBVIOUS
<1>7. at \in {"grant", "done"} /\ (at = "grant" => task[w].status \in Live)
  BY <1>6
<1>8. TaskOK([task[w] EXCEPT !.at = at])
  BY <1>1, <1>7, WebGoes, RecGoes
<1> QED BY <1>5, <1>6, <1>8, PlansTask DEF Grant, Goes
-----------------------------------------------------------------------------
(* Steps that write rows *)

RowsChange ==
    /\ UNCHANGED <<stripeVars, processed>>
    /\ plan' \in [Account -> Plans]
    /\ mishaps' \in 0..MaxMishaps
    /\ rows' \in Seq([sub : Sub, status : RowStatus])
    /\ RowsGo /\ RowsOK'

LEMMA RowsStep ==
    ASSUME SubInv, RowsChange
    PROVE  /\ TablesTyped /\ TasksOK /\ TablesTyped' /\ RowsOK' /\ EventsOK'
           /\ UNCHANGED stripe /\ RowsGo /\ EventsGo
<1>1. TablesTyped /\ TasksOK /\ RowsOK /\ EventsOK
  BY DEF SubInv
<1>2. TablesTyped'
  BY <1>1 DEF TablesTyped, RowsChange, Event_, stripeVars, RowStatus
<1>3. EventsGo
  BY DEF EventsGo, RowsChange, stripeVars
<1>4. EventsOK'
  BY <1>1 DEF EventsOK, RowsChange, stripeVars
<1> QED BY <1>1, <1>2, <1>3, <1>4 DEF RowsChange, stripeVars

LEMMA RowsTask ==
    ASSUME SubInv, RowsChange, NEW w \in Worker, NEW t, Does(w, t), TaskOK(t)
    PROVE  SubInv'
<1>1. (TaskOK(t))'
  BY RowsStep, TaskKept
<1> QED BY <1>1, RowsStep, OneTask DEF SubInv

LEMMA RowsNoTask ==
    ASSUME SubInv, RowsChange, UNCHANGED task
    PROVE  SubInv'
BY RowsStep, TasksKept DEF SubInv

\* Rows that keep their number and subscriptions, and change their status.
LEMMA RowsMapped ==
    ASSUME TablesTyped, rows' = [r \in DOMAIN rows |-> rows'[r]],
           \A r \in DOMAIN rows :
              /\ rows'[r] \in [sub : Sub, status : RowStatus]
              /\ rows'[r].sub = rows[r].sub
              /\ rows[r].status = "erased" => rows'[r].status = "erased"
    PROVE  rows' \in Seq([sub : Sub, status : RowStatus]) /\ RowsGo /\ Len(rows') = Len(rows)
           /\ DOMAIN rows' = DOMAIN rows
<1>1. PICK n \in Nat : n = Len(rows) /\ DOMAIN rows = 1..n
  BY LengthsTyped
<1>2. PICK R : R = [sub : Sub, status : RowStatus]
  OBVIOUS
<1>3. rows' = [r \in 1..n |-> rows'[r]] /\ \A r \in 1..n : rows'[r] \in R
  BY <1>1, <1>2
<1>4. rows' \in Seq(R) /\ Len(rows') = n /\ DOMAIN rows' = 1..n
  <2>1. PICK f : f = rows'
    OBVIOUS
  <2>2. f = [r \in 1..n |-> f[r]] /\ \A r \in 1..n : f[r] \in R
    BY <1>3, <2>1
  <2>3. f \in [1..n -> R]
    BY <2>2
  <2>4. f \in Seq(R) /\ Len(f) = n /\ DOMAIN f = 1..n
    BY <2>3
  <2> QED BY <2>1, <2>4
<1> QED BY <1>1, <1>2, <1>4 DEF RowsGo

LEMMA SetRowsInv ==
    ASSUME SubInv, NEW w \in Worker, SetRows(w)
    PROVE  /\ SubInv' /\ RowsGo /\ DOMAIN rows' = DOMAIN rows
           /\ \A r \in DOMAIN rows :
                 \/ rows'[r] = rows[r]
                 \/ /\ rows'[r].sub = task[w].sub
                    /\ rows'[r].status \in Live => task[w].status \in Live
<1>1. PICK t : t = task[w]
  OBVIOUS
<1>2. t \in WebhookTask /\ WebhookOK(t) /\ t.at = "set"
  BY <1>1, AtTask DEF SetRows
<1>3. PICK type : type = events[t.event].type
  OBVIOUS
<1>4. type \in {"paid", "failed", "deleted"}
  BY <1>2, <1>3 DEF WebhookOK
<1>5. PICK st : st = CASE type = "deleted" -> "canceled"
                       [] type = "paid" -> "active"
                       [] type = "failed" -> "past_due"
  OBVIOUS
<1>6. st \in RowStatus \ {"erased"}
  BY <1>4, <1>5 DEF RowStatus, StripeStatus
<1>7. rows' = [r \in DOMAIN rows |->
                  IF r \in RowsOf(t.sub) THEN [rows[r] EXCEPT !.status = st] ELSE rows[r]]
  BY <1>1, <1>3, <1>5 DEF SetRows
<1>8. \A r \in DOMAIN rows :
         /\ rows'[r] \in [sub : Sub, status : RowStatus]
         /\ rows'[r].sub = rows[r].sub
         /\ rows'[r].status = "erased" <=> rows[r].status = "erased"
  <2> SUFFICES ASSUME NEW r \in DOMAIN rows
               PROVE  /\ rows'[r] \in [sub : Sub, status : RowStatus]
                      /\ rows'[r].sub = rows[r].sub
                      /\ rows'[r].status = "erased" <=> rows[r].status = "erased"
    OBVIOUS
  <2>1. PICK x : x = rows[r]
    OBVIOUS
  <2>2. x \in [sub : Sub, status : RowStatus]
    BY <2>1, RowTyped DEF SubInv
  <2>3. rows'[r] = x \/ (r \in RowsOf(t.sub) /\ rows'[r] = [x EXCEPT !.status = st])
    BY <1>7, <2>1
  <2>4. r \in RowsOf(t.sub) => x.status # "erased"
    BY <2>1 DEF RowsOf
  <2> QED BY <1>6, <2>1, <2>2, <2>3, <2>4
<1>9. rows' = [r \in DOMAIN rows |-> rows'[r]]
  BY <1>7
<1>10. /\ rows' \in Seq([sub : Sub, status : RowStatus]) /\ RowsGo
       /\ DOMAIN rows' = DOMAIN rows
  BY <1>8, <1>9, RowsMapped DEF SubInv
<1>11. RowsOK'
  BY <1>8, <1>10, ZenonT(120) DEF SetRows, SubInv, RowsOK, Owner, stripeVars
<1>12. RowsChange
  BY <1>10, <1>11 DEF RowsChange, SetRows, SubInv, TablesTyped
<1>13. PICK at : at = IF type = "deleted" THEN "revoke" ELSE "done"
  OBVIOUS
<1>14. TaskOK([t EXCEPT !.at = at])
  BY <1>2, <1>3, <1>13, WebGoes
<1>15. Does(w, [t EXCEPT !.at = at])
  BY <1>1, <1>3, <1>13, Zenon DEF SetRows, Goes
<1>16. SubInv'
  BY <1>12, <1>14, <1>15, RowsTask
<1>17. \A r \in DOMAIN rows :
          \/ rows'[r] = rows[r]
          \/ /\ rows'[r].sub = t.sub
             /\ rows'[r].status \in Live => t.status \in Live
  <2> SUFFICES ASSUME NEW r \in DOMAIN rows, rows'[r] # rows[r]
               PROVE  rows'[r].sub = t.sub /\ (rows'[r].status \in Live => t.status \in Live)
    OBVIOUS
  <2>1. PICK x : x = rows[r]
    OBVIOUS
  <2>2. x \in [sub : Sub, status : RowStatus]
    BY <2>1, RowTyped DEF SubInv
  <2>3. r \in RowsOf(t.sub) /\ rows'[r] = [x EXCEPT !.status = st]
    BY <1>7, <2>1
  <2>4. rows'[r].status = st /\ rows'[r].sub = t.sub
    BY <1>8, <2>2, <2>3 DEF RowsOf
  <2>5. st \in Live => type = "paid"
    BY <1>4, <1>5 DEF Live
  <2>6. type = "paid" => t.status \in Live
    BY <1>2, <1>3 DEF WebhookOK, SubInv, EventsOK
  <2> QED BY <2>4, <2>5, <2>6
<1> QED BY <1>1, <1>10, <1>16, <1>17

LEMMA MappedTyped ==
    ASSUME NEW st \in StripeStatus
    PROVE  /\ Mapped(st) \in StripeStatus /\ Mapped(st) # "erased"
           /\ Mapped(st) \in Live => Mapped(st) = st
BY DEF Mapped, StripeStatus, Live

\* The row that a webhook or a reconcile writes.
LEMMA WritesTyped ==
    ASSUME SubInv, NEW w \in Worker, At(w, "write")
    PROVE  /\ task[w].sub \in Sub /\ stripe[task[w].sub].status # "none"
           /\ task[w].status \in StripeStatus /\ task[w].row \in Nat
           /\ Searched(task[w])
           /\ \/ task[w] \in WebhookTask /\ WebhookOK(task[w])
              \/ task[w] \in ReconcileTask /\ ReconcileOK(task[w]) /\ task[w].op # "webhook"
<1>1. PICK t : t = task[w]
  OBVIOUS
<1>2. t.at = "write" /\ \/ t \in WebhookTask /\ WebhookOK(t)
                        \/ t \in ReconcileTask /\ ReconcileOK(t)
  BY <1>1, AtTask
<1>3. CASE t \in WebhookTask /\ WebhookOK(t)
  BY <1>1, <1>2, <1>3, WebTyped DEF WebhookOK, Handles
<1>4. CASE t \in ReconcileTask /\ ReconcileOK(t)
  <2>1. [sub |-> t.sub, status |-> t.status] \in Listing
    BY <1>2, <1>4, RecTyped DEF ReconcileOK
  <2>2. t.sub \in Sub /\ t.status \in StripeStatus
    BY <2>1 DEF Listing
  <2> QED BY <1>1, <1>2, <1>4, <2>2, RecTyped DEF ReconcileOK, Handles
<1> QED BY <1>2, <1>3, <1>4

LEMMA WriteRowInv ==
    ASSUME SubInv, NEW w \in Worker, WriteRow(w)
    PROVE  /\ SubInv' /\ RowsGo
           /\ \A r \in DOMAIN rows' :
                 \/ rows'[r].sub = task[w].sub /\ rows'[r].status = Mapped(task[w].status)
                 \/ r \in DOMAIN rows /\ rows'[r] = rows[r]
           /\ task[w].row = 0 \/ DOMAIN rows' = DOMAIN rows
<1>1. PICK t : t = task[w]
  OBVIOUS
<1>2. /\ t.sub \in Sub /\ stripe[t.sub].status # "none" /\ t.status \in StripeStatus
      /\ t.row \in Nat /\ Searched(t) /\ t.at = "write"
      /\ \/ t \in WebhookTask /\ WebhookOK(t)
         \/ t \in ReconcileTask /\ ReconcileOK(t) /\ t.op # "webhook"
  BY <1>1, WritesTyped, AtTask DEF WriteRow
<1>3. PICK st \in StripeStatus : st = Mapped(t.status) /\ st # "erased"
  BY <1>2, MappedTyped
<1>4. TablesTyped /\ RowsOK
  BY DEF SubInv
<1>a. st \in RowStatus
  BY <1>3 DEF RowStatus
<1>5. /\ rows' \in Seq([sub : Sub, status : RowStatus]) /\ RowsGo
      /\ \A r \in DOMAIN rows' :
            \/ rows'[r].sub = t.sub /\ rows'[r].status = st /\ plan[Owner(t.sub)] # "deleted"
            \/ r \in DOMAIN rows /\ rows'[r] = rows[r]
      /\ t.row = 0 \/ DOMAIN rows' = DOMAIN rows
  <2>1. CASE t.row = 0 /\ plan[Owner(t.sub)] # "deleted"
    <3>1. PICK x : x = [sub |-> t.sub, status |-> st]
      OBVIOUS
    <3>2. PICK R : R = [sub : Sub, status : RowStatus]
      OBVIOUS
    <3>3. x \in R /\ x.sub = t.sub /\ x.status = st
      BY <1>2, <1>a, <3>1, <3>2
    <3>4. rows \in Seq(R)
      BY <1>4, <3>2 DEF TablesTyped
    <3>5. rows' = Append(rows, x)
      BY <1>1, <1>3, <2>1, <3>1 DEF WriteRow
    <3>6. /\ rows' \in Seq(R) /\ Len(rows') = Len(rows) + 1 /\ Len(rows) \in Nat
          /\ DOMAIN rows' = 1..Len(rows) + 1 /\ DOMAIN rows = 1..Len(rows)
          /\ \A r \in 1..Len(rows) : rows'[r] = rows[r]
          /\ rows'[Len(rows) + 1] = x
      BY <3>3, <3>4, <3>5
    <3>7. RowsGo
      BY <3>6 DEF RowsGo
    <3> QED BY <2>1, <3>2, <3>3, <3>6, <3>7
  <2>2. CASE t.row # 0 /\ rows[t.row].status # "erased"
    <3>1. t.row \in DOMAIN rows /\ rows[t.row].sub = t.sub
      BY <1>2, <2>2 DEF Searched
    <3>2. rows' = [rows EXCEPT ![t.row].status = st]
      BY <1>1, <1>3, <2>2 DEF WriteRow
    <3>3. rows = [r \in DOMAIN rows |-> rows[r]]
      BY <1>4 DEF TablesTyped
    <3>4. rows' = [r \in DOMAIN rows |-> IF r = t.row THEN [rows[r] EXCEPT !.status = st] ELSE rows[r]]
      BY <3>1, <3>2, <3>3
    <3>5. \A r \in DOMAIN rows :
             /\ rows'[r] \in [sub : Sub, status : RowStatus]
             /\ rows'[r].sub = rows[r].sub
             /\ rows[r].status = "erased" => rows'[r].status = "erased"
             /\ r = t.row => rows'[r].status = st
             /\ r # t.row => rows'[r] = rows[r]
      <4> SUFFICES ASSUME NEW r \in DOMAIN rows
                   PROVE  /\ rows'[r] \in [sub : Sub, status : RowStatus]
                          /\ rows'[r].sub = rows[r].sub
                          /\ rows[r].status = "erased" => rows'[r].status = "erased"
                          /\ r = t.row => rows'[r].status = st
                          /\ r # t.row => rows'[r] = rows[r]
        OBVIOUS
      <4>1. PICK x : x = rows[r]
        OBVIOUS
      <4>2. x \in [sub : Sub, status : RowStatus]
        BY <1>4, <4>1, RowTyped
      <4>3. /\ r = t.row => rows'[r] = [x EXCEPT !.status = st] /\ x.status # "erased"
            /\ r # t.row => rows'[r] = x
        BY <2>2, <3>4, <4>1
      <4> QED BY <1>a, <4>1, <4>2, <4>3
    <3>6. rows' = [r \in DOMAIN rows |-> rows'[r]]
      BY <3>4
    <3>7. /\ rows' \in Seq([sub : Sub, status : RowStatus]) /\ RowsGo
          /\ DOMAIN rows' = DOMAIN rows
      BY <1>4, <3>5, <3>6, RowsMapped
    <3>8. plan[Owner(t.sub)] # "deleted"
      BY <1>4, <2>2, <3>1 DEF RowsOK
    <3> QED BY <3>1, <3>5, <3>7, <3>8
  <2> QED BY <1>1, <2>1, <2>2 DEF WriteRow
<1>6. UNCHANGED <<stripeVars, plan, processed, mishaps>> /\ UNCHANGED stripe
  BY DEF WriteRow, stripeVars
<1>7. RowsOK'
  <2> SUFFICES ASSUME NEW r \in DOMAIN rows'
               PROVE  /\ stripe'[rows'[r].sub].status # "none"
                      /\ plan'[stripe'[rows'[r].sub].owner] = "deleted" <=> rows'[r].status = "erased"
    BY DEF RowsOK, Owner
  <2>1. CASE rows'[r].sub = t.sub /\ rows'[r].status = st /\ plan[Owner(t.sub)] # "deleted"
    BY <1>2, <1>3, <1>6, <2>1 DEF Owner
  <2>2. CASE r \in DOMAIN rows /\ rows'[r] = rows[r]
    BY <1>4, <1>6, <2>2 DEF RowsOK, Owner
  <2> QED BY <1>5, <2>1, <2>2
<1>8. RowsChange
  BY <1>4, <1>5, <1>6, <1>7 DEF RowsChange, TablesTyped
<1>9. PICK at : at = AfterWrite(w)
  OBVIOUS
<1>10. /\ at \in {"grantNew", "grant", "done"}
       /\ at = "grantNew" => t.op = "webhook"
       /\ at = "grant" => t.status \in Live
  BY <1>1, <1>9 DEF AfterWrite
<1>11. TaskOK([t EXCEPT !.at = at])
  <2>1. CASE t \in WebhookTask /\ WebhookOK(t)
    BY <1>10, <2>1, WebGoes
  <2>2. CASE t \in ReconcileTask /\ ReconcileOK(t) /\ t.op # "webhook"
    BY <1>2, <1>10, <2>2, RecGoes
  <2> QED BY <1>2, <2>1, <2>2
<1>12. Does(w, [t EXCEPT !.at = at])
  BY <1>1, <1>9, Zenon DEF WriteRow, Goes
<1>13. SubInv'
  BY <1>8, <1>11, <1>12, RowsTask
<1> QED BY <1>1, <1>3, <1>5, <1>13
-----------------------------------------------------------------------------
(* Administrators, failures *)

\* The rows that are chosen, all of them not erased or to be erased, get the status st.
LEMMA StatusSet ==
    ASSUME TablesTyped, NEW st \in RowStatus, NEW chosen \in SUBSET DOMAIN rows,
           rows' = [r \in DOMAIN rows |->
                       IF r \in chosen THEN [rows[r] EXCEPT !.status = st] ELSE rows[r]],
           st = "erased" \/ \A r \in chosen : rows[r].status # "erased"
    PROVE  /\ rows' \in Seq([sub : Sub, status : RowStatus]) /\ RowsGo
           /\ DOMAIN rows' = DOMAIN rows
           /\ \A r \in DOMAIN rows :
                 /\ rows'[r].sub = rows[r].sub
                 /\ r \in chosen => rows'[r].status = st
                 /\ r \notin chosen => rows'[r] = rows[r]
<1>1. \A r \in DOMAIN rows :
         /\ rows'[r] \in [sub : Sub, status : RowStatus]
         /\ rows'[r].sub = rows[r].sub
         /\ rows[r].status = "erased" => rows'[r].status = "erased"
         /\ r \in chosen => rows'[r].status = st
         /\ r \notin chosen => rows'[r] = rows[r]
  <2> SUFFICES ASSUME NEW r \in DOMAIN rows
               PROVE  /\ rows'[r] \in [sub : Sub, status : RowStatus]
                      /\ rows'[r].sub = rows[r].sub
                      /\ rows[r].status = "erased" => rows'[r].status = "erased"
                      /\ r \in chosen => rows'[r].status = st
                      /\ r \notin chosen => rows'[r] = rows[r]
    OBVIOUS
  <2>1. PICK x : x = rows[r]
    OBVIOUS
  <2>2. x \in [sub : Sub, status : RowStatus]
    BY <2>1, RowTyped
  <2>3. /\ r \in chosen => rows'[r] = [x EXCEPT !.status = st]
        /\ r \notin chosen => rows'[r] = x
        /\ r \in chosen /\ x.status = "erased" => st = "erased"
    BY <2>1
  <2> QED BY <2>1, <2>2, <2>3
<1>2. rows' = [r \in DOMAIN rows |-> rows'[r]]
  OBVIOUS
<1>3. /\ rows' \in Seq([sub : Sub, status : RowStatus]) /\ RowsGo
      /\ DOMAIN rows' = DOMAIN rows
  BY <1>1, <1>2, RowsMapped
<1> QED BY <1>1, <1>3

LEMMA CancelActiveInv ==
    ASSUME SubInv, NEW w \in Worker, NEW a \in Account, CancelActive(w, a)
    PROVE  /\ SubInv' /\ RowsGo /\ DOMAIN rows' = DOMAIN rows
           /\ \A r \in DOMAIN rows : rows'[r] = rows[r] \/ rows'[r].status \notin Live
<1>1. PICK chosen \in SUBSET DOMAIN rows :
         chosen = {r \in DOMAIN rows : Owner(rows[r].sub) = a /\ rows[r].status = "active"}
  OBVIOUS
<1>2. rows' = [r \in DOMAIN rows |->
                  IF r \in chosen THEN [rows[r] EXCEPT !.status = "canceled"] ELSE rows[r]]
  BY <1>1 DEF CancelActive
<1>3. "canceled" \in RowStatus /\ \A r \in chosen : rows[r].status # "erased"
  BY <1>1 DEF RowStatus, StripeStatus
<1>4. TablesTyped /\ RowsOK
  BY DEF SubInv
<1>5. /\ rows' \in Seq([sub : Sub, status : RowStatus]) /\ RowsGo
      /\ DOMAIN rows' = DOMAIN rows
      /\ \A r \in DOMAIN rows :
            /\ rows'[r].sub = rows[r].sub
            /\ r \in chosen => rows'[r].status = "canceled"
            /\ r \notin chosen => rows'[r] = rows[r]
  BY <1>2, <1>3, <1>4, StatusSet
<1>6. UNCHANGED <<stripeVars, plan, processed>> /\ UNCHANGED stripe
  BY DEF CancelActive, stripeVars
<1>7. RowsOK'
  <2> SUFFICES ASSUME NEW r \in DOMAIN rows
               PROVE  /\ stripe[rows'[r].sub].status # "none"
                      /\ plan[Owner(rows'[r].sub)] = "deleted" <=> rows'[r].status = "erased"
    BY <1>5, <1>6 DEF RowsOK, Owner
  <2>1. CASE r \in chosen
    BY <1>3, <1>4, <1>5, <2>1 DEF RowsOK
  <2>2. CASE r \notin chosen
    BY <1>4, <1>5, <2>2 DEF RowsOK
  <2> QED BY <2>1, <2>2
<1>8. mishaps' \in 0..MaxMishaps
  BY MishapTyped DEF CancelActive
<1>9. RowsChange
  BY <1>4, <1>5, <1>6, <1>7, <1>8 DEF RowsChange, TablesTyped
<1>10. PICK t : t = [op |-> "suspend", at |-> "suspend", account |-> a]
  OBVIOUS
<1>11. TaskOK(t)
  BY <1>10 DEF TaskOK, SuspendTask
<1>12. Does(w, t)
  BY <1>10 DEF CancelActive
<1>13. SubInv'
  BY <1>9, <1>11, <1>12, RowsTask
<1> QED BY <1>5, <1>13 DEF Live

LEMMA DeleteAccountInv ==
    ASSUME SubInv, NEW a \in Account, DeleteAccount(a)
    PROVE  /\ SubInv' /\ RowsGo /\ DOMAIN rows' = DOMAIN rows
           /\ \A r \in DOMAIN rows : rows'[r] = rows[r] \/ rows'[r].status \notin Live
<1>1. PICK chosen \in SUBSET DOMAIN rows : chosen = {r \in DOMAIN rows : Owner(rows[r].sub) = a}
  OBVIOUS
<1>2. rows' = [r \in DOMAIN rows |->
                  IF r \in chosen THEN [rows[r] EXCEPT !.status = "erased"] ELSE rows[r]]
  BY <1>1 DEF DeleteAccount
<1>3. "erased" \in RowStatus
  BY DEF RowStatus
<1>4. TablesTyped /\ RowsOK
  BY DEF SubInv
<1>5. /\ rows' \in Seq([sub : Sub, status : RowStatus]) /\ RowsGo
      /\ DOMAIN rows' = DOMAIN rows
      /\ \A r \in DOMAIN rows :
            /\ rows'[r].sub = rows[r].sub
            /\ r \in chosen => rows'[r].status = "erased"
            /\ r \notin chosen => rows'[r] = rows[r]
  BY <1>2, <1>3, <1>4, StatusSet
<1>6. UNCHANGED <<stripeVars, processed, task>> /\ UNCHANGED stripe
  BY DEF DeleteAccount, stripeVars
<1>7. plan' \in [Account -> Plans] /\ plan' = [plan EXCEPT ![a] = "deleted"]
  BY <1>4 DEF DeleteAccount, SetPlan, TablesTyped, Plans
<1>8. RowsOK'
  <2> SUFFICES ASSUME NEW r \in DOMAIN rows
               PROVE  /\ stripe[rows'[r].sub].status # "none"
                      /\ plan'[Owner(rows'[r].sub)] = "deleted" <=> rows'[r].status = "erased"
    BY <1>5, <1>6 DEF RowsOK, Owner
  <2>0. stripe[rows[r].sub].status # "none" /\ Owner(rows[r].sub) \in Account
    BY <1>4, RowTyped, BuyerTyped DEF RowsOK
  <2>1. CASE r \in chosen
    <3>1. plan'[a] = "deleted"
      BY <1>4, <1>7 DEF TablesTyped
    <3> QED BY <1>1, <1>5, <2>0, <2>1, <3>1
  <2>2. CASE r \notin chosen
    <3>1. plan'[Owner(rows[r].sub)] = plan[Owner(rows[r].sub)]
      BY <1>1, <1>4, <1>7, <2>0, <2>2 DEF TablesTyped
    <3> QED BY <1>4, <1>5, <2>0, <2>2, <3>1 DEF RowsOK
  <2> QED BY <2>1, <2>2
<1>9. mishaps' \in 0..MaxMishaps
  BY MishapTyped DEF DeleteAccount
<1>10. RowsChange
  BY <1>5, <1>6, <1>7, <1>8, <1>9 DEF RowsChange
<1>11. SubInv'
  BY <1>6, <1>10, RowsNoTask
<1> QED BY <1>5, <1>11 DEF Live

LEMMA ChangePlanInv ==
    ASSUME SubInv, NEW a \in Account, NEW p \in Plans \ {"deleted"}, ChangePlan(a, p)
    PROVE  SubInv'
<1>1. mishaps' \in 0..MaxMishaps
  BY MishapTyped DEF ChangePlan
<1>2. OnlyPlans
  BY <1>1, PlanSet DEF ChangePlan
<1> QED BY <1>2, PlansNoTask DEF ChangePlan

LEMMA SuspendInv ==
    ASSUME SubInv, NEW w \in Worker, Suspend(w)
    PROVE  SubInv'
<1>1. task[w] \in SuspendTask
  BY AtTask DEF Suspend
<1>2. task[w].account \in Account /\ "free" \in Plans \ {"deleted"}
  BY <1>1 DEF SuspendTask, Plans
<1>3. mishaps' \in 0..MaxMishaps
  BY DEF Suspend, SubInv, TablesTyped
<1>4. OnlyPlans
  BY <1>2, <1>3, PlanSet DEF Suspend
<1> QED BY <1>4, IdleOK, PlansTask DEF Suspend, Ends

LEMMA NotFoundInv ==
    ASSUME SubInv, NEW w \in Worker, NotFound(w)
    PROVE  SubInv'
<1>1. OnlyPlans
  BY UnchangedButTask DEF NotFound
<1> QED BY <1>1, IdleOK, PlansTask DEF NotFound, Ends

LEMMA FailInv ==
    ASSUME SubInv, NEW w \in Worker, Fail(w)
    PROVE  SubInv'
<1>1. OnlyPlans
  BY MishapTyped, Unchanged DEF Fail, stripeVars, SubInv, TablesTyped
<1> QED BY <1>1, IdleOK, PlansTask DEF Fail, Ends
-----------------------------------------------------------------------------
(* The reconcile job *)

LEMMA BeginReconcileInv ==
    ASSUME SubInv, NEW w \in Worker, BeginReconcile(w)
    PROVE  SubInv'
<1>1. PICK t : t = Rec("list", 0, {}, {}, {}, Nobody, "none", 0, 0)
  OBVIOUS
<1>2. Does(w, t)
  BY <1>1 DEF BeginReconcile, Rec
<1>3. t \in ReconcileTask
  BY <1>1, RecIsTask
<1>4. t.at = "list" /\ t.calls = 0 /\ t.listed = {} /\ t.todo = {}
  BY <1>1, RecFields
<1>5. ReconcileOK(t)
  BY <1>4 DEF ReconcileOK, Managed
<1>6. OnlyPlans
  BY UnchangedButTask DEF BeginReconcile
<1> QED BY <1>2, <1>3, <1>5, <1>6, PlansTask DEF TaskOK

LEMMA ListTyped ==
    ASSUME TablesTyped, NEW i \in 1..3
    PROVE  /\ Managed[i] \in StripeStatus
           /\ Listed(i) \subseteq Listing
           /\ \A l \in Listed(i) : stripe[l.sub].status = l.status /\ l.status # "none"
           /\ \A s \in Sub : stripe[s].status = Managed[i] => \E l \in Listed(i) : l.sub = s
<1>1. Managed[i] \in StripeStatus
  BY DEF Managed, StripeStatus
<1>2. "none" \notin StripeStatus
  BY DEF StripeStatus
<1>3. \A s \in Sub : stripe[s].status = Managed[i] => [sub |-> s, status |-> stripe[s].status] \in Listed(i)
  BY DEF Listed
<1>4. ASSUME NEW l \in Listed(i)
      PROVE  l \in Listing /\ stripe[l.sub].status = l.status /\ l.status # "none"
  <2>1. PICK s \in Sub : stripe[s].status = Managed[i] /\ l = [sub |-> s, status |-> stripe[s].status]
    BY DEF Listed
  <2> QED BY <1>1, <1>2, <2>1 DEF Listing
<1> QED BY <1>1, <1>3, <1>4

LEMMA ListInv ==
    ASSUME SubInv, NEW w \in Worker, List(w)
    PROVE  SubInv'
<1>1. PICK t : t = task[w]
  OBVIOUS
<1>a. At(w, "list")
  BY DEF List
<1>2. t \in ReconcileTask /\ ReconcileOK(t) /\ t.at = "list"
  <2>1. t.at = "list" /\ \/ t \in WebhookTask
                         \/ t \in ReconcileTask /\ ReconcileOK(t)
    BY <1>1, <1>a, AtTask
  <2> QED BY <2>1, WebTyped
<1>3. PICK i : i = t.calls + 1
  OBVIOUS
<1>4. t.calls \in Nat /\ i \in 1..3 /\ t.calls \in 0..2 /\ Len(Managed) = 3
  BY <1>2, <1>3, RecTyped DEF ReconcileOK, Managed
<1>5. PICK listed : listed = t.listed \cup Listed(i)
  OBVIOUS
<1>6. PICK at : at = IF i = Len(Managed) THEN "done" ELSE "list"
  OBVIOUS
<1>7. Does(w, [t EXCEPT !.calls = i, !.listed = listed, !.todo = listed, !.at = at])
  BY <1>1, <1>3, <1>5, <1>6, Zenon DEF List
<1>8. PICK u : u = Rec(at, i, listed, listed, t.moved, t.sub, t.status, t.row, t.since)
  OBVIOUS
<1>9. [t EXCEPT !.calls = i, !.listed = listed, !.todo = listed, !.at = at] = u
  <2>1. PICK x : x = Rec(t.at, t.calls, t.listed, t.todo, t.moved, t.sub, t.status, t.row, t.since)
    OBVIOUS
  <2>2. t = x
    BY <1>2, <2>1, RecTyped
  <2>3. PICK y : y = Rec(t.at, i, t.listed, t.todo, t.moved, t.sub, t.status, t.row, t.since)
    OBVIOUS
  <2>4. PICK z : z = Rec(t.at, i, listed, t.todo, t.moved, t.sub, t.status, t.row, t.since)
    OBVIOUS
  <2>5. PICK v : v = Rec(t.at, i, listed, listed, t.moved, t.sub, t.status, t.row, t.since)
    OBVIOUS
  <2>6. [x EXCEPT !.calls = i] = y
    BY <2>1, <2>3 DEF Rec
  <2>7. [y EXCEPT !.listed = listed] = z
    BY <2>3, <2>4 DEF Rec
  <2>8. [z EXCEPT !.todo = listed] = v
    BY <2>4, <2>5 DEF Rec
  <2>9. [v EXCEPT !.at = at] = u
    BY <1>8, <2>5 DEF Rec
  <2> QED BY <2>2, <2>6, <2>7, <2>8, <2>9, Zenon
<1>10. TablesTyped
  BY DEF SubInv
<1>11. listed \in SUBSET Listing
  BY <1>2, <1>4, <1>5, <1>10, ListTyped, RecTyped
<1>12. u \in ReconcileTask
  <2>1. at \in {"list", "write", "grant", "done"} /\ i \in Nat
    BY <1>4, <1>6
  <2> QED BY <1>2, <1>8, <1>11, <2>1, RecTyped, RecIsTask
<1>13. u.at = at /\ u.calls = i /\ u.listed = listed /\ u.todo = listed /\ u.moved = t.moved
  BY <1>8, RecFields
<1>14. \A l \in listed : /\ stripe[l.sub].status # "none"
                         /\ stripe[l.sub].status = l.status \/ Owner(l.sub) \in t.moved
  BY <1>2, <1>4, <1>5, <1>10, ListTyped DEF ReconcileOK
<1>15. \A s \in Sub : (\E j \in 1..i : stripe[s].status = Managed[j]) =>
          Owner(s) \in t.moved \/ \E l \in listed : l.sub = s
  <2> SUFFICES ASSUME NEW s \in Sub, NEW j \in 1..i, stripe[s].status = Managed[j]
               PROVE  Owner(s) \in t.moved \/ \E l \in listed : l.sub = s
    OBVIOUS
  <2>1. CASE j = i
    BY <1>4, <1>5, <1>10, <2>1, ListTyped
  <2>2. CASE j # i
    <3>1. j \in 1..t.calls
      BY <1>3, <1>4, <2>2
    <3> QED BY <1>2, <1>5, <3>1 DEF ReconcileOK
  <2> QED BY <2>1, <2>2
<1>16. at \in {"list", "done"} /\ (at = "done" <=> i = 3)
  BY <1>4, <1>6
<1>17. ReconcileOK(u)
  BY <1>4, <1>13, <1>14, <1>15, <1>16 DEF ReconcileOK
<1>18. OnlyPlans
  BY UnchangedButTask DEF List
<1>19. Does(w, u)
  BY <1>7, <1>9
<1> QED BY <1>12, <1>17, <1>18, <1>19, PlansTask DEF TaskOK

\* A reconcile that has listed everything and is between two subscriptions.
LEMMA DoneReconciling ==
    ASSUME SubInv, NEW w \in Worker, At(w, "done"), task[w].op = "reconcile"
    PROVE  task[w] \in ReconcileTask /\ ReconcileOK(task[w])
<1>1. \/ task[w] \in WebhookTask
      \/ task[w] \in ReconcileTask /\ ReconcileOK(task[w])
  BY AtTask
<1> QED BY <1>1, WebTyped

LEMMA StoreNextInv ==
    ASSUME SubInv, NEW w \in Worker, StoreNext(w)
    PROVE  SubInv'
<1>1. PICK t : t = task[w]
  OBVIOUS
<1>2. t \in ReconcileTask /\ ReconcileOK(t) /\ t.at = "done"
  BY <1>1, DoneReconciling, AtTask DEF StoreNext
<1>a. PICK next \in t.todo : \E r \in Found(next.sub) :
         Does(w, [t EXCEPT !.todo = @ \ {next}, !.sub = next.sub, !.status = next.status,
                           !.row = r, !.since = Len(rows), !.at = "write"])
  BY <1>1 DEF StoreNext
<1>3. PICK r \in Found(next.sub) :
         Does(w, [t EXCEPT !.todo = @ \ {next}, !.sub = next.sub, !.status = next.status,
                           !.row = r, !.since = Len(rows), !.at = "write"])
  BY <1>a
<1>4. PICK todo : todo = t.todo \ {next}
  OBVIOUS
<1>5. PICK n : n = Len(rows)
  OBVIOUS
<1>6. PICK s : s = next.sub
  OBVIOUS
<1>7. PICK st : st = next.status
  OBVIOUS
<1>8. PICK u : u = Rec("write", t.calls, t.listed, todo, t.moved, s, st, r, n)
  OBVIOUS
<1>9. [t EXCEPT !.todo = t.todo \ {next}, !.sub = s, !.status = st,
                !.row = r, !.since = n, !.at = "write"] = u
  <2>1. PICK x : x = Rec(t.at, t.calls, t.listed, t.todo, t.moved, t.sub, t.status, t.row, t.since)
    OBVIOUS
  <2>2. t = x
    BY <1>2, <2>1, RecTyped
  <2>3. PICK y : y = Rec(t.at, t.calls, t.listed, todo, t.moved, t.sub, t.status, t.row, t.since)
    OBVIOUS
  <2>4. PICK z : z = Rec(t.at, t.calls, t.listed, todo, t.moved, s, t.status, t.row, t.since)
    OBVIOUS
  <2>5. PICK p : p = Rec(t.at, t.calls, t.listed, todo, t.moved, s, st, t.row, t.since)
    OBVIOUS
  <2>6. PICK q : q = Rec(t.at, t.calls, t.listed, todo, t.moved, s, st, r, t.since)
    OBVIOUS
  <2>7. PICK v : v = Rec(t.at, t.calls, t.listed, todo, t.moved, s, st, r, n)
    OBVIOUS
  <2>8. [x EXCEPT !.todo = todo] = y
    BY <2>1, <2>3 DEF Rec
  <2>9. [y EXCEPT !.sub = s] = z
    BY <2>3, <2>4 DEF Rec
  <2>10. [z EXCEPT !.status = st] = p
    BY <2>4, <2>5 DEF Rec
  <2>11. [p EXCEPT !.row = r] = q
    BY <2>5, <2>6 DEF Rec
  <2>12. [q EXCEPT !.since = n] = v
    BY <2>6, <2>7 DEF Rec
  <2>13. [v EXCEPT !.at = "write"] = u
    BY <1>8, <2>7 DEF Rec
  <2> QED BY <1>4, <2>2, <2>8, <2>9, <2>10, <2>11, <2>12, <2>13, Zenon
<1>10. Does(w, u)
  BY <1>3, <1>5, <1>6, <1>7, <1>9, Zenon
<1>11. TablesTyped /\ Len(rows) \in Nat
  BY LengthsTyped DEF SubInv
<1>12. next \in t.listed /\ next \in Listing /\ todo \in SUBSET t.listed
  BY <1>2, <1>4, RecTyped DEF ReconcileOK
<1>13. s \in Sub /\ st \in StripeStatus /\ [sub |-> s, status |-> st] = next
  BY <1>6, <1>7, <1>12 DEF Listing
<1>14. /\ r \in Nat
       /\ r = 0 => RowsOf(s) = {}
       /\ r # 0 => r \in DOMAIN rows /\ rows[r].sub = s
  BY <1>6, <1>11, <1>13, FoundTyped
<1>15. u \in ReconcileTask
  <2>1. todo \in SUBSET Listing
    BY <1>2, <1>12, RecTyped
  <2> QED BY <1>2, <1>5, <1>8, <1>11, <1>13, <1>14, <2>1, RecTyped, RecIsTask
<1>16. /\ u.at = "write" /\ u.calls = t.calls /\ u.listed = t.listed /\ u.todo = todo
       /\ u.moved = t.moved /\ u.sub = s /\ u.status = st /\ u.row = r /\ u.since = n
  BY <1>8, RecFields
<1>17. Handles(u)
  <2>1. Searched(u)
    BY <1>5, <1>11, <1>14, <1>16 DEF Searched
  <2>2. stripe[s].status # "none"
    BY <1>2, <1>6, <1>12 DEF ReconcileOK
  <2> QED BY <1>16, <2>1, <2>2 DEF Handles
<1>18. ReconcileOK(u)
  BY <1>2, <1>12, <1>13, <1>16, <1>17 DEF ReconcileOK
<1>19. OnlyPlans
  BY UnchangedButTask DEF StoreNext
<1> QED BY <1>10, <1>15, <1>18, <1>19, PlansTask DEF TaskOK

\* The accounts that are left to be downgraded.
LEMMA DowngradesOK ==
    ASSUME SubInv, NEW w \in Worker, NEW accounts \in SUBSET Account,
           task[w].moved \in SUBSET Account,
           DowngradeOK(Down(accounts, task[w].moved)), Downgrades(w, accounts)
    PROVE  \E t : Does(w, t) /\ TaskOK(t)
<1>1. CASE accounts = {}
  BY <1>1, IdleOK DEF Downgrades, Ends
<1>2. CASE accounts # {}
  <2>1. Does(w, Down(accounts, task[w].moved))
    BY <1>2 DEF Downgrades, Down
  <2>2. Down(accounts, task[w].moved) \in DowngradeTask
    BY DownTyped
  <2> QED BY <2>1, <2>2 DEF TaskOK
<1> QED BY <1>1, <1>2

LEMMA FindPaidInv ==
    ASSUME SubInv, NEW w \in Worker, FindPaid(w)
    PROVE  SubInv'
<1>1. PICK t : t = task[w]
  OBVIOUS
<1>2. t \in ReconcileTask /\ ReconcileOK(t) /\ t.at = "done"
  BY <1>1, DoneReconciling, AtTask DEF FindPaid
<1>3. PICK accounts : accounts = {a \in Account : plan[a] = "paid"} \ PaidAccounts(w)
  OBVIOUS
<1>4. accounts \in SUBSET Account /\ Downgrades(w, accounts)
  BY <1>3 DEF FindPaid
<1>5. t.moved \in SUBSET Account
  BY <1>2, RecTyped
<1>6. t.calls = 3 /\ 1 \in 1..3 /\ 2 \in 1..3 /\ 3 \in 1..3
      /\ Managed[1] = "active" /\ Managed[2] = "trialing" /\ Managed[3] = "past_due"
  BY <1>2 DEF ReconcileOK, Managed
<1>7. ASSUME NEW a \in accounts PROVE a \in t.moved \/ ~(Pays(a) \/ InDunning(a))
  <2> SUFFICES ASSUME NEW s \in OwnedBy(a), stripe[s].status \in Live \cup {"past_due"}
               PROVE  a \in t.moved
    BY DEF Pays, InDunning, Dunning
  <2>1. s \in Sub /\ Owner(s) = a
    BY DEF OwnedBy, Owner
  <2>2. \E i \in 1..t.calls : stripe[s].status = Managed[i]
    <3>1. CASE stripe[s].status = "active"
      BY <1>6, <3>1
    <3>2. CASE stripe[s].status = "trialing"
      BY <1>6, <3>2
    <3>3. CASE stripe[s].status = "past_due"
      BY <1>6, <3>3
    <3> QED BY <3>1, <3>2, <3>3 DEF Live
  <2>3. a \in t.moved \/ \E l \in t.listed : l.sub = s
    BY <1>2, <2>1, <2>2 DEF ReconcileOK
  <2>4. (\E l \in t.listed : l.sub = s) => a \in PaidAccounts(w)
    BY <1>1, <2>1 DEF PaidAccounts
  <2> QED BY <1>3, <2>3, <2>4
<1>8. DowngradeOK(Down(accounts, t.moved))
  <2>1. PICK u : u = Down(accounts, t.moved)
    OBVIOUS
  <2>2. u.todo = accounts /\ u.moved = t.moved
    BY <2>1, DownTyped
  <2>3. DowngradeOK(u)
    BY <1>7, <2>2 DEF DowngradeOK
  <2> QED BY <2>1, <2>3
<1>9. PICK u : Does(w, u) /\ TaskOK(u)
  BY <1>1, <1>4, <1>5, <1>8, DowngradesOK
<1>10. OnlyPlans
  BY UnchangedButTask DEF FindPaid
<1> QED BY <1>9, <1>10, PlansTask

LEMMA DowngradeInv ==
    ASSUME SubInv, NEW w \in Worker, Downgrade(w)
    PROVE  SubInv'
<1>1. PICK t : t = task[w]
  OBVIOUS
<1>2. t \in DowngradeTask /\ DowngradeOK(t)
  BY <1>1, AtTask DEF Downgrade
<1>3. PICK a \in t.todo : SetPlan(a, "free") /\ Downgrades(w, t.todo \ {a})
  BY <1>1 DEF Downgrade
<1>4. t.todo \in SUBSET Account /\ t.moved \in SUBSET Account
  BY <1>2, DownTyped
<1>5. PICK accounts : accounts = t.todo \ {a}
  OBVIOUS
<1>6. DowngradeOK(Down(accounts, t.moved))
  <2>1. PICK u : u = Down(accounts, t.moved)
    OBVIOUS
  <2>2. u.todo = accounts /\ u.moved = t.moved
    BY <2>1, DownTyped
  <2>3. DowngradeOK(u)
    BY <1>2, <1>5, <2>2 DEF DowngradeOK
  <2> QED BY <2>1, <2>3
<1>7. accounts \in SUBSET Account /\ Downgrades(w, accounts)
  BY <1>3, <1>4, <1>5
<1>8. PICK u : Does(w, u) /\ TaskOK(u)
  BY <1>1, <1>4, <1>6, <1>7, DowngradesOK
<1>9. mishaps' \in 0..MaxMishaps
  BY DEF Downgrade, SubInv, TablesTyped
<1>10. a \in Account /\ "free" \in Plans \ {"deleted"}
  BY <1>3, <1>4 DEF Plans
<1>11. OnlyPlans
  BY <1>3, <1>9, <1>10, PlanSet DEF Downgrade
<1> QED BY <1>8, <1>11, PlansTask
-----------------------------------------------------------------------------
(* Stripe *)

LEMMA StatusTyped == Status \subseteq StripeStatus \cup {"none"}
<1>1. ASSUME NEW step \in Lifecycle
      PROVE  step[1] \in StripeStatus \cup {"none"} /\ step[2] \in StripeStatus \cup {"none"}
  BY LifecycleAssumption
<1>2. "active" \in StripeStatus
  BY DEF StripeStatus
<1> QED BY <1>1, <1>2 DEF Status

LEMMA Steps ==
    ASSUME NEW from, NEW to, <<from, to>> \in Lifecycle
    PROVE  from \notin Ended /\ to \in StripeStatus /\ to # "none"
<1>1. <<from, to>> \in ({"none"} \cup (StripeStatus \ Ended)) \X StripeStatus
  BY LifecycleAssumption
<1> QED BY <1>1 DEF StripeStatus, Ended

\* A change at Stripe with its event.
LEMMA StripeInv ==
    ASSUME SubInv, NEW s \in Sub, NEW a \in Account, NEW to \in Status,
           NEW from, from = stripe[s].status, <<from, to>> \in Lifecycle,
           from = "none" \/ stripe[s].owner = a,
           from = "none" => plan[a] # "deleted",
           stripe' = [stripe EXCEPT ![s] = [owner |-> a, status |-> to]],
           Announce(Announced(s, from, to)), Seen(a),
           UNCHANGED <<plan, rows, processed, acked, givenUp, mishaps>>
    PROVE  SubInv'
<1>1. TablesTyped /\ RowsOK /\ EventsOK /\ TasksOK
  BY DEF SubInv
<1>2. from \notin Ended /\ to \in StripeStatus /\ to # "none"
  BY Steps
<1>3. StripeMoves(s, a, to)
  BY <1>2 DEF StripeMoves
<1>4. PICK e : e = Announced(s, from, to)
  OBVIOUS
<1>5. /\ e \in Event_ /\ e.sub = s /\ e.type \notin {"checkout", "paid"}
      /\ e.type = "deleted" => to = "canceled"
  BY <1>2, <1>4 DEF Announced, Event, Event_
<1>6. events' = Append(events, e) /\ Len(events) < MaxEvents
  BY <1>4 DEF Announce
<1>7. /\ events' \in Seq(Event_) /\ Len(events') = Len(events) + 1 /\ Len(events) \in Nat
      /\ DOMAIN events = 1..Len(events) /\ DOMAIN events' = 1..Len(events) + 1
      /\ \A i \in 1..Len(events) : events'[i] = events[i]
      /\ events'[Len(events) + 1] = e
  <2>1. events \in Seq(Event_)
    BY <1>1 DEF TablesTyped
  <2> QED BY <1>5, <1>6, <2>1
<1>8. EventsGo
  BY <1>7 DEF EventsGo
<1>9. Len(events') <= MaxEvents
  BY <1>6, <1>7, BoundAssumption
<1>10. stripe' \in [Sub -> [owner: Account \cup {Nobody}, status: StripeStatus \cup {"none"}]]
  BY <1>1, <1>2 DEF TablesTyped
<1>11. \A x \in Sub : stripe'[x].status \in Status
                      /\ (stripe'[x].status = "none" <=> stripe'[x].owner = Nobody)
  <2> SUFFICES ASSUME NEW x \in Sub
               PROVE  stripe'[x].status \in Status
                      /\ (stripe'[x].status = "none" <=> stripe'[x].owner = Nobody)
    OBVIOUS
  <2>1. CASE x = s
    BY <1>1, <1>2, <1>3, <2>1, StripeMoved, AccountAssumption
  <2>2. CASE x # s
    BY <1>1, <1>3, <2>2, StripeMoved DEF TablesTyped
  <2> QED BY <2>1, <2>2
<1>12. TablesTyped'
  <2>1. /\ processed' \subseteq DOMAIN events' /\ acked' \subseteq DOMAIN events'
        /\ givenUp' \subseteq DOMAIN events'
    BY <1>1, <1>7 DEF TablesTyped
  <2>2. rows' \in Seq([sub : Sub, status : RowStatus])
    BY <1>1 DEF TablesTyped
  <2> QED BY <1>1, <1>7, <1>9, <1>10, <1>11, <2>1, <2>2 DEF TablesTyped, Event_, RowStatus
<1>13. RowsOK'
  <2> SUFFICES ASSUME NEW r \in DOMAIN rows
               PROVE  /\ stripe'[rows[r].sub].status # "none"
                      /\ plan[stripe'[rows[r].sub].owner] = "deleted" <=> rows[r].status = "erased"
    BY DEF RowsOK, Owner
  <2>1. rows[r].sub \in Sub
    BY <1>1, RowTyped
  <2>2. /\ stripe'[rows[r].sub].status # "none"
        /\ stripe'[rows[r].sub].owner = stripe[rows[r].sub].owner
    BY <1>1, <1>3, <2>1, StripeMoved DEF RowsOK
  <2> QED BY <1>1, <2>2 DEF RowsOK, Owner
<1>14. EventsOK'
  <2> SUFFICES ASSUME NEW i \in DOMAIN events'
               PROVE  /\ stripe'[events'[i].sub].status # "none"
                      /\ events'[i].type \in {"checkout", "paid"} => events'[i].status \in Live
                      /\ events'[i].type = "deleted" => stripe'[events'[i].sub].status = "canceled"
    BY DEF EventsOK
  <2>1. CASE i \in DOMAIN events
    <3>1. events'[i] = events[i] /\ events[i].sub \in Sub
      BY <1>1, <1>7, <2>1, EventTyped
    <3>2. stripe'[events[i].sub].status # "none"
      BY <1>1, <1>3, <2>1, <3>1, StripeMoved DEF EventsOK
    <3>3. events[i].type = "deleted" => stripe'[events[i].sub].status = "canceled"
      <4> SUFFICES ASSUME events[i].type = "deleted"
                   PROVE  stripe'[events[i].sub].status = "canceled"
        OBVIOUS
      <4>1. stripe[events[i].sub].status = "canceled"
        BY <1>1, <2>1 DEF EventsOK
      <4>2. events[i].sub # s
        BY <1>2, <4>1 DEF Ended
      <4> QED BY <1>1, <1>3, <3>1, <4>1, <4>2, StripeMoved
    <3> QED BY <1>1, <2>1, <3>1, <3>2, <3>3 DEF EventsOK
  <2>2. CASE i = Len(events) + 1
    BY <1>1, <1>2, <1>3, <1>5, <1>7, <2>2, StripeMoved
  <2> QED BY <1>7, <2>1, <2>2
<1>15. TasksOK'
  BY <1>1, <1>3, <1>8, <1>12, SeenTasks
<1> QED BY <1>12, <1>13, <1>14, <1>15 DEF SubInv

LEMMA BuyInv ==
    ASSUME SubInv, NEW s \in Sub, NEW a \in Account, NEW status \in Status, Buy(a, s, status)
    PROVE  SubInv'
BY StripeInv DEF Buy

LEMMA MoveInv ==
    ASSUME SubInv, NEW s \in Sub, NEW status \in Status, Move(s, status)
    PROVE  SubInv'
<1>1. PICK from : from = stripe[s].status /\ from # "none" /\ <<from, status>> \in Lifecycle
  BY DEF Move
<1>2. PICK a : a = stripe[s].owner
  OBVIOUS
<1>3. a \in Account
  BY <1>1, <1>2, BuyerTyped DEF SubInv, Owner
<1>4. stripe' = [stripe EXCEPT ![s] = [owner |-> a, status |-> status]]
  <2>1. PICK x : x = stripe[s]
    OBVIOUS
  <2>2. x \in [owner: Account \cup {Nobody}, status: StripeStatus \cup {"none"}]
    BY <2>1 DEF SubInv, TablesTyped
  <2>3. [x EXCEPT !.status = status] = [owner |-> a, status |-> status]
    BY <1>2, <2>1, <2>2
  <2>4. stripe' = [stripe EXCEPT ![s] = [stripe[s] EXCEPT !.status = status]]
    BY DEF Move
  <2> QED BY <2>1, <2>3, <2>4
<1> QED BY <1>1, <1>2, <1>3, <1>4, StripeInv DEF Move, Owner

LEMMA ReportInv ==
    ASSUME SubInv, NEW s \in Sub, Report(s)
    PROVE  SubInv'
<1>1. TablesTyped /\ RowsOK /\ EventsOK /\ TasksOK
  BY DEF SubInv
<1>2. PICK e : /\ e \in {Event("checkout", s, stripe[s].status), Event("paid", s, stripe[s].status),
                         Event("failed", s, Dunning)}
               /\ e.type \in {"checkout", "paid"} => stripe[s].status \in Live
               /\ stripe[s].status \in Live \cup {Dunning}
               /\ Announce(e)
  <2>1. /\ Event("checkout", s, stripe[s].status).type = "checkout"
        /\ Event("paid", s, stripe[s].status).type = "paid"
        /\ Event("failed", s, Dunning).type = "failed"
    BY DEF Event
  <2> QED BY <2>1 DEF Report
<1>3. stripe[s].status # "none" /\ stripe[s].status \in StripeStatus /\ Dunning \in StripeStatus
  BY <1>2 DEF Live, Dunning, StripeStatus
<1>4. /\ e \in Event_ /\ e.sub = s /\ e.type \in {"checkout", "paid", "failed"}
      /\ e.type \in {"checkout", "paid"} => e.status \in Live
  BY <1>2, <1>3 DEF Event, Event_
<1>6. events' = Append(events, e) /\ Len(events) < MaxEvents
  BY <1>2 DEF Announce
<1>7. /\ events' \in Seq(Event_) /\ Len(events') = Len(events) + 1 /\ Len(events) \in Nat
      /\ DOMAIN events = 1..Len(events) /\ DOMAIN events' = 1..Len(events) + 1
      /\ \A i \in 1..Len(events) : events'[i] = events[i]
      /\ events'[Len(events) + 1] = e
  <2>1. events \in Seq(Event_)
    BY <1>1 DEF TablesTyped
  <2> QED BY <1>4, <1>6, <2>1
<1>8. EventsGo
  BY <1>7 DEF EventsGo
<1>9. Len(events') <= MaxEvents
  BY <1>6, <1>7, BoundAssumption
<1>10. UNCHANGED <<stripe, plan, rows, processed, acked, givenUp, task, mishaps>>
  BY DEF Report
<1>11. TablesTyped'
  <2>1. /\ processed' \subseteq DOMAIN events' /\ acked' \subseteq DOMAIN events'
        /\ givenUp' \subseteq DOMAIN events'
    BY <1>1, <1>7, <1>10 DEF TablesTyped
  <2> QED BY <1>1, <1>7, <1>9, <1>10, <2>1 DEF TablesTyped, Event_, RowStatus
<1>12. RowsOK'
  BY <1>1, <1>10 DEF RowsOK, Owner
<1>13. EventsOK'
  BY <1>1, <1>3, <1>4, <1>7, <1>10 DEF EventsOK
<1>14. RowsGo
  BY <1>1, <1>10, LengthsTyped DEF RowsGo
<1>15. TasksOK'
  BY <1>1, <1>8, <1>10, <1>11, <1>14, TasksKept
<1> QED BY <1>11, <1>12, <1>13, <1>15 DEF SubInv

LEMMA GiveUpInv ==
    ASSUME SubInv, NEW e \in DOMAIN events, GiveUp(e)
    PROVE  SubInv'
<1>1. mishaps' \in 0..MaxMishaps
  BY MishapTyped DEF GiveUp, SubInv, TablesTyped
<1>2. OnlyPlans
  BY <1>1, Unchanged DEF GiveUp, SubInv, TablesTyped
<1> QED BY <1>2, PlansNoTask DEF GiveUp
-----------------------------------------------------------------------------
(* The whole *)

\* SetToSeq lists a finite set.
LEMMA ListsSet ==
    ASSUME NEW S, IsFiniteSet(S)
    PROVE  SetToSeq(S) \in [1..Cardinality(S) -> S] /\ Cardinality(S) \in Nat
<1>1. Cardinality(S) \in Nat /\ ExistsBijection(1..Cardinality(S), S)
  BY FS_CardinalityType
<1>2. PICK f \in [1..Cardinality(S) -> S] : IsInjective(f)
  BY <1>1, Zenon DEF ExistsBijection, Bijection, Injection
<1> QED BY <1>1, <1>2, Zenon DEF SetToSeq

LEMMA InitInv == Init => SubInv
<1> SUFFICES ASSUME Init PROVE SubInv
  OBVIOUS
<1>1. PICK buyer \in [Sub -> Account \cup {Nobody}] :
         /\ stripe = [s \in Sub |-> [owner |-> buyer[s],
                                     status |-> IF buyer[s] = Nobody THEN "none" ELSE "active"]]
         /\ plan = [a \in Account |-> IF \E s \in Sub : buyer[s] = a THEN "paid" ELSE "free"]
         /\ rows = [i \in DOMAIN SetToSeq({s \in Sub : buyer[s] # Nobody}) |->
                       [sub |-> SetToSeq({s \in Sub : buyer[s] # Nobody})[i], status |-> "active"]]
  BY DEF Init
<1>2. PICK S : S = {s \in Sub : buyer[s] # Nobody}
  OBVIOUS
<1>3. PICK old : old = SetToSeq(S)
  OBVIOUS
<1>4. rows = [i \in DOMAIN old |-> [sub |-> old[i], status |-> "active"]]
  BY <1>1, <1>2, <1>3
<1>5. PICK n \in Nat : old \in [1..n -> S]
  <2>1. IsFiniteSet(S)
    BY <1>2, AccountAssumption, FS_Subset
  <2> QED BY <1>3, <2>1, ListsSet
<1>6. /\ events = << >> /\ processed = {} /\ acked = {} /\ givenUp = {}
      /\ task = [w \in Worker |-> Idle] /\ mishaps = 0
  BY DEF Init
<1>7. "active" \in StripeStatus /\ "active" # "none" /\ "active" \in RowStatus /\ "active" # "erased"
      /\ "active" \in Status /\ "none" \in Status
  BY DEF StripeStatus, RowStatus, Status
<1>8. stripe \in [Sub -> [owner: Account \cup {Nobody}, status: StripeStatus \cup {"none"}]]
  BY <1>1, <1>7
<1>9. \A s \in Sub : stripe[s].status \in Status
                     /\ (stripe[s].status = "none" <=> stripe[s].owner = Nobody)
  BY <1>1, <1>7
<1>10. rows \in Seq([sub : Sub, status : RowStatus]) /\ DOMAIN rows = 1..n
       /\ \A r \in 1..n : rows[r].sub \in S /\ rows[r].status = "active"
  <2>1. PICK R : R = [sub : Sub, status : RowStatus]
    OBVIOUS
  <2>2. \A r \in 1..n : /\ [sub |-> old[r], status |-> "active"] \in R
                        /\ [sub |-> old[r], status |-> "active"].sub \in S
                        /\ [sub |-> old[r], status |-> "active"].status = "active"
    BY <1>2, <1>5, <1>7, <2>1
  <2>3. rows \in [1..n -> R] /\ \A r \in 1..n : rows[r] = [sub |-> old[r], status |-> "active"]
    BY <1>4, <1>5, <2>2
  <2>4. rows \in Seq(R)
    BY <2>3
  <2> QED BY <2>1, <2>2, <2>3, <2>4
<1>11. plan \in [Account -> Plans] /\ \A a \in Account : plan[a] # "deleted"
  BY <1>1 DEF Plans
<1>12. TablesTyped
  <2>1. events \in Seq(Event_) /\ Len(events) = 0 /\ mishaps \in 0..MaxMishaps /\ 0 <= MaxEvents
    BY <1>6, BoundAssumption
  <2> QED BY <1>6, <1>8, <1>9, <1>10, <1>11, <2>1 DEF TablesTyped
<1>13. RowsOK
  <2> SUFFICES ASSUME NEW r \in DOMAIN rows
               PROVE  /\ stripe[rows[r].sub].status # "none"
                      /\ plan[Owner(rows[r].sub)] = "deleted" <=> rows[r].status = "erased"
    BY DEF RowsOK
  <2>1. rows[r].sub \in Sub /\ buyer[rows[r].sub] # Nobody /\ rows[r].status = "active"
    BY <1>2, <1>10
  <2>2. stripe[rows[r].sub].status # "none"
    BY <1>1, <1>7, <2>1
  <2> QED BY <1>7, <1>11, <1>12, <2>1, <2>2, BuyerTyped
<1>14. EventsOK
  BY <1>6 DEF EventsOK
<1>15. TasksOK
  BY <1>6, IdleOK DEF TasksOK
<1> QED BY <1>12, <1>13, <1>14, <1>15 DEF SubInv

LEMMA StutterInv == SubInv /\ UNCHANGED vars => SubInv'
<1> SUFFICES ASSUME SubInv, UNCHANGED vars PROVE SubInv'
  OBVIOUS
<1>1. OnlyPlans
  BY UnchangedButTask DEF vars, stripeVars
<1> QED BY <1>1, PlansNoTask DEF vars

\* The steps of the workers.
LEMMA StepInv ==
    ASSUME SubInv, NEW w \in Worker, Step(w) \/ Fail(w)
    PROVE  SubInv'
<1>1. CASE WriteRow(w)
  BY <1>1, WriteRowInv
<1>2. CASE SetRows(w)
  BY <1>2, SetRowsInv
<1>3. CASE \/ WriteRow(w) \/ Grant(w) \/ FindRow(w) \/ Revoke(w) \/ MarkProcessed(w)
           \/ List(w) \/ StoreNext(w) \/ FindPaid(w) \/ Downgrade(w) \/ Suspend(w)
           \/ NotFound(w) \/ Fail(w)
  BY <1>1, <1>3, GrantInv, FindRowInv, RevokeInv, MarkProcessedInv, ListInv, StoreNextInv,
     FindPaidInv, DowngradeInv, SuspendInv, NotFoundInv, FailInv
<1> QED BY <1>2, <1>3 DEF Step, Webhook, Reconcile

LEMMA NextInv == SubInv /\ [Next]_vars => SubInv'
<1> SUFFICES ASSUME SubInv, [Next]_vars PROVE SubInv'
  OBVIOUS
<1>1. CASE Stripe
  <2>1. ASSUME NEW s \in Sub, NEW status \in Status, Move(s, status) PROVE SubInv'
    BY <2>1, MoveInv
  <2>2. ASSUME NEW s \in Sub, NEW status \in Status, NEW a \in Account, Buy(a, s, status)
        PROVE  SubInv'
    BY <2>2, BuyInv
  <2>3. ASSUME NEW s \in Sub, Report(s) PROVE SubInv'
    BY <2>3, ReportInv
  <2>4. ASSUME NEW e \in DOMAIN events, GiveUp(e) PROVE SubInv'
    BY <2>4, GiveUpInv
  <2> QED BY <1>1, <2>1, <2>2, <2>3, <2>4 DEF Stripe
<1>2. CASE Admin
  <2>1. ASSUME NEW a \in Account, NEW p \in Plans \ {"deleted"}, ChangePlan(a, p) PROVE SubInv'
    BY <2>1, ChangePlanInv
  <2>2. ASSUME NEW a \in Account, NEW w \in Desk, CancelActive(w, a) PROVE SubInv'
    BY <2>2, CancelActiveInv DEF Worker
  <2>3. ASSUME NEW a \in Account, DeleteAccount(a) PROVE SubInv'
    BY <2>3, DeleteAccountInv
  <2> QED BY <1>2, <2>1, <2>2, <2>3 DEF Admin
<1>3. ASSUME NEW e \in DOMAIN events, Answer(e) PROVE SubInv'
  BY <1>3, AnswerInv
<1>4. ASSUME NEW e \in DOMAIN events, NEW w \in Hook, Receive(w, e) PROVE SubInv'
  BY <1>4, ReceiveInv DEF Worker
<1>5. ASSUME NEW w \in Desk \cup {Cron}, BeginReconcile(w) PROVE SubInv'
  BY <1>5, BeginReconcileInv DEF Worker
<1>6. ASSUME NEW w \in Worker, Step(w) \/ Fail(w) PROVE SubInv'
  BY <1>6, StepInv
<1>7. CASE UNCHANGED vars
  BY <1>7, StutterInv
<1> QED BY <1>1, <1>2, <1>3, <1>4, <1>5, <1>6, <1>7 DEF Next

LEMMA InvHolds == Spec => []SubInv
BY InitInv, NextInv, PTL DEF Spec
-----------------------------------------------------------------------------
(* Types, and what Stripe may count on *)

LEMMA InvTypes == SubInv => TypeOK
<1> SUFFICES ASSUME SubInv PROVE TypeOK
  OBVIOUS
<1>1. TablesTyped /\ RowsOK /\ TasksOK
  BY DEF SubInv
<1>2. stripe \in [Sub -> [owner: Account \cup {Nobody}, status: Status]]
  <2>1. \A s \in Sub : stripe[s] \in [owner: Account \cup {Nobody}, status: Status]
    <3> SUFFICES ASSUME NEW s \in Sub
                 PROVE  stripe[s] \in [owner: Account \cup {Nobody}, status: Status]
      OBVIOUS
    <3>1. PICK x : x = stripe[s]
      OBVIOUS
    <3>2. x \in [owner: Account \cup {Nobody}, status: StripeStatus \cup {"none"}]
      BY <1>1, <3>1 DEF TablesTyped
    <3>3. x.status \in Status
      BY <1>1, <3>1 DEF TablesTyped
    <3>4. x \in [owner: Account \cup {Nobody}, status: Status]
      BY <3>2, <3>3
    <3> QED BY <3>1, <3>4
  <2> QED BY <1>1, <2>1 DEF TablesTyped
<1>3. \A r \in DOMAIN rows :
         /\ rows[r].sub \in Sub /\ stripe[rows[r].sub].status # "none"
         /\ plan[stripe[rows[r].sub].owner] = "deleted" <=> rows[r].status = "erased"
  BY <1>1, RowTyped DEF RowsOK, Owner
<1>4. \A w \in Worker : task[w].op \in {"none", "webhook", "reconcile", "suspend"}
  <2> SUFFICES ASSUME NEW w \in Worker
               PROVE  task[w].op \in {"none", "webhook", "reconcile", "suspend"}
    OBVIOUS
  <2>1. PICK t : t = task[w]
    OBVIOUS
  <2>2. TaskOK(t)
    BY <1>1, <2>1 DEF TasksOK
  <2>3. Idle.op = "none" /\ (t \in SuspendTask => t.op = "suspend")
    BY DEF Idle, SuspendTask
  <2> QED BY <2>1, <2>2, <2>3, WebTyped, RecTyped, DownTyped DEF TaskOK
<1> QED BY <1>1, <1>2, <1>3, <1>4 DEF TypeOK, TablesTyped

\* Each step of Stripe and of the workers sends, applies, acknowledges or gives up one
\* event, or leaves the marks of the events alone.
LEMMA Announces ==
    ASSUME SubInv, NEW e, Announce(e), UNCHANGED <<processed, acked, givenUp>>
    PROVE  Delivered!Next
<1>1. PICK n \in Nat : n = Len(events) /\ DOMAIN events = 1..n
  BY LengthsTyped DEF SubInv
<1>2. DOMAIN events' = 1..(n + 1)
  <2>1. events \in Seq(Event_)
    BY DEF SubInv, TablesTyped
  <2>2. PICK R : R = Event_ \cup {e}
    OBVIOUS
  <2>3. events \in Seq(R) /\ e \in R
    BY <2>1, <2>2
  <2> QED BY <1>1, <2>3 DEF Announce
<1>3. n + 1 \in 1..MaxEvents
  BY <1>1, BoundAssumption DEF Announce
<1>4. PICK items \in SUBSET (1..MaxEvents) : items = {n + 1}
  BY <1>3
<1>5. /\ items # {} /\ items \cap DOMAIN events = {}
      /\ DOMAIN events' = DOMAIN events \cup items
  BY <1>1, <1>2, <1>4
<1> QED BY <1>5 DEF Delivered!Next, Delivered!Send

LEMMA StillDelivered ==
    ASSUME UNCHANGED <<stripeVars, processed>>
    PROVE  UNCHANGED Delivered!vars
BY DEF stripeVars, Delivered!vars

LEMMA NextDelivers == SubInv /\ [Next]_vars => [Delivered!Next]_(Delivered!vars)
<1> SUFFICES ASSUME SubInv, [Next]_vars PROVE Delivered!Next \/ UNCHANGED Delivered!vars
  OBVIOUS
<1>0. \A e \in DOMAIN events : e \in 1..MaxEvents
  <2>1. PICK n \in Nat : n = Len(events) /\ DOMAIN events = 1..n /\ n <= MaxEvents
    BY LengthsTyped DEF SubInv, TablesTyped
  <2> QED BY <2>1, BoundAssumption
<1>1. CASE Stripe
  <2>1. ASSUME NEW s \in Sub, NEW status \in Status, Move(s, status) PROVE Delivered!Next
    BY <2>1, Announces DEF Move
  <2>2. ASSUME NEW s \in Sub, NEW status \in Status, NEW a \in Account, Buy(a, s, status)
        PROVE  Delivered!Next
    BY <2>2, Announces DEF Buy
  <2>3. ASSUME NEW s \in Sub, Report(s) PROVE Delivered!Next
    BY <2>3, Announces DEF Report
  <2>4. ASSUME NEW e \in DOMAIN events, GiveUp(e) PROVE Delivered!Next
    BY <1>0, <2>4 DEF GiveUp, Outstanding, Delivered!Next, Delivered!Handle, Delivered!GiveUp
  <2> QED BY <1>1, <2>1, <2>2, <2>3, <2>4 DEF Stripe
<1>2. CASE Admin
  <2>1. UNCHANGED <<stripeVars, processed>>
    BY <1>2 DEF Admin, ChangePlan, CancelActive, DeleteAccount
  <2> QED BY <2>1, StillDelivered
<1>3. ASSUME NEW e \in DOMAIN events, Answer(e) PROVE Delivered!Next
  BY <1>0, <1>3 DEF Answer, Outstanding, Known, Delivered!Next, Delivered!Handle, Delivered!Acknowledge
<1>4. ASSUME NEW e \in DOMAIN events, NEW w \in Hook, Receive(w, e) PROVE UNCHANGED Delivered!vars
  BY <1>4, StillDelivered DEF Receive
<1>5. ASSUME NEW w \in Desk \cup {Cron}, BeginReconcile(w) PROVE UNCHANGED Delivered!vars
  BY <1>5, StillDelivered DEF BeginReconcile
<1>6. ASSUME NEW w \in Worker, MarkProcessed(w) PROVE Delivered!Next \/ UNCHANGED Delivered!vars
  <2>1. task[w].event \in DOMAIN events
    <3>1. \/ task[w] \in WebhookTask /\ WebhookOK(task[w])
          \/ task[w] \in ReconcileTask
      BY <1>6, AtTask DEF MarkProcessed
    <3>2. task[w] \notin ReconcileTask
      BY <1>6, RecTyped DEF MarkProcessed
    <3> QED BY <3>1, <3>2 DEF WebhookOK
  <2>2. /\ processed' = processed \cup {task[w].event} /\ UNCHANGED stripeVars
    BY <1>6 DEF MarkProcessed
  <2>3. CASE task[w].event \in processed
    <3>1. processed' = processed
      BY <2>2, <2>3
    <3> QED BY <2>2, <3>1, StillDelivered
  <2>4. CASE task[w].event \notin processed
    BY <1>0, <2>1, <2>2, <2>4
       DEF stripeVars, Delivered!Next, Delivered!Handle, Delivered!Apply
  <2> QED BY <2>3, <2>4
<1>7. ASSUME NEW w \in Worker, Step(w) \/ Fail(w)
      PROVE  MarkProcessed(w) \/ UNCHANGED Delivered!vars
  <2>1. MarkProcessed(w) \/ UNCHANGED <<stripeVars, processed>>
    <3>1. CASE \/ WriteRow(w) \/ Grant(w) \/ FindRow(w) \/ Revoke(w) \/ List(w) \/ StoreNext(w)
               \/ FindPaid(w) \/ Downgrade(w) \/ Suspend(w) \/ NotFound(w) \/ Fail(w)
      BY <3>1 DEF WriteRow, Grant, FindRow, Revoke, List, StoreNext, FindPaid, Downgrade,
                  Suspend, NotFound, Fail
    <3>2. CASE SetRows(w)
      BY <3>2 DEF SetRows
    <3> QED BY <1>7, <3>1, <3>2 DEF Step, Webhook, Reconcile
  <2> QED BY <2>1, StillDelivered
<1>8. CASE UNCHANGED vars
  BY <1>8, StillDelivered DEF vars, stripeVars
<1> QED BY <1>1, <1>2, <1>3, <1>4, <1>5, <1>6, <1>7, <1>8 DEF Next

\* What Stripe may count on, whatever fails or runs at once: every variable keeps its
\* type, and an event is acknowledged only once its handler has run to the end.  That every
\* event is acknowledged or given up in the end is the part of NoEventIsLost left to TLC.
THEOREM NoEventIsLostUnhandled ==
    Spec => []TypeOK /\ Delivered!Init /\ [][Delivered!Next]_(Delivered!vars)
<1>1. Init => Delivered!Init
  BY DEF Init, Delivered!Init
<1> QED BY <1>1, InvTypes, NextDelivers, InvHolds, PTL DEF Spec
-----------------------------------------------------------------------------
(* Rows that are written *)

Writes(w) == WriteRow(w) \/ SetRows(w)

LEMMA RowsUnchanged ==
    ASSUME SubInv, UNCHANGED rows
    PROVE  RowsGo /\ DOMAIN rows' = DOMAIN rows
BY LengthsTyped DEF RowsGo, SubInv

\* Any other step adds no row and makes none say that a subscription is live.
LEMMA NextWrites ==
    ASSUME SubInv, [Next]_vars
    PROVE  \/ \E w \in Worker : Writes(w)
           \/ /\ RowsGo /\ DOMAIN rows' = DOMAIN rows
              /\ \A r \in DOMAIN rows : rows'[r] = rows[r] \/ rows'[r].status \notin Live
<1> DEFINE Keeps == /\ RowsGo /\ DOMAIN rows' = DOMAIN rows
                    /\ \A r \in DOMAIN rows : rows'[r] = rows[r] \/ rows'[r].status \notin Live
<1>a. UNCHANGED rows => Keeps
  BY RowsUnchanged
<1>1. CASE Stripe
  BY <1>1, <1>a DEF Stripe, Move, Buy, Report, GiveUp
<1>2. CASE Admin
  <2>1. ASSUME NEW a \in Account, NEW p \in Plans \ {"deleted"}, ChangePlan(a, p) PROVE Keeps
    BY <2>1, <1>a DEF ChangePlan
  <2>2. ASSUME NEW a \in Account, NEW w \in Desk, CancelActive(w, a) PROVE Keeps
    BY <2>2, CancelActiveInv DEF Worker
  <2>3. ASSUME NEW a \in Account, DeleteAccount(a) PROVE Keeps
    BY <2>3, DeleteAccountInv
  <2> QED BY <1>2, <2>1, <2>2, <2>3 DEF Admin
<1>3. ASSUME NEW e \in DOMAIN events, Answer(e) PROVE Keeps
  BY <1>3, <1>a DEF Answer
<1>4. ASSUME NEW e \in DOMAIN events, NEW w \in Hook, Receive(w, e) PROVE Keeps
  BY <1>4, <1>a DEF Receive
<1>5. ASSUME NEW w \in Desk \cup {Cron}, BeginReconcile(w) PROVE Keeps
  BY <1>5, <1>a DEF BeginReconcile
<1>6. ASSUME NEW w \in Worker, Step(w) \/ Fail(w) PROVE Writes(w) \/ Keeps
  BY <1>6, <1>a DEF Step, Webhook, Reconcile, Writes, Grant, FindRow, Revoke, MarkProcessed,
                    List, StoreNext, FindPaid, Downgrade, Suspend, NotFound, Fail
<1>7. CASE UNCHANGED vars
  BY <1>7, <1>a DEF vars
<1> QED BY <1>1, <1>2, <1>3, <1>4, <1>5, <1>6, <1>7 DEF Next

LEMMA FiniteRows ==
    ASSUME TablesTyped, NEW s
    PROVE  IsFiniteSet(RowsOf(s))
<1>1. PICK n \in Nat : DOMAIN rows = 1..n
  BY LengthsTyped
<1>2. IsFiniteSet(1..n)
  BY <1>1, FS_Interval
<1>3. RowsOf(s) \in SUBSET (1..n)
  BY <1>1 DEF RowsOf
<1> QED BY <1>2, <1>3, FS_Subset

LEMMA RowsFewer ==
    ASSUME TablesTyped, RowsGo, DOMAIN rows' = DOMAIN rows, NEW s
    PROVE  ~(Cardinality(RowsOf(s)') > Cardinality(RowsOf(s)))
<1>1. IsFiniteSet(RowsOf(s))
  BY FiniteRows
<1>2. RowsOf(s)' \in SUBSET RowsOf(s)
  BY DEF RowsOf, RowsGo
<1>3. PICK S, T : S = RowsOf(s) /\ T = RowsOf(s)'
  OBVIOUS
<1>4. IsFiniteSet(S) /\ T \in SUBSET S
  BY <1>1, <1>2, <1>3
<1>5. IsFiniteSet(T) /\ Cardinality(T) <= Cardinality(S)
  BY <1>4, FS_Subset
<1>6. Cardinality(T) \in Nat /\ Cardinality(S) \in Nat
  BY <1>4, <1>5, FS_CardinalityType
<1> QED BY <1>3, <1>5, <1>6

\* A subscription comes to have two rows only when two workers that looked for its row at
\* once both store one: all the rows that it has are younger than the second one's search.
THEOREM OnlyRaces == Spec => OnlyRacesDuplicate
<1> DEFINE Races == \A s \in Sub :
              RowsOf(s) # {} /\ Cardinality(RowsOf(s)') > Cardinality(RowsOf(s))
                  => \E w \in Worker : StoresLate(w)
<1>1. SubInv /\ [Next]_vars => Races
  <2> SUFFICES ASSUME SubInv, [Next]_vars, NEW s \in Sub,
                      Cardinality(RowsOf(s)') > Cardinality(RowsOf(s))
               PROVE  \E w \in Worker : StoresLate(w)
    OBVIOUS
  <2>1. ~(RowsGo /\ DOMAIN rows' = DOMAIN rows)
    BY RowsFewer DEF SubInv
  <2>2. PICK w \in Worker : Writes(w)
    BY <2>1, NextWrites
  <2>3. WriteRow(w)
    BY <2>1, <2>2, SetRowsInv DEF Writes
  <2>4. task[w].row = 0
    BY <2>1, <2>3, WriteRowInv
  <2>5. At(w, "write")
    BY <2>3 DEF WriteRow
  <2>6. Searched(task[w])
    BY <2>5, WritesTyped
  <2>7. StoresLate(w)
    BY <2>3, <2>4, <2>5, <2>6 DEF StoresLate, Searched
  <2> QED BY <2>7
<1>2. Races => [Races]_vars
  OBVIOUS
<1>3. SubInv /\ [Next]_vars => [Races]_vars
  BY <1>1, <1>2
<1>4. Spec => [][Races]_vars
  BY <1>3, InvHolds, PTL DEF Spec
<1> QED BY <1>4 DEF OnlyRacesDuplicate

\* A row comes to say that a subscription is live when it is not only by an event or a list
\* that the subscription has moved on from.
THEOREM OnlyStaleNews == Spec => OnlyStaleNewsRevives
<1> DEFINE Revived(r) ==
       /\ rows'[r].status \in Live
       /\ stripe[rows'[r].sub].status \notin Live
       /\ r \in DOMAIN rows => rows[r].status \notin Live
    Blamed(r) ==
       \E w \in Worker : /\ WriteRow(w) \/ SetRows(w)
                         /\ Stale(w) /\ task[w].sub = rows'[r].sub
    Honest == \A r \in DOMAIN rows' : Revived(r) => Blamed(r)
<1>1. SubInv /\ [Next]_vars => Honest
  <2> SUFFICES ASSUME SubInv, [Next]_vars, NEW r \in DOMAIN rows', Revived(r) PROVE Blamed(r)
    OBVIOUS
  <2>1. PICK w \in Worker : Writes(w)
    BY NextWrites
  <2>2. CASE WriteRow(w)
    <3>1. rows'[r].sub = task[w].sub /\ rows'[r].status = Mapped(task[w].status)
      BY <2>2, WriteRowInv
    <3>2. task[w].status \in StripeStatus
      BY <2>2, WritesTyped DEF WriteRow
    <3>3. task[w].status \in Live
      BY <3>1, <3>2, MappedTyped
    <3> QED BY <2>2, <3>1, <3>3 DEF Stale
  <2>3. CASE SetRows(w)
    <3>1. r \in DOMAIN rows /\ rows'[r] # rows[r]
      BY <2>3, SetRowsInv
    <3>2. rows'[r].sub = task[w].sub /\ task[w].status \in Live
      BY <2>3, <3>1, SetRowsInv
    <3> QED BY <2>3, <3>2 DEF Stale
  <2> QED BY <2>1, <2>2, <2>3 DEF Writes
<1>2. SubInv /\ [Next]_vars => [Honest]_vars
  BY <1>1
<1>3. Spec => [][Honest]_vars
  BY <1>2, InvHolds, PTL DEF Spec
<1> QED BY <1>3 DEF OnlyStaleNewsRevives
-----------------------------------------------------------------------------
(* Plans that are given and taken *)

LEMMA PlanMoves ==
    ASSUME TablesTyped, NEW a \in Account, NEW b, NEW p, SetPlan(b, p), plan'[a] # plan[a]
    PROVE  a = b /\ plan'[a] = p
BY DEF TablesTyped, SetPlan

\* The steps that change a plan, and what they change.
LEMMA NextPlans ==
    ASSUME SubInv, [Next]_vars, NEW a \in Account, plan'[a] # plan[a]
    PROVE  \/ \E p \in Plans : ChangePlan(a, p) /\ plan'[a] = p
           \/ DeleteAccount(a) /\ plan'[a] = "deleted"
           \/ \E w \in Worker :
                 \/ Grant(w) /\ a = Owner(task[w].sub) /\ plan'[a] = "paid"
                 \/ Revoke(w) /\ a = Owner(task[w].sub) /\ plan'[a] = "free"
                 \/ Suspend(w) /\ plan'[a] = "free"
                 \/ Downgrade(w) /\ a \in task[w].todo /\ plan'[a] = "free"
<1>0. TablesTyped /\ ~UNCHANGED plan
  BY DEF SubInv
<1>1. CASE Stripe
  BY <1>0, <1>1 DEF Stripe, Move, Buy, Report, GiveUp
<1>2. CASE Admin
  <2>1. ASSUME NEW b \in Account, NEW p \in Plans, ChangePlan(b, p)
        PROVE  a = b /\ plan'[a] = p
    BY <1>0, <2>1, PlanMoves DEF ChangePlan
  <2>2. ASSUME NEW b \in Account, NEW w \in Desk, CancelActive(w, b) PROVE FALSE
    BY <1>0, <2>2 DEF CancelActive
  <2>3. ASSUME NEW b \in Account, DeleteAccount(b) PROVE a = b /\ plan'[a] = "deleted"
    BY <1>0, <2>3, PlanMoves DEF DeleteAccount
  <2> QED BY <1>2, <2>1, <2>2, <2>3 DEF Admin
<1>3. ASSUME NEW e \in DOMAIN events, Answer(e) PROVE FALSE
  BY <1>0, <1>3 DEF Answer
<1>4. ASSUME NEW e \in DOMAIN events, NEW w \in Hook, Receive(w, e) PROVE FALSE
  BY <1>0, <1>4 DEF Receive
<1>5. ASSUME NEW w \in Desk \cup {Cron}, BeginReconcile(w) PROVE FALSE
  BY <1>0, <1>5 DEF BeginReconcile
<1>6. ASSUME NEW w \in Worker, Step(w) \/ Fail(w)
      PROVE  \/ Grant(w) /\ a = Owner(task[w].sub) /\ plan'[a] = "paid"
             \/ Revoke(w) /\ a = Owner(task[w].sub) /\ plan'[a] = "free"
             \/ Suspend(w) /\ plan'[a] = "free"
             \/ Downgrade(w) /\ a \in task[w].todo /\ plan'[a] = "free"
  <2>1. CASE Grant(w)
    BY <1>0, <2>1, PlanMoves DEF Grant
  <2>2. CASE Revoke(w)
    BY <1>0, <2>2, PlanMoves DEF Revoke
  <2>3. CASE Suspend(w)
    BY <1>0, <2>3, PlanMoves DEF Suspend
  <2>4. CASE Downgrade(w)
    BY <1>0, <2>4, PlanMoves DEF Downgrade
  <2>5. CASE \/ WriteRow(w) \/ FindRow(w) \/ SetRows(w) \/ MarkProcessed(w) \/ List(w)
             \/ StoreNext(w) \/ FindPaid(w) \/ NotFound(w) \/ Fail(w)
    BY <1>0, <2>5 DEF WriteRow, FindRow, SetRows, MarkProcessed, List, StoreNext, FindPaid,
                      NotFound, Fail
  <2> QED BY <1>6, <2>1, <2>2, <2>3, <2>4, <2>5 DEF Step, Webhook, Reconcile
<1>7. CASE UNCHANGED vars
  BY <1>0, <1>7 DEF vars
<1> QED BY <1>1, <1>2, <1>3, <1>4, <1>5, <1>6, <1>7 DEF Next

\* An account that Stripe collects nothing from gets a plan only by hand, by an event or a
\* list that the subscription has moved on from, or by an event that brings the first row of
\* a subscription that is not live.
THEOREM OnlyTheseGive == Spec => OnlyTheseGiveAway
<1> DEFINE Given(a) ==
       \/ ChangePlan(a, "paid")
       \/ \E w \in Worker :
             /\ Grant(w)
             /\ IF task[w].op = "reconcile" THEN a \in task[w].moved
                ELSE Stale(w) \/ (At(w, "grantNew") /\ task[w].status \notin Live)
    Fair == \A a \in Account :
               plan[a] = "free" /\ plan'[a] = "paid" /\ ~Pays(a) => Given(a)
<1>1. SubInv /\ [Next]_vars => Fair
  <2> SUFFICES ASSUME SubInv, [Next]_vars, NEW a \in Account,
                      plan[a] = "free", plan'[a] = "paid", ~Pays(a)
               PROVE  Given(a)
    OBVIOUS
  <2>1. \/ ChangePlan(a, "paid")
        \/ \E w \in Worker : Grant(w) /\ a = Owner(task[w].sub)
    BY NextPlans
  <2>2. ASSUME NEW w \in Worker, Grant(w), a = Owner(task[w].sub)
        PROVE  IF task[w].op = "reconcile" THEN a \in task[w].moved
               ELSE Stale(w) \/ (At(w, "grantNew") /\ task[w].status \notin Live)
    <3>1. PICK t : t = task[w]
      OBVIOUS
    <3>2. \/ t \in WebhookTask /\ WebhookOK(t)
          \/ t \in ReconcileTask /\ ReconcileOK(t) /\ t.at = "grant"
      BY <2>2, <3>1, AtTask DEF Grant
    <3>3. \A s \in Sub : Owner(s) = a => stripe[s].status \notin Live
      BY DEF Pays, OwnedBy, Owner
    <3>4. CASE t \in WebhookTask /\ WebhookOK(t)
      <4>1. t.op = "webhook" /\ t.sub \in Sub
        BY <3>4, WebTyped
      <4>2. At(w, "grantNew") \/ t.at = "grant"
        BY <2>2, <3>1 DEF Grant, At
      <4>3. t.at = "grant" => t.status \in Live
        BY <3>4 DEF WebhookOK, Handles
      <4>4. t.status \in Live => Stale(w)
        BY <2>2, <3>1, <3>3, <4>1 DEF Stale
      <4> QED BY <3>1, <4>1, <4>2, <4>3, <4>4
    <3>5. CASE t \in ReconcileTask /\ ReconcileOK(t) /\ t.at = "grant"
      <4>1. PICK l : l = [sub |-> t.sub, status |-> t.status]
        OBVIOUS
      <4>2. l \in t.listed /\ t.listed \subseteq Listing /\ t.status \in Live
        BY <3>5, <4>1, RecTyped DEF ReconcileOK, Handles
      <4>3. l.sub = t.sub /\ l.status = t.status /\ l.sub \in Sub
        BY <4>1, <4>2 DEF Listing
      <4>4. stripe[l.sub].status = l.status \/ Owner(l.sub) \in t.moved
        BY <3>5, <4>2 DEF ReconcileOK
      <4>5. a \in t.moved
        BY <2>2, <3>1, <3>3, <4>2, <4>3, <4>4
      <4>6. t.op = "reconcile"
        BY <3>5, RecTyped
      <4> QED BY <3>1, <4>5, <4>6
    <3> QED BY <3>2, <3>4, <3>5
  <2> QED BY <2>1, <2>2
<1>2. SubInv /\ [Next]_vars => [Fair]_vars
  BY <1>1
<1>3. Spec => [][Fair]_vars
  BY <1>2, InvHolds, PTL DEF Spec
<1> QED BY <1>3 DEF OnlyTheseGiveAway

\* An account that pays, or is in dunning, loses its plan only by hand, by the end of
\* another of its subscriptions, or by a reconcile that lists while one moves.
THEOREM OnlyTheseTake == Spec => OnlyTheseTakeAway
<1> DEFINE Taken(a) ==
       \/ ChangePlan(a, "free")
       \/ \E w \in Worker :
             \/ Suspend(w)
             \/ Revoke(w) /\ stripe[task[w].sub].status \in Ended
             \/ Downgrade(w) /\ a \in task[w].moved
    Fair == \A a \in Account :
               plan[a] = "paid" /\ plan'[a] = "free" /\ (Pays(a) \/ InDunning(a)) => Taken(a)
<1>1. SubInv /\ [Next]_vars => Fair
  <2> SUFFICES ASSUME SubInv, [Next]_vars, NEW a \in Account,
                      plan[a] = "paid", plan'[a] = "free", Pays(a) \/ InDunning(a)
               PROVE  Taken(a)
    OBVIOUS
  <2>1. \/ ChangePlan(a, "free")
        \/ \E w \in Worker : \/ Suspend(w) \/ Revoke(w)
                             \/ Downgrade(w) /\ a \in task[w].todo
    BY NextPlans
  <2>2. ASSUME NEW w \in Worker, Revoke(w) PROVE stripe[task[w].sub].status \in Ended
    <3>1. task[w] \in WebhookTask /\ WebhookOK(task[w]) /\ task[w].at = "revoke"
      BY <2>2, AtTask DEF Revoke
    <3> QED BY <3>1 DEF WebhookOK, SubInv, EventsOK, Ended
  <2>3. ASSUME NEW w \in Worker, Downgrade(w), a \in task[w].todo PROVE a \in task[w].moved
    <3>1. DowngradeOK(task[w])
      BY <2>3, AtTask DEF Downgrade
    <3> QED BY <2>3, <3>1 DEF DowngradeOK
  <2> QED BY <2>1, <2>2, <2>3
<1>2. SubInv /\ [Next]_vars => [Fair]_vars
  BY <1>1
<1>3. Spec => [][Fair]_vars
  BY <1>2, InvHolds, PTL DEF Spec
<1> QED BY <1>3 DEF OnlyTheseTakeAway
=============================================================================
