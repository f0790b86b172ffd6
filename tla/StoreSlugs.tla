----------------------------- MODULE StoreSlugs -----------------------------
(***************************************************************************)
(* The slug under which the public catalog finds a store.  A registration  *)
(* assigns one that it makes from the name of the seller, the settings     *)
(* suggest one, and the owner may choose another; all of them look whether *)
(* a slug is taken and write later, and only the column of the database    *)
(* keeps slugs apart.  A slug is a pair of what the name amounts to and    *)
(* the number behind it: <<"ana", 1>> is ana, and <<"ana", 2>> is ana-2.   *)
(***************************************************************************)
EXTENDS Integers

CONSTANTS
    Request,        \* requests that run at once
    Account,
    Base,           \* what the names of sellers and stores amount to
    RESERVED_SLUGS, \* those of Base that are names of pages
    LastSuffix      \* the last number that is tried: 100 in the code

VARIABLES
    slugs,  \* store_slug of each account, or None
    state,  \* has the account registered, and has it been erased?
    task    \* what each request is in the middle of

vars == <<slugs, state, task>>

None == <<"none", 0>>
Slug == Base \X (1..LastSuffix)
Idle == [op |-> "none"]

TypeOK ==
    /\ slugs \in [Account -> Slug \cup {None}]
    /\ state \in [Account -> {"unknown", "registered", "erased"}]
    /\ \A r \in Request :
          task[r].op \in {"none", "assign", "suggest", "choose"} /\
          (task[r] # Idle => task[r].slug \in Slug)
-----------------------------------------------------------------------------
Does(r, t) == task' = [task EXCEPT ![r] = t]

Reserved(slug) == slug[2] = 1 /\ slug[1] \in RESERVED_SLUGS

\* findSlugConflict
IsTaken(slug, a) == \E b \in Account \ {a} : slugs[b] = slug

\* existsByStoreSlug
Exists(slug) == \E b \in Account : slugs[b] = slug

\* Mutant: only the list of reserved slugs is asked.
OnlyReserved(op, slug, a) == Reserved(slug)

\* A registration asks for the accounts that have the slug, the others for other accounts.
Unavailable(op, slug, a) ==
    Reserved(slug) \/ IF op = "assign" THEN Exists(slug) ELSE IsTaken(slug, a)

\* generateUniqueSlug begins with the bare name.  For the properties: `raced` says
\* whether another account has taken the slug since it was looked up.
Generates(r, op, a, base) ==
    /\ task[r] = Idle
    /\ Does(r, [op |-> op, account |-> a, slug |-> <<base, 1>>, ready |-> FALSE, raced |-> FALSE])

\* An account is stored, and has no slug yet.
Register(r, a, base) ==
    /\ state[a] = "unknown"
    /\ state' = [state EXCEPT ![a] = "registered"]
    /\ Generates(r, "assign", a, base)
    /\ UNCHANGED slugs

\* getSettings, getPreviewLink
Suggest(r, a, base) ==
    /\ state[a] # "unknown"
    /\ Generates(r, "suggest", a, base)
    /\ UNCHANGED <<slugs, state>>

\* One turn of the loop: the next number is tried, and the last one is not looked up.
Try(r) ==
    LET t == task[r]
        next == <<t.slug[1], t.slug[2] + 1>>
    IN  /\ t.op \in {"assign", "suggest"} /\ ~t.ready
        /\ IF Unavailable(t.op, t.slug, t.account)
           THEN Does(r, [t EXCEPT !.slug = next, !.ready = next[2] = LastSuffix])
           ELSE Does(r, [t EXCEPT !.ready = TRUE])
        /\ UNCHANGED <<slugs, state>>

\* The others may have their eyes on a slug that is taken now.
Races(r, slug) ==
    task' = [q \in Request |->
                IF q = r THEN Idle
                ELSE IF task[q] # Idle /\ task[q].slug = slug /\ task[q].ready
                     THEN [task[q] EXCEPT !.raced = TRUE]
                ELSE task[q]]

\* The column is unique.
Write(r) ==
    LET t == task[r]
    IN  /\ ~IsTaken(t.slug, t.account)
        /\ slugs' = [slugs EXCEPT ![t.account] = t.slug]
        /\ Races(r, t.slug)
        /\ UNCHANGED state

\* The database refuses: a registration logs this and goes on without a slug, an edit
\* is answered with an error.
Refused(r) ==
    /\ IsTaken(task[r].slug, task[r].account)
    /\ Does(r, Idle)
    /\ UNCHANGED <<slugs, state>>

\* updateStoreSlug
Assign(r) == task[r].op = "assign" /\ task[r].ready /\ (Write(r) \/ Refused(r))

\* The suggestion is shown.
Show(r) ==
    /\ task[r].op = "suggest" /\ task[r].ready
    /\ Does(r, Idle)
    /\ UNCHANGED <<slugs, state>>

\* updateSettings looks whether the slug may be had ...
Choose(r, a, slug) ==
    /\ task[r] = Idle
    /\ state[a] # "unknown"
    /\ ~Unavailable("choose", slug, a)
    /\ Does(r, [op |-> "choose", account |-> a, slug |-> slug, ready |-> TRUE, raced |-> FALSE])
    /\ UNCHANGED <<slugs, state>>

\* ... and writes it.
UpdateSettings(r) == task[r].op = "choose" /\ (Write(r) \/ Refused(r))

\* anonymize gives the slug up; who is still logged in may choose another.
Anonymize(a) ==
    /\ state[a] = "registered"
    /\ state' = [state EXCEPT ![a] = "erased"]
    /\ slugs' = [slugs EXCEPT ![a] = None]
    /\ UNCHANGED task

\* The request fails before it writes.
Fail(r) ==
    /\ task[r] # Idle
    /\ Does(r, Idle)
    /\ UNCHANGED <<slugs, state>>
-----------------------------------------------------------------------------
Init ==
    /\ slugs = [a \in Account |-> None]
    /\ state = [a \in Account |-> "unknown"]
    /\ task = [r \in Request |-> Idle]

Next ==
    \/ \E r \in Request :
          \/ \E a \in Account :
                \/ \E base \in Base : Register(r, a, base) \/ Suggest(r, a, base)
                \/ \E slug \in Slug : Choose(r, a, slug)
          \/ Try(r) \/ Assign(r) \/ Show(r) \/ UpdateSettings(r) \/ Fail(r)
    \/ \E a \in Account : Anonymize(a)

Spec == Init /\ [][Next]_vars
-----------------------------------------------------------------------------
(* Properties *)

\* The slug that a request ended its search with is free of others.
Free(r) == ~IsTaken(task[r].slug, task[r].account)

\* No request looked the last number up.
Unsought(r) == task[r].op # "choose" /\ task[r].slug[2] = LastSuffix

\* A store that is open to the catalog has an address of its own, which is not one of
\* a page: of reserved names none comes into use, whatever is assigned and chosen.
Addresses ==
    \A a, b \in Account :
        slugs[a] # None => ~Reserved(slugs[a]) /\ (slugs[a] = slugs[b] => a = b)

\* A registration is left without a slug, an edit fails at the database, and a slug is
\* suggested that is not to be had, only when another account took it since it was
\* looked up, or when the numbers ran out.
OnlyRacesMisaddress ==
    [][/\ Addresses'
       /\ \A r \in Request :
             Assign(r) \/ UpdateSettings(r) \/ Show(r) =>
                 Free(r) \/ task[r].raced \/ Unsought(r)]_vars
=============================================================================
