---------------------------- MODULE SellerLogin ----------------------------
(***************************************************************************)
(* The account of a seller: how it is entered, by password or by way of a  *)
(* provider; the links that reset its password and verify its address; its *)
(* suspension and its erasure.  Requests read and write apart, and only a  *)
(* link's use and the erasure are transactions.  The second factor is in   *)
(* TwoFactor, tokens that are out already are in Sessions.                 *)
(***************************************************************************)
EXTENDS Integers, FiniteSets

CONSTANTS
    Request,    \* requests that run at once
    MaxLinks    \* bound: links made

VARIABLES
    account,    \* the row of the account
    links,      \* its rows of reset and verification tokens
    made,       \* links made so far
    task        \* what each request is in the middle of

vars == <<account, links, made, task>>

Provider == {"google", "facebook"}
LinkKind == {"reset", "verify"}

Link == [id : 1..MaxLinks, kind : LinkKind, by : {"owner", "admin"},
         used : BOOLEAN, late : BOOLEAN]

Idle == [op |-> "none"]

TypeOK ==
    /\ account \in [password : {"none", "set", "erased"}, verified : BOOLEAN, erased : BOOLEAN,
                    is_active : BOOLEAN, linked : SUBSET Provider]
    /\ links \subseteq Link
    /\ \A r \in Request : task[r].op \in {"none", "enter", "find", "link", "delete", "create", "use", "erase"}
    /\ made \in 0..MaxLinks
-----------------------------------------------------------------------------
Does(r, t) == task' = [task EXCEPT ![r] = t]

Begins(r, t) == task[r] = Idle /\ Does(r, t)

Fail(r) ==
    /\ task[r] # Idle
    /\ Does(r, Idle)
    /\ UNCHANGED <<account, links, made>>

\* The address of an erased account is gone, so that it cannot be found by it.
Found == ~account.erased

HasPassword == account.password = "set"

\* The password, and the second factor if there is one, are right.
Login(r) ==
    /\ Found /\ HasPassword /\ account.is_active
    /\ Begins(r, [op |-> "enter", erased |-> account.erased])
    /\ UNCHANGED <<account, links, made>>

\* findOrCreateOAuthAccount: an account that is linked is entered ...
LoginByProvider(r, p) ==
    /\ p \in account.linked => account.is_active
    /\ Begins(r, IF p \in account.linked THEN [op |-> "enter", erased |-> account.erased]
                 ELSE [op |-> "find", provider |-> p])
    /\ UNCHANGED <<account, links, made>>

\* ... or else, if it has the address, linked and entered; but Facebook does
\* not vouch for addresses.  An address that is not found makes another account.
FindByEmail(r) ==
    /\ task[r].op = "find"
    /\ Does(r, IF /\ Found /\ account.is_active
                  /\ task[r].provider = "facebook" => account.password = "none"
               THEN [op |-> "link", provider |-> task[r].provider, erased |-> account.erased] ELSE Idle)
    /\ UNCHANGED <<account, links, made>>

LinkProvider(r) ==
    /\ task[r].op = "link"
    /\ account' = [account EXCEPT !.linked = @ \cup {task[r].provider}]
    /\ Does(r, [op |-> "enter", erased |-> task[r].erased])
    /\ UNCHANGED <<links, made>>

\* The tokens are made.
Enter(r) ==
    /\ task[r].op = "enter"
    /\ Does(r, Idle)
    /\ UNCHANGED <<account, links, made>>
-----------------------------------------------------------------------------
(* Links *)

\* createResetToken, resendVerification: the links before are deleted ...
AskForLink(r, kind) ==
    /\ Found
    /\ kind = "verify" => ~account.verified
    /\ Begins(r, [op |-> "delete", kind |-> kind])
    /\ UNCHANGED <<account, links, made>>

LinksOf(kind) == {l \in links : l.kind = kind}

DeleteLinks(r) ==
    /\ task[r].op = "delete"
    /\ links' = links \ LinksOf(task[r].kind)
    /\ Does(r, [op |-> "create", kind |-> task[r].kind, last |-> made])
    /\ UNCHANGED <<account, made>>

NewLink(kind, by) ==
    [id |-> made + 1, kind |-> kind, by |-> by, used |-> FALSE, late |-> account.erased]

\* ... and then one is made.
CreateLink(r) ==
    /\ task[r].op = "create"
    /\ made < MaxLinks
    /\ links' = links \cup {NewLink(task[r].kind, "owner")}
    /\ made' = made + 1
    /\ Does(r, Idle)
    /\ UNCHANGED account

\* resetUserPassword makes one beside those there are.
CreateAdminLink ==
    /\ made < MaxLinks
    /\ links' = links \cup {NewLink("reset", "admin")}
    /\ made' = made + 1
    /\ UNCHANGED <<account, task>>

\* The row is looked for by the hash of the token.  An administrator's token is
\* stored as it is, and so it is never found.
Valid(l) == l.by = "owner" /\ ~l.used /\ (l.kind = "verify" => ~account.verified)

OpenLink(r, l) ==
    /\ l \in links /\ Valid(l)
    /\ Begins(r, [op |-> "use", link |-> l.id])
    /\ UNCHANGED <<account, links, made>>

\* Mutant: a row that is missing does not undo the transaction.
MayBeMissing(id) == TRUE

StillThere(id) == \E l \in links : l.id = id

\* A transaction: if the row has been deleted, nothing happens.
UseLink(r) ==
    /\ task[r].op = "use"
    /\ Does(r, Idle)
    /\ IF StillThere(task[r].link)
       THEN \E kind \in LinkKind :
               /\ \A l \in links : l.id = task[r].link => l.kind = kind
               /\ account' = IF kind = "reset" THEN [account EXCEPT !.password = "set"]
                             ELSE [account EXCEPT !.verified = TRUE]
               /\ links' = {IF l.id = task[r].link THEN [l EXCEPT !.used = TRUE] ELSE l : l \in links}
       ELSE UNCHANGED <<account, links>>
    /\ UNCHANGED made

\* An hour passes, or a day.
Lapse(l) ==
    /\ links' = links \ {l}
    /\ \A r \in Request : task[r].op = "use" => task[r].link # l.id
    /\ UNCHANGED <<account, made, task>>
-----------------------------------------------------------------------------
(* Suspension and erasure *)

SetActive(on) ==
    /\ account' = [account EXCEPT !.is_active = on]
    /\ UNCHANGED <<links, made, task>>

\* anonymizeAccount: for accounts with a password only; their media go first ...
BeginErasure(r) ==
    /\ HasPassword
    /\ Begins(r, [op |-> "erase"])
    /\ UNCHANGED <<account, links, made>>

\* ... and then the row is overwritten, but for the ids at providers.
Anonymize(r) ==
    /\ task[r].op = "erase"
    /\ account' = [account EXCEPT !.password = "erased", !.verified = FALSE, !.erased = TRUE]
    /\ links' = {}
    /\ Does(r, Idle)
    /\ UNCHANGED made
-----------------------------------------------------------------------------
\* An account begins with a password, or with a provider that vouches for it.
Init ==
    /\ account \in {[password |-> "set", verified |-> FALSE, erased |-> FALSE,
                     is_active |-> TRUE, linked |-> {}]}
         \cup {[password |-> "none", verified |-> TRUE, erased |-> FALSE,
                is_active |-> TRUE, linked |-> {p}] : p \in Provider}
    /\ links = {} /\ made = 0
    /\ task = [r \in Request |-> Idle]

Next ==
    \/ \E r \in Request :
          \/ Login(r) \/ FindByEmail(r) \/ LinkProvider(r) \/ Enter(r) \/ Fail(r)
          \/ \E p \in Provider : LoginByProvider(r, p)
          \/ \E kind \in LinkKind : AskForLink(r, kind)
          \/ DeleteLinks(r) \/ CreateLink(r) \/ UseLink(r)
          \/ \E l \in links : OpenLink(r, l)
          \/ BeginErasure(r) \/ Anonymize(r)
    \/ CreateAdminLink
    \/ \E l \in links : Lapse(l)
    \/ \E on \in BOOLEAN : SetActive(on)

Spec == Init /\ [][Next]_vars
-----------------------------------------------------------------------------
(* Properties *)

\* Only requests that overlap leave a link behind.  An erased account gets a
\* password again only by a link that was made after the erasure, for a request
\* that had found the account before; one that was opened before does nothing,
\* for the erasure deletes it.  A request leaves an older link good beside its
\* own only if that was made since the request deleted those there were.
OnlyOverlapsLeaveLinks ==
    [][/\ account.erased /\ account.password = "erased" /\ account'.password # "erased" =>
             \E r \in Request, l \in links : UseLink(r) /\ task[r].link = l.id /\ l.late
       /\ \A r \in Request :
             CreateLink(r) => \A l \in links : l.kind = task[r].kind /\ Valid(l) => l.id > task[r].last]_vars

\* data-deletion.controller.ts:51 tells the owner that an erased account can no
\* longer be accessed: no login that begins after the erasure succeeds.
ErasedStaysOut ==
    [][\A r \in Request : Enter(r) => ~task[r].erased]_vars
=============================================================================
