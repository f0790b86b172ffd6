--------------------------- MODULE AccountsProofs ---------------------------
(***************************************************************************)
(* Proofs about the components of MCAccounts, for any number of requests,  *)
(* any names, dates, percentages, limits and bounds.  Each component has   *)
(* its own inductive invariant; none needs what another one keeps.         *)
(***************************************************************************)
EXTENDS MCAccounts, SumsProofs, SequenceTheorems
-----------------------------------------------------------------------------
(* The login of sellers *)

Row == [password : {"none", "set", "erased"}, verified : BOOLEAN, erased : BOOLEAN,
        is_active : BOOLEAN, linked : SUBSET SL!Provider]

\* What a request has read, or done, of the account.
LoginTask ==
    {SL!Idle} \cup [op : {"enter"}, erased : BOOLEAN]
      \cup [op : {"find"}, provider : SL!Provider]
      \cup [op : {"link"}, provider : SL!Provider, erased : BOOLEAN]
      \cup [op : {"delete"}, kind : SL!LinkKind]
      \cup [op : {"create"}, kind : SL!LinkKind, last : Nat]
      \cup [op : {"use"}, link : Nat] \cup [op : {"erase"}]

\* Once t has deleted the links of its kind, those there are were made since.
Deleted(t) ==
    t.op = "create" => /\ t.last <= made
                       /\ \A l \in links : l.kind = t.kind => l.id > t.last

LoginTypes ==
    /\ account \in Row
    /\ made \in 0..MaxLinks
    /\ links \subseteq SL!Link
    /\ loginTask \in [Request -> LoginTask]

\* Whatever link an erased account has was made late: the erasure left none.
LoginInv ==
    /\ LoginTypes
    /\ \A l \in links : l.id <= made /\ (account.erased => l.late)
    /\ \A r \in Request : Deleted(loginTask[r])

\* The parts of a task, by what it does.
LEMMA LoginTaskTypes ==
  ASSUME LoginTypes, NEW r \in Request
  PROVE  LET t == loginTask[r]
         IN  /\ t.op = "find" => t.provider \in SL!Provider
             /\ t.op = "link" => t.provider \in SL!Provider /\ t.erased \in BOOLEAN
             /\ t.op = "delete" => t.kind \in SL!LinkKind
             /\ t.op = "create" => t.kind \in SL!LinkKind /\ t.last \in Nat
             /\ t.op = "use" => t.link \in Nat
             /\ t.op \in {"none", "enter", "find", "link", "delete", "create", "use", "erase"}
<1>1. PICK t \in LoginTask : t = loginTask[r]
  BY DEF LoginTypes
<1> QED BY <1>1 DEF LoginTask, SL!Idle

\* A step keeps the invariant when the links it leaves were there before, or are new.
LEMMA LoginStep ==
  ASSUME LoginInv, LoginTypes', made <= made',
         \A l \in links' : /\ l.id <= made' /\ (account'.erased => l.late)
                           /\ l.id > made \/ \E k \in links : k.id = l.id /\ k.kind = l.kind,
         \A r \in Request : loginTask'[r] = loginTask[r] \/ Deleted(loginTask[r])'
  PROVE  LoginInv'
<1>1. ASSUME NEW r \in Request
      PROVE  Deleted(loginTask[r])'
  <2>1. CASE loginTask'[r] = loginTask[r]
    <3>1. PICK t : t = loginTask[r] /\ Deleted(t)
      BY DEF LoginInv
    <3>2. t.op = "create" => t.last \in Nat
      BY <3>1, LoginTaskTypes DEF LoginInv
    <3>3. Deleted(t)'
      <4>1. SUFFICES ASSUME t.op = "create"
                     PROVE  t.last <= made' /\ \A l \in links' : l.kind = t.kind => l.id > t.last
        BY DEF Deleted
      <4>2. made \in Nat /\ made' \in Nat /\ links' \subseteq SL!Link
        BY LinksAssumption DEF LoginInv, LoginTypes
      <4>3. t.last <= made /\ \A l \in links : l.kind = t.kind => l.id > t.last
        BY <3>1, <4>1 DEF Deleted
      <4>4. \A l \in links' : l.id \in Int
        BY <4>2 DEF SL!Link
      <4> QED BY <3>2, <4>1, <4>2, <4>3, <4>4
    <3>4. loginTask'[r] = t
      BY <2>1, <3>1
    <3> QED BY <3>3, <3>4 DEF Deleted
  <2> QED BY <2>1
<1> QED BY <1>1 DEF LoginInv

\* A step that writes nothing but a task.
LEMMA LoginTaskStep ==
  ASSUME LoginInv, NEW r \in Request, NEW t \in LoginTask, SL!Does(r, t), t.op # "create",
         UNCHANGED <<links, made>>, account' \in Row, account'.erased = account.erased
  PROVE  LoginInv'
<1>1. /\ loginTask' \in [Request -> LoginTask] /\ loginTask'[r] = t
      /\ \A q \in Request \ {r} : loginTask'[q] = loginTask[q]
  BY DEF SL!Does, LoginInv, LoginTypes
<1>2. LoginTypes' /\ made <= made'
  BY <1>1 DEF LoginInv, LoginTypes
<1>3. Deleted(loginTask[r])'
  BY <1>1 DEF Deleted
<1>4. \A q \in Request : loginTask'[q] = loginTask[q] \/ Deleted(loginTask[q])'
  BY <1>1, <1>3
<1>5. \A l \in links' : /\ l.id <= made' /\ (account'.erased => l.late)
                        /\ l.id > made \/ \E k \in links : k.id = l.id /\ k.kind = l.kind
  BY DEF LoginInv
<1> QED BY <1>2, <1>4, <1>5, LoginStep

\* The tasks.
LEMMA LoginTasks ==
  /\ SL!Idle \in LoginTask /\ [op |-> "erase"] \in LoginTask
  /\ \A e \in BOOLEAN : [op |-> "enter", erased |-> e] \in LoginTask
  /\ \A p \in SL!Provider : [op |-> "find", provider |-> p] \in LoginTask
  /\ \A p \in SL!Provider, e \in BOOLEAN :
        [op |-> "link", provider |-> p, erased |-> e] \in LoginTask
  /\ \A k \in SL!LinkKind : [op |-> "delete", kind |-> k] \in LoginTask
  /\ \A k \in SL!LinkKind, n \in Nat : [op |-> "create", kind |-> k, last |-> n] \in LoginTask
  /\ \A n \in Nat : [op |-> "use", link |-> n] \in LoginTask
BY DEF LoginTask

LEMMA PlainLoginSteps ==
  ASSUME LoginInv, NEW r \in Request,
         \/ SL!Login(r) \/ SL!FindByEmail(r) \/ SL!LinkProvider(r) \/ SL!Enter(r) \/ SL!Fail(r)
         \/ SL!BeginErasure(r)
         \/ \E p \in SL!Provider : SL!LoginByProvider(r, p)
         \/ \E k \in SL!LinkKind : SL!AskForLink(r, k)
         \/ \E l \in links : SL!OpenLink(r, l)
  PROVE  LoginInv'
<1>1. /\ account \in Row /\ account.erased \in BOOLEAN /\ LoginTypes
      /\ links \subseteq SL!Link
  BY DEF LoginInv, LoginTypes, Row
<1>2. SL!Idle.op = "none"
  BY DEF SL!Idle
<1>3. CASE SL!Login(r)
  <2>1. PICK t : t = [op |-> "enter", erased |-> account.erased]
    OBVIOUS
  <2>2. t \in LoginTask /\ t.op # "create"
    BY <1>1, <2>1, LoginTasks
  <2>3. SL!Does(r, t)
    BY <1>3, <2>1 DEF SL!Login, SL!Begins
  <2> QED BY <1>1, <1>3, <2>2, <2>3, LoginTaskStep DEF SL!Login
<1>4. CASE SL!FindByEmail(r)
  <2>1. loginTask[r].provider \in SL!Provider
    BY <1>1, <1>4, LoginTaskTypes DEF SL!FindByEmail
  <2>2. PICK t : /\ SL!Does(r, t)
                 /\ \/ t = SL!Idle
                    \/ t = [op |-> "link", provider |-> loginTask[r].provider,
                            erased |-> account.erased]
    BY <1>4, Zenon DEF SL!FindByEmail
  <2>3. t \in LoginTask /\ t.op # "create"
    BY <1>1, <1>2, <2>1, <2>2, LoginTasks
  <2> QED BY <1>1, <1>4, <2>2, <2>3, LoginTaskStep DEF SL!FindByEmail
<1>5. CASE SL!LinkProvider(r)
  <2>1. loginTask[r].provider \in SL!Provider /\ loginTask[r].erased \in BOOLEAN
    BY <1>1, <1>5, LoginTaskTypes DEF SL!LinkProvider
  <2>2. PICK t : t = [op |-> "enter", erased |-> loginTask[r].erased]
    OBVIOUS
  <2>3. t \in LoginTask /\ t.op # "create"
    BY <2>1, <2>2, LoginTasks
  <2>4. SL!Does(r, t) /\ UNCHANGED <<links, made>>
    BY <1>5, <2>2 DEF SL!LinkProvider
  <2>5. account' \in Row /\ account'.erased = account.erased
    BY <1>1, <1>5, <2>1 DEF SL!LinkProvider, Row
  <2> QED BY <2>3, <2>4, <2>5, LoginTaskStep
<1>6. CASE SL!Enter(r) \/ SL!Fail(r)
  BY <1>1, <1>2, <1>6, LoginTasks, LoginTaskStep DEF SL!Enter, SL!Fail
<1>7. CASE SL!BeginErasure(r)
  <2>1. PICK t : t = [op |-> "erase"]
    OBVIOUS
  <2>2. t \in LoginTask /\ t.op # "create" /\ SL!Does(r, t)
    BY <1>7, <2>1, LoginTasks DEF SL!BeginErasure, SL!Begins
  <2> QED BY <1>1, <1>7, <2>2, LoginTaskStep DEF SL!BeginErasure
<1>8. ASSUME NEW p \in SL!Provider, SL!LoginByProvider(r, p)
      PROVE  LoginInv'
  <2>1. PICK t : /\ SL!Does(r, t)
                 /\ \/ t = [op |-> "enter", erased |-> account.erased]
                    \/ t = [op |-> "find", provider |-> p]
    BY <1>8, Zenon DEF SL!LoginByProvider, SL!Begins
  <2>2. t \in LoginTask /\ t.op # "create"
    BY <1>1, <2>1, LoginTasks
  <2> QED BY <1>1, <1>8, <2>1, <2>2, LoginTaskStep DEF SL!LoginByProvider
<1>9. ASSUME NEW k \in SL!LinkKind, SL!AskForLink(r, k)
      PROVE  LoginInv'
  <2>1. PICK t : t = [op |-> "delete", kind |-> k]
    OBVIOUS
  <2>2. t \in LoginTask /\ t.op # "create" /\ SL!Does(r, t)
    BY <1>9, <2>1, LoginTasks DEF SL!AskForLink, SL!Begins
  <2> QED BY <1>1, <1>9, <2>2, LoginTaskStep DEF SL!AskForLink
<1>10. ASSUME NEW l \in links, SL!OpenLink(r, l)
       PROVE  LoginInv'
  <2>1. PICK t : t = [op |-> "use", link |-> l.id]
    OBVIOUS
  <2>2. l.id \in Nat
    BY <1>1 DEF SL!Link
  <2>3. t \in LoginTask /\ t.op # "create" /\ SL!Does(r, t)
    BY <1>10, <2>1, <2>2, LoginTasks DEF SL!OpenLink, SL!Begins
  <2> QED BY <1>1, <1>10, <2>3, LoginTaskStep DEF SL!OpenLink
<1> QED BY <1>3, <1>4, <1>5, <1>6, <1>7, <1>8, <1>9, <1>10

LEMMA DeleteLinksInv ==
  ASSUME LoginInv, NEW r \in Request, SL!DeleteLinks(r)
  PROVE  LoginInv'
<1>1. /\ LoginTypes /\ made \in Nat /\ links \subseteq SL!Link /\ loginTask[r].op = "delete"
  BY LinksAssumption DEF LoginInv, LoginTypes, SL!DeleteLinks
<1>2. loginTask[r].kind \in SL!LinkKind
  BY <1>1, LoginTaskTypes
<1>3. PICK t : t = [op |-> "create", kind |-> loginTask[r].kind, last |-> made]
  OBVIOUS
<1>4. /\ t \in LoginTask /\ t.kind = loginTask[r].kind /\ t.last = made
  BY <1>1, <1>2, <1>3, LoginTasks
<1>5. /\ links' = {l \in links : l.kind # t.kind} /\ UNCHANGED <<account, made>>
      /\ loginTask' = [loginTask EXCEPT ![r] = t]
  BY <1>3, <1>4 DEF SL!DeleteLinks, SL!Does, SL!LinksOf
<1>6. /\ loginTask' \in [Request -> LoginTask] /\ loginTask'[r] = t
      /\ \A q \in Request \ {r} : loginTask'[q] = loginTask[q]
  BY <1>1, <1>4, <1>5 DEF LoginTypes
<1>7. LoginTypes' /\ made <= made'
  BY <1>1, <1>5, <1>6 DEF LoginTypes
<1>8. Deleted(loginTask[r])'
  BY <1>1, <1>4, <1>5, <1>6 DEF Deleted
<1>9. \A q \in Request : loginTask'[q] = loginTask[q] \/ Deleted(loginTask[q])'
  BY <1>6, <1>8
<1>10. \A l \in links' : /\ l.id <= made' /\ (account'.erased => l.late)
                         /\ l.id > made \/ \E k \in links : k.id = l.id /\ k.kind = l.kind
  BY <1>5 DEF LoginInv
<1> QED BY <1>7, <1>9, <1>10, LoginStep

\* A link more, of the next number.
LEMMA NewLinkInv ==
  ASSUME LoginInv, NEW k \in SL!LinkKind, NEW by \in {"owner", "admin"}, made < MaxLinks,
         links' = links \cup {SL!NewLink(k, by)}, made' = made + 1, account' = account,
         loginTask' \in [Request -> LoginTask],
         \A r \in Request : loginTask'[r] \in {loginTask[r], SL!Idle}
  PROVE  LoginInv'
<1>1. /\ LoginTypes /\ made \in Nat /\ MaxLinks \in Nat /\ links \subseteq SL!Link
      /\ account.erased \in BOOLEAN
  BY LinksAssumption DEF LoginInv, LoginTypes, Row
<1>2. PICK new : new = SL!NewLink(k, by)
  OBVIOUS
<1>3. new \in SL!Link /\ new.id = made + 1 /\ new.late = account.erased
  BY <1>1, <1>2 DEF SL!NewLink, SL!Link
<1>4. LoginTypes' /\ made <= made'
  BY <1>1, <1>2, <1>3 DEF LoginTypes
<1>5. \A l \in links' : /\ l.id <= made' /\ (account'.erased => l.late)
                        /\ l.id > made \/ \E m \in links : m.id = l.id /\ m.kind = l.kind
  <2> SUFFICES ASSUME NEW l \in links'
               PROVE  /\ l.id <= made' /\ (account'.erased => l.late)
                      /\ l.id > made \/ \E m \in links : m.id = l.id /\ m.kind = l.kind
    OBVIOUS
  <2>1. CASE l = new
    BY <1>1, <1>3, <2>1
  <2>2. CASE l \in links
    <3>1. l.id <= made /\ l.id \in Int /\ (account.erased => l.late)
      BY <1>1, <2>2 DEF LoginInv, SL!Link
    <3> QED BY <1>1, <2>2, <3>1
  <2> QED BY <1>2, <2>1, <2>2
<1>6. \A r \in Request : loginTask'[r] = loginTask[r] \/ Deleted(loginTask[r])'
  BY DEF Deleted, SL!Idle
<1> QED BY <1>4, <1>5, <1>6, LoginStep

LEMMA UseLinkInv ==
  ASSUME LoginInv, NEW r \in Request, SL!UseLink(r)
  PROVE  LoginInv'
<1>1. /\ LoginTypes /\ account \in Row /\ links \subseteq SL!Link
      /\ SL!Idle \in LoginTask /\ SL!Idle.op # "create" /\ SL!Does(r, SL!Idle)
      /\ loginTask \in [Request -> LoginTask] /\ made \in Nat
  BY LoginTasks, LinksAssumption DEF LoginInv, LoginTypes, SL!UseLink, SL!Idle
<1>2. CASE SL!StillThere(loginTask[r].link)
  <2>1. PICK k \in SL!LinkKind :
            account' = IF k = "reset" THEN [account EXCEPT !.password = "set"]
                       ELSE [account EXCEPT !.verified = TRUE]
    BY <1>2 DEF SL!UseLink
  <2>2. account' \in Row /\ account'.erased = account.erased
    BY <1>1, <2>1 DEF Row
  <2>3. links' = {IF l.id = loginTask[r].link THEN [l EXCEPT !.used = TRUE] ELSE l : l \in links}
    BY <1>2 DEF SL!UseLink
  <2>4. ASSUME NEW l \in links'
        PROVE  /\ l \in SL!Link
               /\ \E m \in links : m.id = l.id /\ m.kind = l.kind /\ m.late = l.late
    <3>1. PICK m \in links : l = IF m.id = loginTask[r].link THEN [m EXCEPT !.used = TRUE] ELSE m
      BY <2>3
    <3>2. m \in SL!Link
      BY <1>1
    <3> QED BY <3>1, <3>2 DEF SL!Link
  <2>5. /\ loginTask' \in [Request -> LoginTask] /\ loginTask'[r] = SL!Idle
        /\ \A q \in Request \ {r} : loginTask'[q] = loginTask[q]
    BY <1>1 DEF SL!Does
  <2>6. made' = made
    BY DEF SL!UseLink
  <2>7. LoginTypes' /\ made <= made'
    BY <1>1, <2>2, <2>4, <2>5, <2>6 DEF LoginTypes
  <2>8. \A l \in links' : /\ l.id <= made' /\ (account'.erased => l.late)
                          /\ l.id > made \/ \E m \in links : m.id = l.id /\ m.kind = l.kind
    BY <2>2, <2>4, <2>6 DEF LoginInv
  <2>9. \A q \in Request : loginTask'[q] = loginTask[q] \/ Deleted(loginTask[q])'
    BY <1>1, <2>5 DEF Deleted
  <2> QED BY <2>7, <2>8, <2>9, LoginStep
<1>3. CASE ~SL!StillThere(loginTask[r].link)
  BY <1>1, <1>3, LoginTaskStep DEF SL!UseLink
<1> QED BY <1>2, <1>3

LEMMA AnonymizeInv ==
  ASSUME LoginInv, NEW r \in Request, SL!Anonymize(r)
  PROVE  LoginInv'
<1>1. /\ LoginTypes /\ account \in Row /\ made \in Nat
  BY LinksAssumption DEF LoginInv, LoginTypes
<1>2. /\ SL!Idle \in LoginTask /\ SL!Idle.op # "create"
      /\ loginTask' = [loginTask EXCEPT ![r] = SL!Idle]
  BY LoginTasks DEF SL!Anonymize, SL!Does, SL!Idle
<1>3. /\ loginTask' \in [Request -> LoginTask] /\ loginTask'[r] = SL!Idle
      /\ \A q \in Request \ {r} : loginTask'[q] = loginTask[q]
  BY <1>1, <1>2 DEF LoginTypes
<1>4. account' \in Row /\ links' = {} /\ made' = made
  BY <1>1 DEF SL!Anonymize, Row
<1>5. LoginTypes' /\ made <= made'
  BY <1>1, <1>3, <1>4 DEF LoginTypes
<1>6. \A q \in Request : loginTask'[q] = loginTask[q] \/ Deleted(loginTask[q])'
  BY <1>2, <1>3 DEF Deleted
<1> QED BY <1>4, <1>5, <1>6, LoginStep

LEMMA LoginNextInv ==
  ASSUME LoginInv, SL!Next
  PROVE  LoginInv'
<1>1. /\ LoginTypes /\ account \in Row /\ links \subseteq SL!Link /\ made \in Nat
      /\ loginTask \in [Request -> LoginTask]
  BY LinksAssumption DEF LoginInv, LoginTypes
<1>2. CASE \E r \in Request :
             \/ SL!Login(r) \/ SL!FindByEmail(r) \/ SL!LinkProvider(r) \/ SL!Enter(r) \/ SL!Fail(r)
             \/ SL!BeginErasure(r)
             \/ \E p \in SL!Provider : SL!LoginByProvider(r, p)
             \/ \E k \in SL!LinkKind : SL!AskForLink(r, k)
             \/ \E l \in links : SL!OpenLink(r, l)
  BY <1>2, PlainLoginSteps
<1>3. ASSUME NEW r \in Request, SL!CreateLink(r)
      PROVE  LoginInv'
  <2>1. loginTask[r].kind \in SL!LinkKind
    BY <1>1, <1>3, LoginTaskTypes DEF SL!CreateLink
  <2>2. PICK k \in SL!LinkKind : k = loginTask[r].kind
    BY <2>1
  <2>3. /\ made < MaxLinks /\ links' = links \cup {SL!NewLink(k, "owner")}
        /\ made' = made + 1 /\ account' = account
        /\ loginTask' = [loginTask EXCEPT ![r] = SL!Idle]
    BY <1>3, <2>2 DEF SL!CreateLink, SL!Does
  <2>4. /\ loginTask' \in [Request -> LoginTask]
        /\ \A q \in Request : loginTask'[q] \in {loginTask[q], SL!Idle}
    BY <1>1, <2>3, LoginTasks
  <2> QED BY <2>3, <2>4, NewLinkInv
<1>4. CASE SL!CreateAdminLink
  <2>1. "reset" \in SL!LinkKind
    BY DEF SL!LinkKind
  <2>2. /\ made < MaxLinks /\ links' = links \cup {SL!NewLink("reset", "admin")}
        /\ made' = made + 1 /\ account' = account /\ loginTask' = loginTask
    BY <1>4 DEF SL!CreateAdminLink
  <2> QED BY <1>1, <2>1, <2>2, NewLinkInv
<1>5. CASE (\E l \in links : SL!Lapse(l)) \/ (\E on \in BOOLEAN : SL!SetActive(on))
  <2>1. /\ links' \subseteq links /\ made' = made /\ loginTask' = loginTask
        /\ account' \in Row /\ account'.erased = account.erased
    BY <1>1, <1>5 DEF SL!Lapse, SL!SetActive, Row
  <2>2. LoginTypes' /\ made <= made'
    BY <1>1, <2>1 DEF LoginTypes
  <2>3. \A l \in links' : /\ l.id <= made' /\ (account'.erased => l.late)
                          /\ l.id > made \/ \E m \in links : m.id = l.id /\ m.kind = l.kind
    BY <2>1 DEF LoginInv
  <2>4. \A q \in Request : loginTask'[q] = loginTask[q] \/ Deleted(loginTask[q])'
    BY <2>1
  <2> QED BY <2>2, <2>3, <2>4, LoginStep
<1> QED BY <1>2, <1>3, <1>4, <1>5, DeleteLinksInv, UseLinkInv, AnonymizeInv DEF SL!Next

LEMMA LoginStutter ==
  ASSUME LoginInv, UNCHANGED loginVars
  PROVE  LoginInv'
BY DEF loginVars, LoginInv, LoginTypes, Deleted

LEMMA LoginInitInv ==
  ASSUME SL!Init
  PROVE  LoginInv
<1>1. account \in Row /\ links = {} /\ made = 0
  <2>1. CASE account = [password |-> "set", verified |-> FALSE, erased |-> FALSE,
                        is_active |-> TRUE, linked |-> {}]
    BY <2>1 DEF SL!Init, Row
  <2>2. ASSUME NEW p \in SL!Provider,
               account = [password |-> "none", verified |-> TRUE, erased |-> FALSE,
                          is_active |-> TRUE, linked |-> {p}]
        PROVE  account \in Row
    BY <2>2 DEF Row
  <2> QED BY <2>1, <2>2 DEF SL!Init
<1>2. loginTask = [r \in Request |-> SL!Idle]
  BY DEF SL!Init
<1>3. LoginTypes
  BY <1>1, <1>2, LinksAssumption, LoginTasks DEF LoginTypes
<1> QED BY <1>1, <1>2, <1>3 DEF LoginInv, Deleted, SL!Idle

LEMMA LoginTypeOK ==
  ASSUME LoginInv
  PROVE  SL!TypeOK
BY LoginTaskTypes DEF LoginInv, LoginTypes, SL!TypeOK, Row

\* What a step may do to the links, and to the password of an erased account.
LEMMA LinksLeft ==
  ASSUME LoginInv, SL!Next
  PROVE  /\ account.erased /\ account.password = "erased" /\ account'.password # "erased" =>
               \E r \in Request, l \in links : SL!UseLink(r) /\ loginTask[r].link = l.id /\ l.late
         /\ \A r \in Request :
               SL!CreateLink(r) => \A l \in links : l.kind = loginTask[r].kind /\ SL!Valid(l)
                                       => l.id > loginTask[r].last
<1>1. ASSUME account.erased, account.password = "erased", account'.password # "erased"
      PROVE  \E r \in Request, l \in links : SL!UseLink(r) /\ loginTask[r].link = l.id /\ l.late
  <2>1. account \in Row
    BY DEF LoginInv, LoginTypes
  <2>2. ASSUME NEW r \in Request, SL!LinkProvider(r) \/ SL!Anonymize(r)
        PROVE  account'.password = "erased"
    BY <1>1, <2>1, <2>2 DEF SL!LinkProvider, SL!Anonymize, Row
  <2>3. ASSUME NEW on \in BOOLEAN, SL!SetActive(on)
        PROVE  account'.password = "erased"
    BY <1>1, <2>1, <2>3 DEF SL!SetActive, Row
  <2>4. PICK r \in Request : SL!UseLink(r) /\ account' # account
    BY <1>1, <2>2, <2>3, Zenon DEF SL!Next, SL!Login, SL!FindByEmail, SL!Enter, SL!Fail,
       SL!LoginByProvider, SL!AskForLink, SL!DeleteLinks, SL!CreateLink, SL!OpenLink,
       SL!BeginErasure, SL!CreateAdminLink, SL!Lapse
  <2>5. PICK l \in links : l.id = loginTask[r].link
    BY <2>4 DEF SL!UseLink, SL!StillThere
  <2> QED BY <1>1, <2>4, <2>5 DEF LoginInv
<1>2. \A r \in Request :
         SL!CreateLink(r) => \A l \in links : l.kind = loginTask[r].kind /\ SL!Valid(l)
                                 => l.id > loginTask[r].last
  BY DEF LoginInv, Deleted, SL!CreateLink
<1> QED BY <1>1, <1>2
-----------------------------------------------------------------------------
(* The second factor *)

FactorRow == [enabled : BOOLEAN, secret : Nat, backup : SUBSET Nat]

FactorTask == {TF!Idle} \cup [op : {"secret", "enable", "disable", "codes"}, value : Nat, seen : FactorRow]

\* The backup codes of the first n batches.
Made(n) == UNION {TF!Batch(m) : m \in 1..n}

\* What t is about to write fits what it read: a new secret or the switch when the
\* factor was off, and the switch for the very secret it was proven with.
Decided(t) ==
    /\ t.op \in {"secret", "enable"} => t.value \in 0..secrets /\ ~t.seen.enabled
    /\ t.op = "enable" => t.value = t.seen.secret
    /\ t.op = "codes" => t.value \in Made(batches) /\ t.seen.backup \subseteq Made(batches)

FactorTypes ==
    /\ factor \in FactorRow
    /\ secrets \in Nat /\ proven \in 0..secrets
    /\ batches \in 0..MaxBatches
    /\ factorTask \in [Request -> FactorTask]

\* No code is there, or was accepted, or is on its way, of a batch still to be made.
FactorInv ==
    /\ FactorTypes
    /\ factor.secret \in 0..secrets
    /\ factor.backup \subseteq Made(batches) /\ spent \subseteq Made(batches)
    /\ \A r \in Request : Decided(factorTask[r])

\* Batches are numbers, and have no code in common.
LEMMA BatchesApart ==
  /\ \A n \in Nat : Made(n) \subseteq Nat /\ TF!Batch(n + 1) \subseteq Nat
  /\ \A n \in Nat : TF!Batch(n + 1) \cap Made(n) = {} /\ Made(n + 1) = Made(n) \cup TF!Batch(n + 1)
  /\ \A m, n \in Nat : m <= n => Made(m) \subseteq Made(n)
<1>1. ASSUME NEW n \in Nat
      PROVE  Made(n) \subseteq Nat /\ TF!Batch(n + 1) \subseteq Nat
  BY DEF Made, TF!Batch
<1>2. ASSUME NEW n \in Nat
      PROVE  TF!Batch(n + 1) \cap Made(n) = {}
  BY DEF Made, TF!Batch
<1>3. ASSUME NEW n \in Nat
      PROVE  Made(n + 1) = Made(n) \cup TF!Batch(n + 1)
  <2>1. 1..n + 1 = 1..n \cup {n + 1}
    OBVIOUS
  <2> QED BY <2>1, Zenon DEF Made
<1>4. ASSUME NEW m \in Nat, NEW n \in Nat, m <= n
      PROVE  Made(m) \subseteq Made(n)
  <2>1. 1..m \subseteq 1..n
    BY <1>4
  <2> QED BY <2>1, Zenon DEF Made
<1> QED BY <1>1, <1>2, <1>3, <1>4

\* The parts of a task, by what it does.
LEMMA FactorTaskTypes ==
  ASSUME FactorTypes, NEW r \in Request
  PROVE  LET t == factorTask[r]
         IN  /\ t.op \in {"none", "secret", "enable", "disable", "codes"}
             /\ t.op # "none" => t.value \in Nat /\ t.seen \in FactorRow
<1>1. PICK t \in FactorTask : t = factorTask[r]
  BY DEF FactorTypes
<1> QED BY <1>1 DEF FactorTask, TF!Idle

\* A step keeps the invariant when it takes no secret and no batch back.
LEMMA FactorStep ==
  ASSUME FactorInv, FactorTypes', secrets <= secrets', batches <= batches',
         factor.secret' \in 0..secrets',
         factor.backup' \subseteq Made(batches'), spent' \subseteq Made(batches'),
         \A r \in Request : factorTask'[r] = factorTask[r] \/ Decided(factorTask[r])'
  PROVE  FactorInv'
<1>1. batches \in Nat /\ batches' \in Nat /\ secrets \in Nat /\ secrets' \in Nat
  BY FactorAssumption DEF FactorInv, FactorTypes
<1>2. Made(batches) \subseteq Made(batches')
  BY <1>1, BatchesApart
<1>3. ASSUME NEW r \in Request, factorTask'[r] = factorTask[r]
      PROVE  Decided(factorTask[r])'
  <2>1. PICK t : t = factorTask[r] /\ Decided(t)
    BY DEF FactorInv
  <2>2. Decided(t)'
    BY <1>1, <1>2, <2>1 DEF Decided
  <2>3. factorTask'[r] = t
    BY <1>3, <2>1
  <2> QED BY <2>2, <2>3 DEF Decided
<1> QED BY <1>3 DEF FactorInv

\* A request that decides what to write, or writes.
LEMMA FactorTaskStep ==
  ASSUME FactorInv, NEW r \in Request, NEW t \in FactorTask, TF!Does(r, t),
         factor' \in FactorRow, factor'.secret \in 0..secrets',
         factor'.backup \subseteq Made(batches), spent' \subseteq Made(batches),
         secrets' \in Nat, secrets <= secrets', proven' \in 0..secrets', batches' = batches,
         /\ t.op \in {"secret", "enable"} => t.value \in 0..secrets' /\ ~t.seen.enabled
         /\ t.op = "enable" => t.value = t.seen.secret
         /\ t.op = "codes" => t.value \in Made(batches) /\ t.seen.backup \subseteq Made(batches)
  PROVE  FactorInv'
<1>1. factorTask \in [Request -> FactorTask] /\ batches \in 0..MaxBatches
  BY DEF FactorInv, FactorTypes
<1>2. /\ factorTask' \in [Request -> FactorTask] /\ factorTask'[r] = t
      /\ \A q \in Request \ {r} : factorTask'[q] = factorTask[q]
  BY <1>1 DEF TF!Does
<1>3. FactorTypes' /\ batches <= batches'
  BY <1>1, <1>2, FactorAssumption DEF FactorTypes
<1>4. Decided(factorTask[r])'
  BY <1>2 DEF Decided
<1>5. \A q \in Request : factorTask'[q] = factorTask[q] \/ Decided(factorTask[q])'
  BY <1>2, <1>4
<1> QED BY <1>3, <1>5, FactorStep

\* Deciding writes nothing but the task.
LEMMA DecidesInv ==
  ASSUME FactorInv, NEW r \in Request, NEW op \in {"secret", "enable", "disable", "codes"},
         NEW value \in Nat, TF!Decides(r, op, value),
         UNCHANGED <<factor, proven, batches, spent>>, secrets' \in Nat, secrets <= secrets',
         op \in {"secret", "enable"} => value \in 0..secrets' /\ ~factor.enabled,
         op = "enable" => value = factor.secret,
         op = "codes" => value \in factor.backup
  PROVE  FactorInv'
<1>1. PICK t : t = [op |-> op, value |-> value, seen |-> factor]
  OBVIOUS
<1>2. /\ factor \in FactorRow /\ factor.backup \subseteq Made(batches) /\ secrets \in Nat
      /\ spent \subseteq Made(batches) /\ proven \in 0..secrets /\ factor.secret \in 0..secrets
  BY DEF FactorInv, FactorTypes
<1>3. t.op = op /\ t.value = value /\ t.seen = factor
  BY <1>1
<1>4. t \in FactorTask
  BY <1>1, <1>2 DEF FactorTask
<1>5. TF!Does(r, t)
  BY <1>1 DEF TF!Decides
<1>6. /\ factor' \in FactorRow /\ factor'.secret \in 0..secrets'
      /\ factor'.backup \subseteq Made(batches) /\ spent' \subseteq Made(batches)
      /\ proven' \in 0..secrets' /\ batches' = batches
      /\ t.op \in {"secret", "enable"} => t.value \in 0..secrets' /\ ~t.seen.enabled
      /\ t.op = "enable" => t.value = t.seen.secret
      /\ t.op = "codes" => t.value \in Made(batches) /\ t.seen.backup \subseteq Made(batches)
  BY <1>2, <1>3
<1> QED BY <1>4, <1>5, <1>6, FactorTaskStep

LEMMA FactorReads ==
  ASSUME FactorInv, NEW r \in Request,
         \/ TF!Generate(r) \/ TF!Disable(r)
         \/ \E s \in 0..MaxSecrets : TF!Enable(r, s)
         \/ \E code \in TF!Codes : TF!UseBackupCode(r, code)
  PROVE  FactorInv'
<1>1. /\ secrets \in Nat /\ batches \in Nat /\ factor.secret \in 0..secrets
      /\ factor.backup \subseteq Made(batches) /\ Made(batches) \subseteq Nat
  BY FactorAssumption, BatchesApart DEF FactorInv, FactorTypes
<1>2. CASE TF!Generate(r)
  <2>1. PICK s \in Nat : s = secrets + 1
    BY <1>1
  <2>2. /\ TF!Decides(r, "secret", s) /\ UNCHANGED <<factor, proven, batches, spent>>
        /\ secrets' = s /\ ~factor.enabled
    BY <1>2, <2>1 DEF TF!Generate
  <2>3. secrets' \in Nat /\ secrets <= secrets' /\ s \in 0..secrets'
    BY <1>1, <2>1, <2>2
  <2> QED BY <2>2, <2>3, DecidesInv
<1>3. CASE TF!Disable(r)
  <2>1. PICK s \in Nat : s = TF!None
    BY DEF TF!None
  <2>2. /\ TF!Decides(r, "disable", s) /\ UNCHANGED <<factor, proven, batches, spent>>
        /\ secrets' = secrets
    BY <1>3, <2>1 DEF TF!Disable
  <2> QED BY <1>1, <2>2, DecidesInv
<1>4. ASSUME NEW s \in 0..MaxSecrets, TF!Enable(r, s)
      PROVE  FactorInv'
  <2>1. /\ TF!Decides(r, "enable", s) /\ UNCHANGED <<factor, proven, batches, spent>>
        /\ secrets' = secrets /\ s = factor.secret /\ ~factor.enabled
    BY <1>4 DEF TF!Enable, TF!Proves
  <2>2. s \in Nat /\ secrets' \in Nat /\ secrets <= secrets' /\ s \in 0..secrets'
    BY <1>1, <2>1
  <2> QED BY <2>1, <2>2, DecidesInv
<1>5. ASSUME NEW code \in TF!Codes, TF!UseBackupCode(r, code)
      PROVE  FactorInv'
  <2>1. /\ TF!Decides(r, "codes", code) /\ UNCHANGED <<factor, proven, batches, spent>>
        /\ secrets' = secrets /\ code \in factor.backup
    BY <1>5 DEF TF!UseBackupCode
  <2>2. code \in Nat /\ secrets' \in Nat /\ secrets <= secrets'
    BY <1>1, <2>1
  <2> QED BY <2>1, <2>2, DecidesInv
<1> QED BY <1>2, <1>3, <1>4, <1>5

LEMMA FactorWrites ==
  ASSUME FactorInv, NEW r \in Request,
         \/ TF!WriteSecret(r) \/ TF!WriteEnabled(r) \/ TF!WriteDisabled(r)
         \/ TF!WriteBackupCodes(r) \/ TF!Fail(r)
  PROVE  FactorInv'
<1>1. /\ FactorTypes /\ factor \in FactorRow /\ secrets \in Nat /\ proven \in 0..secrets
      /\ factor.secret \in 0..secrets
      /\ factor.backup \subseteq Made(batches) /\ spent \subseteq Made(batches)
      /\ Made(batches) \subseteq Nat
  BY BatchesApart, FactorAssumption DEF FactorInv, FactorTypes
<1>2. TF!Idle \in FactorTask /\ TF!Idle.op = "none"
  BY DEF FactorTask, TF!Idle
<1>3. PICK t : t = factorTask[r] /\ Decided(t) /\ (t.op # "none" => t.value \in Nat)
  BY <1>1, FactorTaskTypes DEF FactorInv
<1>4. /\ factor' \in FactorRow /\ factor'.secret \in 0..secrets /\ proven' \in 0..secrets
      /\ factor'.backup \subseteq Made(batches) /\ spent' \subseteq Made(batches)
      /\ secrets' = secrets /\ batches' = batches /\ TF!Does(r, TF!Idle)
  <2>1. CASE TF!WriteSecret(r)
    BY <1>1, <1>3, <2>1 DEF TF!WriteSecret, FactorRow, Decided
  <2>2. CASE TF!WriteEnabled(r)
    BY <1>1, <1>3, <2>2 DEF TF!WriteEnabled, FactorRow, Decided
  <2>3. CASE TF!WriteDisabled(r)
    <3>1. factor' = [factor EXCEPT !.enabled = FALSE, !.secret = 0]
      BY <2>3 DEF TF!WriteDisabled, TF!None
    <3>2. factor' \in FactorRow /\ factor'.secret = 0 /\ factor'.backup = factor.backup
      BY <1>1, <3>1 DEF FactorRow
    <3> QED BY <1>1, <2>3, <3>2 DEF TF!WriteDisabled
  <2>4. CASE TF!WriteBackupCodes(r)
    <3>1. PICK rest : rest = t.seen.backup \ {t.value}
      OBVIOUS
    <3>2. rest \subseteq Made(batches) /\ t.value \in Made(batches)
      BY <1>3, <2>4, <3>1 DEF TF!WriteBackupCodes, Decided
    <3>3. /\ factor' = [factor EXCEPT !.backup = rest] /\ spent' = spent \cup {t.value}
          /\ UNCHANGED <<secrets, proven, batches>> /\ TF!Does(r, TF!Idle)
      BY <1>3, <2>4, <3>1 DEF TF!WriteBackupCodes, TF!Without
    <3> QED BY <1>1, <3>2, <3>3 DEF FactorRow
  <2>5. CASE TF!Fail(r)
    BY <1>1, <2>5 DEF TF!Fail
  <2> QED BY <2>1, <2>2, <2>3, <2>4, <2>5
<1> QED BY <1>1, <1>2, <1>4, FactorTaskStep

LEMMA FactorNextInv ==
  ASSUME FactorInv, TF!Next
  PROVE  FactorInv'
<1>1. /\ FactorTypes /\ factor \in FactorRow /\ secrets \in Nat /\ proven \in 0..secrets
      /\ factor.secret \in 0..secrets /\ batches \in Nat /\ MaxBatches \in Nat
      /\ batches \in 0..MaxBatches /\ factorTask \in [Request -> FactorTask]
      /\ factor.backup \subseteq Made(batches) /\ spent \subseteq Made(batches)
      /\ Made(batches) \subseteq Nat
  BY BatchesApart, FactorAssumption DEF FactorInv, FactorTypes
<1>2. CASE TF!GenerateBackupCodes
  <2>1. PICK new : new = TF!Batch(batches + 1)
    OBVIOUS
  <2>2. /\ new \subseteq Nat /\ new \subseteq Made(batches + 1)
        /\ Made(batches) \subseteq Made(batches + 1)
    BY <1>1, <2>1, BatchesApart
  <2>3. /\ batches' = batches + 1 /\ batches < MaxBatches
        /\ factor' = [factor EXCEPT !.backup = new]
        /\ UNCHANGED <<secrets, proven, spent, factorTask>>
    BY <1>2, <2>1 DEF TF!GenerateBackupCodes, TF!Replaces
  <2>4. factor' \in FactorRow /\ factor'.secret = factor.secret /\ factor'.backup = new
    BY <1>1, <2>2, <2>3 DEF FactorRow
  <2>5. FactorTypes' /\ batches <= batches' /\ secrets <= secrets'
    BY <1>1, <2>3, <2>4 DEF FactorTypes
  <2> QED BY <1>1, <2>2, <2>3, <2>4, <2>5, FactorStep
<1>3. CASE TF!Anonymize
  <2>1. /\ factor' \in FactorRow /\ factor'.secret = 0 /\ factor'.backup = {}
        /\ UNCHANGED <<secrets, proven, batches, spent, factorTask>>
    BY <1>3 DEF TF!Anonymize, TF!None, FactorRow
  <2>2. FactorTypes' /\ batches <= batches' /\ secrets <= secrets'
    BY <1>1, <2>1 DEF FactorTypes
  <2> QED BY <1>1, <2>1, <2>2, FactorStep
<1> QED BY <1>2, <1>3, FactorReads, FactorWrites DEF TF!Next

LEMMA FactorStutter ==
  ASSUME FactorInv, UNCHANGED factorVars
  PROVE  FactorInv'
BY DEF factorVars, FactorInv, FactorTypes, Decided

LEMMA FactorInitInv ==
  ASSUME TF!Init
  PROVE  FactorInv
<1>1. /\ factor \in FactorRow /\ factor.secret = 0 /\ factor.backup = {}
      /\ secrets = 0 /\ proven = 0 /\ batches = 0 /\ spent = {}
  BY DEF TF!Init, TF!None, FactorRow
<1>2. factorTask = [r \in Request |-> TF!Idle] /\ TF!Idle \in FactorTask
  BY DEF TF!Init, FactorTask
<1>3. FactorTypes
  BY <1>1, <1>2, FactorAssumption DEF FactorTypes
<1> QED BY <1>1, <1>2, <1>3 DEF FactorInv, Decided, TF!Idle

LEMMA FactorTypeOK ==
  ASSUME FactorInv
  PROVE  TF!TypeOK
<1>1. batches \in Nat /\ MaxBatches \in Nat /\ batches <= MaxBatches
  BY FactorAssumption DEF FactorInv, FactorTypes
<1>2. Made(batches) \subseteq Made(MaxBatches) /\ Made(MaxBatches) = TF!Codes
  BY <1>1, BatchesApart DEF Made, TF!Codes
<1> QED BY <1>2, FactorTaskTypes DEF FactorInv, FactorTypes, FactorRow, TF!TypeOK

\* A write that is up to date locks nobody out.
LEMMA LocksOutStale ==
  ASSUME FactorInv, TF!Next, ~TF!LockedOut, TF!LockedOut'
  PROVE  \E r \in Request : TF!WritesStaleSwitch(r)
<1>1. FactorTypes /\ factor \in FactorRow
  BY DEF FactorInv, FactorTypes
<1>2. factor'.enabled /\ factor'.secret # proven'
  BY DEF TF!LockedOut
<1>3. ~TF!Anonymize
  BY <1>2 DEF TF!Anonymize
<1>4. \A r \in Request : ~TF!WriteDisabled(r)
  BY <1>1, <1>2 DEF TF!WriteDisabled, FactorRow
<1>5. ASSUME TF!GenerateBackupCodes \/ \E r \in Request : TF!WriteBackupCodes(r)
      PROVE  FALSE
  <2>1. PICK b : factor' = [factor EXCEPT !.backup = b] /\ proven' = proven
    BY <1>5 DEF TF!GenerateBackupCodes, TF!WriteBackupCodes
  <2> QED BY <1>1, <1>2, <2>1 DEF TF!LockedOut, FactorRow
<1>6. PICK r \in Request : TF!WriteSecret(r) \/ TF!WriteEnabled(r)
  <2>1. ~UNCHANGED <<factor, proven>>
    BY <1>2 DEF TF!LockedOut
  <2> QED BY <2>1, <1>3, <1>4, <1>5, Zenon DEF TF!Next, TF!Generate, TF!Enable, TF!Disable,
          TF!UseBackupCode, TF!Fail
<1>7. PICK t : t = factorTask[r] /\ Decided(t)
  BY DEF FactorInv
<1>8. CASE TF!WriteSecret(r)
  <2>1. factor' = [factor EXCEPT !.secret = t.value] /\ ~t.seen.enabled
    BY <1>7, <1>8 DEF TF!WriteSecret, Decided
  <2>2. t.seen.enabled # factor.enabled
    BY <1>1, <1>2, <2>1 DEF FactorRow
  <2> QED BY <1>7, <1>8, <2>2 DEF TF!WritesStaleSwitch
<1>9. CASE TF!WriteEnabled(r)
  <2>1. factor' = [factor EXCEPT !.enabled = TRUE] /\ proven' = t.value /\ t.value = t.seen.secret
    BY <1>7, <1>9 DEF TF!WriteEnabled, Decided
  <2>2. t.seen.secret # factor.secret
    BY <1>1, <1>2, <2>1 DEF FactorRow
  <2> QED BY <1>7, <1>9, <2>2 DEF TF!WritesStaleSwitch
<1> QED BY <1>6, <1>8, <1>9

\* A write of backup codes that is up to date brings none back that is no longer good.
LEMMA RevivesStale ==
  ASSUME FactorInv, TF!Next, NEW c, TF!Revives(c)
  PROVE  \E r \in Request : TF!WriteBackupCodes(r) /\ factorTask[r].seen.backup # factor.backup
<1>1. /\ FactorTypes /\ factor \in FactorRow /\ batches \in Nat
      /\ spent \subseteq Made(batches)
  BY FactorAssumption DEF FactorInv, FactorTypes
<1>2. /\ c \in spent' \cup Made(batches' - 1) /\ c \in factor'.backup
      /\ ~(c \in spent \cup Made(batches - 1) /\ c \in factor.backup)
  BY DEF TF!Revives, TF!Dead, Made
<1>3. ~TF!GenerateBackupCodes
  <2> SUFFICES ASSUME TF!GenerateBackupCodes PROVE FALSE
    OBVIOUS
  <2>1. PICK new : new = TF!Batch(batches + 1)
    OBVIOUS
  <2>2. /\ batches' - 1 = batches /\ spent' = spent /\ factor' = [factor EXCEPT !.backup = new]
    BY <1>1, <2>1 DEF TF!GenerateBackupCodes, TF!Replaces
  <2>3. c \in Made(batches) /\ c \in new
    BY <1>1, <1>2, <2>2 DEF FactorRow
  <2> QED BY <1>1, <2>1, <2>3, BatchesApart
<1>4. PICK r \in Request : TF!WriteBackupCodes(r)
  <2>1. ASSUME factor'.backup = factor.backup \/ factor'.backup = {},
               UNCHANGED <<batches, spent>>
        PROVE  FALSE
    BY <1>2, <2>1
  <2>2. ASSUME NEW r \in Request, TF!WriteSecret(r) \/ TF!WriteEnabled(r) \/ TF!WriteDisabled(r)
        PROVE  factor'.backup = factor.backup /\ UNCHANGED <<batches, spent>>
    BY <1>1, <2>2 DEF TF!WriteSecret, TF!WriteEnabled, TF!WriteDisabled, FactorRow
  <2>3. TF!Anonymize => factor'.backup = {} /\ UNCHANGED <<batches, spent>>
    BY DEF TF!Anonymize
  <2>4. UNCHANGED factor => factor'.backup = factor.backup
    OBVIOUS
  <2> QED BY <1>3, <2>1, <2>2, <2>3, <2>4, Zenon DEF TF!Next, TF!Generate, TF!Enable,
          TF!Disable, TF!UseBackupCode, TF!Fail
<1>5. factorTask[r].seen.backup # factor.backup
  <2> SUFFICES ASSUME factorTask[r].seen.backup = factor.backup PROVE FALSE
    OBVIOUS
  <2>1. PICK value : value = factorTask[r].value
    OBVIOUS
  <2>2. PICK rest : rest = factor.backup \ {value}
    OBVIOUS
  <2>3. /\ factor' = [factor EXCEPT !.backup = rest]
        /\ spent' = spent \cup {value} /\ batches' = batches
    BY <1>4, <2>1, <2>2 DEF TF!WriteBackupCodes, TF!Without
  <2>4. factor'.backup = rest
    BY <1>1, <2>3 DEF FactorRow
  <2> QED BY <1>2, <2>2, <2>3, <2>4
<1> QED BY <1>4, <1>5
-----------------------------------------------------------------------------
(* The slugs of stores *)

Search == [op : {"assign", "suggest", "choose"}, account : Account, slug : SS!Slug,
           ready : BOOLEAN, raced : BOOLEAN]

SlugTask == {SS!Idle} \cup Search

\* A search that is not over has not come to the last number; one that is ended with a
\* slug that is no page's, and free of others unless it was raced or not looked up.
Searched(t) ==
    t.op # "none" =>
        /\ t.op = "choose" => t.ready
        /\ ~t.ready => t.slug[2] < LastSuffix
        /\ t.ready => ~SS!Reserved(t.slug)
        /\ t.ready /\ ~t.raced =>
              ~SS!IsTaken(t.slug, t.account) \/ (t.op # "choose" /\ t.slug[2] = LastSuffix)

SlugTypes ==
    /\ slugs \in [Account -> SS!Slug \cup {SS!None}]
    /\ state \in [Account -> {"unknown", "registered", "erased"}]
    /\ slugTask \in [Request -> SlugTask]

SlugInv ==
    /\ SlugTypes
    /\ SS!Addresses
    /\ \A r \in Request : Searched(slugTask[r])

\* The parts of a task.
LEMMA SlugTaskTypes ==
  ASSUME SlugTypes, NEW r \in Request
  PROVE  LET t == slugTask[r]
         IN  /\ t = SS!Idle \/ t.op \in {"assign", "suggest", "choose"}
             /\ t.op # "none" =>
                   /\ t \in Search /\ t.account \in Account /\ t.slug \in SS!Slug
                   /\ t.ready \in BOOLEAN /\ t.raced \in BOOLEAN
             /\ SS!Idle.op = "none"
<1>1. PICK t \in SlugTask : t = slugTask[r]
  BY DEF SlugTypes
<1> QED BY <1>1 DEF SlugTask, Search, SS!Idle

\* Slugs are pairs.
LEMMA SlugPairs ==
  /\ \A base \in Base : /\ <<base, 1>> \in SS!Slug /\ <<base, 1>>[2] = 1
  /\ \A slug \in SS!Slug :
        /\ slug[1] \in Base /\ slug[2] \in 1..LastSuffix /\ slug # SS!None
        /\ slug[2] < LastSuffix => /\ <<slug[1], slug[2] + 1>> \in SS!Slug
                                   /\ <<slug[1], slug[2] + 1>>[2] = slug[2] + 1
BY SlugsAssumption DEF SS!Slug, SS!None

\* A step that writes nothing but a task.
LEMMA SlugTaskStep ==
  ASSUME SlugInv, NEW r \in Request, NEW t \in SlugTask, SS!Does(r, t), Searched(t),
         UNCHANGED slugs, state' \in [Account -> {"unknown", "registered", "erased"}]
  PROVE  SlugInv'
<1>1. /\ slugTask' \in [Request -> SlugTask] /\ slugTask'[r] = t
      /\ \A q \in Request \ {r} : slugTask'[q] = slugTask[q]
  BY DEF SS!Does, SlugInv, SlugTypes
<1>2. SlugTypes' /\ SS!Addresses'
  BY <1>1 DEF SlugInv, SlugTypes, SS!Addresses
<1>3. \A q \in Request : Searched(slugTask'[q])
  BY <1>1 DEF SlugInv
<1>4. \A q \in Request : Searched(slugTask[q])'
  BY <1>3 DEF Searched, SS!IsTaken
<1> QED BY <1>2, <1>4 DEF SlugInv

LEMMA SlugSearches ==
  ASSUME SlugInv, NEW r \in Request,
         \/ \E a \in Account :
               \/ \E base \in Base : SS!Register(r, a, base) \/ SS!Suggest(r, a, base)
               \/ \E slug \in SS!Slug : SS!Choose(r, a, slug)
         \/ SS!Try(r) \/ SS!Show(r) \/ SS!Fail(r)
  PROVE  SlugInv'
<1>1. SlugTypes /\ state \in [Account -> {"unknown", "registered", "erased"}]
  BY DEF SlugInv, SlugTypes
<1>2. SS!Idle \in SlugTask /\ Searched(SS!Idle)
  BY DEF SlugTask, Searched, SS!Idle
<1>3. ASSUME NEW a \in Account, NEW base \in Base, SS!Register(r, a, base) \/ SS!Suggest(r, a, base)
      PROVE  SlugInv'
  <2>1. PICK slug \in SS!Slug : slug = <<base, 1>> /\ slug[2] = 1
    BY SlugPairs
  <2>2. PICK op \in {"assign", "suggest"} : SS!Generates(r, op, a, base)
    BY <1>3 DEF SS!Register, SS!Suggest
  <2>3. PICK t : t = [op |-> op, account |-> a, slug |-> slug, ready |-> FALSE, raced |-> FALSE]
    OBVIOUS
  <2>4. SS!Does(r, t)
    BY <2>1, <2>2, <2>3 DEF SS!Generates
  <2>5. t \in SlugTask
    BY <2>3 DEF SlugTask, Search
  <2>6. Searched(t)
    BY <2>1, <2>3, SlugsAssumption DEF Searched
  <2>7. UNCHANGED slugs /\ state' \in [Account -> {"unknown", "registered", "erased"}]
    BY <1>1, <1>3 DEF SS!Register, SS!Suggest
  <2> QED BY <2>4, <2>5, <2>6, <2>7, SlugTaskStep
<1>4. ASSUME NEW a \in Account, NEW slug \in SS!Slug, SS!Choose(r, a, slug)
      PROVE  SlugInv'
  <2>1. PICK t : t = [op |-> "choose", account |-> a, slug |-> slug, ready |-> TRUE, raced |-> FALSE]
    OBVIOUS
  <2>2. t \in SlugTask
    BY <2>1 DEF SlugTask, Search
  <2>3. ~SS!Reserved(slug) /\ ~SS!IsTaken(slug, a)
    BY <1>4 DEF SS!Choose, SS!Unavailable
  <2>4. Searched(t)
    BY <2>1, <2>3 DEF Searched
  <2> QED BY <1>1, <1>4, <2>1, <2>2, <2>4, SlugTaskStep DEF SS!Choose
<1>5. CASE SS!Try(r)
  <2>1. PICK t : t = slugTask[r] /\ Searched(t)
    BY DEF SlugInv
  <2>2. /\ t.op \in {"assign", "suggest"} /\ ~t.ready /\ t.slug \in SS!Slug /\ t.account \in Account
        /\ t.ready \in BOOLEAN /\ t.raced \in BOOLEAN /\ t \in Search
    BY <1>1, <1>5, <2>1, SlugTaskTypes DEF SS!Try
  <2>3. t.slug[2] < LastSuffix /\ t.slug[2] \in 1..LastSuffix
    BY <2>1, <2>2, SlugPairs DEF Searched
  <2>4. PICK next \in SS!Slug : next = <<t.slug[1], t.slug[2] + 1>> /\ next[2] = t.slug[2] + 1
    BY <2>2, <2>3, SlugPairs
  <2>5. UNCHANGED <<slugs, state>>
    BY <1>5 DEF SS!Try
  <2>6. CASE SS!Unavailable(t.op, t.slug, t.account)
    <3>1. PICK last \in BOOLEAN : last = (next[2] = LastSuffix)
      OBVIOUS
    <3>2. PICK u : u = [t EXCEPT !.slug = next, !.ready = last]
      OBVIOUS
    <3>3. SS!Does(r, u)
      BY <1>5, <2>1, <2>4, <2>6, <3>1, <3>2 DEF SS!Try
    <3>4. /\ u \in Search /\ u.op = t.op /\ u.slug = next /\ u.ready = last
      BY <2>2, <3>2 DEF Search
    <3>5. next[2] # 1 /\ next[2] <= LastSuffix
      BY <2>3, <2>4, SlugsAssumption
    <3>6. Searched(u)
      <4>1. u.op # "choose" /\ (last => u.slug[2] = LastSuffix)
        BY <2>2, <3>1, <3>4
      <4>2. ~last => u.slug[2] < LastSuffix
        <5>1. ~last => next[2] # LastSuffix
          BY <3>1
        <5>2. next[2] \in Int /\ LastSuffix \in Int
          BY <2>3, <2>4, SlugsAssumption
        <5>3. next[2] # LastSuffix => next[2] < LastSuffix
          BY <3>5, <5>2
        <5> QED BY <3>4, <5>1, <5>3
      <4>3. ~SS!Reserved(u.slug)
        BY <3>4, <3>5 DEF SS!Reserved
      <4> QED BY <3>4, <4>1, <4>2, <4>3 DEF Searched
    <3> QED BY <1>1, <2>5, <3>3, <3>4, <3>6, SlugTaskStep DEF SlugTask
  <2>7. CASE ~SS!Unavailable(t.op, t.slug, t.account)
    <3>1. PICK u : u = [t EXCEPT !.ready = TRUE]
      OBVIOUS
    <3>2. SS!Does(r, u)
      BY <1>5, <2>1, <2>7, <3>1 DEF SS!Try
    <3>3. /\ u \in Search /\ u.op = t.op /\ u.slug = t.slug /\ u.account = t.account /\ u.ready
      BY <2>2, <3>1 DEF Search
    <3>4. ~SS!Reserved(t.slug) /\ ~SS!IsTaken(t.slug, t.account)
      BY <2>7 DEF SS!Unavailable, SS!Exists, SS!IsTaken
    <3>5. Searched(u)
      BY <2>2, <3>3, <3>4 DEF Searched
    <3> QED BY <1>1, <2>5, <3>2, <3>3, <3>5, SlugTaskStep DEF SlugTask
  <2> QED BY <2>6, <2>7
<1>6. CASE SS!Show(r) \/ SS!Fail(r)
  BY <1>1, <1>2, <1>6, SlugTaskStep DEF SS!Show, SS!Fail
<1> QED BY <1>3, <1>4, <1>5, <1>6

LEMMA SlugWrites ==
  ASSUME SlugInv, NEW r \in Request, SS!Assign(r) \/ SS!UpdateSettings(r)
  PROVE  SlugInv'
<1>1. SlugTypes /\ slugTask \in [Request -> SlugTask] /\ slugs \in [Account -> SS!Slug \cup {SS!None}]
  BY DEF SlugInv, SlugTypes
<1>2. SS!Idle \in SlugTask /\ Searched(SS!Idle)
  BY DEF SlugTask, Searched, SS!Idle
<1>3. CASE SS!Refused(r)
  BY <1>1, <1>2, <1>3, SlugTaskStep DEF SS!Refused, SlugTypes
<1>4. CASE SS!Write(r)
  <2>1. PICK t : t = slugTask[r] /\ Searched(t)
    BY DEF SlugInv
  <2>2. t.op \in {"assign", "choose"} /\ t.slug \in SS!Slug /\ t.account \in Account /\ t.ready
    <3>1. (t.op = "assign" /\ t.ready) \/ t.op = "choose"
      BY <2>1 DEF SS!Assign, SS!UpdateSettings
    <3> QED BY <1>1, <2>1, <3>1, SlugTaskTypes DEF Searched
  <2>3. ~SS!Reserved(t.slug)
    BY <2>1, <2>2 DEF Searched
  <2>4. /\ \A b \in Account \ {t.account} : slugs[b] # t.slug
        /\ slugs' = [slugs EXCEPT ![t.account] = t.slug]
        /\ SS!Races(r, t.slug) /\ state' = state
    BY <1>4, <2>1 DEF SS!Write, SS!IsTaken
  <2>5. SS!Addresses'
    <3>1. \A a \in Account : slugs'[a] = IF a = t.account THEN t.slug ELSE slugs[a]
      BY <1>1, <2>4
    <3>2. \A a \in Account : slugs'[a] # SS!None => ~SS!Reserved(slugs'[a])
      BY <2>3, <3>1 DEF SlugInv, SS!Addresses
    <3>3. \A a, b \in Account : slugs'[a] # SS!None /\ slugs'[a] = slugs'[b] => a = b
      BY <2>4, <3>1 DEF SlugInv, SS!Addresses
    <3> QED BY <3>2, <3>3 DEF SS!Addresses, SS!Reserved
  <2>6. ASSUME NEW q \in Request
        PROVE  slugTask'[q] \in SlugTask /\ Searched(slugTask[q])'
    <3>1. PICK u : u = slugTask[q] /\ Searched(u)
      BY DEF SlugInv
    <3>2. CASE q = r
      <4>1. slugTask'[q] = SS!Idle
        BY <2>4, <3>2 DEF SS!Races
      <4> QED BY <1>2, <4>1 DEF Searched, SS!Idle
    <3>3. CASE q # r /\ u # SS!Idle /\ u.slug = t.slug /\ u.ready
      <4>1. slugTask'[q] = [u EXCEPT !.raced = TRUE]
        BY <2>4, <3>1, <3>3 DEF SS!Races
      <4>2. u \in Search
        BY <1>1, <3>1, <3>3, SlugTaskTypes
      <4>3. PICK v : v = [u EXCEPT !.raced = TRUE]
        OBVIOUS
      <4>4. v \in Search /\ v.op = u.op /\ v.ready = u.ready /\ v.slug = u.slug /\ v.raced
        BY <4>2, <4>3 DEF Search
      <4>5. slugTask'[q] = v
        BY <4>1, <4>3
      <4>6. Searched(v)'
        BY <3>1, <4>2, <4>4 DEF Searched, Search
      <4> QED BY <4>4, <4>5, <4>6 DEF SlugTask, Searched
    <3>4. CASE q # r /\ ~(u # SS!Idle /\ u.slug = t.slug /\ u.ready)
      <4>1. slugTask'[q] = u /\ u \in SlugTask
        BY <1>1, <2>4, <3>1, <3>4 DEF SS!Races
      <4>2. CASE u.op = "none"
        BY <4>1, <4>2 DEF Searched
      <4>3. CASE u.op # "none"
        <5>1. u # SS!Idle /\ u.slug \in SS!Slug
          BY <1>1, <3>1, <4>3, SlugTaskTypes
        <5>2. u.ready /\ ~SS!IsTaken(u.slug, u.account) => ~SS!IsTaken(u.slug, u.account)'
          BY <1>1, <2>4, <3>4, <5>1 DEF SS!IsTaken
        <5>3. Searched(u)'
          BY <3>1, <5>2 DEF Searched
        <5> QED BY <4>1, <5>3 DEF Searched
      <4> QED BY <4>2, <4>3
    <3> QED BY <3>1, <3>2, <3>3, <3>4
  <2>7. slugTask' = [q \in Request |-> slugTask'[q]]
    BY <2>4 DEF SS!Races
  <2>8. slugTask' \in [Request -> SlugTask]
    BY <2>6, <2>7
  <2>9. SlugTypes'
    BY <1>1, <2>2, <2>4, <2>8 DEF SlugTypes
  <2> QED BY <2>5, <2>6, <2>9 DEF SlugInv
<1> QED BY <1>3, <1>4 DEF SS!Assign, SS!UpdateSettings

LEMMA SlugNextInv ==
  ASSUME SlugInv, SS!Next
  PROVE  SlugInv'
<1>1. SlugTypes
  BY DEF SlugInv
<1>2. ASSUME NEW a \in Account, SS!Anonymize(a)
      PROVE  SlugInv'
  <2>1. /\ slugs' = [slugs EXCEPT ![a] = SS!None] /\ state' = [state EXCEPT ![a] = "erased"]
        /\ slugTask' = slugTask
    BY <1>2 DEF SS!Anonymize
  <2>2. SlugTypes' /\ \A b \in Account : slugs'[b] = IF b = a THEN SS!None ELSE slugs[b]
    BY <1>1, <2>1 DEF SlugTypes
  <2>3. SS!Addresses'
    <3>1. \A b \in Account : slugs'[b] # SS!None => ~SS!Reserved(slugs'[b])
      BY <2>2 DEF SlugInv, SS!Addresses
    <3>2. \A b, c \in Account : slugs'[b] # SS!None /\ slugs'[b] = slugs'[c] => b = c
      BY <2>2 DEF SlugInv, SS!Addresses
    <3> QED BY <3>1, <3>2 DEF SS!Addresses, SS!Reserved
  <2>4. ASSUME NEW q \in Request
        PROVE  Searched(slugTask[q])'
    <3>1. PICK u : u = slugTask[q] /\ Searched(u)
      BY DEF SlugInv
    <3>2. u.op # "none" => u.slug # SS!None
      BY <1>1, <3>1, SlugTaskTypes, SlugPairs
    <3>3. u.op # "none" /\ ~SS!IsTaken(u.slug, u.account) => ~SS!IsTaken(u.slug, u.account)'
      BY <2>2, <3>2 DEF SS!IsTaken
    <3>4. Searched(u)'
      BY <3>1, <3>3 DEF Searched
    <3>5. slugTask'[q] = u
      BY <2>1, <3>1
    <3> QED BY <3>4, <3>5 DEF Searched
  <2> QED BY <2>2, <2>3, <2>4 DEF SlugInv
<1>3. CASE \E r \in Request :
             \/ \E a \in Account :
                   \/ \E base \in Base : SS!Register(r, a, base) \/ SS!Suggest(r, a, base)
                   \/ \E slug \in SS!Slug : SS!Choose(r, a, slug)
             \/ SS!Try(r) \/ SS!Show(r) \/ SS!Fail(r)
  BY <1>3, SlugSearches
<1> QED BY <1>2, <1>3, SlugWrites DEF SS!Next

LEMMA SlugStutter ==
  ASSUME SlugInv, UNCHANGED slugVars
  PROVE  SlugInv'
BY DEF slugVars, SlugInv, SlugTypes, SS!Addresses, Searched, SS!IsTaken

LEMMA SlugInitInv ==
  ASSUME SS!Init
  PROVE  SlugInv
<1>1. \A r \in Request : slugTask[r] = SS!Idle
  BY DEF SS!Init
<1>2. SlugTypes /\ \A a \in Account : slugs[a] = SS!None
  BY DEF SS!Init, SlugTypes, SlugTask
<1> QED BY <1>1, <1>2 DEF SlugInv, SS!Addresses, Searched, SS!Idle

LEMMA SlugTypeOK ==
  ASSUME SlugInv
  PROVE  SS!TypeOK
<1>1. SlugTypes
  BY DEF SlugInv
<1>2. ASSUME NEW r \in Request
      PROVE  /\ slugTask[r].op \in {"none", "assign", "suggest", "choose"}
             /\ slugTask[r] # SS!Idle => slugTask[r].slug \in SS!Slug
  BY <1>1, SlugTaskTypes
<1> QED BY <1>1, <1>2 DEF SlugTypes, SS!TypeOK

\* The end of a search is a slug that may be had, but for races and the last number.
LEMMA SearchEnds ==
  ASSUME SlugInv, NEW r \in Request, SS!Assign(r) \/ SS!UpdateSettings(r) \/ SS!Show(r)
  PROVE  SS!Free(r) \/ slugTask[r].raced \/ SS!Unsought(r)
<1>1. PICK t : t = slugTask[r] /\ Searched(t)
  BY DEF SlugInv
<1>2. (t.op \in {"assign", "suggest"} /\ t.ready) \/ t.op = "choose"
  BY <1>1 DEF SS!Assign, SS!UpdateSettings, SS!Show
<1> QED BY <1>1, <1>2 DEF Searched, SS!Free, SS!Unsought
-----------------------------------------------------------------------------
(* Sessions *)

CookieRow == [access : Nat, refresh : Nat, csrf : Nat, brief : BOOLEAN]

\* Cookies of tokens that were made; a session comes with a CSRF token.
Issued(c) ==
    /\ c.access <= sessions /\ c.refresh <= sessions /\ c.csrf <= csrf
    /\ c.access # 0 => c.csrf # 0

Ask == [op : {"ask"}, asked : {"login", "refresh", "me", "logout"}, with : CookieRow]
Change == [op : {"change"}, header : Nat, since : SUBSET {"login", "refresh", "logout", "refused"}]
Refusal == [op : {"answer"}, asked : {"refused"}, sets : {<< >>}]
Answer == [op : {"answer"}, asked : {"login", "refresh", "logout"}, sets : CookieRow]

BrowserTask == {SE!Idle} \cup Ask \cup Change \cup Refusal \cup Answer

\* What is on its way are cookies of tokens that were made, and the header that was
\* read is the cookie still, unless an answer has arrived or the session has expired.
Carried(t) ==
    /\ t.op = "ask" => Issued(t.with)
    /\ t.op = "answer" /\ t.asked # "refused" => Issued(t.sets)
    /\ /\ t.op = "change"
       /\ t.since \cap {"login", "refresh", "logout"} = {}
       /\ cookies.access # 0
       => cookies.csrf = t.header

SessionTypes ==
    /\ cookies \in CookieRow
    /\ sessions \in 0..MaxSessions /\ csrf \in 0..MaxCsrf
    /\ blacklist \cup usedTokens \subseteq 1..sessions
    /\ browserTask \in [Request -> BrowserTask]

SessionInv ==
    /\ SessionTypes
    /\ Issued(cookies)
    /\ \A r \in Request : Carried(browserTask[r])

\* The parts of a task, by what it does.
LEMMA BrowserTaskTypes ==
  ASSUME SessionTypes, NEW r \in Request
  PROVE  LET t == browserTask[r]
         IN  /\ t.op \in {"none", "ask", "change", "answer"}
             /\ t.op = "ask" => t \in Ask /\ t.with \in CookieRow
             /\ t.op = "change" => /\ t \in Change /\ t.header \in Nat
                                   /\ t.since \subseteq {"login", "refresh", "logout", "refused"}
             /\ t.op = "answer" =>
                   \/ t.asked = "refused" /\ t.sets = << >>
                   \/ t.asked \in {"login", "refresh", "logout"} /\ t.sets \in CookieRow
<1>1. PICK t \in BrowserTask : t = browserTask[r]
  BY DEF SessionTypes
<1> QED BY <1>1 DEF BrowserTask, Ask, Change, Refusal, Answer, SE!Idle

\* A request goes on, and the cookies stay what they are.
LEMMA SessionTaskStep ==
  ASSUME SessionInv, NEW r \in Request, NEW t \in BrowserTask, SE!Does(r, t),
         sessions' \in sessions..MaxSessions, csrf' \in csrf..MaxCsrf, cookies' = cookies,
         blacklist' \cup usedTokens' \subseteq 1..sessions',
         /\ t.op = "ask" => t.with = cookies
         /\ t.op = "answer" /\ t.asked # "refused" =>
               /\ t.sets.access <= sessions' /\ t.sets.refresh <= sessions' /\ t.sets.csrf <= csrf'
               /\ t.sets.access # 0 => t.sets.csrf # 0
         /\ t.op = "change" => t.header = cookies.csrf
  PROVE  SessionInv'
<1>1. /\ browserTask \in [Request -> BrowserTask] /\ cookies \in CookieRow /\ SessionTypes
      /\ sessions \in Nat /\ csrf \in Nat /\ MaxSessions \in Nat /\ MaxCsrf \in Nat
      /\ sessions' \in Nat /\ csrf' \in Nat /\ sessions <= sessions' /\ csrf <= csrf'
  BY SessionsAssumption DEF SessionInv, SessionTypes
<1>2. /\ browserTask' \in [Request -> BrowserTask] /\ browserTask'[r] = t
      /\ \A q \in Request \ {r} : browserTask'[q] = browserTask[q]
  BY <1>1 DEF SE!Does
<1>3. SessionTypes'
  BY <1>1, <1>2 DEF SessionTypes
<1>4. ASSUME NEW c \in CookieRow, Issued(c)
      PROVE  Issued(c)'
  BY <1>1, <1>4 DEF Issued, CookieRow
<1>5. Issued(cookies)'
  <2>1. PICK c \in CookieRow : c = cookies /\ Issued(c)
    BY <1>1 DEF SessionInv
  <2>2. Issued(c)' /\ cookies' = c
    BY <1>4, <2>1
  <2> QED BY <2>2 DEF Issued
<1>6. Carried(t)'
  BY <1>5 DEF Carried, Issued
<1>7. ASSUME NEW q \in Request \ {r}
      PROVE  Carried(browserTask[q])'
  <2>1. PICK u : u = browserTask[q] /\ Carried(u)
    BY DEF SessionInv
  <2>2. /\ u.op = "ask" => u.with \in CookieRow
        /\ u.op = "answer" /\ u.asked # "refused" => u.sets \in CookieRow
    BY <1>1, <2>1, BrowserTaskTypes
  <2>3. u.op = "ask" => Issued(u.with)'
    <3> SUFFICES ASSUME u.op = "ask" PROVE Issued(u.with)'
      OBVIOUS
    <3>1. PICK c \in CookieRow : c = u.with /\ Issued(c)
      BY <2>1, <2>2 DEF Carried
    <3>2. Issued(c)'
      BY <1>4, <3>1
    <3> QED BY <3>1, <3>2
  <2>4. u.op = "answer" /\ u.asked # "refused" => Issued(u.sets)'
    <3> SUFFICES ASSUME u.op = "answer", u.asked # "refused" PROVE Issued(u.sets)'
      OBVIOUS
    <3>1. PICK c \in CookieRow : c = u.sets /\ Issued(c)
      BY <2>1, <2>2 DEF Carried
    <3>2. Issued(c)'
      BY <1>4, <3>1
    <3> QED BY <3>1, <3>2
  <2>5. Carried(u)'
    BY <2>1, <2>3, <2>4 DEF Carried
  <2>6. browserTask'[q] = u
    BY <1>2, <2>1
  <2> QED BY <2>5, <2>6 DEF Carried, Issued
<1>8. Carried(browserTask[r])'
  BY <1>2, <1>6 DEF Carried, Issued
<1> QED BY <1>3, <1>5, <1>7, <1>8 DEF SessionInv

\* The cookies change: those on their way stay what they are, and a header that is not
\* the cookie any more is one that an answer overtook.
LEMMA SessionCookieStep ==
  ASSUME SessionInv, UNCHANGED <<sessions, csrf, blacklist, usedTokens>>,
         cookies' \in CookieRow, Issued(cookies)', browserTask' \in [Request -> BrowserTask],
         \A q \in Request :
            \/ browserTask'[q] = SE!Idle
            \/ browserTask'[q] = browserTask[q] /\ browserTask[q].op # "change"
            \/ /\ browserTask'[q].op = "change"
               /\ \/ cookies'.access = 0
                  \/ browserTask'[q].since \cap {"login", "refresh", "logout"} # {}
                  \/ cookies'.csrf = browserTask'[q].header
  PROVE  SessionInv'
<1>1. SessionTypes'
  BY DEF SessionInv, SessionTypes
<1>2. ASSUME NEW q \in Request
      PROVE  Carried(browserTask[q])'
  <2>1. PICK u : u = browserTask[q] /\ Carried(u)
    BY DEF SessionInv
  <2>2. CASE browserTask'[q] = u /\ u.op # "change"
    <3>1. Carried(u)'
      BY <2>1, <2>2 DEF Carried, Issued
    <3> QED BY <2>2, <3>1 DEF Carried, Issued
  <2>3. CASE browserTask'[q] = SE!Idle
    BY <2>3 DEF Carried, SE!Idle
  <2>4. CASE browserTask'[q].op = "change"
    BY <2>1, <2>4 DEF Carried, SE!Idle
  <2> QED BY <2>1, <2>2, <2>3, <2>4
<1> QED BY <1>1, <1>2 DEF SessionInv

LEMMA SendInv ==
  ASSUME SessionInv, NEW r \in Request,
         \/ \E asked \in {"login", "refresh", "me", "logout"} : SE!Send(r, asked)
         \/ SE!ReadHeader(r) \/ SE!SendChange(r) \/ SE!Lose(r)
  PROVE  SessionInv'
<1>1. /\ cookies \in CookieRow /\ sessions \in 0..MaxSessions /\ csrf \in 0..MaxCsrf
      /\ blacklist \cup usedTokens \subseteq 1..sessions
  BY DEF SessionInv, SessionTypes
<1>2. /\ sessions \in sessions..MaxSessions /\ csrf \in csrf..MaxCsrf
  BY <1>1, SessionsAssumption
<1>3. ASSUME NEW asked \in {"login", "refresh", "me", "logout"}, SE!Send(r, asked)
      PROVE  SessionInv'
  <2>1. PICK t : t = [op |-> "ask", asked |-> asked, with |-> cookies]
    OBVIOUS
  <2>2. t \in Ask /\ t.op = "ask" /\ t.with = cookies
    BY <1>1, <2>1 DEF Ask
  <2>3. SE!Does(r, t) /\ UNCHANGED <<cookies, blacklist, usedTokens, sessions, csrf>>
    BY <1>3, <2>1 DEF SE!Send
  <2>4. t \in BrowserTask
    BY <2>2 DEF BrowserTask
  <2> QED BY <1>1, <1>2, <2>2, <2>3, <2>4, SessionTaskStep
<1>4. CASE SE!ReadHeader(r)
  <2>1. PICK t : t = [op |-> "change", header |-> cookies.csrf, since |-> {}]
    OBVIOUS
  <2>2. cookies.csrf \in Nat
    BY <1>1 DEF CookieRow
  <2>3. t \in Change /\ t.op = "change" /\ t.header = cookies.csrf
    BY <2>1, <2>2 DEF Change
  <2>4. SE!Does(r, t) /\ UNCHANGED <<cookies, blacklist, usedTokens, sessions, csrf>>
    BY <1>4, <2>1 DEF SE!ReadHeader
  <2>5. t \in BrowserTask
    BY <2>3 DEF BrowserTask
  <2> QED BY <1>1, <1>2, <2>3, <2>4, <2>5, SessionTaskStep
<1>5. CASE SE!SendChange(r) \/ SE!Lose(r)
  <2>1. SE!Idle \in BrowserTask /\ SE!Idle.op = "none"
    BY DEF BrowserTask, SE!Idle
  <2>2. SE!Does(r, SE!Idle) /\ UNCHANGED <<cookies, blacklist, usedTokens, sessions, csrf>>
    BY <1>5 DEF SE!SendChange, SE!Lose
  <2> QED BY <1>1, <1>2, <2>1, <2>2, SessionTaskStep
<1> QED BY <1>3, <1>4, <1>5

LEMMA HandleInv ==
  ASSUME SessionInv, NEW r \in Request,
         SE!HandleLogin(r) \/ SE!HandleRefresh(r) \/ SE!HandleMe(r) \/ SE!HandleLogout(r)
  PROVE  SessionInv'
<1>1. /\ cookies \in CookieRow /\ sessions \in 0..MaxSessions /\ csrf \in 0..MaxCsrf
      /\ blacklist \cup usedTokens \subseteq 1..sessions /\ MaxSessions \in Nat /\ MaxCsrf \in Nat
  BY SessionsAssumption DEF SessionInv, SessionTypes
<1>2. /\ sessions \in sessions..MaxSessions /\ csrf \in csrf..MaxCsrf
  BY <1>1
<1>3. PICK with \in CookieRow : with = browserTask[r].with /\ Issued(with)
  <2>1. browserTask[r].op = "ask"
    BY DEF SE!HandleLogin, SE!HandleRefresh, SE!HandleMe, SE!HandleLogout
  <2> QED BY <2>1, BrowserTaskTypes DEF SessionInv, Carried
<1>4. /\ with.access \in 0..sessions /\ with.refresh \in 0..sessions
      /\ with.access # 0 => with.csrf # 0
  BY <1>1, <1>3 DEF Issued, CookieRow
<1>5. /\ SE!Idle \in BrowserTask /\ SE!Idle.op = "none"
  BY DEF BrowserTask, SE!Idle
<1>6. ASSUME NEW asked \in {"login", "refresh"}, NEW brief \in BOOLEAN,
             sessions < MaxSessions, csrf < MaxCsrf,
             sessions' = sessions + 1, csrf' = csrf + 1,
             SE!Answers(r, asked, SE!NewSession(sessions + 1, brief)),
             UNCHANGED <<cookies, blacklist>>, usedTokens' \subseteq usedTokens \cup (0..sessions \ {0})
      PROVE  SessionInv'
  <2>1. PICK c : c = [access |-> sessions + 1, refresh |-> sessions + 1,
                      csrf |-> csrf + 1, brief |-> brief]
    OBVIOUS
  <2>2. /\ c \in CookieRow /\ c.access = sessions + 1 /\ c.refresh = sessions + 1
        /\ c.csrf = csrf + 1
    BY <1>1, <2>1 DEF CookieRow
  <2>3. PICK t : t = [op |-> "answer", asked |-> asked, sets |-> c]
    OBVIOUS
  <2>4. t \in Answer /\ t.op = "answer" /\ t.sets = c
    BY <2>2, <2>3 DEF Answer
  <2>5. SE!Does(r, t) /\ t \in BrowserTask
    BY <1>6, <2>1, <2>3, <2>4 DEF SE!Answers, SE!NewSession, BrowserTask
  <2>6. /\ sessions' \in sessions..MaxSessions /\ csrf' \in csrf..MaxCsrf
        /\ blacklist' \cup usedTokens' \subseteq 1..sessions'
        /\ t.sets.access <= sessions' /\ t.sets.refresh <= sessions' /\ t.sets.csrf <= csrf'
        /\ t.sets.access # 0 => t.sets.csrf # 0
    BY <1>1, <1>6, <2>2, <2>4
  <2> QED BY <1>6, <2>4, <2>5, <2>6, SessionTaskStep
<1>7. ASSUME SE!Refuses(r), UNCHANGED <<cookies, blacklist, usedTokens, sessions, csrf>>
      PROVE  SessionInv'
  <2>1. PICK t : t = [op |-> "answer", asked |-> "refused", sets |-> << >>]
    OBVIOUS
  <2>2. t \in Refusal /\ t.op = "answer" /\ t.asked = "refused"
    BY <2>1 DEF Refusal
  <2>3. SE!Does(r, t) /\ t \in BrowserTask
    BY <1>7, <2>1, <2>2 DEF SE!Refuses, SE!Answers, BrowserTask
  <2> QED BY <1>1, <1>2, <1>7, <2>2, <2>3, SessionTaskStep
<1>8. CASE SE!HandleLogin(r)
  BY <1>6, <1>8 DEF SE!HandleLogin
<1>9. CASE SE!HandleRefresh(r)
  <2>1. CASE SE!Takes(with.refresh)
    <3>1. /\ sessions < MaxSessions /\ csrf < MaxCsrf
          /\ usedTokens' = usedTokens \cup {with.refresh}
          /\ sessions' = sessions + 1 /\ csrf' = csrf + 1
          /\ SE!Answers(r, "refresh", SE!NewSession(sessions + 1, FALSE))
          /\ UNCHANGED <<cookies, blacklist>>
      BY <1>3, <1>9, <2>1 DEF SE!HandleRefresh
    <3>2. usedTokens' \subseteq usedTokens \cup (0..sessions \ {0})
      BY <1>4, <2>1, <3>1 DEF SE!Takes, SE!None
    <3> QED BY <1>6, <3>1, <3>2
  <2>2. CASE ~SE!Takes(with.refresh)
    BY <1>3, <1>7, <1>9, <2>2 DEF SE!HandleRefresh
  <2> QED BY <2>1, <2>2
<1>10. CASE SE!HandleMe(r)
  <2>1. ~(SE!LoggedIn(with) /\ SE!Seeds(with))
    BY <1>4 DEF SE!LoggedIn, SE!Seeds, SE!None
  <2>2. SE!Does(r, SE!Idle) /\ UNCHANGED <<cookies, blacklist, usedTokens, sessions, csrf>>
    BY <1>3, <1>10, <2>1 DEF SE!HandleMe
  <2> QED BY <1>1, <1>2, <1>5, <2>2, SessionTaskStep
<1>11. CASE SE!HandleLogout(r)
  <2>1. CASE SE!LoggedIn(with)
    <3>1. /\ blacklist' = blacklist \cup {with.access}
          /\ usedTokens' = usedTokens \cup ({with.refresh} \ {0})
          /\ SE!Answers(r, "logout", SE!Clears) /\ UNCHANGED <<cookies, sessions, csrf>>
      BY <1>3, <1>11, <2>1 DEF SE!HandleLogout, SE!None
    <3>2. with.access # 0
      BY <2>1 DEF SE!LoggedIn, SE!None
    <3>3. PICK c : c = SE!NoCookies
      OBVIOUS
    <3>4. c \in CookieRow /\ c.access = 0 /\ c.refresh = 0 /\ c.csrf = 0
      BY <3>3 DEF SE!NoCookies, SE!None, CookieRow
    <3>5. PICK t : t = [op |-> "answer", asked |-> "logout", sets |-> c]
      OBVIOUS
    <3>6. t \in Answer /\ t.op = "answer" /\ t.sets = c
      BY <3>4, <3>5 DEF Answer
    <3>7. SE!Does(r, t) /\ t \in BrowserTask
      BY <3>1, <3>3, <3>5, <3>6 DEF SE!Answers, SE!Clears, BrowserTask
    <3>8. blacklist' \cup usedTokens' \subseteq 1..sessions'
      BY <1>1, <1>4, <3>1, <3>2
    <3>9. t.sets.access <= sessions' /\ t.sets.refresh <= sessions' /\ t.sets.csrf <= csrf'
      BY <1>1, <3>1, <3>4, <3>6
    <3> QED BY <1>1, <1>2, <3>1, <3>4, <3>6, <3>7, <3>8, <3>9, SessionTaskStep
  <2>2. CASE ~SE!LoggedIn(with)
    BY <1>3, <1>7, <1>11, <2>2 DEF SE!HandleLogout
  <2> QED BY <2>1, <2>2
<1> QED BY <1>8, <1>9, <1>10, <1>11

LEMMA ArriveInv ==
  ASSUME SessionInv, NEW r \in Request, SE!Arrive(r)
  PROVE  SessionInv'
<1>1. /\ cookies \in CookieRow /\ SessionTypes /\ Issued(cookies)
      /\ browserTask \in [Request -> BrowserTask]
  BY DEF SessionInv, SessionTypes
<1>2. PICK t : t = browserTask[r] /\ Carried(t)
  BY DEF SessionInv
<1>3. /\ t.op = "answer"
      /\ \/ t.asked = "refused" /\ t.sets = << >>
         \/ t.asked \in {"login", "refresh", "logout"} /\ t.sets \in CookieRow
  BY <1>1, <1>2, BrowserTaskTypes DEF SE!Arrive
<1>4. /\ cookies' = [access |-> SE!After("access", t.sets), refresh |-> SE!After("refresh", t.sets),
                     csrf |-> SE!After("csrf", t.sets), brief |-> SE!After("brief", t.sets)]
      /\ UNCHANGED <<sessions, csrf, blacklist, usedTokens>>
  BY <1>2 DEF SE!Arrive
<1>5. t.asked = "refused" => cookies' = cookies
  <2> SUFFICES ASSUME t.asked = "refused" PROVE cookies' = cookies
    OBVIOUS
  <2>1. t.sets = << >>
    BY <1>3
  <2>2. cookies' = [access |-> cookies.access, refresh |-> cookies.refresh,
                    csrf |-> cookies.csrf, brief |-> cookies.brief]
    BY <1>4, <2>1 DEF SE!After
  <2> QED BY <1>1, <2>2 DEF CookieRow
<1>6. t.asked # "refused" => cookies' = t.sets
  <2> SUFFICES ASSUME t.asked # "refused" PROVE cookies' = t.sets
    OBVIOUS
  <2>1. t.sets \in CookieRow
    BY <1>3
  <2>2. cookies' = [access |-> t.sets.access, refresh |-> t.sets.refresh,
                    csrf |-> t.sets.csrf, brief |-> t.sets.brief]
    BY <1>4, <2>1 DEF SE!After, CookieRow
  <2> QED BY <2>1, <2>2 DEF CookieRow
<1>7. cookies' \in CookieRow /\ Issued(cookies)'
  BY <1>1, <1>2, <1>3, <1>4, <1>5, <1>6 DEF Issued, Carried
<1>8. ASSUME NEW q \in Request
      PROVE  /\ browserTask'[q] \in BrowserTask
             /\ \/ browserTask'[q] = SE!Idle
                \/ browserTask'[q] = browserTask[q] /\ browserTask[q].op # "change"
                \/ /\ browserTask'[q].op = "change"
                   /\ \/ cookies'.access = 0
                      \/ browserTask'[q].since \cap {"login", "refresh", "logout"} # {}
                      \/ cookies'.csrf = browserTask'[q].header
  <2>1. PICK u : u = browserTask[q] /\ Carried(u)
    BY DEF SessionInv
  <2>2. CASE q = r
    BY <2>2 DEF SE!Arrive, BrowserTask
  <2>3. CASE q # r /\ u.op # "change"
    BY <1>1, <2>1, <2>3 DEF SE!Arrive
  <2>4. CASE q # r /\ u.op = "change"
    <3>1. /\ u \in Change /\ u.header \in Nat
          /\ u.since \subseteq {"login", "refresh", "logout", "refused"}
      BY <1>1, <2>1, <2>4, BrowserTaskTypes
    <3>2. PICK since : since = u.since \cup {t.asked}
      OBVIOUS
    <3>3. PICK v : v = [u EXCEPT !.since = since]
      OBVIOUS
    <3>4. browserTask'[q] = v
      BY <1>2, <2>1, <2>4, <3>2, <3>3 DEF SE!Arrive
    <3>5. since \in SUBSET {"login", "refresh", "logout", "refused"}
      BY <1>3, <3>1, <3>2
    <3>6. v \in Change /\ v.op = "change" /\ v.since = since /\ v.header = u.header
      BY <3>1, <3>3, <3>5 DEF Change
    <3>7. \/ cookies'.access = 0
          \/ since \cap {"login", "refresh", "logout"} # {}
          \/ cookies'.csrf = u.header
      BY <1>3, <1>5, <2>1, <2>4, <3>2 DEF Carried
    <3> QED BY <3>4, <3>6, <3>7 DEF BrowserTask
  <2> QED BY <2>1, <2>2, <2>3, <2>4
<1>9. browserTask' \in [Request -> BrowserTask]
  BY <1>8 DEF SE!Arrive
<1> QED BY <1>4, <1>7, <1>8, <1>9, SessionCookieStep

LEMMA SessionNextInv ==
  ASSUME SessionInv, SE!Next
  PROVE  SessionInv'
<1>1. CASE SE!ExpireAccess \/ SE!ExpireAll
  <2>1. /\ cookies \in CookieRow /\ Issued(cookies) /\ browserTask \in [Request -> BrowserTask]
        /\ sessions \in Nat /\ csrf \in Nat
    BY SessionsAssumption DEF SessionInv, SessionTypes
  <2>2. UNCHANGED <<blacklist, usedTokens, sessions, csrf, browserTask>>
    BY <1>1 DEF SE!ExpireAccess, SE!ExpireAll
  <2>3. /\ cookies' \in CookieRow /\ cookies'.access = 0
        /\ cookies'.refresh \in {cookies.refresh, 0} /\ cookies'.csrf \in {cookies.csrf, 0}
    <3>1. CASE SE!ExpireAccess
      <4>1. PICK n \in Nat : /\ n = IF cookies.brief THEN 0 ELSE cookies.csrf
                             /\ n \in {cookies.csrf, 0}
        BY <2>1 DEF CookieRow
      <4>2. cookies' = [cookies EXCEPT !.access = 0, !.csrf = n, !.brief = FALSE]
        BY <3>1, <4>1 DEF SE!ExpireAccess, SE!None
      <4> QED BY <2>1, <4>1, <4>2 DEF CookieRow
    <3>2. CASE SE!ExpireAll
      <4>1. PICK c : c = SE!NoCookies
        OBVIOUS
      <4>2. c \in CookieRow /\ c.access = 0 /\ c.refresh = 0 /\ c.csrf = 0
        BY <4>1 DEF SE!NoCookies, SE!None, CookieRow
      <4> QED BY <3>2, <4>1, <4>2 DEF SE!ExpireAll
    <3> QED BY <1>1, <3>1, <3>2
  <2>4. Issued(cookies)'
    BY <2>1, <2>2, <2>3 DEF Issued
  <2>5. \A q \in Request :
           \/ browserTask'[q] = browserTask[q] /\ browserTask[q].op # "change"
           \/ browserTask'[q].op = "change" /\ cookies'.access = 0
    BY <2>2, <2>3
  <2> QED BY <2>1, <2>2, <2>3, <2>4, <2>5, SessionCookieStep
<1> QED BY <1>1, SendInv, HandleInv, ArriveInv DEF SE!Next

LEMMA SessionStutter ==
  ASSUME SessionInv, UNCHANGED sessionVars
  PROVE  SessionInv'
BY DEF sessionVars, SessionInv, SessionTypes, Issued, Carried

LEMMA SessionInitInv ==
  ASSUME SE!Init
  PROVE  SessionInv
<1>1. PICK c : c = SE!NoCookies
  OBVIOUS
<1>2. c \in CookieRow /\ c.access = 0 /\ c.refresh = 0 /\ c.csrf = 0
  BY <1>1 DEF SE!NoCookies, SE!None, CookieRow
<1>3. /\ cookies = c /\ sessions = 0 /\ csrf = 0 /\ blacklist = {} /\ usedTokens = {}
      /\ browserTask = [r \in Request |-> SE!Idle]
  BY <1>1 DEF SE!Init
<1>4. SessionTypes
  BY <1>2, <1>3, SessionsAssumption DEF SessionTypes, BrowserTask
<1> QED BY <1>2, <1>3, <1>4 DEF SessionInv, Issued, Carried, SE!Idle

LEMMA SessionTypeOK ==
  ASSUME SessionInv
  PROVE  SE!TypeOK
<1>1. SessionTypes /\ Issued(cookies) /\ sessions \in 0..MaxSessions /\ csrf \in 0..MaxCsrf
  BY DEF SessionInv, SessionTypes
<1>2. cookies \in [access : 0..MaxSessions, refresh : 0..MaxSessions,
                   csrf : 0..MaxCsrf, brief : BOOLEAN]
  <2>1. cookies \in CookieRow
    BY <1>1 DEF SessionTypes
  <2>2. /\ cookies.access \in 0..MaxSessions /\ cookies.refresh \in 0..MaxSessions
        /\ cookies.csrf \in 0..MaxCsrf
    BY <1>1, <2>1, SessionsAssumption DEF Issued, CookieRow
  <2> QED BY <2>1, <2>2 DEF CookieRow
<1>3. ASSUME NEW r \in Request
      PROVE  browserTask[r].op \in {"none", "ask", "change", "sent", "answer"}
  BY <1>1, BrowserTaskTypes
<1> QED BY <1>1, <1>2, <1>3 DEF SessionTypes, SE!TypeOK

\* What a change and a refresh are refused for.
LEMMA RefusedFor ==
  ASSUME SessionInv, NEW r \in Request
  PROVE  /\ SE!SendChange(r) /\ SE!Mismatch(r) =>
               browserTask[r].since \cap {"login", "refresh", "logout", "seed"} # {}
         /\ SE!HandleRefresh(r) /\ browserTask'[r].asked = "refused" =>
               browserTask[r].with.refresh = SE!None
<1>1. PICK t : t = browserTask[r] /\ Carried(t)
  BY DEF SessionInv
<1>2. ASSUME SE!SendChange(r), SE!Mismatch(r)
      PROVE  t.since \cap {"login", "refresh", "logout", "seed"} # {}
  BY <1>1, <1>2 DEF SE!SendChange, SE!Mismatch, SE!None, Carried, SessionInv, Issued
<1>3. ASSUME SE!HandleRefresh(r), SE!Takes(t.with.refresh)
      PROVE  browserTask'[r].asked = "refresh"
  <2>1. SE!Answers(r, "refresh", SE!NewSession(sessions + 1, FALSE))
    BY <1>1, <1>3 DEF SE!HandleRefresh
  <2> QED BY <2>1 DEF SE!Answers, SE!Does, SessionInv, SessionTypes
<1> QED BY <1>1, <1>2, <1>3 DEF SE!Takes
-----------------------------------------------------------------------------
(* Settings *)

Value == Date \cup Percent \cup {ST!None}

\* The keys that have to do with a period.
KeysOf(p) == {ST!KeyOf[p][e] : e \in DOMAIN ST!KeyOf[p]} \cup {ST!Legacy[p].key}

Write == [key : ST!Keys, value : Value]

Edit == [op : {"edit"}, period : ST!Period, asked : UNION {ST!Asked(p) : p \in ST!Period},
         clean : BOOLEAN, todo : SUBSET Write]
Moving == [op : {"move"}, period : ST!Period, value : Value \ {ST!None}, at : {"set", "drop"}]

SettingTask == {ST!Idle} \cup Edit \cup Moving

\* An edit writes what was asked of its period.
Fits(t) ==
    t.op = "edit" => t.asked \in ST!Asked(t.period) /\ t.todo \subseteq ST!Writes(t.period, t.asked)

\* A clean edit has its period to itself, and of what it has written nothing is gone.
Alone(c) ==
    LET t == settingTask[c]
    IN  t.op = "edit" /\ t.clean =>
           /\ \A d \in Request \ {c} : settingTask[d].op # "none" => settingTask[d].period # t.period
           /\ \A w \in ST!Writes(t.period, t.asked) \ t.todo : settings[w.key] = w.value

SettingTypes ==
    /\ settings \in [ST!Keys -> Value]
    /\ edits \in 0..MaxEdits
    /\ settingTask \in [Request -> SettingTask]

SettingInv ==
    /\ SettingTypes
    /\ \A c \in Request : Fits(settingTask[c]) /\ Alone(c)

\* No two parts share a key, and none has the legacy key of a period.
LEMMA KeysApart ==
  /\ \A p \in ST!Period : /\ KeysOf(p) \subseteq ST!Keys /\ ST!Legacy[p].key \in KeysOf(p)
                          /\ ST!Legacy[p].part \in DOMAIN ST!KeyOf[p]
  /\ \A p, q \in ST!Period : p # q => KeysOf(p) \cap KeysOf(q) = {}
  /\ \A p \in ST!Period : \A a \in DOMAIN ST!KeyOf[p] :
        /\ ST!KeyOf[p][a] \in KeysOf(p) /\ ST!KeyOf[p][a] # ST!Legacy[p].key
        /\ \A b \in DOMAIN ST!KeyOf[p] : ST!KeyOf[p][a] = ST!KeyOf[p][b] => a = b
<1>1. ST!Period = {"unlimited", "promotional"}
  BY DEF ST!Period
<1>2. /\ ST!KeyOf["unlimited"] = [start |-> "unlimited_start", end |-> "unlimited_end"]
      /\ ST!Legacy["unlimited"] = [part |-> "end", key |-> "free_period_end"]
      /\ DOMAIN ST!KeyOf["unlimited"] = {"start", "end"}
  BY DEF ST!KeyOf, ST!Legacy
<1>3. /\ ST!KeyOf["promotional"] = [start |-> "promotional_start", end |-> "promotional_end",
                                    percent |-> "promotional_percent"]
      /\ ST!Legacy["promotional"] = [part |-> "percent", key |-> "early_adopter_discount"]
      /\ DOMAIN ST!KeyOf["promotional"] = {"start", "end", "percent"}
  BY DEF ST!KeyOf, ST!Legacy
<1>4. \A p \in ST!Period : KeysOf(p) \subseteq ST!Keys /\ ST!Legacy[p].key \in KeysOf(p)
  BY DEF KeysOf, ST!Keys
<1>5. \A p \in ST!Period : ST!Legacy[p].part \in DOMAIN ST!KeyOf[p]
  BY <1>1, <1>2, <1>3
<1>6. KeysOf("unlimited") = {"unlimited_start", "unlimited_end", "free_period_end"}
  BY <1>2 DEF KeysOf
<1>7. KeysOf("promotional") = {"promotional_start", "promotional_end", "promotional_percent",
                               "early_adopter_discount"}
  BY <1>3 DEF KeysOf
<1>8. \A p, q \in ST!Period : p # q => KeysOf(p) \cap KeysOf(q) = {}
  BY <1>1, <1>6, <1>7
<1>9. ASSUME NEW p \in ST!Period, NEW a \in DOMAIN ST!KeyOf[p]
      PROVE  /\ ST!KeyOf[p][a] \in KeysOf(p) /\ ST!KeyOf[p][a] # ST!Legacy[p].key
             /\ \A b \in DOMAIN ST!KeyOf[p] : ST!KeyOf[p][a] = ST!KeyOf[p][b] => a = b
  <2>1. ST!KeyOf[p][a] \in KeysOf(p)
    BY DEF KeysOf
  <2>2. CASE p = "unlimited"
    BY <1>2, <2>1, <2>2
  <2>3. CASE p = "promotional"
    BY <1>3, <2>1, <2>3
  <2> QED BY <1>1, <2>2, <2>3
<1> QED BY <1>4, <1>5, <1>8, <1>9

\* What may be asked for: parts of the period, and none of them nothing but the dates of
\* a period that is taken away as a whole.
LEMMA AskedTypes ==
  ASSUME NEW p \in ST!Period, NEW asked \in ST!Asked(p)
  PROVE  /\ DOMAIN asked \subseteq DOMAIN ST!KeyOf[p] /\ DOMAIN asked # {}
         /\ \A e \in DOMAIN asked : asked[e] \in Value
         /\ \A e \in DOMAIN asked :
               asked[e] = ST!None => "start" \in DOMAIN asked /\ e \in {"start", "end"}
<1>1. ST!None = -1 /\ (\A d \in Date : d \in Nat) /\ (\A x \in Percent : x \in Nat)
  BY SettingsAssumption DEF ST!None
<1>2. /\ DOMAIN ST!KeyOf["unlimited"] = {"start", "end"}
      /\ DOMAIN ST!KeyOf["promotional"] = {"start", "end", "percent"}
  BY DEF ST!KeyOf
<1>3. \A d \in ST!Dates : d.start \in Value /\ d.end \in Value
  BY DEF ST!Dates, Value
<1>4. CASE p = "unlimited" /\ asked \in ST!Dates
  <2>1. DOMAIN asked = {"start", "end"}
    BY <1>4 DEF ST!Dates
  <2> QED BY <1>2, <1>3, <1>4, <2>1
<1>5. CASE p = "unlimited" /\ asked \in [end : Date]
  <2>1. DOMAIN asked = {"end"} /\ asked.end \in Date
    BY <1>5
  <2> QED BY <1>1, <1>2, <1>5, <2>1 DEF Value
<1>6. CASE p = "promotional" /\ asked \in [percent : Percent]
  <2>1. DOMAIN asked = {"percent"} /\ asked.percent \in Percent
    BY <1>6
  <2> QED BY <1>1, <1>2, <1>6, <2>1 DEF Value
<1>7. CASE p = "promotional" /\ asked \notin [percent : Percent]
  <2>1. PICK d \in ST!Dates, x \in Percent : asked = [start |-> d.start, end |-> d.end, percent |-> x]
    BY <1>7 DEF ST!Asked
  <2>2. /\ DOMAIN asked = {"start", "end", "percent"}
        /\ asked.start = d.start /\ asked.end = d.end /\ asked.percent = x
    BY <2>1
  <2> QED BY <1>1, <1>2, <1>3, <1>7, <2>2 DEF Value
<1>8. p = "unlimited" => asked \in ST!Dates \/ asked \in [end : Date]
  BY DEF ST!Asked
<1> QED BY <1>4, <1>5, <1>6, <1>7, <1>8 DEF ST!Period

\* The rows that an edit writes are of its period, each of a key of its own.
LEMMA WritesOf ==
  ASSUME NEW p \in ST!Period, NEW asked \in ST!Asked(p)
  PROVE  /\ \A w \in ST!Writes(p, asked) : w \in Write /\ w.key \in KeysOf(p)
         /\ \A v, w \in ST!Writes(p, asked) : v.key = w.key => v = w
<1>1. /\ DOMAIN asked \subseteq DOMAIN ST!KeyOf[p]
      /\ \A e \in DOMAIN asked : asked[e] \in Value
  BY AskedTypes
<1>2. ASSUME NEW w \in ST!Writes(p, asked)
      PROVE  \/ \E e \in DOMAIN asked : w = [key |-> ST!KeyOf[p][e], value |-> asked[e]]
             \/ w = [key |-> ST!Legacy[p].key, value |-> ST!None]
  BY DEF ST!Writes
<1>3. ASSUME NEW w \in ST!Writes(p, asked)
      PROVE  w \in Write /\ w.key \in KeysOf(p)
  <2>1. PICK k \in KeysOf(p), v \in Value : w = [key |-> k, value |-> v]
    BY <1>1, <1>2, KeysApart DEF Value
  <2> QED BY <2>1, KeysApart DEF Write
<1>4. ASSUME NEW v \in ST!Writes(p, asked), NEW w \in ST!Writes(p, asked), v.key = w.key
      PROVE  v = w
  <2>1. CASE v = [key |-> ST!Legacy[p].key, value |-> ST!None]
    <3>1. v.key = ST!Legacy[p].key
      BY <2>1
    <3>2. ASSUME NEW e \in DOMAIN asked, w = [key |-> ST!KeyOf[p][e], value |-> asked[e]]
          PROVE  FALSE
      <4>1. w.key = ST!KeyOf[p][e] /\ e \in DOMAIN ST!KeyOf[p]
        BY <1>1, <3>2
      <4> QED BY <1>4, <3>1, <4>1, KeysApart
    <3> QED BY <1>2, <2>1, <3>2
  <2>2. CASE w = [key |-> ST!Legacy[p].key, value |-> ST!None]
    <3>1. w.key = ST!Legacy[p].key
      BY <2>2
    <3>2. ASSUME NEW e \in DOMAIN asked, v = [key |-> ST!KeyOf[p][e], value |-> asked[e]]
          PROVE  FALSE
      <4>1. v.key = ST!KeyOf[p][e] /\ e \in DOMAIN ST!KeyOf[p]
        BY <1>1, <3>2
      <4> QED BY <1>4, <3>1, <4>1, KeysApart
    <3> QED BY <1>2, <2>2, <3>2
  <2>3. ASSUME NEW a \in DOMAIN asked, v = [key |-> ST!KeyOf[p][a], value |-> asked[a]],
               NEW b \in DOMAIN asked, w = [key |-> ST!KeyOf[p][b], value |-> asked[b]]
        PROVE  v = w
    <3>1. ST!KeyOf[p][a] = ST!KeyOf[p][b]
      BY <1>4, <2>3
    <3>2. a = b
      BY <1>1, <3>1, KeysApart
    <3> QED BY <2>3, <3>2
  <2> QED BY <1>2, <2>1, <2>2, <2>3
<1> QED BY <1>3, <1>4

\* The parts of a task, by what it does.
LEMMA SettingTaskTypes ==
  ASSUME SettingTypes, NEW c \in Request
  PROVE  LET t == settingTask[c]
         IN  /\ t.op \in {"none", "edit", "move"}
             /\ t.op = "none" => t = ST!Idle
             /\ t.op # "none" => t # ST!Idle /\ t.period \in ST!Period
             /\ t.op = "edit" => t \in Edit /\ t.clean \in BOOLEAN /\ t.todo \subseteq Write
             /\ t.op = "move" => t \in Moving /\ t.value \in Value \ {ST!None} /\ t.at \in {"set", "drop"}
<1>1. PICK t \in SettingTask : t = settingTask[c]
  BY DEF SettingTypes
<1>2. ST!Idle.op = "none"
  BY DEF ST!Idle
<1> QED BY <1>1, <1>2 DEF SettingTask, Edit, Moving

\* A request begins to write period p: the clean edits that are left are of the other one.
LEMMA DisturbingInv ==
  ASSUME SettingInv, NEW c \in Request, NEW p \in ST!Period, NEW t \in SettingTask, t.period = p,
         ST!Disturbing(c, p, t), UNCHANGED settings, edits' \in 0..MaxEdits, Fits(t),
         t.op = "edit" /\ t.clean => /\ ~ST!Busy(p)
                                     /\ ST!Writes(p, t.asked) \subseteq t.todo
  PROVE  SettingInv'
<1>1. settingTask \in [Request -> SettingTask] /\ SettingTypes
  BY DEF SettingInv, SettingTypes
<1>2. ASSUME NEW d \in Request \ {c}
      PROVE  /\ settingTask'[d] \in SettingTask /\ Fits(settingTask'[d])
             /\ settingTask'[d].op = settingTask[d].op
             /\ settingTask[d].op # "none" => settingTask'[d].period = settingTask[d].period
             /\ settingTask'[d].op = "edit" =>
                   /\ settingTask'[d].asked = settingTask[d].asked
                   /\ settingTask'[d].todo = settingTask[d].todo
                   /\ settingTask'[d].clean =>
                         settingTask[d].clean /\ settingTask'[d].period # p
  <2>1. PICK u : u = settingTask[d] /\ Fits(u)
    BY DEF SettingInv
  <2>2. CASE u.op = "edit" /\ u.period = p
    <3>1. u \in Edit
      BY <1>1, <2>1, <2>2, SettingTaskTypes
    <3>2. PICK v : v = [u EXCEPT !.clean = FALSE]
      OBVIOUS
    <3>3. settingTask'[d] = v
      BY <2>1, <2>2, <3>2 DEF ST!Disturbing
    <3>4. /\ v \in Edit /\ v.op = u.op /\ v.period = u.period /\ v.asked = u.asked
          /\ v.todo = u.todo /\ ~v.clean
      BY <3>1, <3>2 DEF Edit
    <3> QED BY <2>1, <2>2, <3>3, <3>4 DEF Fits, SettingTask
  <2>3. CASE ~(u.op = "edit" /\ u.period = p)
    <3>1. settingTask'[d] = u
      BY <2>1, <2>3 DEF ST!Disturbing
    <3> QED BY <1>1, <2>1, <2>3, <3>1
  <2> QED BY <2>2, <2>3
<1>3. settingTask'[c] = t
  BY DEF ST!Disturbing
<1>4. settingTask' \in [Request -> SettingTask]
  BY <1>2, <1>3 DEF ST!Disturbing
<1>5. SettingTypes'
  BY <1>1, <1>4 DEF SettingTypes
<1>6. \A d \in Request : Fits(settingTask[d])'
  BY <1>2, <1>3 DEF Fits
<1>7. Alone(c)'
  <2> SUFFICES ASSUME t.op = "edit", t.clean
               PROVE  /\ \A d \in Request \ {c} : settingTask'[d].op # "none" =>
                            settingTask'[d].period # t.period
                      /\ \A w \in ST!Writes(t.period, t.asked) \ t.todo : settings'[w.key] = w.value
    BY <1>3 DEF Alone
  <2>1. ASSUME NEW d \in Request \ {c}, settingTask[d].op # "none"
        PROVE  settingTask[d].period # p
    BY <1>1, <2>1, SettingTaskTypes DEF ST!Busy
  <2> QED BY <1>2, <2>1
<1>8. ASSUME NEW d \in Request \ {c}
      PROVE  Alone(d)'
  <2>1. Alone(d)
    BY DEF SettingInv
  <2> SUFFICES ASSUME settingTask'[d].op = "edit", settingTask'[d].clean
               PROVE  /\ \A e \in Request \ {d} : settingTask'[e].op # "none" =>
                            settingTask'[e].period # settingTask'[d].period
                      /\ \A w \in ST!Writes(settingTask'[d].period, settingTask'[d].asked)
                                    \ settingTask'[d].todo : settings'[w.key] = w.value
    BY DEF Alone
  <2>2. PICK u : u = settingTask[d]
    OBVIOUS
  <2>3. /\ u.op = "edit" /\ u.clean /\ settingTask'[d].period = u.period
        /\ settingTask'[d].asked = u.asked /\ settingTask'[d].todo = u.todo /\ u.period # p
    BY <1>2, <2>2
  <2>4. /\ \A e \in Request \ {d} : settingTask[e].op # "none" => settingTask[e].period # u.period
        /\ \A w \in ST!Writes(u.period, u.asked) \ u.todo : settings[w.key] = w.value
    BY <2>1, <2>2, <2>3 DEF Alone
  <2> QED BY <1>2, <1>3, <2>3, <2>4
<1> QED BY <1>5, <1>6, <1>7, <1>8 DEF SettingInv

\* A request goes on with what it writes of its period, or ends.
LEMMA SettingTaskStep ==
  ASSUME SettingInv, NEW c \in Request, settingTask[c].op # "none",
         NEW t \in SettingTask, ST!Does(c, t), Fits(t), UNCHANGED edits,
         t.op # "none" => t.period = settingTask[c].period,
         settings' \in [ST!Keys -> Value],
         \A k \in ST!Keys : settings'[k] # settings[k] => k \in KeysOf(settingTask[c].period),
         t.op = "edit" /\ t.clean =>
            /\ settingTask[c].op = "edit" /\ settingTask[c].clean
            /\ \A w \in ST!Writes(t.period, t.asked) \ t.todo : settings'[w.key] = w.value
  PROVE  SettingInv'
<1>1. settingTask \in [Request -> SettingTask] /\ SettingTypes
  BY DEF SettingInv, SettingTypes
<1>2. /\ settingTask' \in [Request -> SettingTask] /\ settingTask'[c] = t
      /\ \A d \in Request \ {c} : settingTask'[d] = settingTask[d]
  BY <1>1 DEF ST!Does
<1>3. SettingTypes'
  BY <1>1, <1>2 DEF SettingTypes
<1>4. \A d \in Request : Fits(settingTask'[d])
  BY <1>2 DEF SettingInv
<1>5. Alone(c)'
  BY <1>2 DEF Alone, SettingInv
<1>6. ASSUME NEW d \in Request \ {c}
      PROVE  Alone(d)'
  <2>1. PICK u : u = settingTask[d]
    OBVIOUS
  <2>2. settingTask'[d] = u
    BY <1>2, <2>1
  <2> SUFFICES ASSUME u.op = "edit", u.clean
               PROVE  /\ \A e \in Request \ {d} : settingTask'[e].op # "none" =>
                            settingTask'[e].period # u.period
                      /\ \A w \in ST!Writes(u.period, u.asked) \ u.todo : settings'[w.key] = w.value
    BY <2>2 DEF Alone
  <2>3. /\ \A e \in Request \ {d} : settingTask[e].op # "none" => settingTask[e].period # u.period
        /\ \A w \in ST!Writes(u.period, u.asked) \ u.todo : settings[w.key] = w.value
    BY <2>1 DEF SettingInv, Alone
  <2>4. /\ settingTask[c].period \in ST!Period /\ settingTask[c].period # u.period
        /\ u.period \in ST!Period /\ u.asked \in ST!Asked(u.period)
    BY <1>1, <2>1, <2>3, SettingTaskTypes DEF SettingInv, Fits
  <2>5. ASSUME NEW w \in ST!Writes(u.period, u.asked)
        PROVE  settings'[w.key] = settings[w.key]
    <3>1. w.key \in KeysOf(u.period) /\ w.key \in ST!Keys
      BY <2>4, WritesOf DEF Write
    <3>2. w.key \notin KeysOf(settingTask[c].period)
      BY <2>4, <3>1, KeysApart
    <3> QED BY <3>1, <3>2
  <2> QED BY <1>2, <2>3, <2>5
<1> QED BY <1>3, <1>4, <1>5, <1>6 DEF SettingInv, Fits

\* What an edit finds in its period once a write of it has landed.
LEMMA WriteLands ==
  ASSUME SettingInv, NEW c \in Request, settingTask[c].op = "edit",
         NEW write \in settingTask[c].todo, ST!WriteOne(c, write)
  PROVE  LET t == settingTask[c]
         IN  /\ settings' \in [ST!Keys -> Value]
             /\ write.key \in KeysOf(t.period)
             /\ \A k \in ST!Keys : settings'[k] = IF k = write.key THEN write.value ELSE settings[k]
             /\ t.clean => \A w \in ST!Writes(t.period, t.asked) \ (t.todo \ {write}) :
                              settings'[w.key] = w.value
<1>1. PICK t : t = settingTask[c] /\ Fits(t) /\ Alone(c)
  BY DEF SettingInv
<1>2. /\ t.period \in ST!Period /\ t.asked \in ST!Asked(t.period)
      /\ t.todo \subseteq ST!Writes(t.period, t.asked)
      /\ settings \in [ST!Keys -> Value] /\ write \in t.todo /\ t.op = "edit"
  BY <1>1, SettingTaskTypes DEF Fits, SettingInv, SettingTypes
<1>3. write \in Write /\ write.key \in KeysOf(t.period) /\ write.key \in ST!Keys /\ write.value \in Value
  BY <1>2, WritesOf DEF Write
<1>4. settings' = [settings EXCEPT ![write.key] = write.value]
  BY DEF ST!WriteOne
<1>5. /\ settings' \in [ST!Keys -> Value]
      /\ \A k \in ST!Keys : settings'[k] = IF k = write.key THEN write.value ELSE settings[k]
  BY <1>2, <1>3, <1>4
<1>6. ASSUME t.clean, NEW w \in ST!Writes(t.period, t.asked) \ (t.todo \ {write})
      PROVE  settings'[w.key] = w.value
  <2>1. w.key \in ST!Keys
    BY <1>2, WritesOf DEF Write
  <2>2. CASE w = write
    BY <1>5, <2>1, <2>2
  <2>3. CASE w # write
    <3>1. w.key # write.key
      BY <1>2, <2>3, WritesOf
    <3>2. w \in ST!Writes(t.period, t.asked) \ t.todo
      BY <1>6, <2>3
    <3>3. settings[w.key] = w.value
      BY <1>1, <1>2, <1>6, <3>2 DEF Alone
    <3> QED BY <1>5, <2>1, <3>1, <3>3
  <2> QED BY <2>2, <2>3
<1> QED BY <1>1, <1>3, <1>5, <1>6

LEMMA EditInv ==
  ASSUME SettingInv, NEW c \in Request, settingTask[c].op = "edit",
         NEW write \in settingTask[c].todo, ST!WriteOne(c, write) \/ ST!WriteFails(c, write)
  PROVE  SettingInv'
<1>1. PICK t : t = settingTask[c] /\ Fits(t)
  BY DEF SettingInv
<1>2. /\ t \in Edit /\ t.op = "edit" /\ t.asked \in ST!Asked(t.period) /\ t.period \in ST!Period
      /\ t.todo \subseteq ST!Writes(t.period, t.asked) /\ t.todo \subseteq Write
      /\ settings \in [ST!Keys -> Value]
  BY <1>1, SettingTaskTypes DEF Fits, SettingInv, SettingTypes
<1>3. PICK rest : rest = t.todo \ {write}
  OBVIOUS
<1>4. rest \subseteq Write /\ rest \subseteq ST!Writes(t.period, t.asked)
  BY <1>2, <1>3
<1>5. ST!Idle \in SettingTask /\ ST!Idle.op = "none" /\ Fits(ST!Idle)
  BY DEF SettingTask, ST!Idle, Fits
<1>6. CASE ST!WriteOne(c, write)
  <2>1. /\ settings' \in [ST!Keys -> Value] /\ write.key \in KeysOf(t.period)
        /\ \A k \in ST!Keys : settings'[k] = IF k = write.key THEN write.value ELSE settings[k]
        /\ t.clean => \A w \in ST!Writes(t.period, t.asked) \ rest : settings'[w.key] = w.value
    BY <1>1, <1>3, <1>6, WriteLands
  <2>2. \A k \in ST!Keys : settings'[k] # settings[k] => k \in KeysOf(settingTask[c].period)
    BY <1>1, <2>1
  <2>3. PICK v : v = [t EXCEPT !.todo = rest]
    OBVIOUS
  <2>4. /\ v \in Edit /\ v.op = "edit" /\ v.period = t.period /\ v.asked = t.asked
        /\ v.clean = t.clean /\ v.todo = rest
    BY <1>2, <1>4, <2>3 DEF Edit
  <2>5. v \in SettingTask /\ Fits(v)
    BY <1>2, <1>4, <2>4 DEF SettingTask, Fits
  <2>6. UNCHANGED edits /\ (ST!Does(c, ST!Idle) \/ ST!Does(c, v))
    BY <1>1, <1>3, <1>6, <2>3 DEF ST!WriteOne
  <2>7. CASE ST!Does(c, ST!Idle)
    BY <1>1, <1>2, <1>5, <2>1, <2>2, <2>6, <2>7, SettingTaskStep
  <2>8. CASE ST!Does(c, v)
    BY <1>1, <1>2, <2>1, <2>2, <2>4, <2>5, <2>6, <2>8, SettingTaskStep
  <2> QED BY <2>6, <2>7, <2>8
<1>7. CASE ST!WriteFails(c, write)
  <2>1. PICK v : v = [t EXCEPT !.todo = rest, !.clean = FALSE]
    OBVIOUS
  <2>2. /\ v \in Edit /\ v.op = "edit" /\ v.period = t.period /\ v.asked = t.asked
        /\ ~v.clean /\ v.todo = rest
    BY <1>2, <1>4, <2>1 DEF Edit
  <2>3. v \in SettingTask /\ Fits(v)
    BY <1>2, <1>4, <2>2 DEF SettingTask, Fits
  <2>4. UNCHANGED <<settings, edits>> /\ (ST!Does(c, ST!Idle) \/ ST!Does(c, v))
    BY <1>1, <1>3, <1>7, <2>1 DEF ST!WriteFails
  <2>5. CASE ST!Does(c, ST!Idle)
    BY <1>1, <1>2, <1>5, <2>4, <2>5, SettingTaskStep
  <2>6. CASE ST!Does(c, v)
    BY <1>1, <1>2, <2>2, <2>3, <2>4, <2>6, SettingTaskStep
  <2> QED BY <2>4, <2>5, <2>6
<1> QED BY <1>6, <1>7

LEMMA MoveInv ==
  ASSUME SettingInv, NEW c \in Request, ST!Move(c)
  PROVE  SettingInv'
<1>1. PICK t : t = settingTask[c]
  OBVIOUS
<1>2. /\ t \in Moving /\ t.op = "move" /\ t.period \in ST!Period /\ t.value \in Value
      /\ t.at \in {"set", "drop"} /\ settings \in [ST!Keys -> Value]
  BY <1>1, SettingTaskTypes DEF ST!Move, SettingInv, SettingTypes
<1>3. PICK k \in KeysOf(t.period), v \in Value : settings' = [settings EXCEPT ![k] = v]
  <2>1. /\ ST!KeyOf[t.period][ST!Legacy[t.period].part] \in KeysOf(t.period)
        /\ ST!Legacy[t.period].key \in KeysOf(t.period)
    BY <1>2, KeysApart
  <2>2. CASE t.at = "set"
    <3>1. settings' = [settings EXCEPT ![ST!KeyOf[t.period][ST!Legacy[t.period].part]] = t.value]
      BY <1>1, <2>2 DEF ST!Move, ST!NextOfMove
    <3> QED BY <1>2, <2>1, <3>1
  <2>3. CASE t.at = "drop"
    <3>1. settings' = [settings EXCEPT ![ST!Legacy[t.period].key] = ST!None]
      BY <1>1, <2>3 DEF ST!Move, ST!NextOfMove
    <3>2. ST!None \in Value
      BY DEF Value
    <3> QED BY <1>2, <2>1, <3>1, <3>2
  <2> QED BY <1>2, <2>2, <2>3
<1>4. /\ settings' \in [ST!Keys -> Value]
      /\ \A l \in ST!Keys : settings'[l] # settings[l] => l \in KeysOf(settingTask[c].period)
  BY <1>1, <1>2, <1>3, KeysApart
<1>5. PICK u : u = [t EXCEPT !.at = "drop"]
  OBVIOUS
<1>6. u \in Moving /\ u.op = "move" /\ u.period = t.period
  BY <1>2, <1>5 DEF Moving
<1>7. u \in SettingTask /\ Fits(u)
  BY <1>6 DEF SettingTask, Fits
<1>8. ST!Idle \in SettingTask /\ ST!Idle.op = "none" /\ Fits(ST!Idle)
  BY DEF SettingTask, ST!Idle, Fits
<1>9. UNCHANGED edits /\ (ST!Does(c, ST!Idle) \/ ST!Does(c, u))
  BY <1>1, <1>5 DEF ST!Move
<1>10. CASE ST!Does(c, ST!Idle)
  BY <1>1, <1>2, <1>4, <1>8, <1>9, <1>10, SettingTaskStep
<1>11. CASE ST!Does(c, u)
  BY <1>1, <1>2, <1>4, <1>6, <1>7, <1>9, <1>11, SettingTaskStep
<1> QED BY <1>9, <1>10, <1>11

LEMMA SettingNextInv ==
  ASSUME SettingInv, ST!Next
  PROVE  SettingInv'
<1>1. settings \in [ST!Keys -> Value] /\ edits \in 0..MaxEdits /\ MaxEdits \in Nat
  BY SettingsAssumption DEF SettingInv, SettingTypes
<1>2. ASSUME NEW c \in Request, NEW p \in ST!Period, ST!BeginMove(c, p)
      PROVE  SettingInv'
  <2>1. settings[ST!Legacy[p].key] \in Value \ {ST!None}
    BY <1>1, <1>2, KeysApart DEF ST!BeginMove
  <2>2. PICK t : t = [op |-> "move", period |-> p, value |-> settings[ST!Legacy[p].key], at |-> "set"]
    OBVIOUS
  <2>3. t \in Moving /\ t.op = "move" /\ t.period = p
    BY <2>1, <2>2 DEF Moving
  <2>4. t \in SettingTask /\ Fits(t)
    BY <2>3 DEF SettingTask, Fits
  <2>5. ST!Disturbing(c, p, t) /\ UNCHANGED <<settings, edits>>
    BY <1>2, <2>2 DEF ST!BeginMove
  <2> QED BY <1>1, <2>3, <2>4, <2>5, DisturbingInv
<1>3. ASSUME NEW c \in Request, NEW p \in ST!Period, NEW asked \in ST!Asked(p), ST!BeginEdit(c, p, asked)
      PROVE  SettingInv'
  <2>1. PICK writes : writes = ST!Writes(p, asked)
    OBVIOUS
  <2>2. PICK alone \in BOOLEAN : alone = ~ST!Busy(p)
    OBVIOUS
  <2>3. PICK t : t = [op |-> "edit", period |-> p, asked |-> asked, clean |-> alone, todo |-> writes]
    OBVIOUS
  <2>4. writes \subseteq Write /\ asked \in UNION {ST!Asked(q) : q \in ST!Period}
    BY <2>1, WritesOf
  <2>5. /\ t \in Edit /\ t.op = "edit" /\ t.period = p /\ t.asked = asked
        /\ t.clean = alone /\ t.todo = writes
    BY <2>3, <2>4 DEF Edit
  <2>6. t \in SettingTask /\ Fits(t)
    BY <2>1, <2>5 DEF SettingTask, Fits
  <2>7. ST!Disturbing(c, p, t) /\ UNCHANGED settings /\ edits' \in 0..MaxEdits
    BY <1>1, <1>3, <2>1, <2>2, <2>3 DEF ST!BeginEdit
  <2> QED BY <2>1, <2>2, <2>5, <2>6, <2>7, DisturbingInv
<1> QED BY <1>2, <1>3, EditInv, MoveInv DEF ST!Next

LEMMA SettingStutter ==
  ASSUME SettingInv, UNCHANGED settingVars
  PROVE  SettingInv'
BY DEF settingVars, SettingInv, SettingTypes, Fits, Alone

LEMMA SettingInitInv ==
  ASSUME ST!Init
  PROVE  SettingInv
<1>1. settings \in [ST!Keys -> Value]
  <2>1. PICK end \in Date \cup {ST!None}, percent \in Percent \cup {ST!None} :
           settings = [k \in ST!Keys |-> CASE k = ST!Legacy["unlimited"].key -> end
                                           [] k = ST!Legacy["promotional"].key -> percent
                                           [] OTHER -> ST!None]
    BY DEF ST!Init
  <2> QED BY <2>1 DEF Value
<1>2. settingTask = [c \in Request |-> ST!Idle] /\ edits = 0
  BY DEF ST!Init
<1>3. SettingTypes
  BY <1>1, <1>2, SettingsAssumption DEF SettingTypes, SettingTask
<1> QED BY <1>2, <1>3 DEF SettingInv, Fits, Alone, ST!Idle

LEMMA SettingTypeOK ==
  ASSUME SettingInv
  PROVE  ST!TypeOK
BY SettingTaskTypes DEF SettingInv, SettingTypes, ST!TypeOK, Value

\* After the last write of a clean edit, a read finds what was asked for.
LEMMA CleanEditEnds ==
  ASSUME SettingInv, NEW c \in Request, ST!EndsCleanly(c)
  PROVE  \A a \in DOMAIN settingTask[c].asked :
            ST!Read(settings', settingTask[c].period)[a] = settingTask[c].asked[a]
<1>1. PICK t : t = settingTask[c] /\ Fits(t)
  BY DEF SettingInv
<1>2. PICK write \in t.todo : t.todo = {write} /\ ST!WriteOne(c, write) /\ t.op = "edit" /\ t.clean
  BY <1>1 DEF ST!EndsCleanly
<1>3. t.period \in ST!Period /\ t.asked \in ST!Asked(t.period)
  BY <1>1, <1>2, SettingTaskTypes DEF Fits, SettingInv
<1>4. \A w \in ST!Writes(t.period, t.asked) : settings'[w.key] = w.value
  BY <1>1, <1>2, WriteLands
<1>5. PICK p \in ST!Period, asked \in ST!Asked(t.period) : p = t.period /\ asked = t.asked
  BY <1>3
<1> asked \in ST!Asked(p)
  BY <1>5
<1>6. ASSUME NEW a \in DOMAIN asked
      PROVE  ST!Read(settings', p)[a] = asked[a]
  <2>1. a \in DOMAIN ST!KeyOf[p]
    BY AskedTypes
  <2>2. settings'[ST!KeyOf[p][a]] = asked[a]
    <3>1. PICK w : w = [key |-> ST!KeyOf[p][a], value |-> asked[a]]
      OBVIOUS
    <3>2. w \in ST!Writes(p, asked)
      BY <3>1 DEF ST!Writes
    <3> QED BY <1>4, <1>5, <3>1, <3>2
  <2>3. ST!Read(settings', p)[a] =
           IF settings'[ST!KeyOf[p][a]] # ST!None THEN settings'[ST!KeyOf[p][a]]
           ELSE IF a = ST!Legacy[p].part /\ settings'[ST!Legacy[p].key] # ST!None
                THEN settings'[ST!Legacy[p].key]
           ELSE ST!Default[a]
    BY <2>1 DEF ST!Read
  <2>4. CASE asked[a] # ST!None
    BY <2>2, <2>3, <2>4
  <2>5. CASE asked[a] = ST!None
    <3>1. "start" \in DOMAIN asked /\ a \in {"start", "end"}
      BY <2>5, AskedTypes
    <3>2. settings'[ST!Legacy[p].key] = ST!None
      <4>1. PICK w : w = [key |-> ST!Legacy[p].key, value |-> ST!None]
        OBVIOUS
      <4>2. w \in ST!Writes(p, asked)
        BY <3>1, <4>1 DEF ST!Writes
      <4> QED BY <1>4, <1>5, <4>1, <4>2
    <3>3. ST!Default[a] = ST!None
      BY <3>1 DEF ST!Default
    <3> QED BY <2>2, <2>3, <2>5, <3>2, <3>3
  <2> QED BY <2>4, <2>5
<1> QED BY <1>1, <1>5, <1>6

\* A read that moves a value under its new key changes nothing that is read, unless an
\* edit of the period has overtaken it.
LEMMA MoveReads ==
  ASSUME SettingInv, NEW c \in Request, ST!Move(c), ~ST!Overtaken(c)
  PROVE  ST!Read(settings', settingTask[c].period) = ST!Read(settings, settingTask[c].period)
<1>1. PICK t : t = settingTask[c]
  OBVIOUS
<1>2. /\ t.op = "move" /\ t.period \in ST!Period /\ t.value # ST!None
      /\ t.at \in {"set", "drop"} /\ settings \in [ST!Keys -> Value]
  BY <1>1, SettingTaskTypes DEF ST!Move, SettingInv, SettingTypes
<1>3. PICK p \in ST!Period : p = t.period
  BY <1>2
<1>4. PICK l : l = ST!Legacy[p].part /\ l \in DOMAIN ST!KeyOf[p]
  BY KeysApart
<1>5. PICK old \in ST!Keys : old = ST!Legacy[p].key
  BY KeysApart
<1>6. PICK new \in ST!Keys : new = ST!KeyOf[p][l] /\ new # old
  BY <1>4, <1>5, KeysApart
<1>7. ASSUME NEW a \in DOMAIN ST!KeyOf[p]
      PROVE  /\ ST!KeyOf[p][a] \in ST!Keys /\ ST!KeyOf[p][a] # old
             /\ ST!KeyOf[p][a] = new => a = l
  BY <1>4, <1>5, <1>6, KeysApart
<1> DEFINE Found(values, a) ==
             IF values[ST!KeyOf[p][a]] # ST!None THEN values[ST!KeyOf[p][a]]
             ELSE IF a = l /\ values[old] # ST!None THEN values[old]
             ELSE ST!Default[a]
<1>8. /\ ST!Read(settings', p) = [a \in DOMAIN ST!KeyOf[p] |-> Found(settings', a)]
      /\ ST!Read(settings, p) = [a \in DOMAIN ST!KeyOf[p] |-> Found(settings, a)]
  BY <1>4, <1>5 DEF ST!Read
<1>9. ASSUME NEW a \in DOMAIN ST!KeyOf[p]
      PROVE  Found(settings', a) = Found(settings, a)
  <2>1. CASE t.at = "set"
    <3>1. settings' = [settings EXCEPT ![new] = t.value]
      BY <1>1, <1>3, <1>4, <1>6, <2>1 DEF ST!Move, ST!NextOfMove
    <3>2. settings[new] = ST!None /\ settings[old] = t.value
      BY <1>1, <1>3, <1>4, <1>5, <1>6, <2>1 DEF ST!Overtaken
    <3>3. \A k \in ST!Keys : settings'[k] = IF k = new THEN t.value ELSE settings[k]
      BY <1>2, <3>1
    <3> QED BY <1>2, <1>6, <1>7, <3>2, <3>3
  <2>2. CASE t.at = "drop"
    <3>1. settings' = [settings EXCEPT ![old] = ST!None]
      BY <1>1, <1>3, <1>5, <2>2 DEF ST!Move, ST!NextOfMove
    <3>2. settings[new] = t.value
      BY <1>1, <1>3, <1>4, <1>6, <2>2 DEF ST!Overtaken
    <3>3. \A k \in ST!Keys : settings'[k] = IF k = old THEN ST!None ELSE settings[k]
      BY <1>2, <3>1
    <3> QED BY <1>2, <1>6, <1>7, <3>2, <3>3
  <2> QED BY <1>2, <2>1, <2>2
<1> HIDE DEF Found
<1> QED BY <1>1, <1>3, <1>8, <1>9
-----------------------------------------------------------------------------
(* Plans *)

Excepted == [what : EN!Exception, begun : BOOLEAN]

\* The exceptions of a type that are in force among s, the newest of them, and what
\* they leave of plan p: the operators of Entitlements, of any list of exceptions.
Forces(s, type) == {i \in DOMAIN s : s[i].begun /\ s[i].what.type = type}
Newest(s, type) == s[EN!Max(Forces(s, type))].what
Opened(s) == Forces(s, "unlimited_window") # {}
Granted(s, p) == IF Forces(s, "plan_grant") = {} THEN p ELSE Newest(s, "plan_grant").granted
Limited(s) == IF Forces(s, "custom_limits") = {} THEN EN!None ELSE Newest(s, "custom_limits").limit

\* The limit of kind k on plan g, with window w and override o, that c was given for it.
LimitThen(g, k, w, o, c) ==
    IF LimitOf[g][k] = EN!Unlimited \/ (g = "free" /\ w) THEN EN!Unlimited
    ELSE IF c # EN!None THEN c
    ELSE IF g = "free" /\ o # EN!None THEN o ELSE LimitOf[g][k]

LimitOn(s, p, k, w, o) ==
    IF Opened(s) THEN EN!Unlimited ELSE LimitThen(Granted(s, p), k, w, o, Limited(s))

FeaturesOn(s, p, w) ==
    LET g == IF Opened(s) THEN p ELSE Granted(s, p)
    IN  EN!FeaturesOf[IF g = "free" /\ (Opened(s) \/ w) THEN "pro" ELSE g]

PlanTask == {EN!Idle} \cup [op : {"create"}, sure : BOOLEAN]

PlanTypes ==
    /\ kind \in EN!Kind /\ count \in 0..MaxCount
    /\ plan \in EN!Plan /\ claimed \in EN!Plan
    /\ exceptions \in Seq(Excepted)
    /\ window \in BOOLEAN
    /\ override \in Custom \cup {EN!None}
    /\ planTask \in [Request -> PlanTask]

\* With n of a kind and that limit, the check of a request that is sure still stands.
Stands(t, n, limit) == t.op = "create" /\ t.sure => limit = EN!Unlimited \/ n < limit

PlanInv ==
    /\ PlanTypes
    /\ \A r \in Request : Stands(planTask[r], count, EN!LimitFor(plan))

LEMMA Unfolded ==
  /\ EN!LimitFor(plan) = LimitOn(exceptions, plan, kind, window, override)
  /\ EN!LimitFor(claimed) = LimitOn(exceptions, claimed, kind, window, override)
  /\ EN!LimitFor(plan)' = LimitOn(exceptions', plan', kind', window', override')
  /\ EN!FeaturesFor(plan) = FeaturesOn(exceptions, plan, window)
  /\ EN!FeaturesFor(plan)' = FeaturesOn(exceptions', plan', window')
<1>1. /\ \A type : EN!InForceOf(type) = Forces(exceptions, type)
      /\ \A type : EN!InForceOf(type)' = Forces(exceptions', type)
  BY DEF EN!InForceOf, Forces
<1>2. ASSUME NEW p
      PROVE  LET resolved == EN!resolveEffectivePlan(p)
             IN  IF Opened(exceptions) THEN resolved = [plan |-> p, unlimited |-> TRUE, custom |-> EN!None]
                 ELSE resolved = [plan |-> Granted(exceptions, p), unlimited |-> FALSE,
                                  custom |-> Limited(exceptions)]
  BY <1>1 DEF EN!resolveEffectivePlan, EN!NewestOf, Opened, Granted, Limited, Newest
<1>3. LET resolved == EN!resolveEffectivePlan(plan)'
      IN  IF Opened(exceptions') THEN resolved = [plan |-> plan', unlimited |-> TRUE, custom |-> EN!None]
          ELSE resolved = [plan |-> Granted(exceptions', plan'), unlimited |-> FALSE,
                           custom |-> Limited(exceptions')]
  BY <1>1 DEF EN!resolveEffectivePlan, EN!NewestOf, Opened, Granted, Limited, Newest
<1>4. ASSUME NEW p
      PROVE  /\ EN!LimitFor(p) = LimitOn(exceptions, p, kind, window, override)
             /\ EN!FeaturesFor(p) = FeaturesOn(exceptions, p, window)
  <2>1. PICK resolved : resolved = EN!resolveEffectivePlan(p)
    OBVIOUS
  <2>2. CASE Opened(exceptions)
    <3>1. resolved.plan = p /\ resolved.unlimited = TRUE
      BY <1>2, <2>1, <2>2
    <3> QED BY <2>1, <2>2, <3>1 DEF EN!LimitFor, LimitOn, EN!FeaturesFor, FeaturesOn
  <2>3. CASE ~Opened(exceptions)
    <3>1. /\ resolved.plan = Granted(exceptions, p) /\ resolved.unlimited = FALSE
          /\ resolved.custom = Limited(exceptions)
      BY <1>2, <2>1, <2>3
    <3> QED BY <2>1, <2>3, <3>1 DEF EN!LimitFor, LimitOn, LimitThen, EN!FeaturesFor, FeaturesOn
  <2> QED BY <2>2, <2>3
<1>5. /\ EN!LimitFor(plan)' = LimitOn(exceptions', plan', kind', window', override')
      /\ EN!FeaturesFor(plan)' = FeaturesOn(exceptions', plan', window')
  <2>1. PICK resolved : resolved = EN!resolveEffectivePlan(plan)'
    OBVIOUS
  <2>2. CASE Opened(exceptions')
    <3>1. resolved.plan = plan' /\ resolved.unlimited = TRUE
      BY <1>3, <2>1, <2>2
    <3> QED BY <2>1, <2>2, <3>1 DEF EN!LimitFor, LimitOn, EN!FeaturesFor, FeaturesOn
  <2>3. CASE ~Opened(exceptions')
    <3>1. /\ resolved.plan = Granted(exceptions', plan') /\ resolved.unlimited = FALSE
          /\ resolved.custom = Limited(exceptions')
      BY <1>3, <2>1, <2>3
    <3> QED BY <2>1, <2>3, <3>1 DEF EN!LimitFor, LimitOn, LimitThen, EN!FeaturesFor, FeaturesOn
  <2> QED BY <2>2, <2>3
<1> QED BY <1>4, <1>5

\* The greatest number of a set that has one.
LEMMA GreatestIs ==
  ASSUME NEW S \in SUBSET Nat, NEW m \in S, \A x \in S : x <= m
  PROVE  EN!Max(S) = m
<1>1. \E x \in S : \A y \in S : x >= y
  OBVIOUS
<1>2. EN!Max(S) \in S /\ \A y \in S : EN!Max(S) >= y
  BY <1>1, Zenon DEF EN!Max
<1>3. PICK n \in S : n = EN!Max(S)
  BY <1>2
<1>4. n >= m /\ n <= m /\ n \in Nat /\ m \in Nat
  BY <1>2, <1>3
<1>5. n = m
  BY <1>4
<1> QED BY <1>3, <1>5

\* Of a type there is a newest one in force, if any is.
LEMMA NewestTypes ==
  ASSUME NEW s \in Seq(Excepted), NEW type, Forces(s, type) # {}
  PROVE  \E m \in Forces(s, type) :
            /\ m \in DOMAIN s /\ EN!Max(Forces(s, type)) = m /\ \A x \in Forces(s, type) : x <= m
            /\ Newest(s, type) = s[m].what /\ s[m].what \in EN!Exception /\ s[m].what.type = type
<1> DEFINE S == Forces(s, type)
           T == {n \in Nat : \A x \in S : x <= n}
<1>1. Len(s) \in Nat /\ DOMAIN s = 1..Len(s) /\ S \subseteq 1..Len(s)
  BY DEF Forces
<1>2. Len(s) \in T /\ T \in SUBSET Nat
  BY <1>1
<1>3. PICK m \in T : \A n \in T : m <= n
  <2> HIDE DEF T
  <2> QED BY <1>2, LeastNatural
<1>4. m \in S
  <2> SUFFICES ASSUME m \notin S PROVE FALSE
    OBVIOUS
  <2>1. S # {}
    OBVIOUS
  <2> HIDE DEF S
  <2>2. \A x \in S : x < m /\ x \in Nat /\ x > 0
    BY <1>1, <1>3
  <2>3. m - 1 \in T
    BY <1>3, <2>1, <2>2
  <2> QED BY <1>3, <2>3
<1>5. \A x \in S : x <= m
  BY <1>3
<1>6. EN!Max(S) = m
  <2> HIDE DEF S
  <2>1. S \in SUBSET Nat
    BY <1>1
  <2> QED BY <1>4, <1>5, <2>1, GreatestIs
<1>7. s[m] \in Excepted /\ s[m].what.type = type /\ m \in DOMAIN s
  <2>1. m \in DOMAIN s /\ s[m].what.type = type
    BY <1>4 DEF Forces
  <2> QED BY <2>1, ElementOfSeq
<1> QED BY <1>4, <1>5, <1>6, <1>7 DEF Newest, Excepted

\* What exceptions leave: a plan, and perhaps a limit.
LEMMA LimitTypes ==
  ASSUME NEW s \in Seq(Excepted), NEW p \in EN!Plan, NEW k \in EN!Kind, NEW w \in BOOLEAN,
         NEW o \in Custom \cup {EN!None}
  PROVE  /\ Granted(s, p) \in EN!Plan /\ (Granted(s, p) = "free" => p = "free" /\ Forces(s, "plan_grant") = {})
         /\ Limited(s) \in Nat \cup {EN!None}
         /\ LimitOn(s, p, k, w, o) \in Nat \cup {EN!Unlimited}
<1>1. \A e \in EN!Exception : /\ e.type = "plan_grant" => e.granted \in EN!Plan \ {"free"}
                              /\ e.type = "custom_limits" => e.limit \in Custom
  BY DEF EN!Exception
<1>2. Granted(s, p) \in EN!Plan /\ (Granted(s, p) = "free" => p = "free" /\ Forces(s, "plan_grant") = {})
  <2>1. CASE Forces(s, "plan_grant") = {}
    BY <2>1 DEF Granted
  <2>2. CASE Forces(s, "plan_grant") # {}
    <3>1. PICK e \in EN!Exception : e = Newest(s, "plan_grant") /\ e.type = "plan_grant"
      BY <2>2, NewestTypes
    <3> QED BY <1>1, <2>2, <3>1 DEF Granted
  <2> QED BY <2>1, <2>2
<1>3. Limited(s) \in Nat \cup {EN!None}
  <2>1. CASE Forces(s, "custom_limits") = {}
    BY <2>1 DEF Limited
  <2>2. CASE Forces(s, "custom_limits") # {}
    <3>1. PICK e \in EN!Exception : e = Newest(s, "custom_limits") /\ e.type = "custom_limits"
      BY <2>2, NewestTypes
    <3> QED BY <1>1, <2>2, <3>1, PlansAssumption DEF Limited
  <2> QED BY <2>1, <2>2
<1>4. LimitOf[Granted(s, p)][k] \in Nat \cup {EN!Unlimited}
  BY <1>2, PlansAssumption
<1>5. o = EN!None \/ o \in Nat
  BY PlansAssumption
<1> QED BY <1>2, <1>3, <1>4, <1>5 DEF LimitOn, LimitThen

\* An exception that begins, at i, is the only one that comes into force.
LEMMA BeginsAlone ==
  ASSUME NEW s \in Seq(Excepted), NEW s1 \in Seq(Excepted), NEW i \in DOMAIN s1,
         DOMAIN s \subseteq DOMAIN s1,
         \A j \in DOMAIN s1 \ {i} : j \in DOMAIN s /\ s1[j] = s[j],
         i \in DOMAIN s => ~s[i].begun, NEW type
  PROVE  /\ type # s1[i].what.type \/ ~s1[i].begun =>
               Forces(s1, type) = Forces(s, type) /\
               (Forces(s, type) # {} => Newest(s1, type) = Newest(s, type))
         /\ type = s1[i].what.type /\ s1[i].begun =>
               /\ Forces(s1, type) = Forces(s, type) \cup {i}
               /\ Newest(s1, type) = s1[i].what
                    \/ (Forces(s, type) # {} /\ Newest(s1, type) = Newest(s, type))
<1>1. i \notin Forces(s, type)
  BY DEF Forces
<1>2. ASSUME type # s1[i].what.type \/ ~s1[i].begun
      PROVE  Forces(s1, type) = Forces(s, type) /\
             (Forces(s, type) # {} => Newest(s1, type) = Newest(s, type))
  <2>1. Forces(s1, type) = Forces(s, type)
    BY <1>1, <1>2 DEF Forces
  <2>2. ASSUME Forces(s, type) # {}
        PROVE  Newest(s1, type) = Newest(s, type)
    <3>1. PICK m \in Forces(s, type) : m \in DOMAIN s /\ EN!Max(Forces(s, type)) = m
      BY <2>2, NewestTypes
    <3>2. s1[m] = s[m]
      BY <1>1, <3>1
    <3> QED BY <2>1, <3>1, <3>2 DEF Newest
  <2> QED BY <2>1, <2>2
<1>3. ASSUME type = s1[i].what.type, s1[i].begun
      PROVE  /\ Forces(s1, type) = Forces(s, type) \cup {i}
             /\ Newest(s1, type) = s1[i].what
                  \/ (Forces(s, type) # {} /\ Newest(s1, type) = Newest(s, type))
  <2>1. Forces(s1, type) = Forces(s, type) \cup {i}
    BY <1>1, <1>3 DEF Forces
  <2>2. PICK m \in Forces(s1, type) : /\ m \in DOMAIN s1 /\ \A x \in Forces(s1, type) : x <= m
                                      /\ Newest(s1, type) = s1[m].what
    <3>1. Forces(s1, type) # {}
      BY <2>1
    <3> QED BY <3>1, NewestTypes
  <2>3. CASE m = i
    BY <2>1, <2>2, <2>3
  <2>4. CASE m # i
    <3>1. m \in Forces(s, type) /\ s1[m] = s[m] /\ m \in DOMAIN s
      BY <2>1, <2>2, <2>4
    <3>2. Forces(s, type) \in SUBSET Nat
      BY DEF Forces
    <3>3. \A x \in Forces(s, type) : x <= m
      BY <2>1, <2>2
    <3>4. EN!Max(Forces(s, type)) = m
      BY <3>1, <3>2, <3>3, GreatestIs
    <3> QED BY <2>1, <2>2, <3>1, <3>4 DEF Newest
  <2> QED BY <2>3, <2>4
<1> QED BY <1>2, <1>3

\* The plans' limits, and features, from one plan to another.
LEMMA PlansGrow ==
  ASSUME NEW k \in EN!Kind, NEW g \in EN!Plan, NEW h \in EN!Plan \ {"free"},
         NEW w \in BOOLEAN, NEW o \in Custom \cup {EN!None}, NEW c \in Nat \cup {EN!None},
         EN!Exceeds(LimitThen(g, k, w, o, c), LimitThen(h, k, w, o, c))
  PROVE  \/ g = "enterprise" /\ h = "pro"
         \/ g = "free" /\ (w \/ EN!Exceeds(o, LimitOf[h][k]))
<1>1. PICK free, pro, enterprise \in Nat \cup {-1} :
         free = LimitOf["free"][k] /\ pro = LimitOf["pro"][k] /\ enterprise = LimitOf["enterprise"][k]
  BY PlansAssumption DEF EN!Plan, EN!Unlimited
<1>2. /\ pro # -1 => free # -1 /\ free <= pro
      /\ enterprise # -1 => pro # -1 /\ pro <= enterprise
  BY <1>1, PlansAssumption DEF EN!Exceeds, EN!Unlimited
<1>3. o \in Int /\ c \in Int
  BY PlansAssumption DEF EN!None
<1>4. h = "pro" \/ h = "enterprise"
  BY DEF EN!Plan
<1>5. CASE g = h
  <2>1. LimitThen(g, k, w, o, c) = -1 \/ LimitThen(g, k, w, o, c) \in Int
    BY <1>1, <1>3, <1>4, <1>5 DEF LimitThen, EN!Unlimited
  <2> QED BY <1>5, <2>1 DEF EN!Exceeds, EN!Unlimited
<1>6. CASE g = "pro" /\ h = "enterprise"
  BY <1>1, <1>2, <1>3, <1>6 DEF LimitThen, EN!Exceeds, EN!Unlimited, EN!None
<1>7. CASE g = "free"
  <2>1. SUFFICES ASSUME ~w PROVE EN!Exceeds(o, LimitOf[h][k])
    BY <1>7
  <2>2. CASE h = "pro"
    BY <1>1, <1>2, <1>3, <1>7, <2>1, <2>2 DEF LimitThen, EN!Exceeds, EN!Unlimited, EN!None
  <2>3. CASE h = "enterprise"
    BY <1>1, <1>2, <1>3, <1>7, <2>1, <2>3 DEF LimitThen, EN!Exceeds, EN!Unlimited, EN!None
  <2> QED BY <1>4, <2>2, <2>3
<1> QED BY <1>4, <1>5, <1>6, <1>7 DEF EN!Plan

\* The features of the plans, by name.
LEMMA Features ==
  /\ EN!FeaturesOf["free"] = {} /\ EN!FeaturesOf["pro"] = {"reports"}
  /\ EN!FeaturesOf["enterprise"] = {"reports", "customBranding"}
BY DEF EN!FeaturesOf

\* What an exception may take from an account: of the exceptions s, when they become s1.
Giving(s, what, s1, p, k, w, o) ==
    LET lowers == /\ what.type = "plan_grant"
                  /\ EN!FeaturesOf[what.granted] # FeaturesOn(s, p, w)
                  /\ EN!FeaturesOf[what.granted] \subseteq FeaturesOn(s, p, w)
    IN  /\ EN!Exceeds(LimitOn(s, p, k, w, o), LimitOn(s1, p, k, w, o)) =>
              \/ what.type = "custom_limits"
              \/ lowers
              \/ what.type = "plan_grant" /\ (w \/ EN!Exceeds(o, LimitOf[what.granted][k]))
        /\ ~(FeaturesOn(s, p, w) \subseteq FeaturesOn(s1, p, w)) =>
              \/ lowers
              \/ what.type = "unlimited_window" /\ Forces(s, "plan_grant") # {}

\* What an exception that begins takes from an account.
LEMMA BeginsGiving ==
  ASSUME NEW s \in Seq(Excepted), NEW s1 \in Seq(Excepted), NEW i \in DOMAIN s1,
         DOMAIN s \subseteq DOMAIN s1,
         \A j \in DOMAIN s1 \ {i} : j \in DOMAIN s /\ s1[j] = s[j],
         i \in DOMAIN s => ~s[i].begun, NEW p \in EN!Plan, NEW k \in EN!Kind,
         NEW w \in BOOLEAN, NEW o \in Custom \cup {EN!None}
  PROVE  Giving(s, s1[i].what, s1, p, k, w, o)
<1>1. PICK what \in EN!Exception, begun \in BOOLEAN : what = s1[i].what /\ begun = s1[i].begun
  <2>1. s1[i] \in Excepted
    BY ElementOfSeq
  <2> QED BY <2>1 DEF Excepted
<1> SUFFICES Giving(s, what, s1, p, k, w, o)
  BY <1>1
<1>2. ASSUME NEW type, type # what.type \/ ~begun
      PROVE  Forces(s1, type) = Forces(s, type) /\
             (Forces(s, type) # {} => Newest(s1, type) = Newest(s, type))
  BY <1>1, <1>2, BeginsAlone
<1>3. ASSUME begun
      PROVE  /\ Forces(s1, what.type) = Forces(s, what.type) \cup {i}
             /\ Newest(s1, what.type) = what
                  \/ (Forces(s, what.type) # {} /\ Newest(s1, what.type) = Newest(s, what.type))
  <2>1. PICK type : type = what.type
    OBVIOUS
  <2>2. type = s1[i].what.type /\ s1[i].begun
    BY <1>1, <1>3, <2>1
  <2> DEFINE Added(ty) == /\ Forces(s1, ty) = Forces(s, ty) \cup {i}
                          /\ Newest(s1, ty) = s1[i].what
                               \/ (Forces(s, ty) # {} /\ Newest(s1, ty) = Newest(s, ty))
  <2>3. /\ Forces(s1, type) = Forces(s, type) \cup {i}
        /\ Newest(s1, type) = s1[i].what
             \/ (Forces(s, type) # {} /\ Newest(s1, type) = Newest(s, type))
    <3>1. type = s1[i].what.type /\ s1[i].begun => Added(type)
      BY BeginsAlone
    <3> QED BY <2>2, <3>1
  <2>4. Newest(s1, type) = what \/ (Forces(s, type) # {} /\ Newest(s1, type) = Newest(s, type))
    BY <1>1, <2>3, Zenon
  <2> QED BY <2>1, <2>3, <2>4, Zenon
<1>4. /\ what.type # "unlimited_window" \/ ~begun => Opened(s1) = Opened(s)
      /\ what.type # "plan_grant" \/ ~begun => Granted(s1, p) = Granted(s, p)
      /\ what.type # "custom_limits" \/ ~begun => Limited(s1) = Limited(s)
  BY <1>2 DEF Opened, Granted, Limited
<1>5. LimitOn(s, p, k, w, o) \in Nat \cup {EN!Unlimited}
  BY LimitTypes
<1>6. \A n \in Nat \cup {EN!Unlimited} : ~EN!Exceeds(n, n) /\ ~EN!Exceeds(n, EN!Unlimited)
  BY DEF EN!Exceeds, EN!Unlimited
<1>7. CASE ~begun
  <2>1. /\ LimitOn(s1, p, k, w, o) = LimitOn(s, p, k, w, o)
        /\ FeaturesOn(s1, p, w) = FeaturesOn(s, p, w)
    BY <1>4, <1>7 DEF LimitOn, FeaturesOn
  <2> QED BY <1>5, <1>6, <2>1 DEF Giving
<1>8. CASE begun /\ what.type = "unlimited_window"
  <2>1. Opened(s1)
    BY <1>3, <1>8 DEF Opened
  <2>2. LimitOn(s1, p, k, w, o) = EN!Unlimited
    BY <2>1 DEF LimitOn
  <2>3. Forces(s, "plan_grant") = {} => FeaturesOn(s, p, w) \subseteq FeaturesOn(s1, p, w)
    BY <2>1, Features DEF FeaturesOn, Granted, EN!Plan
  <2> QED BY <1>1, <1>5, <1>6, <1>8, <2>2, <2>3 DEF Giving
<1>9. CASE begun /\ what.type = "custom_limits"
  <2>1. FeaturesOn(s1, p, w) = FeaturesOn(s, p, w)
    BY <1>4, <1>9 DEF FeaturesOn
  <2> QED BY <1>1, <1>9, <2>1 DEF Giving
<1>10. CASE begun /\ what.type = "plan_grant"
  <2>1. what.granted \in EN!Plan \ {"free"}
    BY <1>10 DEF EN!Exception
  <2>2. PICK g \in EN!Plan, h \in EN!Plan, c \in Nat \cup {EN!None} :
           g = Granted(s, p) /\ h = Granted(s1, p) /\ c = Limited(s)
    BY LimitTypes
  <2>3. h = g \/ h = what.granted
    <3>1. Forces(s1, "plan_grant") # {}
      BY <1>3, <1>10
    <3> QED BY <1>3, <1>10, <2>2, <3>1 DEF Granted
  <2>4. Opened(s1) = Opened(s) /\ Limited(s1) = c
    BY <1>4, <1>10, <2>2
  <2>5. CASE Opened(s) \/ h = g
    <3>1. LimitOn(s1, p, k, w, o) = LimitOn(s, p, k, w, o)
      BY <2>2, <2>4, <2>5 DEF LimitOn
    <3>2. FeaturesOn(s1, p, w) = FeaturesOn(s, p, w)
      BY <2>2, <2>4, <2>5 DEF FeaturesOn
    <3> QED BY <1>5, <1>6, <3>1, <3>2 DEF Giving
  <2>6. CASE ~Opened(s) /\ h # g
    <3>1. h = what.granted /\ h \in EN!Plan \ {"free"}
      BY <2>1, <2>3, <2>6
    <3>2. /\ LimitOn(s, p, k, w, o) = LimitThen(g, k, w, o, c)
          /\ LimitOn(s1, p, k, w, o) = LimitThen(h, k, w, o, c)
          /\ FeaturesOn(s, p, w) = EN!FeaturesOf[IF g = "free" /\ w THEN "pro" ELSE g]
          /\ FeaturesOn(s1, p, w) = EN!FeaturesOf[h]
      BY <2>2, <2>4, <2>6, <3>1 DEF LimitOn, FeaturesOn
    <3>3. EN!Exceeds(LimitOn(s, p, k, w, o), LimitOn(s1, p, k, w, o)) =>
             \/ g = "enterprise" /\ h = "pro"
             \/ w \/ EN!Exceeds(o, LimitOf[h][k])
      <4>1. SUFFICES ASSUME EN!Exceeds(LimitThen(g, k, w, o, c), LimitThen(h, k, w, o, c))
                     PROVE  \/ g = "enterprise" /\ h = "pro"
                            \/ w \/ EN!Exceeds(o, LimitOf[h][k])
        BY <3>2
      <4>2. h \in EN!Plan \ {"free"}
        BY <3>1
      <4> QED BY <4>1, <4>2, PlansGrow
    <3>4. g = "enterprise" /\ h = "pro" =>
             /\ EN!FeaturesOf[h] # FeaturesOn(s, p, w)
             /\ EN!FeaturesOf[h] \subseteq FeaturesOn(s, p, w)
      BY <3>2, Features
    <3>5. ~(FeaturesOn(s, p, w) \subseteq FeaturesOn(s1, p, w)) => g = "enterprise" /\ h = "pro"
      BY <2>6, <3>1, <3>2, Features DEF EN!Plan
    <3> QED BY <1>1, <1>10, <3>1, <3>3, <3>4, <3>5 DEF Giving
  <2> QED BY <2>5, <2>6
<1> QED BY <1>7, <1>8, <1>9, <1>10 DEF EN!Exception

\* A request is no longer sure once the count or the limit moves.
LEMMA PlanAged ==
  ASSUME PlanInv, NEW r \in Request
  PROVE  EN!Aged[r] \in PlanTask /\ Stands(EN!Aged[r], count', EN!LimitFor(plan)')
<1>1. PICK t \in PlanTask : t = planTask[r]
  BY DEF PlanInv, PlanTypes
<1>2. Stands(t, count, EN!LimitFor(plan))
  BY <1>1 DEF PlanInv
<1>3. t = EN!Idle \/ t \in [op : {"create"}, sure : BOOLEAN]
  BY DEF PlanTask
<1>4. PICK moved \in BOOLEAN : moved = (count' # count \/ EN!LimitFor(plan)' # EN!LimitFor(plan))
  OBVIOUS
<1>5. EN!Aged[r] = IF t.op = "create" /\ moved THEN [t EXCEPT !.sure = FALSE] ELSE t
  BY <1>1, <1>4 DEF EN!Aged
<1>6. CASE t = EN!Idle
  BY <1>5, <1>6 DEF EN!Idle, PlanTask, Stands
<1>7. CASE t \in [op : {"create"}, sure : BOOLEAN] /\ moved
  <2>1. PICK u : u = [t EXCEPT !.sure = FALSE]
    OBVIOUS
  <2>2. u \in [op : {"create"}, sure : BOOLEAN] /\ u.sure = FALSE
    BY <1>7, <2>1
  <2>3. EN!Aged[r] = u
    BY <1>5, <1>7, <2>1
  <2> QED BY <2>2, <2>3 DEF PlanTask, Stands
<1>8. CASE ~moved
  BY <1>2, <1>4, <1>5, <1>8
<1> QED BY <1>3, <1>6, <1>7, <1>8

\* A step keeps what holds of the requests if it leaves it true of the one it moves.
LEMMA PlanTaskStep ==
  ASSUME PlanInv,
         \/ EN!Meanwhile
         \/ \E r \in Request, t \in PlanTask : EN!Does(r, t) /\ Stands(t, count', EN!LimitFor(plan)')
  PROVE  /\ planTask' \in [Request -> PlanTask]
         /\ \A r \in Request : Stands(planTask'[r], count', EN!LimitFor(plan)')
<1>1. EN!Aged \in [Request -> PlanTask]
  <2>1. EN!Aged = [r \in Request |-> EN!Aged[r]]
    BY DEF EN!Aged
  <2> QED BY <2>1, PlanAged
<1>2. \A r \in Request : Stands(EN!Aged[r], count', EN!LimitFor(plan)')
  BY PlanAged
<1>3. CASE EN!Meanwhile
  BY <1>1, <1>2, <1>3 DEF EN!Meanwhile
<1>4. ASSUME NEW r \in Request, NEW t \in PlanTask, EN!Does(r, t), Stands(t, count', EN!LimitFor(plan)')
      PROVE  /\ planTask' \in [Request -> PlanTask]
             /\ \A q \in Request : Stands(planTask'[q], count', EN!LimitFor(plan)')
  <2>1. planTask' = [EN!Aged EXCEPT ![r] = t]
    BY <1>4 DEF EN!Does
  <2>2. \A q \in Request : planTask'[q] = IF q = r THEN t ELSE EN!Aged[q]
    BY <1>1, <2>1
  <2> QED BY <1>1, <1>2, <1>4, <2>1, <2>2
<1> QED BY <1>3, <1>4

\* What administrators make of the exceptions is a list of exceptions.
LEMMA ExceptionTypes ==
  ASSUME NEW s \in Seq(Excepted)
  PROVE  /\ \A what \in EN!Exception, begun \in BOOLEAN :
               Append(s, [what |-> what, begun |-> begun]) \in Seq(Excepted)
         /\ \A i \in DOMAIN s : /\ [s EXCEPT ![i].begun = TRUE] \in Seq(Excepted)
                                /\ EN!RemoveAt(s, i) \in Seq(Excepted)
<1>1. ASSUME NEW what \in EN!Exception, NEW begun \in BOOLEAN
      PROVE  Append(s, [what |-> what, begun |-> begun]) \in Seq(Excepted)
  <2>1. [what |-> what, begun |-> begun] \in Excepted
    BY DEF Excepted
  <2> HIDE DEF Excepted
  <2> QED BY <2>1
<1>2. ASSUME NEW i \in DOMAIN s
      PROVE  [s EXCEPT ![i].begun = TRUE] \in Seq(Excepted)
  <2>1. s[i] \in Excepted
    BY ElementOfSeq
  <2>2. PICK e : e = [s[i] EXCEPT !.begun = TRUE]
    OBVIOUS
  <2>3. e \in Excepted
    BY <2>1, <2>2 DEF Excepted
  <2>4. [s EXCEPT ![i].begun = TRUE] = [s EXCEPT ![i] = e]
    BY <2>2
  <2>5. [s EXCEPT ![i] = e] \in Seq(Excepted)
    BY <2>3, ExceptSeq
  <2> QED BY <2>4, <2>5
<1>3. ASSUME NEW i \in DOMAIN s
      PROVE  EN!RemoveAt(s, i) \in Seq(Excepted)
  <2>1. /\ SubSeq(s, 1, i - 1) \in Seq(Excepted)
        /\ SubSeq(s, i + 1, Len(s)) \in Seq(Excepted)
    BY SubSeqProperties
  <2> QED BY <2>1 DEF EN!RemoveAt
<1> QED BY <1>1, <1>2, <1>3

\* The invariant is kept by every step that leaves the kind alone, the rest of its
\* types, and its tasks as PlanTaskStep asks.
LEMMA PlanNextInv ==
  ASSUME PlanInv, EN!Next
  PROVE  PlanInv'
<1>1. /\ kind \in EN!Kind /\ count \in Nat /\ count <= MaxCount /\ plan \in EN!Plan
      /\ claimed \in EN!Plan /\ exceptions \in Seq(Excepted) /\ window \in BOOLEAN
      /\ override \in Custom \cup {EN!None}
      /\ planTask \in [Request -> PlanTask]
  BY PlansAssumption DEF PlanInv, PlanTypes
<1>2. EN!Idle \in PlanTask /\ \A n, limit : Stands(EN!Idle, n, limit)
  BY DEF PlanTask, EN!Idle, Stands
<1>3. ASSUME NEW r \in Request, EN!PassGuard(r)
      PROVE  PlanInv'
  <2>1. PICK sure \in BOOLEAN : sure = (EN!LimitFor(claimed) = EN!LimitFor(plan))
    OBVIOUS
  <2>2. PICK t : t = [op |-> "create", sure |-> sure]
    OBVIOUS
  <2>3. t \in [op : {"create"}, sure : BOOLEAN] /\ t.sure = sure
    BY <2>2
  <2>4. /\ UNCHANGED <<kind, count, plan, claimed, exceptions, window, override>>
        /\ EN!RoomUnder(EN!LimitFor(claimed))
        /\ EN!Does(r, t)
    BY <1>3, <2>1, <2>2 DEF EN!PassGuard
  <2>5. EN!LimitFor(plan)' = EN!LimitFor(plan)
    BY <2>4, Unfolded
  <2>6. Stands(t, count', EN!LimitFor(plan)')
    BY <2>1, <2>3, <2>4, <2>5 DEF Stands, EN!RoomUnder
  <2>7. t \in PlanTask
    BY <2>3 DEF PlanTask
  <2> QED BY <2>4, <2>6, <2>7, PlanTaskStep DEF PlanInv, PlanTypes
<1>4. ASSUME NEW r \in Request, EN!Create(r)
      PROVE  PlanInv'
  <2>1. count' \in 0..MaxCount
    BY <1>1, <1>4, PlansAssumption DEF EN!Create
  <2> QED BY <1>2, <1>4, <2>1, PlanTaskStep DEF PlanInv, PlanTypes, EN!Create
<1>5. ASSUME NEW r \in Request, EN!Fail(r)
      PROVE  PlanInv'
  BY <1>2, <1>5, PlanTaskStep DEF PlanInv, PlanTypes, EN!Fail
<1>6. CASE EN!OrderAtCatalog \/ EN!Delete \/ EN!NewMonth
  <2>1. count' \in 0..MaxCount
    BY <1>1, <1>6, PlansAssumption DEF EN!OrderAtCatalog, EN!Delete, EN!NewMonth
  <2>2. UNCHANGED <<kind, plan, claimed, exceptions, window, override>> /\ EN!Meanwhile
    BY <1>6 DEF EN!OrderAtCatalog, EN!Delete, EN!NewMonth
  <2> QED BY <2>1, <2>2, PlanTaskStep DEF PlanInv, PlanTypes
<1>7. CASE EN!Login
  <2>1. UNCHANGED <<kind, count, plan, exceptions, window, override, planTask>> /\ claimed' = plan
    BY <1>7 DEF EN!Login
  <2>2. EN!LimitFor(plan)' = EN!LimitFor(plan)
    BY <2>1, Unfolded
  <2> QED BY <2>1, <2>2 DEF PlanInv, PlanTypes
<1>8. ASSUME NEW p \in EN!Plan, EN!ChangePlan(p)
      PROVE  PlanInv'
  BY <1>8, PlanTaskStep DEF PlanInv, PlanTypes, EN!ChangePlan
<1>9. ASSUME NEW new \in Seq(Excepted), EN!Excepts(new)
      PROVE  PlanInv'
  BY <1>9, PlanTaskStep DEF PlanInv, PlanTypes, EN!Excepts
<1>10. CASE EN!SwitchWindow
  <2>1. window' \in BOOLEAN
    BY <1>10 DEF EN!SwitchWindow
  <2> QED BY <1>10, <2>1, PlanTaskStep DEF PlanInv, PlanTypes, EN!SwitchWindow
<1>11. ASSUME NEW limit \in Custom \cup {EN!None}, EN!SetOverride(limit)
      PROVE  PlanInv'
  BY <1>11, PlanTaskStep DEF PlanInv, PlanTypes, EN!SetOverride
<1>12. CASE EN!Administer
  <2>1. ASSUME NEW what \in EN!Exception, NEW begun \in BOOLEAN, EN!AddException(what, begun)
        PROVE  PlanInv'
    <3>1. PICK new : new = Append(exceptions, [what |-> what, begun |-> begun])
      OBVIOUS
    <3> QED BY <1>1, <1>9, <2>1, <3>1, ExceptionTypes DEF EN!AddException
  <2>2. ASSUME NEW i \in DOMAIN exceptions, EN!Begin(i)
        PROVE  PlanInv'
    <3>1. PICK new : new = [exceptions EXCEPT ![i].begun = TRUE]
      OBVIOUS
    <3> QED BY <1>1, <1>9, <2>2, <3>1, ExceptionTypes DEF EN!Begin
  <2>3. ASSUME NEW i \in DOMAIN exceptions, EN!End(i)
        PROVE  PlanInv'
    <3>1. PICK new : new = EN!RemoveAt(exceptions, i)
      OBVIOUS
    <3> QED BY <1>1, <1>9, <2>3, <3>1, ExceptionTypes DEF EN!End
  <2> QED BY <1>10, <1>11, <1>12, <2>1, <2>2, <2>3 DEF EN!Administer
<1> QED BY <1>3, <1>4, <1>5, <1>6, <1>7, <1>8, <1>12 DEF EN!Next

LEMMA PlanStutter ==
  ASSUME PlanInv, UNCHANGED planVars
  PROVE  PlanInv'
<1>1. UNCHANGED <<kind, count, plan, claimed, exceptions, window, override, planTask>>
  BY DEF planVars
<1>2. EN!LimitFor(plan)' = EN!LimitFor(plan)
  BY <1>1, Unfolded
<1> QED BY <1>1, <1>2 DEF PlanInv, PlanTypes

LEMMA PlanInitInv ==
  ASSUME EN!Init
  PROVE  PlanInv
<1>1. \A n, limit : Stands(EN!Idle, n, limit)
  BY DEF EN!Idle, Stands
<1>2. planTask = [r \in Request |-> EN!Idle] /\ EN!Idle \in PlanTask
  BY DEF EN!Init, PlanTask
<1>3. exceptions \in Seq(Excepted) /\ count \in 0..MaxCount
  BY PlansAssumption DEF EN!Init
<1>4. PlanTypes
  <2> HIDE DEF Excepted
  <2> QED BY <1>2, <1>3 DEF EN!Init, PlanTypes
<1>5. \A r \in Request : planTask[r] = EN!Idle
  BY <1>2
<1> QED BY <1>1, <1>4, <1>5 DEF PlanInv

LEMMA PlanTypeOK ==
  ASSUME PlanInv
  PROVE  EN!TypeOK
<1>1. \A t \in PlanTask : t = EN!Idle \/ t.sure \in BOOLEAN
  BY DEF PlanTask
<1> QED BY <1>1 DEF PlanInv, PlanTypes, EN!TypeOK, Excepted

\* A count that goes over the limit.
LEMMA OverLimit ==
  ASSUME PlanInv, EN!Next, count' > count, EN!Exceeds(count', EN!LimitFor(plan))
  PROVE  EN!OrderAtCatalog \/ EN!CreatesUnsurely
<1>1. count \in Nat
  BY PlansAssumption DEF PlanInv, PlanTypes
<1>2. count' = count => FALSE
  BY <1>1
<1>3. EN!OrderAtCatalog \/ \E r \in Request : EN!Create(r)
  <2>1. ~EN!Delete /\ ~EN!NewMonth
    BY <1>1 DEF EN!Delete, EN!NewMonth
  <2>2. ~EN!Administer
    BY <1>2 DEF EN!Administer, EN!AddException, EN!Begin, EN!End, EN!Excepts, EN!SwitchWindow,
         EN!SetOverride
  <2>3. /\ ~EN!Login /\ \A p \in EN!Plan : ~EN!ChangePlan(p)
        /\ \A r \in Request : ~EN!PassGuard(r) /\ ~EN!Fail(r)
    BY <1>2 DEF EN!PassGuard, EN!Fail, EN!Login, EN!ChangePlan
  <2> QED BY <2>1, <2>2, <2>3 DEF EN!Next
<1>4. ASSUME NEW r \in Request, EN!Create(r), planTask[r].sure
      PROVE  FALSE
  <2>1. PICK limit \in Nat \cup {-1} : limit = EN!LimitFor(plan)
    <3>1. LimitOn(exceptions, plan, kind, window, override) \in Nat \cup {EN!Unlimited}
      BY LimitTypes DEF PlanInv, PlanTypes
    <3> QED BY <3>1, Unfolded DEF EN!Unlimited
  <2>2. limit = -1 \/ count < limit
    BY <1>4, <2>1 DEF PlanInv, Stands, EN!Create, EN!Unlimited
  <2>3. count' = count + 1
    BY <1>4 DEF EN!Create
  <2>4. EN!Exceeds(count', limit)
    BY <2>1
  <2> QED BY <1>1, <2>1, <2>2, <2>3, <2>4 DEF EN!Exceeds, EN!Unlimited
<1> QED BY <1>3, <1>4 DEF EN!CreatesUnsurely

\* What the screens tell of a plan.
LEMMA StatedThen ==
  ASSUME PlanInv
  PROVE  EN!Stated
<1>1. EN!FeaturesAllowed # EN!ShownFeatures => claimed # plan
  BY DEF EN!FeaturesAllowed, EN!ShownFeatures
<1>2. ASSUME claimed = plan, ~\E e \in EN!ToSet(exceptions) : e.begun, ~(plan = "free" /\ override # EN!None)
      PROVE  EN!LimitFor(claimed) = EN!ShownLimit
  <2>1. \A type : Forces(exceptions, type) = {}
    BY <1>2 DEF Forces, EN!ToSet
  <2>2. ~Opened(exceptions) /\ Granted(exceptions, plan) = plan /\ Limited(exceptions) = EN!None
    BY <2>1 DEF Opened, Granted, Limited
  <2>3. EN!LimitFor(claimed) = LimitOn(exceptions, claimed, kind, window, override)
    BY Unfolded
  <2> QED BY <1>2, <2>2, <2>3 DEF LimitOn, LimitThen, EN!ShownLimit
<1> QED BY <1>1, <1>2 DEF EN!Stated

\* The exceptions that a step leaves, but for one that is added, were there before.
LEMMA ExceptionsStep ==
  ASSUME PlanInv, EN!Next, NEW i \in DOMAIN exceptions',
         i \notin DOMAIN exceptions \/ EN!Begin(i)
  PROVE  /\ UNCHANGED <<kind, plan, window, override>>
         /\ exceptions' \in Seq(Excepted) /\ DOMAIN exceptions \subseteq DOMAIN exceptions'
         /\ \A j \in DOMAIN exceptions' \ {i} : j \in DOMAIN exceptions /\ exceptions'[j] = exceptions[j]
         /\ i \in DOMAIN exceptions => ~exceptions[i].begun
<1>1. exceptions \in Seq(Excepted) /\ Len(exceptions) \in Nat /\ DOMAIN exceptions = 1..Len(exceptions)
  BY DEF PlanInv, PlanTypes
<1>2. exceptions' \in Seq(Excepted)
  BY PlanNextInv DEF PlanInv, PlanTypes
<1>3. CASE EN!Begin(i)
  <2>1. /\ exceptions' = [exceptions EXCEPT ![i].begun = TRUE] /\ ~exceptions[i].begun
        /\ UNCHANGED <<kind, plan, window, override>>
    BY <1>3 DEF EN!Begin, EN!Excepts
  <2> QED BY <1>1, <1>2, <2>1
<1>4. CASE i \notin DOMAIN exceptions
  <2>1. PICK what \in EN!Exception, begun \in BOOLEAN : EN!AddException(what, begun)
    <3>1. exceptions' = exceptions => FALSE
      BY <1>4
    <3>2. ASSUME NEW j \in DOMAIN exceptions, EN!Begin(j)
          PROVE  FALSE
      BY <1>4, <3>2 DEF EN!Begin, EN!Excepts
    <3>3. ASSUME NEW j \in DOMAIN exceptions, EN!End(j)
          PROVE  FALSE
      <4>1. PICK a, b : a = SubSeq(exceptions, 1, j - 1) /\ b = SubSeq(exceptions, j + 1, Len(exceptions))
        OBVIOUS
      <4>2. a \in Seq(Excepted) /\ Len(a) = j - 1
        BY <1>1, <4>1, SubSeqProperties, ElementOfSeq
      <4>3. b \in Seq(Excepted) /\ Len(b) = Len(exceptions) - j
        BY <1>1, <4>1, SubSeqProperties, ElementOfSeq
      <4>4. exceptions' = a \o b
        BY <3>3, <4>1 DEF EN!End, EN!Excepts, EN!RemoveAt
      <4>5. Len(exceptions') = Len(exceptions) - 1
        <5>1. Len(a \o b) = Len(a) + Len(b)
          <6> HIDE DEF Excepted
          <6> QED BY <4>2, <4>3
        <5> QED BY <1>1, <4>2, <4>3, <4>4, <5>1
      <4> QED BY <1>1, <1>2, <1>4, <4>5
    <3> QED BY <3>1, <3>2, <3>3 DEF EN!Next, EN!PassGuard, EN!Fail, EN!Create, EN!OrderAtCatalog,
               EN!Delete, EN!NewMonth, EN!Login, EN!ChangePlan, EN!Administer, EN!SwitchWindow,
               EN!SetOverride
  <2>2. /\ exceptions' = Append(exceptions, [what |-> what, begun |-> begun])
        /\ UNCHANGED <<kind, plan, window, override>>
    BY <2>1 DEF EN!AddException, EN!Excepts
  <2>3. /\ DOMAIN exceptions' = 1..(Len(exceptions) + 1)
        /\ \A j \in DOMAIN exceptions : exceptions'[j] = exceptions[j]
    BY <1>1, <2>2
  <2> QED BY <1>1, <1>2, <1>4, <2>2, <2>3
<1> QED BY <1>3, <1>4

LEMMA BeginsThen ==
  ASSUME PlanInv, EN!Next, NEW i \in DOMAIN exceptions',
         i \notin DOMAIN exceptions \/ EN!Begin(i)
  PROVE  EN!Gives(exceptions'[i].what)
<1>1. PICK s, s1, p, k, w, o : /\ s = exceptions /\ s1 = exceptions' /\ p = plan /\ k = kind
                               /\ w = window /\ o = override
  OBVIOUS
<1>2. /\ s \in Seq(Excepted) /\ p \in EN!Plan /\ k \in EN!Kind /\ w \in BOOLEAN
      /\ o \in Custom \cup {EN!None}
  BY <1>1 DEF PlanInv, PlanTypes
<1>3. /\ s1 \in Seq(Excepted) /\ i \in DOMAIN s1 /\ DOMAIN s \subseteq DOMAIN s1
      /\ \A j \in DOMAIN s1 \ {i} : j \in DOMAIN s /\ s1[j] = s[j]
      /\ i \in DOMAIN s => ~s[i].begun
  BY <1>1, ExceptionsStep
<1>4. PICK what : what = s1[i].what
  OBVIOUS
<1>5. /\ EN!Exceeds(LimitOn(s, p, k, w, o), LimitOn(s1, p, k, w, o)) =>
            \/ what.type = "custom_limits"
            \/ /\ what.type = "plan_grant"
               /\ EN!FeaturesOf[what.granted] # FeaturesOn(s, p, w)
               /\ EN!FeaturesOf[what.granted] \subseteq FeaturesOn(s, p, w)
            \/ /\ what.type = "plan_grant"
               /\ w \/ EN!Exceeds(o, LimitOf[what.granted][k])
      /\ ~(FeaturesOn(s, p, w) \subseteq FeaturesOn(s1, p, w)) =>
            \/ /\ what.type = "plan_grant"
               /\ EN!FeaturesOf[what.granted] # FeaturesOn(s, p, w)
               /\ EN!FeaturesOf[what.granted] \subseteq FeaturesOn(s, p, w)
            \/ what.type = "unlimited_window" /\ Forces(s, "plan_grant") # {}
  <2>1. Giving(s, s1[i].what, s1, p, k, w, o)
    BY <1>2, <1>3, BeginsGiving
  <2> QED BY <1>4, <2>1 DEF Giving
<1>6. UNCHANGED <<kind, plan, window, override>>
  BY ExceptionsStep
<1>7. /\ EN!LimitFor(plan) = LimitOn(s, p, k, w, o) /\ EN!FeaturesFor(plan) = FeaturesOn(s, p, w)
      /\ EN!LimitFor(plan)' = LimitOn(s1, p, k, w, o) /\ EN!FeaturesFor(plan)' = FeaturesOn(s1, p, w)
      /\ EN!InForceOf("plan_grant") = Forces(s, "plan_grant")
  BY <1>1, <1>6, Unfolded DEF EN!InForceOf, Forces
<1>8. what = exceptions'[i].what
  BY <1>1, <1>4
<1> HIDE DEF Forces
<1>9. EN!Gives(what)
  BY <1>1, <1>5, <1>7 DEF EN!Gives, EN!Lowers
<1> QED BY <1>8, <1>9
-----------------------------------------------------------------------------
(* The passwords of customers *)

\* What a request has left to write: of a new code once the code is set, of a code
\* that is consumed, of one that dies, of a wrong answer that is noted, the cooldown
\* that comes last, and the deletion of an invite.
Renewing == <<CP!Set("attempts", CP!NoAttempts), CP!Set("cooldown", TRUE)>>
Ending == <<CP!Set("attempts", CP!NoAttempts), CP!Set("cooldown", FALSE)>>
Dying == <<CP!Set("otp", CP!None), CP!Set("attempts", CP!NoAttempts)>>
Clearing == <<CP!Set("attempts", CP!NoAttempts)>>
Noting(c, n) == <<CP!Set("attempts", [of |-> c, count |-> n])>>
Cooling(b) == <<CP!Set("cooldown", b)>>
Deleting(i) == <<CP!Set("invite", i)>>

Sent == CP!Code \cup {CP!None}
Noted == 1..OTP_MAX_ATTEMPTS - 1

Todo ==
    {CP!NewCode(c) : c \in CP!Code} \cup {CP!Consumed("code")}
      \cup {Renewing, Ending, Dying, Clearing, <<>>}
      \cup {Noting(c, n) : c \in Sent, n \in Noted}
      \cup {Cooling(b) : b \in BOOLEAN} \cup {Deleting(i) : i \in Invite}

PasswordTask ==
    {CP!Idle} \cup [op : {"answer"}, code : Sent] \cup [op : {"count"}]
      \cup [op : {"store"}, by : Invite \cup {"code"}] \cup [op : {"write"}, todo : Todo]

Keys == [otp : Sent, attempts : [of : Sent, count : 0..OTP_MAX_ATTEMPTS - 1], cooldown : BOOLEAN]

PasswordTypes ==
    /\ hasPassword \in BOOLEAN
    /\ redis \in Keys
    /\ invites \subseteq Invite /\ usedInvites \subseteq Invite /\ loose \subseteq Invite
    /\ codes \in 0..MaxCodes /\ wrong \in Nat /\ clean \in BOOLEAN
    /\ passwordTask \in [Request -> PasswordTask]

\* The n wrong answers to the code that lives are counted, and no others.
Steady(rd, n) == n = rd.attempts.count /\ (rd.attempts.of = rd.otp \/ rd.attempts = CP!NoAttempts)

\* What is left to write leaves the count alone for now.
Ordinary(todo) ==
    /\ todo \notin {Renewing, Ending, Dying, Clearing}
    /\ \A c \in Sent, m \in Noted : todo # Noting(c, m)

\* While a code lives and its requests come one by one, what t, the one at work,
\* makes of n wrong answers.
Told(t, rd, n) ==
    /\ t.op \in {"none", "answer", "store"} => Steady(rd, n)
    /\ t.op = "count" => Steady(rd, n - 1)
    /\ t.op = "write" =>
          /\ t.todo \notin {Ending, Clearing}
          /\ t.todo = Renewing => n = 0
          /\ \A c \in Sent, m \in Noted : t.todo = Noting(c, m) => c = rd.otp /\ n = m
          /\ Ordinary(t.todo) => Steady(rd, n)

Lone(r) == \A q \in Request \ {r} : passwordTask[q] = CP!Idle

CodeInv ==
    /\ Request = {} => redis.otp = CP!None
    /\ clean => \A r \in Request :
                   /\ passwordTask[r] = CP!Idle \/ Lone(r)
                   /\ redis.otp # CP!None /\ Lone(r) => Told(passwordTask[r], redis, wrong)

\* t is about to set a password with invite i, or about to delete it.
Stores(t, i) == t.op = "store" /\ t.by = i
Deletes(t, i) == t.op = "write" /\ t.todo = Deleting(i)
Holds(t, i) == Stores(t, i) \/ Deletes(t, i)

\* An invite whose redemptions neither overlapped nor failed: one request holds it at
\* most, and once it has set a password it waits only for its deletion.
InviteInv ==
    \A i \in Invite \ loose :
        /\ \A r, q \in Request : Holds(passwordTask[r], i) /\ Holds(passwordTask[q], i) => r = q
        /\ i \in usedInvites =>
              /\ \A r \in Request : ~Stores(passwordTask[r], i)
              /\ i \in invites => \E r \in Request : Deletes(passwordTask[r], i)

PasswordInv == PasswordTypes /\ CodeInv /\ InviteInv

\* What the lists of commands begin with.
LEMMA Commands ==
  /\ Len(Renewing) = 2 /\ Renewing[1][1] = "attempts" /\ Renewing[2][2] = TRUE
  /\ Len(Ending) = 2 /\ Ending[1][1] = "attempts" /\ Ending[2][2] = FALSE
  /\ Len(Dying) = 2 /\ Dying[1][1] = "otp" /\ Len(Clearing) = 1 /\ Clearing[1][1] = "attempts"
  /\ Clearing[1][2] = CP!NoAttempts /\ CP!NoAttempts.count = 0 /\ CP!NoAttempts.of = CP!None
  /\ \A c, n : /\ Len(Noting(c, n)) = 1 /\ Noting(c, n)[1][1] = "attempts"
               /\ Noting(c, n)[1][2].of = c /\ Noting(c, n)[1][2].count = n
  /\ \A b : Len(Cooling(b)) = 1 /\ Cooling(b)[1][1] = "cooldown"
  /\ \A i : Len(Deleting(i)) = 1 /\ Deleting(i)[1][1] = "invite" /\ Deleting(i)[1][2] = i
  /\ \A c : Len(CP!NewCode(c)) = 3 /\ CP!NewCode(c)[1][1] = "otp"
  /\ Len(CP!Consumed("code")) = 3 /\ CP!Consumed("code")[1][1] = "otp"
<1>1. \A k, v : CP!Set(k, v)[1] = k /\ CP!Set(k, v)[2] = v
  BY DEF CP!Set
<1>2. CP!NoAttempts.count = 0 /\ CP!NoAttempts.of = CP!None
  BY DEF CP!NoAttempts
<1>3. /\ Len(Renewing) = 2 /\ Renewing[1][1] = "attempts" /\ Renewing[2][2] = TRUE
      /\ Len(Ending) = 2 /\ Ending[1][1] = "attempts" /\ Ending[2][2] = FALSE
      /\ Len(Dying) = 2 /\ Dying[1][1] = "otp" /\ Len(Clearing) = 1 /\ Clearing[1][1] = "attempts"
      /\ Clearing[1][2] = CP!NoAttempts
  BY <1>1 DEF Renewing, Ending, Dying, Clearing
<1>4. \A c, n : /\ Len(Noting(c, n)) = 1 /\ Noting(c, n)[1][1] = "attempts"
                /\ Noting(c, n)[1][2].of = c /\ Noting(c, n)[1][2].count = n
  BY <1>1 DEF Noting
<1>5. /\ \A b : Len(Cooling(b)) = 1 /\ Cooling(b)[1][1] = "cooldown"
      /\ \A i : Len(Deleting(i)) = 1 /\ Deleting(i)[1][1] = "invite" /\ Deleting(i)[1][2] = i
  BY <1>1 DEF Cooling, Deleting
<1>6. \A c : Len(CP!NewCode(c)) = 3 /\ CP!NewCode(c)[1][1] = "otp"
  BY <1>1 DEF CP!NewCode
<1>7. Len(CP!Consumed("code")) = 3 /\ CP!Consumed("code")[1][1] = "otp"
  BY <1>1 DEF CP!Consumed
<1> QED BY <1>2, <1>3, <1>4, <1>5, <1>6, <1>7

LEMMA TodosApart ==
  /\ Ordinary(CP!Consumed("code")) /\ Ordinary(<<>>)
  /\ \A c \in CP!Code : Ordinary(CP!NewCode(c))
  /\ \A b \in BOOLEAN : Ordinary(Cooling(b))
  /\ \A i \in Invite : Ordinary(Deleting(i))
  /\ Renewing \notin {Ending, Clearing} /\ Dying \notin {Renewing, Ending, Clearing}
  /\ \A c \in Sent, m \in Noted :
        /\ Noting(c, m) \notin {Renewing, Ending, Dying, Clearing}
        /\ \A d \in Sent, n \in Noted : Noting(c, m) = Noting(d, n) => c = d /\ m = n
<1>1. Ordinary(CP!Consumed("code")) /\ \A c \in CP!Code : Ordinary(CP!NewCode(c))
  BY Commands DEF Ordinary
<1>2. Ordinary(<<>>)
  <2>1. Len(<<>>) = 0
    OBVIOUS
  <2> QED BY <2>1, Commands DEF Ordinary
<1>3. \A b \in BOOLEAN : Ordinary(Cooling(b))
  BY Commands DEF Ordinary
<1>4. \A i \in Invite : Ordinary(Deleting(i))
  BY Commands DEF Ordinary
<1>5. Renewing \notin {Ending, Clearing} /\ Dying \notin {Renewing, Ending, Clearing}
  BY Commands
<1>6. ASSUME NEW c \in Sent, NEW m \in Noted
      PROVE  /\ Noting(c, m) \notin {Renewing, Ending, Dying, Clearing}
             /\ \A d \in Sent, n \in Noted : Noting(c, m) = Noting(d, n) => c = d /\ m = n
  <2>1. m # 0
    BY PasswordsAssumption DEF Noted
  <2>2. \A d, n : Noting(c, m) = Noting(d, n) => c = d /\ m = n
    BY Commands
  <2> QED BY <2>1, <2>2, Commands
<1> QED BY <1>1, <1>2, <1>3, <1>4, <1>5, <1>6

\* The next command of a request, and what it leaves to write.
LEMMA TodoCases ==
  ASSUME NEW todo \in Todo
  PROVE  \/ todo = <<>>
         \/ \E c \in CP!Code : /\ todo = CP!NewCode(c) /\ todo # <<>> /\ Ordinary(todo)
                               /\ Head(todo) = CP!Set("otp", c) /\ Tail(todo) = Renewing
         \/ /\ todo = CP!Consumed("code") /\ todo # <<>> /\ Ordinary(todo)
            /\ Head(todo) = CP!Set("otp", CP!None) /\ Tail(todo) = Ending
         \/ /\ todo = Dying /\ todo # <<>>
            /\ Head(todo) = CP!Set("otp", CP!None) /\ Tail(todo) = Clearing
         \/ /\ \/ todo = Renewing /\ Tail(todo) = Cooling(TRUE)
               \/ todo = Ending /\ Tail(todo) = Cooling(FALSE)
               \/ todo = Clearing /\ Tail(todo) = <<>>
            /\ todo # <<>> /\ Head(todo) = CP!Set("attempts", CP!NoAttempts)
         \/ \E c \in Sent, n \in Noted :
               /\ todo = Noting(c, n) /\ todo # <<>> /\ Tail(todo) = <<>>
               /\ Head(todo) = CP!Set("attempts", [of |-> c, count |-> n])
         \/ \E b \in BOOLEAN : /\ todo = Cooling(b) /\ todo # <<>> /\ Ordinary(todo)
                               /\ Head(todo) = CP!Set("cooldown", b) /\ Tail(todo) = <<>>
         \/ \E i \in Invite : /\ todo = Deleting(i) /\ todo # <<>> /\ Ordinary(todo)
                              /\ Head(todo) = CP!Set("invite", i) /\ Tail(todo) = <<>>
<1>1. \A a : <<a>> # <<>> /\ Head(<<a>>) = a /\ Tail(<<a>>) = <<>>
  OBVIOUS
<1>2. \A a, b : <<a, b>> # <<>> /\ Head(<<a, b>>) = a /\ Tail(<<a, b>>) = <<b>>
  OBVIOUS
<1>3. \A a, b, c : <<a, b, c>> # <<>> /\ Head(<<a, b, c>>) = a /\ Tail(<<a, b, c>>) = <<b, c>>
  OBVIOUS
<1>4. ASSUME NEW c \in CP!Code, todo = CP!NewCode(c)
      PROVE  todo # <<>> /\ Head(todo) = CP!Set("otp", c) /\ Tail(todo) = Renewing
  BY <1>3, <1>4 DEF CP!NewCode, Renewing
<1>5. CASE todo = CP!Consumed("code")
  <2>1. todo # <<>> /\ Head(todo) = CP!Set("otp", CP!None) /\ Tail(todo) = Ending
    BY <1>3, <1>5 DEF CP!Consumed, Ending
  <2> QED BY <1>5, <2>1, TodosApart
<1>6. CASE todo = Dying
  <2>1. todo # <<>> /\ Head(todo) = CP!Set("otp", CP!None) /\ Tail(todo) = Clearing
    BY <1>2, <1>6 DEF Dying, Clearing
  <2> QED BY <1>6, <2>1
<1>7. CASE todo \in {Renewing, Ending, Clearing}
  <2>1. todo # <<>> /\ Head(todo) = CP!Set("attempts", CP!NoAttempts)
    BY <1>1, <1>2, <1>7 DEF Renewing, Ending, Clearing
  <2>2. /\ todo = Renewing => Tail(todo) = Cooling(TRUE)
        /\ todo = Ending => Tail(todo) = Cooling(FALSE)
        /\ todo = Clearing => Tail(todo) = <<>>
    BY <1>1, <1>2 DEF Renewing, Ending, Clearing, Cooling
  <2> QED BY <1>7, <2>1, <2>2
<1>8. ASSUME NEW c \in Sent, NEW n \in Noted, todo = Noting(c, n)
      PROVE  /\ todo # <<>> /\ Tail(todo) = <<>>
             /\ Head(todo) = CP!Set("attempts", [of |-> c, count |-> n])
  BY <1>1, <1>8 DEF Noting
<1>9. ASSUME NEW b \in BOOLEAN, todo = Cooling(b)
      PROVE  todo # <<>> /\ Tail(todo) = <<>> /\ Head(todo) = CP!Set("cooldown", b)
  BY <1>1, <1>9 DEF Cooling
<1>10. ASSUME NEW i \in Invite, todo = Deleting(i)
       PROVE  todo # <<>> /\ Tail(todo) = <<>> /\ Head(todo) = CP!Set("invite", i)
  BY <1>1, <1>10 DEF Deleting
<1>11. \/ todo \in {Renewing, Ending, Clearing, Dying, CP!Consumed("code"), <<>>}
       \/ \E c \in CP!Code : todo = CP!NewCode(c)
       \/ \E c \in Sent, n \in Noted : todo = Noting(c, n)
       \/ \E b \in BOOLEAN : todo = Cooling(b)
       \/ \E i \in Invite : todo = Deleting(i)
  BY DEF Todo
<1>12. CASE \E c \in CP!Code : todo = CP!NewCode(c)
  BY <1>4, <1>12, TodosApart
<1>13. CASE \E c \in Sent, n \in Noted : todo = Noting(c, n)
  BY <1>8, <1>13
<1>14. CASE \E b \in BOOLEAN : todo = Cooling(b)
  BY <1>9, <1>14, TodosApart
<1>15. CASE \E i \in Invite : todo = Deleting(i)
  BY <1>10, <1>15, TodosApart
<1> QED BY <1>5, <1>6, <1>7, <1>11, <1>12, <1>13, <1>14, <1>15

\* The parts of a task, by what it does.
LEMMA PasswordTaskTypes ==
  ASSUME NEW t \in PasswordTask
  PROVE  /\ t.op \in {"none", "answer", "count", "store", "write"}
         /\ t = CP!Idle <=> t.op = "none"
         /\ t.op = "answer" => t.code \in Sent
         /\ t.op = "store" => t.by \in Invite \cup {"code"}
         /\ t.op = "write" => t.todo \in Todo
<1>1. CP!Idle.op = "none"
  BY DEF CP!Idle
<1>2. \/ t = CP!Idle
      \/ t \in [op : {"answer"}, code : Sent]
      \/ t \in [op : {"count"}]
      \/ t \in [op : {"store"}, by : Invite \cup {"code"}]
      \/ t \in [op : {"write"}, todo : Todo]
  BY DEF PasswordTask
<1> QED BY <1>1, <1>2

\* The tasks that the actions make.
LEMMA PasswordTasks ==
  /\ CP!Idle \in PasswordTask /\ CP!Idle.op = "none"
  /\ \A code \in Sent : /\ [op |-> "answer", code |-> code] \in PasswordTask
                        /\ [op |-> "answer", code |-> code].op = "answer"
  /\ [op |-> "count"] \in PasswordTask /\ [op |-> "count"].op = "count"
  /\ \A by \in Invite \cup {"code"} : /\ [op |-> "store", by |-> by] \in PasswordTask
                                      /\ [op |-> "store", by |-> by].op = "store"
                                      /\ [op |-> "store", by |-> by].by = by
  /\ \A todo \in Todo : /\ CP!Writes(todo) \in PasswordTask
                        /\ CP!Writes(todo).op = "write" /\ CP!Writes(todo).todo = todo
<1>1. CP!Idle \in PasswordTask /\ CP!Idle.op = "none"
  BY DEF PasswordTask, CP!Idle
<1>2. ASSUME NEW code \in Sent
      PROVE  /\ [op |-> "answer", code |-> code] \in PasswordTask
             /\ [op |-> "answer", code |-> code].op = "answer"
  <2>1. [op |-> "answer", code |-> code] \in [op : {"answer"}, code : Sent]
    OBVIOUS
  <2> QED BY <2>1 DEF PasswordTask
<1>3. [op |-> "count"] \in PasswordTask /\ [op |-> "count"].op = "count"
  <2>1. [op |-> "count"] \in [op : {"count"}]
    OBVIOUS
  <2> QED BY <2>1 DEF PasswordTask
<1>4. ASSUME NEW by \in Invite \cup {"code"}
      PROVE  /\ [op |-> "store", by |-> by] \in PasswordTask
             /\ [op |-> "store", by |-> by].op = "store" /\ [op |-> "store", by |-> by].by = by
  <2>1. [op |-> "store", by |-> by] \in [op : {"store"}, by : Invite \cup {"code"}]
    OBVIOUS
  <2> QED BY <2>1 DEF PasswordTask
<1>5. ASSUME NEW todo \in Todo
      PROVE  /\ CP!Writes(todo) \in PasswordTask
             /\ CP!Writes(todo).op = "write" /\ CP!Writes(todo).todo = todo
  <2>1. PICK t : t = [op |-> "write", todo |-> todo]
    OBVIOUS
  <2>2. t \in [op : {"write"}, todo : Todo] /\ t.op = "write" /\ t.todo = todo
    BY <2>1
  <2>3. CP!Writes(todo) = t
    BY <2>1 DEF CP!Writes
  <2> QED BY <2>2, <2>3 DEF PasswordTask
<1> QED BY <1>1, <1>2, <1>3, <1>4, <1>5

\* Redeeming, without a look into the lists of commands.
LEMMA HoldsIs ==
  ASSUME PasswordTypes, NEW i \in Invite, NEW r \in Request
  PROVE  r \in CP!Redeeming(i) <=> Holds(passwordTask[r], i)
<1>1. PICK t \in PasswordTask : t = passwordTask[r]
  BY DEF PasswordTypes
<1>2. ASSUME NEW todo \in Todo
      PROVE  CP!Set("invite", i) \in {todo[n] : n \in DOMAIN todo} <=> todo = Deleting(i)
  <2>1. \A k, v : CP!Set(k, v)[1] = k /\ CP!Set(k, v)[2] = v
    BY DEF CP!Set
  <2>2. CASE \E j \in Invite : todo = Deleting(j)
    <3>1. PICK j \in Invite : todo = Deleting(j)
      BY <2>2
    <3>2. {todo[n] : n \in DOMAIN todo} = {CP!Set("invite", j)}
      BY <3>1 DEF Deleting
    <3>3. CP!Set("invite", i) = CP!Set("invite", j) => i = j
      BY <2>1
    <3>4. Deleting(i) = Deleting(j) => i = j
      BY Commands
    <3> QED BY <3>1, <3>2, <3>3, <3>4
  <2>3. CASE \A j \in Invite : todo # Deleting(j)
    <3>1. \A n \in DOMAIN todo : todo[n][1] # "invite"
      <4>1. /\ \A a : \A n \in DOMAIN <<a>> : <<a>>[n] = a
            /\ \A a, b : \A n \in DOMAIN <<a, b>> : <<a, b>>[n] = a \/ <<a, b>>[n] = b
        OBVIOUS
      <4>2. \A a, b, c : \A n \in DOMAIN <<a, b, c>> :
               <<a, b, c>>[n] = a \/ <<a, b, c>>[n] = b \/ <<a, b, c>>[n] = c
        OBVIOUS
      <4>3. PICK no, on, off : /\ no = CP!Set("attempts", CP!NoAttempts) /\ no[1] = "attempts"
                               /\ on = CP!Set("cooldown", TRUE) /\ on[1] = "cooldown"
                               /\ off = CP!Set("cooldown", FALSE) /\ off[1] = "cooldown"
        <5>1. /\ CP!Set("attempts", CP!NoAttempts)[1] = "attempts"
              /\ CP!Set("cooldown", TRUE)[1] = "cooldown" /\ CP!Set("cooldown", FALSE)[1] = "cooldown"
          BY <2>1
        <5>2. PICK no, on, off : /\ no = CP!Set("attempts", CP!NoAttempts)
                                 /\ on = CP!Set("cooldown", TRUE) /\ off = CP!Set("cooldown", FALSE)
          OBVIOUS
        <5> QED BY <5>1, <5>2
      <4>4. CASE todo = <<>>
        BY <4>4
      <4>5. ASSUME NEW c, NEW last \in {on, off}, todo = <<CP!Set("otp", c), no, last>>
            PROVE  \A n \in DOMAIN todo : todo[n][1] # "invite"
        <5>1. PICK first : first = CP!Set("otp", c) /\ first[1] = "otp"
          BY <2>1
        <5> QED BY <4>2, <4>3, <4>5, <5>1, ZenonT(40)
      <4>6. CASE todo = CP!Consumed("code")
        BY <4>3, <4>5, <4>6 DEF CP!Consumed
      <4>7. CASE \E c \in CP!Code : todo = CP!NewCode(c)
        BY <4>3, <4>5, <4>7 DEF CP!NewCode
      <4>8. CASE todo \in {Renewing, Ending}
        <5>1. PICK last \in {on, off} : todo = <<no, last>>
          BY <4>3, <4>8 DEF Renewing, Ending
        <5> QED BY <4>1, <4>3, <5>1
      <4>9. CASE todo = Dying
        <5>1. PICK first : first = CP!Set("otp", CP!None) /\ first[1] = "otp"
          BY <2>1
        <5>2. todo = <<first, no>>
          BY <4>3, <4>9, <5>1 DEF Dying
        <5> QED BY <4>1, <4>3, <5>1, <5>2
      <4>10. CASE \/ todo = Clearing
                  \/ \E c \in Sent, n \in Noted : todo = Noting(c, n)
                  \/ \E b \in BOOLEAN : todo = Cooling(b)
        <5>1. PICK k, v : todo = <<CP!Set(k, v)>> /\ k \in {"attempts", "cooldown"}
          BY <4>10 DEF Clearing, Noting, Cooling
        <5>2. PICK a : a = CP!Set(k, v) /\ a[1] = k
          BY <2>1
        <5> QED BY <4>1, <5>1, <5>2
      <4> QED BY <2>3, <4>4, <4>6, <4>7, <4>8, <4>9, <4>10 DEF Todo
    <3>2. todo # Deleting(i) /\ \A n \in DOMAIN todo : todo[n] # CP!Set("invite", i)
      BY <2>1, <2>3, <3>1
    <3> QED BY <3>2
  <2> QED BY <2>2, <2>3
<1>3. t.op = "write" => t.todo \in Todo
  BY PasswordTaskTypes
<1>4. Holds(t, i) <=> \/ t.op = "store" /\ t.by = i
                      \/ t.op = "write" /\ CP!Set("invite", i) \in {t.todo[n] : n \in DOMAIN t.todo}
  BY <1>2, <1>3 DEF Holds, Stores, Deletes
<1> QED BY <1>1, <1>4 DEF CP!Redeeming

\* A step of r that leaves it with t keeps the count of wrong answers.
LEMMA CodeStep ==
  ASSUME PasswordTypes, CodeInv, NEW r \in Request, NEW t \in PasswordTask, CP!Does(r, t),
         clean' => Lone(r) /\ (redis'.otp # CP!None => Told(t, redis', wrong'))
  PROVE  CodeInv'
<1>1. passwordTask' = [passwordTask EXCEPT ![r] = t]
  BY DEF CP!Does
<1>2. \A q \in Request : passwordTask'[q] = IF q = r THEN t ELSE passwordTask[q]
  BY <1>1 DEF PasswordTypes
<1>3. ASSUME clean', NEW q \in Request
      PROVE  /\ passwordTask'[q] = CP!Idle \/ \A p \in Request \ {q} : passwordTask'[p] = CP!Idle
             /\ redis'.otp # CP!None /\ (\A p \in Request \ {q} : passwordTask'[p] = CP!Idle) =>
                   Told(passwordTask'[q], redis', wrong')
  <2>1. \A p \in Request \ {r} : passwordTask'[p] = CP!Idle
    BY <1>2, <1>3 DEF Lone
  <2>2. CASE q = r
    BY <1>2, <1>3, <2>1, <2>2
  <2>3. CASE q # r
    BY <1>2, <1>3, <2>1, <2>3
  <2> QED BY <2>2, <2>3
<1> QED BY <1>3 DEF CodeInv, Lone

\* A step of r that leaves it with t keeps what holds of the invites.
LEMMA InviteStep ==
  ASSUME PasswordTypes, InviteInv, NEW r \in Request, NEW t \in PasswordTask, CP!Does(r, t),
         invites' \subseteq invites,
         \A i \in Invite \ loose' :
            /\ i \notin loose
            /\ Holds(t, i) =>
                  Holds(passwordTask[r], i) \/ \A q \in Request : ~Holds(passwordTask[q], i)
            /\ i \in usedInvites' =>
                  /\ ~Stores(t, i)
                  /\ \/ i \in usedInvites
                     \/ Stores(passwordTask[r], i) /\ Deletes(t, i)
                  /\ i \in invites' /\ Deletes(passwordTask[r], i) => Deletes(t, i)
  PROVE  InviteInv'
<1>1. passwordTask' = [passwordTask EXCEPT ![r] = t]
  BY DEF CP!Does
<1>2. \A q \in Request : passwordTask'[q] = IF q = r THEN t ELSE passwordTask[q]
  BY <1>1 DEF PasswordTypes
<1>3. ASSUME NEW i \in Invite \ loose'
      PROVE  /\ \A q, p \in Request : Holds(passwordTask'[q], i) /\ Holds(passwordTask'[p], i) => q = p
             /\ i \in usedInvites' =>
                   /\ \A q \in Request : ~Stores(passwordTask'[q], i)
                   /\ i \in invites' => \E q \in Request : Deletes(passwordTask'[q], i)
  <2>1. /\ \A q, p \in Request : Holds(passwordTask[q], i) /\ Holds(passwordTask[p], i) => q = p
        /\ i \in usedInvites =>
              /\ \A q \in Request : ~Stores(passwordTask[q], i)
              /\ i \in invites => \E q \in Request : Deletes(passwordTask[q], i)
    BY <1>3 DEF InviteInv
  <2>2. \A q, p \in Request : Holds(passwordTask'[q], i) /\ Holds(passwordTask'[p], i) => q = p
    BY <1>2, <1>3, <2>1
  <2>3. ASSUME i \in usedInvites'
        PROVE  /\ \A q \in Request : ~Stores(passwordTask'[q], i)
               /\ i \in invites' => \E q \in Request : Deletes(passwordTask'[q], i)
    <3>1. CASE i \in usedInvites
      BY <1>2, <1>3, <2>1, <2>3, <3>1
    <3>2. CASE Stores(passwordTask[r], i) /\ Deletes(t, i)
      <4>1. \A q \in Request \ {r} : ~Stores(passwordTask[q], i)
        BY <2>1, <3>2 DEF Holds
      <4> QED BY <1>2, <1>3, <2>3, <3>2, <4>1
    <3> QED BY <1>3, <2>3, <3>1, <3>2
  <2> QED BY <2>2, <2>3
<1> QED BY <1>3 DEF InviteInv

\* A step of a request that has to do with no invite.
LEMMA CodeOnly ==
  ASSUME PasswordTypes, InviteInv, NEW r \in Request, NEW t \in PasswordTask, CP!Does(r, t),
         UNCHANGED <<invites, usedInvites, loose>>,
         \A i \in Invite : ~Holds(passwordTask[r], i) /\ ~Holds(t, i)
  PROVE  InviteInv'
<1>1. \A i \in Invite : ~Stores(t, i) /\ ~Deletes(passwordTask[r], i)
  BY DEF Holds
<1> QED BY <1>1, InviteStep

LEMMA ToldOrdinary ==
  ASSUME NEW todo \in Todo, Ordinary(todo), NEW rd, NEW n, Steady(rd, n)
  PROVE  Told(CP!Writes(todo), rd, n)
<1>1. CP!Writes(todo).op = "write" /\ CP!Writes(todo).todo = todo
  BY PasswordTasks
<1> QED BY <1>1 DEF Told, Ordinary

\* What a step of r may use.
LEMMA PasswordStep ==
  ASSUME PasswordInv, NEW r \in Request
  PROVE  \E t \in PasswordTask :
            /\ t = passwordTask[r]
            /\ clean /\ t.op # "none" => Lone(r)
            /\ clean /\ Lone(r) /\ redis.otp # CP!None => Told(t, redis, wrong)
            /\ \A u \in PasswordTask : CP!Does(r, u) => passwordTask' \in [Request -> PasswordTask]
            /\ CP!Alone(r) = Lone(r)
<1>1. PICK t \in PasswordTask : t = passwordTask[r]
  BY DEF PasswordInv, PasswordTypes
<1>2. t.op # "none" => t # CP!Idle
  BY PasswordTaskTypes
<1>3. clean => (t = CP!Idle \/ Lone(r)) /\ (redis.otp # CP!None /\ Lone(r) => Told(t, redis, wrong))
  BY <1>1 DEF PasswordInv, CodeInv
<1>4. \A u \in PasswordTask : CP!Does(r, u) => passwordTask' \in [Request -> PasswordTask]
  BY DEF PasswordInv, PasswordTypes, CP!Does
<1>5. CP!Alone(r) = Lone(r)
  BY DEF CP!Alone, Lone
<1> QED BY <1>1, <1>2, <1>3, <1>4, <1>5

\* A request about the code begins.
LEMMA BeginsInv ==
  ASSUME PasswordInv, NEW r \in Request,
         CP!AskForCode(r) \/ \E code \in Sent : CP!Answer(r, code)
  PROVE  PasswordInv'
<1>1. PICK t \in PasswordTask :
         /\ t = passwordTask[r]
         /\ clean /\ Lone(r) /\ redis.otp # CP!None => Told(t, redis, wrong)
         /\ \A u \in PasswordTask : CP!Does(r, u) => passwordTask' \in [Request -> PasswordTask]
         /\ CP!Alone(r) = Lone(r)
  BY PasswordStep
<1>2. PICK u \in PasswordTask :
         /\ CP!Does(r, u) /\ passwordTask[r] = CP!Idle /\ clean' = (clean /\ CP!Alone(r))
         /\ UNCHANGED <<hasPassword, redis, invites, wrong, usedInvites, loose>>
         /\ codes' \in 0..MaxCodes
         /\ \A i \in Invite : ~Holds(u, i)
         /\ Steady(redis, wrong) => Told(u, redis, wrong)
  <2>1. CASE CP!AskForCode(r)
    <3>1. codes + 1 \in CP!Code /\ codes' \in 0..MaxCodes
      BY <2>1, PasswordsAssumption DEF CP!AskForCode, PasswordInv, PasswordTypes, CP!Code
    <3>2. PICK todo \in Todo : todo = CP!NewCode(codes + 1) /\ Ordinary(todo) /\ Len(todo) = 3
      BY <3>1, TodosApart, Commands DEF Todo
    <3>3. PICK u \in PasswordTask : u = CP!Writes(todo) /\ u.op = "write" /\ u.todo = todo
      BY PasswordTasks
    <3>4. \A i \in Invite : ~Holds(u, i)
      BY <3>2, <3>3, Commands DEF Holds, Stores, Deletes
    <3>5. Steady(redis, wrong) => Told(u, redis, wrong)
      BY <3>2, <3>3, ToldOrdinary
    <3>6. /\ CP!Does(r, u) /\ passwordTask[r] = CP!Idle /\ clean' = (clean /\ CP!Alone(r))
          /\ UNCHANGED <<hasPassword, redis, invites, wrong, usedInvites, loose>>
      BY <2>1, <3>2, <3>3 DEF CP!AskForCode, CP!Begins
    <3> QED BY <3>1, <3>4, <3>5, <3>6
  <2>2. CASE \E code \in Sent : CP!Answer(r, code)
    <3>1. PICK code \in Sent : CP!Answer(r, code)
      BY <2>2
    <3>2. PICK u \in PasswordTask : u = [op |-> "answer", code |-> code] /\ u.op = "answer"
      BY PasswordTasks
    <3>3. \A i \in Invite : ~Holds(u, i)
      BY <3>2 DEF Holds, Stores, Deletes
    <3>4. Steady(redis, wrong) => Told(u, redis, wrong)
      BY <3>2 DEF Told
    <3>5. /\ CP!Does(r, u) /\ passwordTask[r] = CP!Idle /\ clean' = (clean /\ CP!Alone(r))
          /\ UNCHANGED <<hasPassword, redis, invites, wrong, usedInvites, loose, codes>>
      BY <3>1, <3>2 DEF CP!Answer, CP!Begins
    <3>6. codes' \in 0..MaxCodes
      BY <3>5 DEF PasswordInv, PasswordTypes
    <3> QED BY <3>3, <3>4, <3>5, <3>6
  <2> QED BY <2>1, <2>2
<1>3. t.op = "none" /\ \A i \in Invite : ~Holds(t, i)
  BY <1>1, <1>2, PasswordTasks DEF Holds, Stores, Deletes
<1>4. Told(t, redis, wrong) => Steady(redis, wrong)
  BY <1>3 DEF Told
<1>5. CodeInv'
  BY <1>1, <1>2, <1>4, CodeStep DEF PasswordInv
<1>6. InviteInv'
  BY <1>1, <1>2, <1>3, CodeOnly DEF PasswordInv
<1>7. clean' \in BOOLEAN
  BY <1>1, <1>2
<1> QED BY <1>1, <1>2, <1>5, <1>6, <1>7 DEF PasswordInv, PasswordTypes

\* The code is compared, a wrong answer counted, and the last command done.
LEMMA AnswerInv ==
  ASSUME PasswordInv, NEW r \in Request, CP!Compare(r) \/ CP!Count(r) \/ CP!Finish(r)
  PROVE  PasswordInv'
<1>1. PICK t \in PasswordTask :
         /\ t = passwordTask[r] /\ (clean /\ t.op # "none" => Lone(r))
         /\ clean /\ Lone(r) /\ redis.otp # CP!None => Told(t, redis, wrong)
         /\ \A u \in PasswordTask : CP!Does(r, u) => passwordTask' \in [Request -> PasswordTask]
  BY PasswordStep
<1>2. UNCHANGED <<hasPassword, redis, invites, codes, clean, usedInvites, loose>>
  BY DEF CP!Compare, CP!Count, CP!Finish
<1>3. wrong \in Nat /\ redis \in Keys
  BY DEF PasswordInv, PasswordTypes
<1>4. PICK u \in PasswordTask :
         /\ CP!Does(r, u) /\ wrong' \in Nat /\ t.op # "none"
         /\ \A i \in Invite : ~Holds(t, i) /\ ~Holds(u, i)
         /\ clean /\ redis.otp # CP!None /\ Told(t, redis, wrong) => Told(u, redis, wrong')
  <2>1. CASE CP!Compare(r)
    <3>1. t.op = "answer" /\ (Told(t, redis, wrong) => Steady(redis, wrong))
      BY <1>1, <2>1 DEF CP!Compare, Told
    <3>2. \A i \in Invite : ~Holds(t, i)
      BY <3>1 DEF Holds, Stores, Deletes
    <3>3. CASE redis.otp = CP!None
      <4>1. CP!Does(r, CP!Idle) /\ wrong' = wrong
        BY <2>1, <3>3 DEF CP!Compare
      <4>2. PICK u \in PasswordTask : u = CP!Idle /\ u.op = "none"
        BY PasswordTasks
      <4>3. \A i \in Invite : ~Holds(u, i)
        BY <4>2 DEF Holds, Stores, Deletes
      <4> QED BY <1>3, <3>1, <3>2, <3>3, <4>1, <4>2, <4>3
    <3>4. CASE redis.otp # CP!None /\ redis.otp = t.code
      <4>1. CP!Does(r, [op |-> "store", by |-> "code"]) /\ wrong' = wrong
        BY <1>1, <2>1, <3>4 DEF CP!Compare
      <4>2. PICK u \in PasswordTask :
               u = [op |-> "store", by |-> "code"] /\ u.op = "store" /\ u.by = "code"
        BY PasswordTasks
      <4>3. \A i \in Invite : ~Holds(u, i)
        BY <4>2, PasswordsAssumption DEF Holds, Stores, Deletes
      <4>4. Steady(redis, wrong) => Told(u, redis, wrong)
        BY <4>2 DEF Told
      <4> QED BY <1>3, <3>1, <3>2, <4>1, <4>2, <4>3, <4>4
    <3>5. CASE redis.otp # CP!None /\ redis.otp # t.code
      <4>1. CP!Does(r, [op |-> "count"]) /\ wrong' = (IF clean THEN wrong + 1 ELSE wrong)
        BY <1>1, <2>1, <3>5 DEF CP!Compare
      <4>2. PICK u \in PasswordTask : u = [op |-> "count"] /\ u.op = "count"
        BY PasswordTasks
      <4>3. \A i \in Invite : ~Holds(u, i)
        BY <4>2 DEF Holds, Stores, Deletes
      <4>4. wrong' \in Nat /\ (clean => wrong' - 1 = wrong)
        BY <1>3, <4>1
      <4>5. clean /\ Steady(redis, wrong) => Told(u, redis, wrong')
        BY <4>2, <4>4 DEF Told, Steady
      <4> QED BY <3>1, <3>2, <4>1, <4>2, <4>3, <4>4, <4>5
    <3> QED BY <3>3, <3>4, <3>5
  <2>2. CASE CP!Count(r)
    <3>1. t.op = "count" /\ (Told(t, redis, wrong) => Steady(redis, wrong - 1))
      BY <1>1, <2>2 DEF CP!Count, Told
    <3>2. \A i \in Invite : ~Holds(t, i)
      BY <3>1 DEF Holds, Stores, Deletes
    <3>3. PICK n, c \in Nat : n = redis.attempts.count + 1 /\ c = redis.otp
      BY <1>3 DEF Keys, Sent, CP!Code, CP!None
    <3>4. c \in Sent /\ n \in 1..OTP_MAX_ATTEMPTS
      BY <1>3, <3>3, PasswordsAssumption DEF Keys
    <3>5. CP!Does(r, CP!Writes(CP!Counted(n))) /\ wrong' = wrong
      BY <2>2, <3>3 DEF CP!Count
    <3>6. Steady(redis, wrong - 1) => n = wrong
      BY <1>3, <3>3 DEF Steady, Keys
    <3>7. PICK todo \in Todo :
             /\ todo = CP!Counted(n)
             /\ todo = Dying \/ (n \in Noted /\ todo = Noting(c, n))
      <4>1. CASE n >= OTP_MAX_ATTEMPTS
        <5>1. CP!Counted(n) = Dying
          BY <4>1 DEF CP!Counted, Dying
        <5> QED BY <5>1 DEF Todo
      <4>2. CASE ~(n >= OTP_MAX_ATTEMPTS)
        <5>1. n \in Noted
          BY <3>4, <4>2, PasswordsAssumption DEF Noted
        <5>2. CP!Counted(n) = Noting(c, n)
          BY <3>3, <4>2 DEF CP!Counted, Noting
        <5> QED BY <3>4, <5>1, <5>2 DEF Todo
      <4> QED BY <4>1, <4>2
    <3>8. PICK u \in PasswordTask : u = CP!Writes(todo) /\ u.op = "write" /\ u.todo = todo
      BY PasswordTasks
    <3>9. \A i \in Invite : ~Holds(u, i)
      BY <3>7, <3>8, Commands DEF Holds, Stores, Deletes
    <3>10. n = wrong => Told(u, redis, wrong)
      <4>1. CASE todo = Dying
        <5>1. todo \notin {Ending, Clearing, Renewing} /\ ~Ordinary(todo)
          BY <4>1, TodosApart DEF Ordinary
        <5>2. \A d \in Sent, m \in Noted : todo # Noting(d, m)
          BY <4>1, TodosApart
        <5> QED BY <3>8, <5>1, <5>2 DEF Told
      <4>2. CASE n \in Noted /\ todo = Noting(c, n)
        <5>1. todo \notin {Ending, Clearing, Renewing} /\ ~Ordinary(todo)
          BY <3>4, <4>2, TodosApart DEF Ordinary
        <5>2. \A d \in Sent, m \in Noted : todo = Noting(d, m) => d = c /\ m = n
          BY <3>4, <4>2, TodosApart
        <5> QED BY <3>3, <3>8, <5>1, <5>2 DEF Told
      <4> QED BY <3>7, <4>1, <4>2
    <3> QED BY <1>3, <3>1, <3>2, <3>5, <3>6, <3>7, <3>8, <3>9, <3>10
  <2>3. CASE CP!Finish(r)
    <3>1. t.op = "write" /\ t.todo = <<>> /\ CP!Does(r, CP!Idle) /\ wrong' = wrong
      BY <1>1, <2>3 DEF CP!Finish
    <3>2. Told(t, redis, wrong) => Steady(redis, wrong)
      BY <3>1, TodosApart DEF Told
    <3>3. \A i \in Invite : ~Holds(t, i)
      <4>1. Len(<<>>) = 0
        OBVIOUS
      <4> QED BY <3>1, <4>1, Commands DEF Holds, Stores, Deletes
    <3>4. PICK u \in PasswordTask : u = CP!Idle /\ u.op = "none"
      BY PasswordTasks
    <3>5. \A i \in Invite : ~Holds(u, i)
      BY <3>4 DEF Holds, Stores, Deletes
    <3>6. Steady(redis, wrong) => Told(u, redis, wrong)
      BY <3>4 DEF Told
    <3> QED BY <1>3, <3>1, <3>2, <3>3, <3>4, <3>5, <3>6
  <2> QED BY <2>1, <2>2, <2>3
<1>5. CodeInv'
  BY <1>1, <1>2, <1>4, CodeStep DEF PasswordInv
<1>6. InviteInv'
  BY <1>1, <1>2, <1>4, CodeOnly DEF PasswordInv
<1> QED BY <1>1, <1>2, <1>4, <1>5, <1>6 DEF PasswordInv, PasswordTypes

\* A password is stored, an invite is redeemed, and a request fails.
LEMMA RedeemInv ==
  ASSUME PasswordInv, NEW r \in Request,
         CP!Store(r) \/ CP!Fail(r) \/ \E i \in Invite : CP!Redeem(r, i)
  PROVE  PasswordInv'
<1>1. PICK t \in PasswordTask :
         /\ t = passwordTask[r] /\ (clean /\ t.op # "none" => Lone(r))
         /\ clean /\ Lone(r) /\ redis.otp # CP!None => Told(t, redis, wrong)
         /\ \A u \in PasswordTask : CP!Does(r, u) => passwordTask' \in [Request -> PasswordTask]
         /\ CP!Alone(r) = Lone(r)
  BY PasswordStep
<1>2. UNCHANGED <<redis, invites, codes, wrong>>
  BY DEF CP!Store, CP!Fail, CP!Redeem
<1>3. usedInvites \subseteq Invite /\ loose \subseteq Invite
  BY DEF PasswordInv, PasswordTypes
<1>4. ASSUME NEW by \in Invite \cup {"code"}, t.op = "store", by = t.by, CP!Store(r)
      PROVE  PasswordInv'
  <2>1. PICK todo \in Todo : /\ todo = CP!Consumed(by) /\ Ordinary(todo)
                             /\ \A i \in Invite : todo = Deleting(i) <=> by = i
    <3>1. CASE by = "code"
      <4>1. \A i \in Invite : CP!Consumed("code") # Deleting(i)
        BY Commands
      <4>2. CP!Consumed("code") \in Todo
        BY DEF Todo
      <4> QED BY <3>1, <4>1, <4>2, TodosApart, PasswordsAssumption
    <3>2. CASE by \in Invite
      <4>1. CP!Consumed(by) = Deleting(by)
        BY <3>2, PasswordsAssumption DEF CP!Consumed, Deleting
      <4>2. \A i \in Invite : Deleting(by) = Deleting(i) <=> by = i
        BY Commands
      <4>3. Deleting(by) \in Todo /\ Ordinary(Deleting(by))
        BY <3>2, TodosApart DEF Todo
      <4> QED BY <4>1, <4>2, <4>3
    <3> QED BY <3>1, <3>2
  <2>2. PICK u \in PasswordTask : u = CP!Writes(todo) /\ u.op = "write" /\ u.todo = todo
    BY PasswordTasks
  <2>3. /\ CP!Does(r, u) /\ hasPassword' = TRUE /\ clean' = clean /\ loose' = loose
        /\ usedInvites' = usedInvites \cup ({by} \ {"code"})
    BY <1>1, <1>4, <2>1, <2>2 DEF CP!Store
  <2>4. \A i \in Invite : /\ Stores(t, i) <=> by = i
                          /\ Deletes(u, i) <=> by = i
                          /\ ~Deletes(t, i) /\ ~Stores(u, i)
    BY <1>4, <2>1, <2>2 DEF Stores, Deletes
  <2>5. Told(t, redis, wrong) => Told(u, redis, wrong)
    <3>1. Told(t, redis, wrong) => Steady(redis, wrong)
      BY <1>4 DEF Told
    <3>2. Steady(redis, wrong) => Told(u, redis, wrong)
      BY <2>1, <2>2, ToldOrdinary
    <3> QED BY <3>1, <3>2
  <2>6. CodeInv'
    BY <1>1, <1>2, <1>4, <2>3, <2>5, CodeStep DEF PasswordInv
  <2>7. InviteInv'
    <3>1. \A i \in Invite : Holds(u, i) => Holds(passwordTask[r], i)
      BY <1>1, <2>4 DEF Holds
    <3>2. \A i \in Invite : i \in usedInvites' =>
             i \in usedInvites \/ (Stores(passwordTask[r], i) /\ Deletes(u, i))
      BY <1>1, <2>3, <2>4
    <3> QED BY <1>1, <1>2, <2>3, <2>4, <3>1, <3>2, InviteStep DEF PasswordInv
  <2>8. usedInvites' \subseteq Invite
    BY <1>3, <2>3
  <2> QED BY <1>1, <1>2, <2>2, <2>3, <2>6, <2>7, <2>8 DEF PasswordInv, PasswordTypes
<1>5. CASE CP!Store(r)
  <2>1. t.op = "store" /\ t.by \in Invite \cup {"code"}
    BY <1>1, <1>5, PasswordTaskTypes DEF CP!Store
  <2> QED BY <1>4, <1>5, <2>1
<1>6. CASE CP!Fail(r)
  <2>1. /\ CP!Does(r, CP!Idle) /\ clean' = FALSE /\ UNCHANGED <<hasPassword, usedInvites>>
        /\ loose' = loose \cup {i \in Invite : r \in CP!Redeeming(i)}
    BY <1>6 DEF CP!Fail
  <2>2. PICK u \in PasswordTask : u = CP!Idle /\ u.op = "none"
    BY PasswordTasks
  <2>3. \A i \in Invite : ~Holds(u, i)
    BY <2>2 DEF Holds, Stores, Deletes
  <2>4. \A i \in Invite \ loose' : i \notin loose /\ ~Holds(passwordTask[r], i)
    BY <2>1, HoldsIs DEF PasswordInv
  <2>5. CodeInv'
    BY <2>1, <2>2, CodeStep DEF PasswordInv
  <2>6. InviteInv'
    BY <1>2, <2>1, <2>2, <2>3, <2>4, InviteStep DEF PasswordInv, Holds
  <2>7. loose' \subseteq Invite
    BY <1>3, <2>1
  <2> QED BY <1>1, <1>2, <2>1, <2>2, <2>5, <2>6, <2>7 DEF PasswordInv, PasswordTypes
<1>7. ASSUME NEW j \in Invite, CP!Redeem(r, j)
      PROVE  PasswordInv'
  <2>1. /\ CP!Does(r, [op |-> "store", by |-> j]) /\ clean' = (clean /\ Lone(r))
        /\ UNCHANGED <<hasPassword, usedInvites>> /\ t = CP!Idle /\ j \in invites
        /\ loose' = IF CP!Redeeming(j) = {} THEN loose ELSE loose \cup {j}
    BY <1>1, <1>7 DEF CP!Redeem
  <2>2. PICK u \in PasswordTask : u = [op |-> "store", by |-> j] /\ u.op = "store" /\ u.by = j
    BY PasswordTasks
  <2>3. t.op = "none" /\ \A i \in Invite : ~Holds(t, i)
    BY <2>1, PasswordTasks DEF Holds, Stores, Deletes
  <2>4. \A i \in Invite : (Stores(u, i) <=> i = j) /\ ~Deletes(u, i)
    BY <2>2 DEF Stores, Deletes
  <2>5. Told(t, redis, wrong) => Told(u, redis, wrong)
    BY <2>2, <2>3 DEF Told
  <2>6. CodeInv'
    BY <1>1, <1>2, <2>1, <2>2, <2>5, CodeStep DEF PasswordInv
  <2>7. j \notin loose' => /\ \A q \in Request : ~Holds(passwordTask[q], j)
                           /\ j \notin loose
    <3>1. j \notin loose' => CP!Redeeming(j) = {} /\ j \notin loose
      BY <2>1
    <3> QED BY <3>1, HoldsIs DEF PasswordInv
  <2>8. j \in usedInvites => j \in loose'
    BY <2>1, <2>7 DEF PasswordInv, InviteInv, Holds
  <2>9. InviteInv'
    <3>1. ASSUME NEW i \in Invite \ loose'
          PROVE  /\ i \notin loose
                 /\ Holds(u, i) =>
                       Holds(passwordTask[r], i) \/ \A q \in Request : ~Holds(passwordTask[q], i)
                 /\ i \in usedInvites' =>
                       /\ ~Stores(u, i) /\ i \in usedInvites
                       /\ i \in invites' /\ Deletes(passwordTask[r], i) => Deletes(u, i)
      <4>1. i \notin loose
        BY <2>1
      <4>2. Holds(u, i) => i = j
        BY <2>4 DEF Holds
      <4>3. i \in usedInvites' => ~Stores(u, i) /\ i \in usedInvites
        BY <2>1, <2>4, <2>8
      <4>4. ~Deletes(passwordTask[r], i)
        BY <1>1, <2>3 DEF Holds
      <4> QED BY <2>7, <4>1, <4>2, <4>3, <4>4
    <3> QED BY <1>2, <2>1, <2>2, <3>1, InviteStep DEF PasswordInv
  <2>10. loose' \subseteq Invite /\ clean' \in BOOLEAN
    <3>1. clean \in BOOLEAN /\ Lone(r) \in BOOLEAN
      BY DEF PasswordInv, PasswordTypes, Lone
    <3> QED BY <1>3, <2>1, <3>1
  <2> QED BY <1>1, <1>2, <2>1, <2>2, <2>6, <2>9, <2>10 DEF PasswordInv, PasswordTypes
<1> QED BY <1>5, <1>6, <1>7

\* An invite is issued, and keys run out.
LEMMA ExpireInv ==
  ASSUME PasswordInv, CP!Expire \/ \E i \in Invite : CP!Issue(i)
  PROVE  PasswordInv'
<1>1. /\ redis \in Keys /\ invites \subseteq Invite /\ loose \subseteq Invite
      /\ passwordTask \in [Request -> PasswordTask]
  BY DEF PasswordInv, PasswordTypes
<1>2. ASSUME NEW j \in Invite, CP!Issue(j)
      PROVE  PasswordInv'
  <2>1. /\ j \notin invites \cup usedInvites /\ CP!Redeeming(j) = {}
        /\ invites' = invites \cup {j} /\ loose' = loose \ {j}
        /\ UNCHANGED <<hasPassword, redis, passwordTask, codes, wrong, clean, usedInvites>>
    BY <1>2 DEF CP!Issue
  <2>2. \A r \in Request : ~Holds(passwordTask[r], j)
    BY <2>1, HoldsIs DEF PasswordInv
  <2>3. CodeInv'
    BY <2>1 DEF PasswordInv, CodeInv, Lone
  <2>4. InviteInv'
    <3>1. ASSUME NEW i \in Invite \ loose'
          PROVE  /\ \A r, q \in Request : Holds(passwordTask[r], i) /\ Holds(passwordTask[q], i) => r = q
                 /\ i \in usedInvites =>
                       /\ \A r \in Request : ~Stores(passwordTask[r], i)
                       /\ i \in invites' => \E r \in Request : Deletes(passwordTask[r], i)
      <4>1. CASE i = j
        BY <2>1, <2>2, <4>1
      <4>2. CASE i # j
        BY <2>1, <3>1, <4>2 DEF PasswordInv, InviteInv
      <4> QED BY <4>1, <4>2
    <3> QED BY <2>1, <3>1 DEF InviteInv
  <2>5. invites' \subseteq Invite /\ loose' \subseteq Invite
    BY <1>1, <2>1
  <2> QED BY <2>1, <2>3, <2>4, <2>5 DEF PasswordInv, PasswordTypes
<1>3. CASE CP!Expire
  <2>1. UNCHANGED <<hasPassword, passwordTask, codes, wrong, clean, usedInvites, loose>>
    BY <1>3 DEF CP!Expire
  <2>2. \/ invites' = invites /\ redis' = [redis EXCEPT !.otp = CP!None]
        \/ invites' = invites /\ redis' = [redis EXCEPT !.cooldown = FALSE]
        \/ /\ invites' = invites /\ redis' = [redis EXCEPT !.attempts = CP!NoAttempts]
           /\ redis.attempts.of # redis.otp
        \/ redis' = redis /\ invites' \subseteq invites
    BY <1>3 DEF CP!Expire
  <2>3. CP!NoAttempts \in [of : Sent, count : 0..OTP_MAX_ATTEMPTS - 1] /\ CP!None \in Sent
    BY PasswordsAssumption DEF CP!NoAttempts, Sent
  <2>4. redis' \in Keys /\ invites' \subseteq Invite
    BY <1>1, <2>2, <2>3 DEF Keys
  <2>5. redis'.otp # CP!None => \A n : Steady(redis, n) => Steady(redis', n)
    BY <1>1, <2>2, <2>3 DEF Keys, Steady
  <2>6. redis'.otp # CP!None => redis'.otp = redis.otp
    BY <1>1, <2>2, <2>3 DEF Keys
  <2>7. CodeInv'
    <3>1. ASSUME redis'.otp # CP!None, NEW t
          PROVE  Told(t, redis, wrong) => Told(t, redis', wrong)
      BY <2>5, <2>6, <3>1 DEF Told
    <3>2. \A r \in Request : redis'.otp # CP!None /\ Told(passwordTask[r], redis, wrong) =>
             Told(passwordTask[r], redis', wrong)
      BY <3>1
    <3> QED BY <2>1, <2>6, <3>2 DEF PasswordInv, CodeInv, Lone
  <2>8. InviteInv'
    <3>1. invites' \subseteq invites
      BY <2>2
    <3> QED BY <2>1, <3>1 DEF PasswordInv, InviteInv
  <2> QED BY <2>1, <2>4, <2>7, <2>8 DEF PasswordInv, PasswordTypes
<1> QED BY <1>2, <1>3

\* The next command of a request, to Redis.
LEMMA ExecuteInv ==
  ASSUME PasswordInv, NEW r \in Request, CP!Execute(r)
  PROVE  PasswordInv'
<1>1. PICK t \in PasswordTask :
         /\ t = passwordTask[r] /\ (clean /\ t.op # "none" => Lone(r))
         /\ clean /\ Lone(r) /\ redis.otp # CP!None => Told(t, redis, wrong)
         /\ \A u \in PasswordTask : CP!Does(r, u) => passwordTask' \in [Request -> PasswordTask]
         /\ CP!Alone(r) = Lone(r)
  BY PasswordStep
<1>2. PICK todo \in Todo : t.op = "write" /\ todo = t.todo /\ todo # <<>>
  BY <1>1, PasswordTaskTypes DEF CP!Execute
<1>3. PICK rest : /\ rest = Tail(todo) /\ CP!Does(r, CP!Writes(rest))
                  /\ UNCHANGED <<hasPassword, codes, usedInvites, loose>>
  BY <1>1, <1>2 DEF CP!Execute
<1>4. ASSUME NEW k, NEW v, Head(todo) = CP!Set(k, v)
      PROVE  /\ k = "invite" => invites' = invites \ {v} /\ redis' = redis
             /\ k # "invite" => redis' = [redis EXCEPT ![k] = v] /\ invites' = invites
             /\ k = "otp" /\ v # CP!None => wrong' = 0 /\ clean' = Lone(r)
             /\ ~(k = "otp" /\ v # CP!None) => wrong' = wrong /\ clean' = clean
  <2>1. Head(todo)[1] = k /\ Head(todo)[2] = v
    BY <1>4 DEF CP!Set
  <2> QED BY <1>1, <1>2, <2>1 DEF CP!Execute
<1>5. /\ redis \in Keys /\ invites \subseteq Invite /\ wrong \in Nat /\ clean \in BOOLEAN
      /\ Lone(r) \in BOOLEAN
  BY DEF PasswordInv, PasswordTypes, Lone
<1>6. /\ Told(t, redis, wrong) => /\ todo \notin {Ending, Clearing}
                                  /\ todo = Renewing => wrong = 0
                                  /\ \A c \in Sent, m \in Noted :
                                        todo = Noting(c, m) => c = redis.otp /\ wrong = m
                                  /\ Ordinary(todo) => Steady(redis, wrong)
  BY <1>2 DEF Told
<1>7. /\ CP!NoAttempts \in [of : Sent, count : 0..OTP_MAX_ATTEMPTS - 1]
      /\ CP!None \in Sent /\ CP!NoAttempts.count = 0
  BY PasswordsAssumption DEF CP!NoAttempts, Sent
<1>8. PICK u : u = CP!Writes(rest)
  OBVIOUS
\* What each command leaves: a task, and what there is to say of the count.
<1> DEFINE After(next) ==
             /\ rest \in Todo /\ redis' \in Keys /\ wrong' \in Nat /\ clean' \in BOOLEAN
             /\ clean' => Lone(r)
             /\ clean' /\ redis'.otp # CP!None => next
<1>9. (rest \in Todo /\ u.op = "write" /\ u.todo = rest /\ u \in PasswordTask) \/ rest \notin Todo
  BY <1>8, PasswordTasks
<1>10. ASSUME NEW c \in CP!Code, Head(todo) = CP!Set("otp", c), rest = Renewing
       PROVE  invites' = invites /\ After(wrong' = 0)
  <2>1. c # CP!None /\ c \in Sent
    BY DEF CP!Code, CP!None, Sent
  <2>2. redis' = [redis EXCEPT !.otp = c] /\ invites' = invites /\ wrong' = 0 /\ clean' = Lone(r)
    BY <1>4, <1>10, <2>1
  <2>3. redis' \in Keys
    BY <1>5, <2>1, <2>2 DEF Keys
  <2> QED BY <1>5, <1>10, <2>2, <2>3 DEF Todo
<1>11. ASSUME Head(todo) = CP!Set("otp", CP!None), rest \in {Ending, Clearing}
       PROVE  invites' = invites /\ After(FALSE)
  <2>1. redis' = [redis EXCEPT !.otp = CP!None] /\ invites' = invites /\ wrong' = wrong /\ clean' = clean
    BY <1>4, <1>11
  <2>2. redis' \in Keys /\ redis'.otp = CP!None
    BY <1>5, <1>7, <2>1 DEF Keys
  <2> QED BY <1>1, <1>2, <1>5, <1>11, <2>1, <2>2 DEF Todo
<1>12. ASSUME NEW a \in [of : Sent, count : 0..OTP_MAX_ATTEMPTS - 1], Head(todo) = CP!Set("attempts", a),
              rest \in {<<>>, Cooling(TRUE), Cooling(FALSE)}
       PROVE  /\ invites' = invites /\ wrong' = wrong /\ redis'.otp = redis.otp /\ redis'.attempts = a
              /\ After(Told(t, redis, wrong))
  <2>1. redis' = [redis EXCEPT !.attempts = a] /\ invites' = invites /\ wrong' = wrong /\ clean' = clean
    BY <1>4, <1>12
  <2>2. redis' \in Keys /\ redis'.otp = redis.otp /\ redis'.attempts = a
    BY <1>5, <2>1 DEF Keys
  <2>3. rest \in Todo
    <3>1. \A b \in BOOLEAN : Cooling(b) \in Todo
      BY DEF Todo
    <3>2. <<>> \in Todo
      BY DEF Todo
    <3> QED BY <1>12, <3>1, <3>2
  <2> QED BY <1>1, <1>2, <1>5, <2>1, <2>2, <2>3
<1>13. ASSUME NEW b \in BOOLEAN, Head(todo) = CP!Set("cooldown", b), rest = <<>>, Ordinary(todo)
       PROVE  invites' = invites /\ After(Steady(redis', wrong'))
  <2>1. redis' = [redis EXCEPT !.cooldown = b] /\ invites' = invites /\ wrong' = wrong /\ clean' = clean
    BY <1>4, <1>13
  <2>2. redis' \in Keys /\ redis'.otp = redis.otp /\ redis'.attempts = redis.attempts
    BY <1>5, <2>1 DEF Keys
  <2>3. Steady(redis, wrong) => Steady(redis', wrong')
    BY <2>1, <2>2 DEF Steady
  <2>4. rest \in Todo
    BY <1>13 DEF Todo
  <2> QED BY <1>1, <1>2, <1>5, <1>6, <1>13, <2>1, <2>2, <2>3, <2>4
<1>14. ASSUME NEW i \in Invite, Head(todo) = CP!Set("invite", i), rest = <<>>, Ordinary(todo)
       PROVE  invites' = invites \ {i} /\ After(Steady(redis', wrong'))
  <2>1. redis' = redis /\ invites' = invites \ {i} /\ wrong' = wrong /\ clean' = clean
    BY <1>4, <1>14
  <2>2. rest \in Todo
    BY <1>14 DEF Todo
  <2> QED BY <1>1, <1>2, <1>5, <1>6, <1>14, <2>1, <2>2
<1> DEFINE Shown ==
             /\ After(Told(u, redis', wrong'))
             /\ \A i \in Invite : ~Holds(u, i)
             /\ \/ invites' = invites /\ \A i \in Invite : ~Holds(t, i)
                \/ \E i \in Invite : invites' = invites \ {i} /\ todo = Deleting(i)
<1>15. \A i \in Invite : Holds(t, i) <=> todo = Deleting(i)
  BY <1>2 DEF Holds, Stores, Deletes
<1>16. ASSUME rest \in Todo, Ordinary(rest), Steady(redis', wrong')
       PROVE  Told(u, redis', wrong')
  BY <1>8, <1>16, ToldOrdinary
<1>17. ASSUME rest \in Todo, \A i \in Invite : rest # Deleting(i)
       PROVE  \A i \in Invite : ~Holds(u, i)
  BY <1>9, <1>17 DEF Holds, Stores, Deletes
<1>18. /\ \A i \in Invite : <<>> # Deleting(i)
       /\ \A i \in Invite : /\ Renewing # Deleting(i) /\ Ending # Deleting(i) /\ Clearing # Deleting(i)
                            /\ Dying # Deleting(i) /\ CP!Consumed("code") # Deleting(i)
                            /\ \A b : Cooling(b) # Deleting(i)
                            /\ \A c, n : Noting(c, n) # Deleting(i)
                            /\ \A c : CP!NewCode(c) # Deleting(i)
  <2>1. Len(<<>>) = 0
    OBVIOUS
  <2> QED BY <2>1, Commands
<1>19. ASSUME After(Told(u, redis', wrong')), invites' = invites,
              \A i \in Invite : todo # Deleting(i) /\ rest # Deleting(i)
       PROVE  Shown
  <2>1. \A i \in Invite : ~Holds(u, i) /\ ~Holds(t, i)
    BY <1>15, <1>17, <1>19
  <2> QED BY <1>19, <2>1
<1>20. ASSUME \E c \in CP!Code : /\ todo = CP!NewCode(c) /\ Head(todo) = CP!Set("otp", c)
                                 /\ Tail(todo) = Renewing
       PROVE  Shown
  <2>1. PICK c \in CP!Code : todo = CP!NewCode(c) /\ Head(todo) = CP!Set("otp", c) /\ rest = Renewing
    BY <1>3, <1>20
  <2>2. invites' = invites /\ After(wrong' = 0)
    BY <1>10, <2>1
  <2>3. wrong' = 0 => Told(u, redis', wrong')
    <3>1. rest \notin {Ending, Clearing} /\ ~Ordinary(rest)
      BY <2>1, TodosApart DEF Ordinary
    <3>2. \A d \in Sent, m \in Noted : rest # Noting(d, m)
      BY <2>1, TodosApart
    <3>3. u.op = "write" /\ u.todo = rest
      BY <1>9, <2>2
    <3> HIDE DEF After, Shown
    <3> QED BY <3>1, <3>2, <3>3 DEF Told
  <2>4. After(Told(u, redis', wrong'))
    BY <2>2, <2>3
  <2>5. \A i \in Invite : todo # Deleting(i) /\ rest # Deleting(i)
    BY <1>18, <2>1
  <2> QED BY <1>19, <2>2, <2>4, <2>5
<1>21. ASSUME /\ todo \in {CP!Consumed("code"), Dying} /\ Head(todo) = CP!Set("otp", CP!None)
              /\ Tail(todo) \in {Ending, Clearing}
       PROVE  Shown
  <2>1. invites' = invites /\ After(FALSE)
    BY <1>3, <1>11, <1>21
  <2>2. After(Told(u, redis', wrong'))
    BY <2>1
  <2>3. \A i \in Invite : todo # Deleting(i) /\ rest # Deleting(i)
    BY <1>3, <1>18, <1>21
  <2> QED BY <1>19, <2>1, <2>2, <2>3
<1>22. ASSUME /\ todo \in {Renewing, Ending, Clearing} /\ Tail(todo) \in {<<>>, Cooling(TRUE), Cooling(FALSE)}
              /\ Head(todo) = CP!Set("attempts", CP!NoAttempts)
       PROVE  Shown
  <2>1. PICK a \in [of : Sent, count : 0..OTP_MAX_ATTEMPTS - 1] : a = CP!NoAttempts
    BY <1>7
  <2>2. /\ invites' = invites /\ wrong' = wrong /\ redis'.otp = redis.otp /\ redis'.attempts = a
        /\ After(Told(t, redis, wrong))
    BY <1>3, <1>12, <1>22, <2>1
  <2>3. Told(t, redis, wrong) => Steady(redis', wrong')
    <3> HIDE DEF After, Shown
    <3>1. Told(t, redis, wrong) => wrong' = 0
      BY <1>6, <1>22, <2>2
    <3> QED BY <1>7, <2>1, <2>2, <3>1 DEF Steady
  <2>4. Ordinary(rest)
    BY <1>3, <1>22, TodosApart
  <2>5. After(Told(u, redis', wrong'))
    BY <1>16, <2>2, <2>3, <2>4
  <2>6. \A i \in Invite : todo # Deleting(i) /\ rest # Deleting(i)
    BY <1>3, <1>18, <1>22
  <2> QED BY <1>19, <2>2, <2>5, <2>6
<1>23. ASSUME \E c \in Sent, n \in Noted : /\ todo = Noting(c, n) /\ Tail(todo) = <<>>
                                           /\ Head(todo) = CP!Set("attempts", [of |-> c, count |-> n])
       PROVE  Shown
  <2>1. PICK c \in Sent, n \in Noted : /\ todo = Noting(c, n) /\ rest = <<>>
                                       /\ Head(todo) = CP!Set("attempts", [of |-> c, count |-> n])
    BY <1>3, <1>23
  <2>2. PICK a : a = [of |-> c, count |-> n] /\ a.of = c /\ a.count = n
    <3>1. PICK a : a = [of |-> c, count |-> n]
      OBVIOUS
    <3>2. a.of = c /\ a.count = n
      BY <3>1
    <3> QED BY <3>1, <3>2
  <2>3. a \in [of : Sent, count : 0..OTP_MAX_ATTEMPTS - 1]
    <3>1. n \in 0..OTP_MAX_ATTEMPTS - 1
      BY PasswordsAssumption DEF Noted
    <3> QED BY <2>2, <3>1
  <2>4. /\ invites' = invites /\ wrong' = wrong /\ redis'.otp = redis.otp /\ redis'.attempts = a
        /\ After(Told(t, redis, wrong))
    BY <1>12, <2>1, <2>2, <2>3
  <2>5. Told(t, redis, wrong) => Steady(redis', wrong')
    <3> HIDE DEF After, Shown
    <3>1. Told(t, redis, wrong) => c = redis.otp /\ wrong = n
      BY <1>6, <2>1
    <3> QED BY <2>2, <2>4, <3>1 DEF Steady
  <2>6. After(Told(u, redis', wrong'))
    <3>1. Ordinary(rest)
      BY <2>1, TodosApart
    <3> QED BY <1>16, <2>4, <2>5, <3>1
  <2>7. \A i \in Invite : todo # Deleting(i) /\ rest # Deleting(i)
    BY <1>18, <2>1
  <2> QED BY <1>19, <2>4, <2>6, <2>7
<1>24. ASSUME \E b \in BOOLEAN : /\ todo = Cooling(b) /\ Ordinary(todo)
                                 /\ Head(todo) = CP!Set("cooldown", b) /\ Tail(todo) = <<>>
       PROVE  Shown
  <2>1. rest = <<>> /\ invites' = invites /\ After(Steady(redis', wrong'))
    BY <1>3, <1>13, <1>24
  <2>2. After(Told(u, redis', wrong'))
    <3>1. Ordinary(rest)
      BY <2>1, TodosApart
    <3> QED BY <1>16, <2>1, <3>1
  <2>3. \A i \in Invite : todo # Deleting(i) /\ rest # Deleting(i)
    BY <1>18, <1>24, <2>1
  <2> QED BY <1>19, <2>1, <2>2, <2>3
<1>25. ASSUME \E i \in Invite : /\ todo = Deleting(i) /\ Ordinary(todo)
                                /\ Head(todo) = CP!Set("invite", i) /\ Tail(todo) = <<>>
       PROVE  Shown
  <2>1. PICK i \in Invite : todo = Deleting(i) /\ invites' = invites \ {i} /\ After(Steady(redis', wrong'))
    BY <1>3, <1>14, <1>25
  <2>2. rest = <<>>
    BY <1>3, <1>25
  <2>3. After(Told(u, redis', wrong'))
    <3>1. Ordinary(rest)
      BY <2>2, TodosApart
    <3> QED BY <1>16, <2>1, <3>1
  <2>4. \A j \in Invite : ~Holds(u, j)
    BY <1>17, <1>18, <2>1, <2>2
  <2> QED BY <2>1, <2>3, <2>4
<1>26. Shown
  <2> HIDE DEF Shown, After
  <2>1. \/ \E c \in CP!Code : /\ todo = CP!NewCode(c) /\ Head(todo) = CP!Set("otp", c)
                               /\ Tail(todo) = Renewing
        \/ /\ todo \in {CP!Consumed("code"), Dying} /\ Head(todo) = CP!Set("otp", CP!None)
           /\ Tail(todo) \in {Ending, Clearing}
        \/ /\ todo \in {Renewing, Ending, Clearing}
           /\ Tail(todo) \in {<<>>, Cooling(TRUE), Cooling(FALSE)}
           /\ Head(todo) = CP!Set("attempts", CP!NoAttempts)
        \/ \E c \in Sent, n \in Noted : /\ todo = Noting(c, n) /\ Tail(todo) = <<>>
                                         /\ Head(todo) = CP!Set("attempts", [of |-> c, count |-> n])
        \/ \E b \in BOOLEAN : /\ todo = Cooling(b) /\ Ordinary(todo)
                               /\ Head(todo) = CP!Set("cooldown", b) /\ Tail(todo) = <<>>
        \/ \E i \in Invite : /\ todo = Deleting(i) /\ Ordinary(todo)
                              /\ Head(todo) = CP!Set("invite", i) /\ Tail(todo) = <<>>
    BY <1>2, TodoCases
  <2> QED BY <1>20, <1>21, <1>22, <1>23, <1>24, <1>25, <2>1
<1>27. u \in PasswordTask /\ CP!Does(r, u)
  BY <1>3, <1>8, <1>9, <1>26
<1>28. CodeInv'
  BY <1>26, <1>27, CodeStep DEF PasswordInv
<1>29. InviteInv'
  <2>1. invites' \subseteq invites
    BY <1>26
  <2>2. \A i \in Invite : i \in invites' => ~Deletes(t, i)
    <3>1. \A i, j \in Invite : Deleting(i) = Deleting(j) => i = j
      BY Commands
    <3> QED BY <1>15, <1>26, <3>1 DEF Holds
  <2>3. \A i \in Invite : ~Holds(u, i) /\ ~Stores(u, i)
    BY <1>26 DEF Holds
  <2> QED BY <1>1, <1>3, <1>27, <2>1, <2>2, <2>3, InviteStep DEF PasswordInv
<1> QED BY <1>1, <1>3, <1>5, <1>26, <1>27, <1>28, <1>29 DEF PasswordInv, PasswordTypes

LEMMA PasswordNextInv ==
  ASSUME PasswordInv, CP!Next
  PROVE  PasswordInv'
<1>1. ASSUME NEW r \in Request,
             \/ CP!AskForCode(r) \/ CP!Compare(r) \/ CP!Count(r) \/ CP!Store(r)
             \/ CP!Execute(r) \/ CP!Finish(r) \/ CP!Fail(r)
             \/ \E code \in CP!Code \cup {CP!None} : CP!Answer(r, code)
             \/ \E i \in Invite : CP!Redeem(r, i)
      PROVE  PasswordInv'
  <2>1. CASE CP!AskForCode(r) \/ \E code \in Sent : CP!Answer(r, code)
    BY <2>1, BeginsInv
  <2>2. CASE CP!Compare(r) \/ CP!Count(r) \/ CP!Finish(r)
    BY <2>2, AnswerInv
  <2>3. CASE CP!Store(r) \/ CP!Fail(r) \/ \E i \in Invite : CP!Redeem(r, i)
    BY <2>3, RedeemInv
  <2>4. CASE CP!Execute(r)
    BY <2>4, ExecuteInv
  <2> QED BY <1>1, <2>1, <2>2, <2>3, <2>4 DEF Sent
<1> QED BY <1>1, ExpireInv DEF CP!Next

LEMMA PasswordStutter ==
  ASSUME PasswordInv, UNCHANGED passwordVars
  PROVE  PasswordInv'
BY DEF passwordVars, PasswordInv, PasswordTypes, CodeInv, Lone, InviteInv

LEMMA PasswordInitInv ==
  ASSUME CP!Init
  PROVE  PasswordInv
<1>1. CP!NoAttempts \in [of : Sent, count : 0..OTP_MAX_ATTEMPTS - 1] /\ CP!None \in Sent
  BY PasswordsAssumption DEF CP!NoAttempts, Sent
<1>2. redis \in Keys /\ redis.otp = CP!None
  BY <1>1 DEF CP!Init, Keys
<1>3. passwordTask \in [Request -> PasswordTask] /\ \A r \in Request : passwordTask[r] = CP!Idle
  BY PasswordTasks DEF CP!Init
<1>4. PasswordTypes
  <2>1. codes \in 0..MaxCodes /\ wrong \in Nat
    BY PasswordsAssumption DEF CP!Init
  <2>2. /\ hasPassword \in BOOLEAN /\ clean \in BOOLEAN
        /\ invites \subseteq Invite /\ usedInvites \subseteq Invite /\ loose \subseteq Invite
    BY DEF CP!Init
  <2> QED BY <1>2, <1>3, <2>1, <2>2 DEF PasswordTypes
<1>5. CodeInv
  BY <1>2, <1>3 DEF CodeInv
<1>6. InviteInv
  <2>1. \A i \in Invite, r \in Request : ~Holds(passwordTask[r], i)
    BY <1>3, PasswordTasks DEF Holds, Stores, Deletes
  <2> QED BY <2>1 DEF CP!Init, InviteInv
<1> QED BY <1>4, <1>5, <1>6 DEF PasswordInv

LEMMA PasswordTypeOK ==
  ASSUME PasswordInv
  PROVE  CP!TypeOK
<1>1. \A r \in Request : passwordTask[r].op \in {"none", "answer", "count", "store", "write"}
  BY PasswordTaskTypes DEF PasswordInv, PasswordTypes
<1> QED BY <1>1 DEF PasswordInv, PasswordTypes, CP!TypeOK, Keys, Sent

\* A code that has had all its wrong answers.
LEMMA SpentThen ==
  ASSUME PasswordInv, CP!Spent
  PROVE  ~clean
<1>1. redis.otp # CP!None /\ wrong >= OTP_MAX_ATTEMPTS /\ \A r \in Request : passwordTask[r] = CP!Idle
  BY DEF CP!Spent
<1>2. PICK r \in Request : passwordTask[r] = CP!Idle /\ Lone(r)
  BY <1>1 DEF PasswordInv, CodeInv, Lone
<1>3. clean => Steady(redis, wrong)
  BY <1>1, <1>2, PasswordTasks DEF PasswordInv, CodeInv, Told
<1>4. redis.attempts.count \in 0..OTP_MAX_ATTEMPTS - 1
  BY DEF PasswordInv, PasswordTypes, Keys
<1> QED BY <1>1, <1>3, <1>4, PasswordsAssumption DEF Steady

\* An invite that sets a second password.
LEMMA StoresAgain ==
  ASSUME PasswordInv, NEW r \in Request, CP!Store(r), passwordTask[r].by \in usedInvites
  PROVE  passwordTask[r].by \in loose
<1>1. PICK i \in Invite : i = passwordTask[r].by
  BY DEF PasswordInv, PasswordTypes
<1>2. Stores(passwordTask[r], i)
  BY <1>1 DEF CP!Store, Stores
<1> QED BY <1>1, <1>2 DEF PasswordInv, InviteInv
-----------------------------------------------------------------------------
(* The run *)

\* What holds of each component throughout.
Inv == /\ SessionInv /\ LoginInv /\ FactorInv /\ SlugInv
       /\ PasswordInv /\ SettingInv /\ PlanInv

LEMMA InitInv ==
  ASSUME Init
  PROVE  Inv
BY SessionInitInv, LoginInitInv, FactorInitInv, SlugInitInv, PasswordInitInv, SettingInitInv,
   PlanInitInv DEF Init, Inv

\* A step of the run is one of a component or leaves it alone.
LEMMA Steps ==
  ASSUME [Next]_vars
  PROVE  /\ SE!Next \/ UNCHANGED sessionVars
         /\ SL!Next \/ UNCHANGED loginVars
         /\ TF!Next \/ UNCHANGED factorVars
         /\ SS!Next \/ UNCHANGED slugVars
         /\ CP!Next \/ UNCHANGED passwordVars
         /\ ST!Next \/ UNCHANGED settingVars
         /\ EN!Next \/ UNCHANGED planVars
<1>1. CASE Next
  BY <1>1 DEF Next
<1>2. CASE UNCHANGED vars
  BY <1>2 DEF vars
<1> QED BY <1>1, <1>2

LEMMA NextInv ==
  ASSUME Inv, [Next]_vars
  PROVE  Inv'
<1>1. SessionInv'
  BY Steps, SessionNextInv, SessionStutter DEF Inv
<1>2. LoginInv'
  BY Steps, LoginNextInv, LoginStutter DEF Inv
<1>3. FactorInv'
  BY Steps, FactorNextInv, FactorStutter DEF Inv
<1>4. SlugInv'
  BY Steps, SlugNextInv, SlugStutter DEF Inv
<1>5. PasswordInv'
  BY Steps, PasswordNextInv, PasswordStutter DEF Inv
<1>6. SettingInv'
  BY Steps, SettingNextInv, SettingStutter DEF Inv
<1>7. PlanInv'
  BY Steps, PlanNextInv, PlanStutter DEF Inv
<1> QED BY <1>1, <1>2, <1>3, <1>4, <1>5, <1>6, <1>7 DEF Inv

LEMMA AlwaysInv == Spec => []Inv
BY InitInv, NextInv, PTL DEF Spec
-----------------------------------------------------------------------------
(* Theorems *)

\* Every variable of every component has its type, whichever component runs.
THEOREM AccountTypes == Spec => []TypesOK
<1>1. Inv => TypesOK
  BY SessionTypeOK, LoginTypeOK, FactorTypeOK, SlugTypeOK, PasswordTypeOK, SettingTypeOK,
     PlanTypeOK DEF Inv, TypesOK
<1> QED BY <1>1, AlwaysInv, PTL

\* A change is refused for its CSRF token only when an answer that sets one arrived
\* between the reading of the header and the sending; and a refresh only for the want
\* of a token, so that tabs that refresh at once do not log each other out.
THEOREM RefusalsExplained == Spec => OnlyTheseRefuse
<1> DEFINE Refused == \A r \in Request :
              /\ SE!SendChange(r) /\ SE!Mismatch(r) =>
                    browserTask[r].since \cap {"login", "refresh", "logout", "seed"} # {}
              /\ SE!HandleRefresh(r) /\ browserTask'[r].asked = "refused" =>
                    browserTask[r].with.refresh = SE!None
<1>1. Inv => [Refused]_(SE!vars)
  BY RefusedFor DEF Inv
<1>2. Spec => [][Refused]_(SE!vars)
  BY <1>1, AlwaysInv, PTL DEF Spec
<1> QED BY <1>2 DEF OnlyTheseRefuse, SE!OnlyTheseRefuse

\* An erased account gets a password again only by a link made after the erasure, and
\* a request leaves an older link good only if that was made since it deleted those
\* there were.
THEOREM LinksWithdrawn == Spec => OnlyOverlapsLeaveLinks
<1> DEFINE Left ==
              /\ account.erased /\ account.password = "erased" /\ account'.password # "erased" =>
                    \E r \in Request, l \in links : SL!UseLink(r) /\ loginTask[r].link = l.id /\ l.late
              /\ \A r \in Request :
                    SL!CreateLink(r) => \A l \in links : l.kind = loginTask[r].kind /\ SL!Valid(l)
                                            => l.id > loginTask[r].last
<1>1. Inv /\ [Next]_vars => [Left]_(SL!vars)
  <2> SUFFICES ASSUME Inv, [Next]_vars PROVE [Left]_(SL!vars)
    OBVIOUS
  <2>1. CASE SL!Next
    BY <2>1, LinksLeft DEF Inv
  <2>2. CASE UNCHANGED loginVars
    BY <2>2 DEF loginVars, SL!vars
  <2> QED BY <2>1, <2>2, Steps
<1>2. Spec => [][Left]_(SL!vars)
  BY <1>1, AlwaysInv, PTL DEF Spec
<1> QED BY <1>2 DEF OnlyOverlapsLeaveLinks, SL!OnlyOverlapsLeaveLinks

\* The owner is locked out by a secret that was never proven, and a dead backup code
\* comes back, only when a request writes what it had read before another one wrote.
THEOREM FactorHolds == Spec => OnlyStaleWritesHarm
<1> DEFINE Harmed ==
              /\ ~TF!LockedOut /\ TF!LockedOut' => \E r \in Request : TF!WritesStaleSwitch(r)
              /\ (\E c \in TF!Codes : TF!Revives(c)) =>
                    \E r \in Request : TF!WriteBackupCodes(r) /\ factorTask[r].seen.backup # factor.backup
<1>1. Inv /\ [Next]_vars => [Harmed]_(TF!vars)
  <2> SUFFICES ASSUME Inv, [Next]_vars PROVE [Harmed]_(TF!vars)
    OBVIOUS
  <2>1. CASE TF!Next
    BY <2>1, LocksOutStale, RevivesStale DEF Inv
  <2>2. CASE UNCHANGED factorVars
    BY <2>2 DEF factorVars, TF!vars
  <2> QED BY <2>1, <2>2, Steps
<1>2. Spec => [][Harmed]_(TF!vars)
  BY <1>1, AlwaysInv, PTL DEF Spec
<1> QED BY <1>2 DEF OnlyStaleWritesHarm, TF!OnlyStaleWritesHarm

\* No two stores share an address and none has a reserved one; a search for a slug
\* ends with one that is not free only when it lost a race or ran out of numbers.
THEOREM StoresAddressed == Spec => OnlyRacesMisaddress
<1> DEFINE Ended == \A r \in Request :
              SS!Assign(r) \/ SS!UpdateSettings(r) \/ SS!Show(r) =>
                  SS!Free(r) \/ slugTask[r].raced \/ SS!Unsought(r)
           Step == /\ SS!Addresses'
                   /\ Ended
<1>1. Inv => [Ended]_(SS!vars)
  BY SearchEnds DEF Inv
<1>2. Inv => SS!Addresses
  BY DEF Inv, SlugInv
<1>3. Spec => [][Step]_(SS!vars)
  BY <1>1, <1>2, AlwaysInv, PTL DEF Spec
<1> QED BY <1>3 DEF OnlyRacesMisaddress, SS!OnlyRacesMisaddress

\* A code survives as many wrong answers as it may have only when requests overlapped
\* or failed, and an invite sets a second password only when its redemptions did.
THEOREM PasswordsSetOnce == Spec => OnlyOverlapsReuse
<1> DEFINE Again == \A r \in Request :
              CP!Store(r) /\ passwordTask[r].by \in usedInvites => passwordTask[r].by \in loose
           Step == /\ CP!Spent' => ~clean'
                   /\ Again
<1>1. Inv => [Again]_(CP!vars)
  BY StoresAgain DEF Inv
<1>2. Inv => (CP!Spent => ~clean)
  BY SpentThen DEF Inv
<1>3. Spec => [][Step]_(CP!vars)
  BY <1>1, <1>2, AlwaysInv, PTL DEF Spec
<1> QED BY <1>3 DEF OnlyOverlapsReuse, CP!OnlyOverlapsReuse

\* An edit of a period that nothing overlapped is what reads return, and a read that
\* moves an old value changes what they return only when an edit overtook it.
THEOREM SettingsKept == Spec => OnlyOverlapsMixSettings
<1> DEFINE Mixed == \A c \in Request :
              /\ ST!EndsCleanly(c) => ST!ReadsAsAsked(c)
              /\ ST!MoveShows(c) => ST!Overtaken(c)
<1>1. Inv => [Mixed]_(ST!vars)
  BY CleanEditEnds, MoveReads DEF Inv, ST!ReadsAsAsked, ST!MoveShows
<1>2. Spec => [][Mixed]_(ST!vars)
  BY <1>1, AlwaysInv, PTL DEF Spec
<1> QED BY <1>2 DEF OnlyOverlapsMixSettings, ST!OnlyOverlapsMixSettings

\* An account comes to have more than its limit only by an order of the catalog or by
\* a creation whose check no longer held; screens and checks disagree, and an exception
\* takes from an account, only in the cases named.
THEOREM PlansJudged == Spec => OnlyTheseMisjudge
<1> DEFINE Created == count' > count /\ EN!Exceeds(count', EN!LimitFor(plan)) =>
                         EN!OrderAtCatalog \/ EN!CreatesUnsurely
           Given == \A i \in DOMAIN exceptions' :
                       i \notin DOMAIN exceptions \/ EN!Begin(i) => EN!Gives(exceptions'[i].what)
           Step == /\ Created
                   /\ EN!Stated'
                   /\ Given
<1>1. Inv /\ [Next]_vars => [Created /\ Given]_(EN!vars)
  <2> SUFFICES ASSUME Inv, [Next]_vars PROVE [Created /\ Given]_(EN!vars)
    OBVIOUS
  <2>1. CASE EN!Next
    BY <2>1, OverLimit, BeginsThen DEF Inv
  <2>2. CASE UNCHANGED planVars
    BY <2>2 DEF planVars, EN!vars
  <2> QED BY <2>1, <2>2, Steps
<1>2. Inv => EN!Stated
  BY StatedThen DEF Inv
<1>3. Spec => [][Step]_(EN!vars)
  BY <1>1, <1>2, AlwaysInv, PTL DEF Spec
<1> QED BY <1>3 DEF OnlyTheseMisjudge, EN!OnlyTheseMisjudge
=============================================================================
