----------------------------- MODULE Sessions -----------------------------
(***************************************************************************)
(* The session of a browser: the cookies that login, refresh, /auth/me and *)
(* logout set, and the check of the CSRF token of a request that changes   *)
(* something.  The application reads that token from the cookie and puts   *)
(* it in a header; the browser attaches the cookies when it sends; answers *)
(* arrive in any order.  Tabs share the cookies, and tokens are numbered   *)
(* as they are made.                                                       *)
(***************************************************************************)
EXTENDS Integers

CONSTANTS
    Request,    \* requests that are under way at once
    MaxSessions,\* bound: sessions that login and refresh make
    MaxCsrf     \* bound: CSRF tokens made

VARIABLES
    cookies,    \* the cookies of the browser: number of the token, or None
    blacklist,  \* sessions whose access token is on the blacklist
    used,       \* sessions whose refresh token is on it
    sessions,   \* sessions made so far
    csrf,       \* CSRF tokens made so far
    task        \* what each request is in the middle of

vars == <<cookies, blacklist, used, sessions, csrf, task>>

None == 0
NoCookies == [access |-> None, refresh |-> None, csrf |-> None, brief |-> FALSE]

Idle == [op |-> "none"]

TypeOK ==
    /\ cookies \in [access : 0..MaxSessions, refresh : 0..MaxSessions,
                    csrf : 0..MaxCsrf, brief : BOOLEAN]
    /\ blacklist \cup used \subseteq 1..sessions
    /\ sessions \in 0..MaxSessions /\ csrf \in 0..MaxCsrf
    /\ \A r \in Request : task[r].op \in {"none", "ask", "change", "sent", "answer"}
-----------------------------------------------------------------------------
Does(r, t) == task' = [task EXCEPT ![r] = t]

\* The cookies that an answer sets; the others stay as they are.
Answers(r, asked, cookie) ==
    Does(r, [op |-> "answer", asked |-> asked, sets |-> cookie])

\* A refusal sets no cookie.
Refuses(r) == Answers(r, "refused", << >>)

\* The browser sends a request of some kind with the cookies it has.
Send(r, asked) ==
    /\ task[r] = Idle
    /\ Does(r, [op |-> "ask", asked |-> asked, with |-> cookies])
    /\ UNCHANGED <<cookies, blacklist, used, sessions, csrf>>

\* Mutant: a refresh leaves the CSRF cookie alone.
SessionOnly(n, brief) == [access |-> n, refresh |-> n]

\* The cookies of a new session: after a login the CSRF cookie lives as long as
\* the access token, after a refresh as long as the refresh token.
NewSession(n, brief) == [access |-> n, refresh |-> n, csrf |-> csrf + 1, brief |-> brief]

HandleLogin(r) ==
    /\ task[r].op = "ask" /\ task[r].asked = "login"
    /\ sessions < MaxSessions /\ csrf < MaxCsrf
    /\ sessions' = sessions + 1 /\ csrf' = csrf + 1
    /\ Answers(r, "login", NewSession(sessions + 1, TRUE))
    /\ UNCHANGED <<cookies, blacklist, used>>

\* verifyRefreshToken does not look at the blacklist.
Takes(n) == n # None

\* The refresh token goes on the blacklist, and a new session is made.
HandleRefresh(r) ==
    /\ task[r].op = "ask" /\ task[r].asked = "refresh"
    /\ LET old == task[r].with.refresh
       IN  IF Takes(old)
           THEN /\ sessions < MaxSessions /\ csrf < MaxCsrf
                /\ used' = used \cup {old}
                /\ sessions' = sessions + 1 /\ csrf' = csrf + 1
                /\ Answers(r, "refresh", NewSession(sessions + 1, FALSE))
           ELSE /\ Refuses(r)
                /\ UNCHANGED <<used, sessions, csrf>>
    /\ UNCHANGED <<cookies, blacklist>>

\* JwtAuthGuard: an access token, and not one on the blacklist.
LoggedIn(with) == with.access # None /\ with.access \notin blacklist

Seeds(with) == with.csrf = None

HandleMe(r) ==
    /\ task[r].op = "ask" /\ task[r].asked = "me"
    /\ IF LoggedIn(task[r].with) /\ Seeds(task[r].with)
       THEN /\ csrf < MaxCsrf
            /\ csrf' = csrf + 1
            /\ Answers(r, "seed", [csrf |-> csrf + 1, brief |-> FALSE])
       ELSE Does(r, Idle) /\ UNCHANGED csrf
    /\ UNCHANGED <<cookies, blacklist, used, sessions>>

Clears == NoCookies

\* Both tokens go on the blacklist, and the cookies are cleared; but the guard of
\* all requests comes first, and refuses a logout without a valid access token.
HandleLogout(r) ==
    /\ task[r].op = "ask" /\ task[r].asked = "logout"
    /\ IF LoggedIn(task[r].with)
       THEN /\ blacklist' = blacklist \cup {task[r].with.access}
            /\ used' = used \cup ({task[r].with.refresh} \ {None})
            /\ Answers(r, "logout", Clears)
       ELSE Refuses(r) /\ UNCHANGED <<blacklist, used>>
    /\ UNCHANGED <<cookies, sessions, csrf>>

\* Cookie c, once an answer that sets some of them has arrived.
After(c, sets) == IF c \in DOMAIN sets THEN sets[c] ELSE cookies[c]

\* An answer arrives: it sets cookies, and the requests whose header was read
\* before and that are not sent yet will not match it if it sets that cookie.
Arrive(r) ==
    /\ task[r].op = "answer"
    /\ LET sets == task[r].sets
       IN  cookies' = [access |-> After("access", sets), refresh |-> After("refresh", sets),
                       csrf |-> After("csrf", sets), brief |-> After("brief", sets)]
    /\ task' = [q \in Request |->
                  IF q = r THEN Idle
                  ELSE IF task[q].op = "change"
                       THEN [task[q] EXCEPT !.since = @ \cup {task[r].asked}]
                  ELSE task[q]]
    /\ UNCHANGED <<blacklist, used, sessions, csrf>>

\* A request that changes something: the header is read ...
ReadHeader(r) ==
    /\ task[r] = Idle
    /\ cookies.access # None
    /\ Does(r, [op |-> "change", header |-> cookies.csrf, since |-> {}])
    /\ UNCHANGED <<cookies, blacklist, used, sessions, csrf>>

\* ... and the request is sent and checked with the cookies of this moment.
SendChange(r) ==
    /\ task[r].op = "change"
    /\ Does(r, Idle)
    /\ UNCHANGED <<cookies, blacklist, used, sessions, csrf>>

\* CsrfGuard: without a session cookie there is nothing to check.
Mismatch(r) ==
    /\ cookies.access # None
    /\ cookies.csrf = None \/ cookies.csrf # task[r].header

\* The request or its answer is lost.
Lose(r) ==
    /\ task[r].op \in {"ask", "answer"}
    /\ Does(r, Idle)
    /\ UNCHANGED <<cookies, blacklist, used, sessions, csrf>>

\* The access cookie expires, and with it the CSRF cookie of its login.
ExpireAccess ==
    /\ cookies.access # None
    /\ cookies' = [cookies EXCEPT !.access = None,
                                  !.csrf = IF cookies.brief THEN None ELSE @,
                                  !.brief = FALSE]
    /\ UNCHANGED <<blacklist, used, sessions, csrf, task>>

\* After seven days nothing is left.
ExpireAll ==
    /\ cookies.access = None /\ cookies # NoCookies
    /\ cookies' = NoCookies
    /\ UNCHANGED <<blacklist, used, sessions, csrf, task>>
-----------------------------------------------------------------------------
Init ==
    /\ cookies = NoCookies
    /\ blacklist = {} /\ used = {}
    /\ sessions = 0 /\ csrf = 0
    /\ task = [r \in Request |-> Idle]

Next ==
    \/ \E r \in Request :
          \/ \E asked \in {"login", "refresh", "me", "logout"} : Send(r, asked)
          \/ HandleLogin(r) \/ HandleRefresh(r) \/ HandleMe(r) \/ HandleLogout(r)
          \/ Arrive(r) \/ Lose(r)
          \/ ReadHeader(r) \/ SendChange(r)
    \/ ExpireAccess
    \/ ExpireAll

Spec == Init /\ [][Next]_vars
-----------------------------------------------------------------------------
(* Properties *)

\* A change that the browser sends is refused for its CSRF token only if, between
\* the reading of the header and the sending, an answer to a login, a refresh or
\* a logout arrived, or one to an /auth/me that was sent when there was no CSRF
\* cookie: never for the want of a cookie.  A refresh is refused only if the
\* browser had no refresh token: tabs that refresh at once with the same one do
\* not log each other out.
OnlyTheseRefuse ==
    [][\A r \in Request :
          /\ SendChange(r) /\ Mismatch(r) =>
                task[r].since \cap {"login", "refresh", "logout", "seed"} # {}
          /\ HandleRefresh(r) /\ task'[r].asked = "refused" =>
                task[r].with.refresh = None]_vars
=============================================================================
