------------------------- MODULE CustomerPasswords -------------------------
(***************************************************************************)
(* How a customer of a store comes by a password: with a code that is sent *)
(* by e-mail and dies of a few wrong answers, or with an invite of the     *)
(* seller that is good for one password.  Codes, counts and invites are    *)
(* keys in Redis with a time to live, and a request reads and writes them  *)
(* one by one.  One customer, with an e-mail address.                      *)
(***************************************************************************)
EXTENDS Integers, FiniteSets, Sequences

CONSTANTS
    Request,            \* requests that run at once
    Invite,             \* invites that the seller may issue
    OTP_MAX_ATTEMPTS,   \* wrong answers that a code dies of, at least one
    MaxCodes            \* bound: codes sent

VARIABLES
    hasPassword,    \* is customer.password_hash set?
    redis,          \* the keys of the customer: code, count of attempts, cooldown
    invites,        \* invites that Redis has
    task,           \* what each request is in the middle of
    codes,          \* codes made so far; code n is the n-th
    wrong,          \* wrong answers to the code that is valid, while clean
    clean,          \* since it was made, no request overlapped another or failed
    used,           \* invites that have set a password
    loose           \* invites whose redemptions overlapped or failed

vars == <<hasPassword, redis, invites, task, codes, wrong, clean, used, loose>>

None == 0
Code == 1..MaxCodes

\* Attempts count against the code that was valid when they were written.
NoAttempts == [of |-> None, count |-> 0]

Idle == [op |-> "none"]

TypeOK ==
    /\ hasPassword \in BOOLEAN
    /\ redis.otp \in Code \cup {None} /\ redis.cooldown \in BOOLEAN
    /\ redis.attempts \in [of : Code \cup {None}, count : 0..OTP_MAX_ATTEMPTS - 1]
    /\ used \cup loose \cup invites \subseteq Invite
    /\ \A r \in Request : task[r].op \in {"none", "answer", "count", "store", "write"}
    /\ codes \in 0..MaxCodes
-----------------------------------------------------------------------------
Does(r, t) == task' = [task EXCEPT ![r] = t]

Alone(r) == \A q \in Request \ {r} : task[q] = Idle

\* A request about the code begins.
Begins(r, t) ==
    /\ task[r] = Idle
    /\ clean' = (clean /\ Alone(r))
    /\ Does(r, t)

Set(key, value) == <<key, value>>

\* The rest of a request: commands to Redis, one at a time.
Writes(commands) == [op |-> "write", todo |-> commands]

\* requestPasswordOtp
NewCode(code) == <<Set("otp", code), Set("attempts", NoAttempts), Set("cooldown", TRUE)>>

AskForCode(r) ==
    /\ codes < MaxCodes
    /\ ~hasPassword /\ ~redis.cooldown
    /\ Begins(r, Writes(NewCode(codes + 1)))
    /\ codes' = codes + 1
    /\ UNCHANGED <<hasPassword, redis, invites, wrong, used, loose>>

\* setCustomerPassword: the customer has no password and answers, perhaps
\* with no code that was ever sent ...
Answer(r, code) ==
    /\ ~hasPassword
    /\ Begins(r, [op |-> "answer", code |-> code])
    /\ UNCHANGED <<hasPassword, redis, invites, codes, wrong, used, loose>>

\* ... the code is compared ...
Compare(r) ==
    /\ task[r].op = "answer"
    /\ CASE redis.otp = None -> Does(r, Idle) /\ UNCHANGED wrong
         [] redis.otp # None /\ redis.otp = task[r].code ->
              Does(r, [op |-> "store", by |-> "code"]) /\ UNCHANGED wrong
         [] OTHER -> Does(r, [op |-> "count"]) /\ wrong' = (IF clean THEN wrong + 1 ELSE wrong)
    /\ UNCHANGED <<hasPassword, redis, invites, codes, clean, used, loose>>

\* Mutant: one attempt too many.
CountedLate(n) ==
    IF n > OTP_MAX_ATTEMPTS THEN <<Set("otp", None), Set("attempts", NoAttempts)>>
    ELSE <<Set("attempts", [of |-> redis.otp, count |-> n])>>

Counted(n) ==
    IF n >= OTP_MAX_ATTEMPTS THEN <<Set("otp", None), Set("attempts", NoAttempts)>>
    ELSE <<Set("attempts", [of |-> redis.otp, count |-> n])>>

\* ... and a wrong one counted.
Count(r) ==
    /\ task[r].op = "count"
    /\ Does(r, Writes(Counted(redis.attempts.count + 1)))
    /\ UNCHANGED <<hasPassword, redis, invites, codes, wrong, clean, used, loose>>

\* What a request deletes once the password is stored.
Consumed(by) ==
    IF by = "code" THEN <<Set("otp", None), Set("attempts", NoAttempts), Set("cooldown", FALSE)>>
    ELSE <<Set("invite", by)>>

\* updateCustomerPasswordHash
Store(r) ==
    /\ task[r].op = "store"
    /\ hasPassword' = TRUE
    /\ used' = used \cup ({task[r].by} \ {"code"})
    /\ Does(r, Writes(Consumed(task[r].by)))
    /\ UNCHANGED <<redis, invites, codes, wrong, clean, loose>>

\* The next command of r; a new code starts its own count of wrong answers.
Execute(r) ==
    /\ task[r].op = "write" /\ task[r].todo # <<>>
    /\ LET key == Head(task[r].todo)[1]
           value == Head(task[r].todo)[2]
           new == key = "otp" /\ value # None
       IN  /\ IF key = "invite"
              THEN invites' = invites \ {value} /\ UNCHANGED redis
              ELSE redis' = [redis EXCEPT ![key] = value] /\ UNCHANGED invites
           /\ wrong' = IF new THEN 0 ELSE wrong
           /\ clean' = IF new THEN Alone(r) ELSE clean
    /\ Does(r, Writes(Tail(task[r].todo)))
    /\ UNCHANGED <<hasPassword, codes, used, loose>>

Finish(r) ==
    /\ task[r].op = "write" /\ task[r].todo = <<>>
    /\ Does(r, Idle)
    /\ UNCHANGED <<hasPassword, redis, invites, codes, wrong, clean, used, loose>>

\* Those that hold or delete invite i.
Redeeming(i) ==
    {r \in Request : \/ task[r].op = "store" /\ task[r].by = i
                     \/ task[r].op = "write" /\ Set("invite", i) \in {task[r].todo[n] : n \in DOMAIN task[r].todo}}

\* createCustomerPasswordInvite: a token that no invite had before.
Issue(i) ==
    /\ i \notin invites \cup used /\ Redeeming(i) = {}
    /\ invites' = invites \cup {i}
    /\ loose' = loose \ {i}
    /\ UNCHANGED <<hasPassword, redis, task, codes, wrong, clean, used>>

\* redeemPasswordInvite: an invite sets a password whether or not there is one.
Redeem(r, i) ==
    /\ task[r] = Idle
    /\ i \in invites
    /\ loose' = IF Redeeming(i) = {} THEN loose ELSE loose \cup {i}
    /\ Does(r, [op |-> "store", by |-> i])
    /\ clean' = (clean /\ Alone(r))
    /\ UNCHANGED <<hasPassword, redis, invites, codes, wrong, used>>

\* Redis, the database or the process fails in the middle of a request.
Fail(r) ==
    /\ task[r] # Idle
    /\ clean' = FALSE
    /\ loose' = loose \cup {i \in Invite : r \in Redeeming(i)}
    /\ Does(r, Idle)
    /\ UNCHANGED <<hasPassword, redis, invites, codes, wrong, used>>

\* Times to live run out.  A count outlives the code that it was written for.
Expire ==
    /\ \/ redis.otp # None /\ redis' = [redis EXCEPT !.otp = None] /\ UNCHANGED invites
       \/ redis.cooldown /\ redis' = [redis EXCEPT !.cooldown = FALSE] /\ UNCHANGED invites
       \/ /\ redis.attempts.of # redis.otp
          /\ redis' = [redis EXCEPT !.attempts = NoAttempts] /\ UNCHANGED invites
       \/ \E i \in invites : invites' = invites \ {i} /\ UNCHANGED redis
    /\ UNCHANGED <<hasPassword, task, codes, wrong, clean, used, loose>>
-----------------------------------------------------------------------------
Init ==
    /\ hasPassword = FALSE
    /\ redis = [otp |-> None, attempts |-> NoAttempts, cooldown |-> FALSE]
    /\ invites = {}
    /\ task = [r \in Request |-> Idle]
    /\ codes = 0 /\ wrong = 0 /\ clean = TRUE
    /\ used = {} /\ loose = {}

Next ==
    \/ \E r \in Request :
          \/ AskForCode(r) \/ Compare(r) \/ Count(r) \/ Store(r)
          \/ Execute(r) \/ Finish(r) \/ Fail(r)
          \/ \E code \in Code \cup {None} : Answer(r, code)
          \/ \E i \in Invite : Redeem(r, i)
    \/ \E i \in Invite : Issue(i)
    \/ Expire

Spec == Init /\ [][Next]_vars
-----------------------------------------------------------------------------
(* Properties *)

\* Once no request is at work, a code that lives has had fewer wrong answers
\* than it may have.
Spent == redis.otp # None /\ (\A r \in Request : task[r] = Idle) /\ wrong >= OTP_MAX_ATTEMPTS

\* A code outlives its last wrong answer only if requests overlapped or failed
\* since it was made: overlapping answers count as one.  And an invite sets a
\* second password only if its redemptions overlapped, or one failed between
\* the password and the deletion of the invite.
OnlyOverlapsReuse ==
    [][/\ Spent' => ~clean'
       /\ \A r \in Request : Store(r) /\ task[r].by \in used => task[r].by \in loose]_vars
=============================================================================
