------------------------------ MODULE MCAccounts ------------------------------
(* Seven components about accounts for TLC, in one run: sessions, the login of
   sellers, their second factor, the slugs of their stores, the passwords of
   customers, plans, and the settings that bear on plans.  They share no state,
   so that a behaviour of the run is one of one of them. *)
EXTENDS Integers, FiniteSets, Sequences, TLC

CONSTANTS
    Request,                                    \* requests under way at once
    MaxSessions, MaxCsrf,                       \* of the sessions
    MaxLinks,                                   \* of the login
    MaxSecrets, MaxBatches,                     \* of the second factor
    Invite, OTP_MAX_ATTEMPTS, MaxCodes,         \* of the passwords
    Account, Base, RESERVED_SLUGS, LastSuffix,  \* of the slugs
    Date, Percent, MaxEdits,                    \* of the settings
    LimitOf, Custom, MaxCount, MaxExceptions    \* of the plans

ASSUME SessionsAssumption == MaxSessions \in Nat /\ MaxCsrf \in Nat
ASSUME LinksAssumption == MaxLinks \in Nat
ASSUME FactorAssumption == MaxSecrets \in Nat /\ MaxBatches \in Nat
ASSUME PasswordsAssumption ==
    "code" \notin Invite /\ OTP_MAX_ATTEMPTS \in Nat \ {0} /\ MaxCodes \in Nat
ASSUME SlugsAssumption == LastSuffix \in Nat /\ LastSuffix > 1
ASSUME SettingsAssumption ==
    Date \subseteq Nat \ {0} /\ Percent \subseteq 0..100 /\ MaxEdits \in Nat

VARIABLES
    part,   \* the component that runs
    cookies, blacklist, usedTokens, sessions, csrf, browserTask,
    account, links, made, loginTask,
    factor, secrets, proven, batches, spent, factorTask,
    hasPassword, redis, invites, passwordTask, codes, wrong, clean, usedInvites, loose,
    slugs, state, slugTask,
    settings, edits, settingTask,
    kind, count, plan, claimed, exceptions, window, override, planTask

sessionVars == <<cookies, blacklist, usedTokens, sessions, csrf, browserTask>>
loginVars == <<account, links, made, loginTask>>
factorVars == <<factor, secrets, proven, batches, spent, factorTask>>
passwordVars ==
    <<hasPassword, redis, invites, passwordTask, codes, wrong, clean, usedInvites, loose>>
slugVars == <<slugs, state, slugTask>>
settingVars == <<settings, edits, settingTask>>
planVars == <<kind, count, plan, claimed, exceptions, window, override, planTask>>
vars == <<part, sessionVars, loginVars, factorVars, slugVars, passwordVars, settingVars, planVars>>

SE == INSTANCE Sessions WITH used <- usedTokens, task <- browserTask
SL == INSTANCE SellerLogin WITH task <- loginTask
TF == INSTANCE TwoFactor WITH task <- factorTask
SS == INSTANCE StoreSlugs WITH task <- slugTask
CP == INSTANCE CustomerPasswords WITH used <- usedInvites, task <- passwordTask
EN == INSTANCE Entitlements WITH task <- planTask
ST == INSTANCE Settings WITH task <- settingTask, Connection <- Request

\* A plan allows no less than the one below it.
ASSUME PlansAssumption ==
    /\ LimitOf \in [EN!Plan -> [EN!Kind -> Nat \cup {EN!Unlimited}]]
    /\ \A k \in EN!Kind : /\ ~EN!Exceeds(LimitOf["free"][k], LimitOf["pro"][k])
                          /\ ~EN!Exceeds(LimitOf["pro"][k], LimitOf["enterprise"][k])
    /\ Custom \subseteq Nat /\ MaxCount \in Nat /\ MaxExceptions \in Nat

Symmetry == Permutations(Request)

\* The free plan has room for one of each kind, pro for two, enterprise for all.
MCLimitOf ==
    LET each(n) == [k \in {"product", "customer", "order"} |-> n]
    IN  [free |-> each(1), pro |-> each(2), enterprise |-> each(-1)]

\* Whatever happens to the number of products or customers may happen to orders.
Init ==
    /\ part \in {"sessions", "login", "factor", "slugs", "passwords", "settings", "plans"}
    /\ SE!Init /\ SL!Init /\ TF!Init /\ SS!Init /\ CP!Init /\ ST!Init /\ EN!Init
    /\ part # "login" => account.password = "set"
    /\ plan = "free" /\ kind = "order"
    /\ part # "settings" => \A k \in DOMAIN settings : settings[k] = ST!None

Next ==
    /\ UNCHANGED part
    /\ IF part = "sessions" THEN SE!Next ELSE UNCHANGED sessionVars
    /\ IF part = "login" THEN SL!Next ELSE UNCHANGED loginVars
    /\ IF part = "factor" THEN TF!Next ELSE UNCHANGED factorVars
    /\ IF part = "slugs" THEN SS!Next ELSE UNCHANGED slugVars
    /\ IF part = "passwords" THEN CP!Next ELSE UNCHANGED passwordVars
    /\ IF part = "settings" THEN ST!Next ELSE UNCHANGED settingVars
    /\ IF part = "plans" THEN EN!Next ELSE UNCHANGED planVars

Spec == Init /\ [][Next]_vars
-----------------------------------------------------------------------------
(* The properties, each stated in its component *)

\* Every variable has its type.
TypesOK ==
    CASE part = "sessions" -> SE!TypeOK
      [] part = "login" -> SL!TypeOK
      [] part = "factor" -> TF!TypeOK
      [] part = "slugs" -> SS!TypeOK
      [] part = "passwords" -> CP!TypeOK
      [] part = "settings" -> ST!TypeOK
      [] OTHER -> EN!TypeOK

\* Of each component what only its overlaps and delays can break.
OnlyTheseRefuse == SE!OnlyTheseRefuse
OnlyOverlapsLeaveLinks == SL!OnlyOverlapsLeaveLinks
OnlyStaleWritesHarm == TF!OnlyStaleWritesHarm
OnlyOverlapsReuse == CP!OnlyOverlapsReuse
OnlyRacesMisaddress == SS!OnlyRacesMisaddress
OnlyOverlapsMixSettings == ST!OnlyOverlapsMixSettings
OnlyTheseMisjudge == EN!OnlyTheseMisjudge

\* data-deletion.controller.ts:51 tells the owner that an erased account can no
\* longer be accessed.
ErasedStaysOut == SL!ErasedStaysOut
=============================================================================
