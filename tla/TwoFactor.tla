----------------------------- MODULE TwoFactor -----------------------------
(***************************************************************************)
(* The second factor of an account: the secret that codes are made from,   *)
(* whether it is on, and the backup codes.  A request reads the account,   *)
(* decides, and writes later what it decided, without a lock.              *)
(***************************************************************************)
EXTENDS Integers, FiniteSets

CONSTANTS
    Request,    \* requests that run at once
    MaxSecrets, \* bound: secrets made
    MaxBatches  \* bound: batches of backup codes made

VARIABLES
    factor,     \* two_factor_enabled, two_factor_secret and two_factor_backup
    secrets,    \* secrets made so far; secret n is the n-th
    proven,     \* the secret whose code switched the second factor on
    batches,    \* batches made so far
    spent,      \* backup codes that were accepted
    task        \* what each request is in the middle of

vars == <<factor, secrets, proven, batches, spent, task>>

None == 0

\* Two codes stand for the ten of a batch.
Batch(n) == {2 * n - 1, 2 * n}

Codes == UNION {Batch(n) : n \in 1..MaxBatches}

Idle == [op |-> "none"]

TypeOK ==
    /\ factor.enabled \in BOOLEAN /\ factor.secret \in 0..secrets
    /\ factor.backup \cup spent \subseteq Codes
    /\ proven \in 0..secrets
    /\ \A r \in Request : task[r].op \in {"none", "secret", "enable", "disable", "codes"}
-----------------------------------------------------------------------------
Does(r, t) == task' = [task EXCEPT ![r] = t]

\* r has read the account and decided what to write.
Decides(r, op, value) ==
    /\ task[r] = Idle
    /\ Does(r, [op |-> op, value |-> value, seen |-> factor])

\* generateSecret
Generate(r) ==
    /\ secrets < MaxSecrets
    /\ ~factor.enabled
    /\ secrets' = secrets + 1
    /\ Decides(r, "secret", secrets + 1)
    /\ UNCHANGED <<factor, proven, batches, spent>>

WriteSecret(r) ==
    /\ task[r].op = "secret"
    /\ factor' = [factor EXCEPT !.secret = task[r].value]
    /\ Does(r, Idle)
    /\ UNCHANGED <<secrets, proven, batches, spent>>

\* Which secrets' codes enableTwoFactor takes.
Proves(s) == s # None /\ s = factor.secret /\ ~factor.enabled

Enable(r, s) ==
    /\ Proves(s)
    /\ Decides(r, "enable", s)
    /\ UNCHANGED <<factor, secrets, proven, batches, spent>>

\* The write only switches on: it does not repeat the secret.
WriteEnabled(r) ==
    /\ task[r].op = "enable"
    /\ factor' = [factor EXCEPT !.enabled = TRUE]
    /\ proven' = task[r].value
    /\ Does(r, Idle)
    /\ UNCHANGED <<secrets, batches, spent>>

\* By the owner, without a code, or by an administrator.
Disable(r) ==
    /\ factor.enabled
    /\ Decides(r, "disable", None)
    /\ UNCHANGED <<factor, secrets, proven, batches, spent>>

\* The backup codes stay.
WriteDisabled(r) ==
    /\ task[r].op = "disable"
    /\ factor' = [factor EXCEPT !.enabled = FALSE, !.secret = None]
    /\ Does(r, Idle)
    /\ UNCHANGED <<secrets, proven, batches, spent>>

\* generateBackupCodes writes at once, whatever there was.
Replaces(codes) == Batch(batches + 1)

GenerateBackupCodes ==
    /\ batches < MaxBatches
    /\ batches' = batches + 1
    /\ factor' = [factor EXCEPT !.backup = Replaces(factor.backup)]
    /\ UNCHANGED <<secrets, proven, spent, task>>

\* verifyBackupCode: the code is there.
UseBackupCode(r, code) ==
    /\ factor.enabled
    /\ code \in factor.backup
    /\ Decides(r, "codes", code)
    /\ UNCHANGED <<factor, secrets, proven, batches, spent>>

\* Mutant: the code is accepted and stays.
KeepsCode(codes, code) == codes

Without(codes, code) == codes \ {code}

\* The codes that were read are written back without it.
WriteBackupCodes(r) ==
    /\ task[r].op = "codes"
    /\ factor' = [factor EXCEPT !.backup = Without(task[r].seen.backup, task[r].value)]
    /\ spent' = spent \cup {task[r].value}
    /\ Does(r, Idle)
    /\ UNCHANGED <<secrets, proven, batches>>

\* The account is erased.
Anonymize ==
    /\ factor' = [enabled |-> FALSE, secret |-> None, backup |-> {}]
    /\ UNCHANGED <<secrets, proven, batches, spent, task>>

\* The request fails before it writes.
Fail(r) ==
    /\ task[r] # Idle
    /\ Does(r, Idle)
    /\ UNCHANGED <<factor, secrets, proven, batches, spent>>
-----------------------------------------------------------------------------
Init ==
    /\ factor = [enabled |-> FALSE, secret |-> None, backup |-> {}]
    /\ secrets = 0 /\ proven = None
    /\ batches = 0 /\ spent = {}
    /\ task = [r \in Request |-> Idle]

Next ==
    \/ \E r \in Request :
          \/ Generate(r) \/ WriteSecret(r)
          \/ WriteEnabled(r) \/ \E s \in 0..MaxSecrets : Enable(r, s)
          \/ Disable(r) \/ WriteDisabled(r)
          \/ WriteBackupCodes(r) \/ \E code \in Codes : UseBackupCode(r, code)
          \/ Fail(r)
    \/ GenerateBackupCodes
    \/ Anonymize

Spec == Init /\ [][Next]_vars
-----------------------------------------------------------------------------
(* Properties *)

\* The owner holds no secret that the second factor asks for.
LockedOut == factor.enabled /\ factor.secret # proven

\* r writes to a secret or switch that changed since it read them.
WritesStaleSwitch(r) ==
    /\ WriteSecret(r) \/ WriteEnabled(r)
    /\ <<task[r].seen.enabled, task[r].seen.secret>> # <<factor.enabled, factor.secret>>

\* Backup codes that are no longer good: accepted once, or of a batch before the last.
Dead == spent \cup UNION {Batch(n) : n \in 1..batches - 1}

\* Backup code c comes back from the dead.
Revives(c) == c \in Dead' /\ c \in factor'.backup \ (Dead \cap factor.backup)

\* Only writes on a reading that is out of date do harm.  When a new secret or
\* the switch is written so, an account comes to ask for a secret that was not
\* the proven one: the owner, whose app has another, cannot log in any more.
\* When backup codes are, as by two that are used at once or during a
\* replacement, a dead one comes back.
OnlyStaleWritesHarm ==
    [][/\ ~LockedOut /\ LockedOut' => \E r \in Request : WritesStaleSwitch(r)
       /\ (\E c \in Codes : Revives(c)) =>
             \E r \in Request : WriteBackupCodes(r) /\ task[r].seen.backup # factor.backup]_vars
=============================================================================
