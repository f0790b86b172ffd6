------------------------ MODULE NotificationsProofs ------------------------
(***************************************************************************)
(* Proofs about module Notifications, for any news, attempts and number of *)
(* faults.  The inductive invariant says where the job of a piece of news  *)
(* is: there is one in each queue at most, an e-mail is enqueued after its *)
(* notification only, and a job that ran has made its effect.              *)
(***************************************************************************)
EXTENDS Notifications, TLAPS

Has(queue, n) == \E j \in JobIds : jobs[j].queue = queue /\ jobs[j].about = n

IsDone(n) ==
    \E j \in JobIds : jobs[j].queue = "notification" /\ jobs[j].about = n /\ jobs[j].state = "done"

Took(kinds, n) == \E kind \in kinds : [kind |-> kind, about |-> n] \in dropped

OneJob ==
    \A i, j \in JobIds :
        jobs[i].queue = jobs[j].queue /\ jobs[i].about = jobs[j].about => i = j

\* A job is waiting or active only while it has attempts left, and active only if it was
\* not interrupted too often.
AttemptsLeft ==
    \A j \in JobIds :
        /\ jobs[j].state \in {"waiting", "active"} => jobs[j].attemptsMade < attempts
        /\ jobs[j].state = "active" => ~Stalled(j)

\* News has no job before it is enqueued, and its e-mail none before that is enqueued.
Stages ==
    /\ \A n \in telling : ~Has("notification", n)
    /\ \A j \in JobIds : jobs[j].about \in announced
    /\ \A j \in JobIds : jobs[j].queue = "email" =>
          IsDone(jobs[j].about) /\ jobs[j].about \notin ToSet(mailing)
    /\ \A k \in DOMAIN mailing : IsDone(mailing[k])
    /\ \A k, l \in DOMAIN mailing : mailing[k] = mailing[l] => k = l

Ran(j) == jobs[j].state \in {"active", "done"}

Effects(queue, n) == IF queue = "notification" THEN rows[n] ELSE sent[n]

\* A job that ran has made its effect, once unless it ran before.
EffectsMade ==
    /\ \A j \in JobIds :
          LET made == Effects(jobs[j].queue, jobs[j].about)
          IN  /\ Ran(j) => made > 0
              /\ jobs[j].about \notin repeated => made = IF Ran(j) THEN 1 ELSE 0
    /\ \A queue \in {"notification", "email"}, n \in News : ~Has(queue, n) => Effects(queue, n) = 0

\* Where news, an e-mail and a job that failed for good are, or what took them.
Accounted ==
    /\ \A n \in announced : n \in telling \/ Has("notification", n) \/ Took({"news"}, n)
    /\ \A n \in Oversold : IsDone(n) =>
          n \in ToSet(mailing) \/ Has("email", n) \/ Took({"mail"}, n)
    /\ \A j \in JobIds : jobs[j].state = "failed" =>
          j \in dying \cup dlq \/ Took({"letter", "stall"}, jobs[j].about)

NewsInv == TypeOK /\ OneJob /\ AttemptsLeft /\ Stages /\ EffectsMade /\ Accounted
-----------------------------------------------------------------------------
(* How the jobs change: one is added, or some go on *)

Job == [queue : {"notification", "email"}, about : News,
        state : {"waiting", "active", "done", "failed"},
        attemptsMade : 0..attempts, stalls : Nat]

\* The fields of job j in the next state.
BecomesJob(j, state, made, stalls) ==
    jobs'[j] = [queue |-> jobs[j].queue, about |-> jobs[j].about, state |-> state,
                attemptsMade |-> made, stalls |-> stalls]

\* Only job j changes, and stays about the same.
Moves(j, state, made) ==
    /\ DOMAIN jobs' = DOMAIN jobs
    /\ BecomesJob(j, state, made, jobs[j].stalls)
    /\ \A i \in JobIds \ {j} : jobs'[i] = jobs[i]

LEMMA DomainIsRange ==
    ASSUME TypeOK
    PROVE  JobIds = 1..Len(jobs) /\ Len(jobs) \in Nat /\ jobs \in Seq(Job)
BY DEF TypeOK, JobIds, Job

LEMMA JobsTyped ==
    ASSUME TypeOK, NEW j \in JobIds
    PROVE  jobs[j] \in Job
BY DomainIsRange DEF JobIds

\* What a job is after its state or its attempts change.
LEMMA JobChanges ==
    ASSUME NEW job \in Job, NEW state, NEW made
    PROVE  /\ [job EXCEPT !.state = state]
                = [queue |-> job.queue, about |-> job.about, state |-> state,
                   attemptsMade |-> job.attemptsMade, stalls |-> job.stalls]
           /\ [[job EXCEPT !.attemptsMade = made] EXCEPT !.state = state]
                = [queue |-> job.queue, about |-> job.about, state |-> state,
                   attemptsMade |-> made, stalls |-> job.stalls]
<1>1. PICK q, a, s, m, t :
         job = [queue |-> q, about |-> a, state |-> s, attemptsMade |-> m, stalls |-> t]
  BY DEF Job
<1> DEFINE lit == [queue |-> q, about |-> a, state |-> s, attemptsMade |-> m, stalls |-> t]
           lit2 == [queue |-> q, about |-> a, state |-> s, attemptsMade |-> made, stalls |-> t]
<1>2. [lit EXCEPT !.state = state]
        = [queue |-> q, about |-> a, state |-> state, attemptsMade |-> m, stalls |-> t]
  OBVIOUS
<1>3. [lit EXCEPT !.attemptsMade = made] = lit2
  OBVIOUS
<1>4. [lit2 EXCEPT !.state = state]
        = [queue |-> q, about |-> a, state |-> state, attemptsMade |-> made, stalls |-> t]
  OBVIOUS
<1>5. lit.queue = q /\ lit.about = a /\ lit.attemptsMade = m /\ lit.stalls = t
  OBVIOUS
<1> HIDE DEF lit, lit2
<1>6. job = lit
  BY <1>1 DEF lit
<1> QED BY <1>2, <1>3, <1>4, <1>5, <1>6, Zenon

LEMMA JobsStayTyped ==
    ASSUME TypeOK, DOMAIN jobs' = DOMAIN jobs, jobs' = [j \in JobIds |-> jobs'[j]],
           \A j \in JobIds : jobs'[j] \in Job
    PROVE  jobs' \in Seq(Job)
<1>1. jobs' = [j \in 1..Len(jobs) |-> jobs'[j]]
  BY DomainIsRange
<1>2. \A j \in 1..Len(jobs) : jobs'[j] \in Job
  BY DomainIsRange
<1> DEFINE new == jobs'
<1>3. new = [j \in 1..Len(jobs) |-> new[j]] /\ \A j \in 1..Len(jobs) : new[j] \in Job
  BY <1>1, <1>2
<1> HIDE DEF new
<1>4. new \in Seq(Job)
  BY <1>3, DomainIsRange
<1> QED BY <1>4 DEF new

LEMMA BecomesMoves ==
    ASSUME TypeOK, NEW j \in JobIds, NEW state \in {"waiting", "active", "done", "failed"},
           Becomes(j, state)
    PROVE  Moves(j, state, jobs[j].attemptsMade) /\ jobs' \in Seq(Job)
<1>1. jobs' = [jobs EXCEPT ![j] = [jobs[j] EXCEPT !.state = state]]
  BY DEF Becomes
<1>2. [jobs[j] EXCEPT !.state = state]
         = [queue |-> jobs[j].queue, about |-> jobs[j].about, state |-> state,
            attemptsMade |-> jobs[j].attemptsMade, stalls |-> jobs[j].stalls]
  BY JobsTyped, JobChanges
<1>3. Moves(j, state, jobs[j].attemptsMade)
  BY <1>1, <1>2, DomainIsRange DEF Moves, BecomesJob, JobIds
<1>4. \A i \in JobIds : jobs'[i] \in Job
  <2> SUFFICES ASSUME NEW i \in JobIds PROVE jobs'[i] \in Job
    OBVIOUS
  <2>1. jobs[i] \in Job /\ jobs[j] \in Job
    BY JobsTyped
  <2> QED BY <1>3, <2>1 DEF Moves, BecomesJob, Job
<1>5. jobs' \in Seq(Job)
  BY <1>1, <1>3, <1>4, JobsStayTyped DEF JobIds, Moves
<1> QED BY <1>3, <1>5

\* The state of job j after a failed attempt.
AfterFailure(j) ==
    IF Retries(jobs[j].attemptsMade + 1) /\ ~Stalled(j) THEN "waiting" ELSE "failed"

LEMMA FailsMoves ==
    ASSUME TypeOK, NEW j \in JobIds, jobs[j].attemptsMade < attempts, Fails(j)
    PROVE  /\ Moves(j, AfterFailure(j), jobs[j].attemptsMade + 1)
           /\ jobs' \in Seq(Job)
           /\ dying' = IF jobs[j].attemptsMade + 1 = attempts THEN dying \cup {j} ELSE dying
<1> DEFINE made == jobs[j].attemptsMade + 1
           state == AfterFailure(j)
           new == [queue |-> jobs[j].queue, about |-> jobs[j].about, state |-> state,
                   attemptsMade |-> made, stalls |-> jobs[j].stalls]
<1>1. /\ jobs' = [jobs EXCEPT ![j].attemptsMade = made, ![j].state = state]
      /\ dying' = IF IsLast(made) THEN dying \cup {j} ELSE dying
  BY DEF Fails, AfterFailure
<1>2. jobs[j].attemptsMade \in Nat /\ made \in 1..attempts
  <2>1. jobs[j] \in Job
    BY JobsTyped
  <2> QED BY <2>1, AttemptsAssumption DEF Job
<1>3. jobs' = [jobs EXCEPT ![j] = new]
  <2> HIDE DEF made, state
  <2>1. jobs' = [[jobs EXCEPT ![j] = [jobs[j] EXCEPT !.attemptsMade = made]]
                      EXCEPT ![j] = [[jobs[j] EXCEPT !.attemptsMade = made] EXCEPT !.state = state]]
    BY <1>1, DomainIsRange
  <2>2. [[jobs[j] EXCEPT !.attemptsMade = made] EXCEPT !.state = state] = new
    BY JobsTyped, JobChanges
  <2> QED BY <2>1, <2>2, DomainIsRange
<1>4. Moves(j, state, made)
  BY <1>3, DomainIsRange DEF Moves, BecomesJob, JobIds
<1>5. new \in Job
  <2>1. jobs[j] \in Job /\ state \in {"waiting", "failed"}
    BY JobsTyped DEF AfterFailure
  <2> HIDE DEF made, state
  <2> QED BY <2>1, <1>2 DEF Job
<1>6. jobs' \in Seq(Job)
  <2> HIDE DEF new
  <2> QED BY <1>3, <1>5, DomainIsRange
<1>7. IsLast(made) <=> made = attempts
  BY <1>2, AttemptsAssumption DEF IsLast
<1> QED BY <1>1, <1>4, <1>6, <1>7

LEMMA AddingJob ==
    ASSUME TypeOK, NEW queue \in {"notification", "email"}, NEW n \in News,
           jobs' = AddJob(queue, n)
    PROVE  /\ jobs' \in Seq(Job)
           /\ JobIds' = JobIds \cup {Len(jobs) + 1} /\ Len(jobs) + 1 \notin JobIds
           /\ \A j \in JobIds : jobs'[j] = jobs[j]
           /\ \A j \in JobIds' \ JobIds :
                 /\ jobs'[j].queue = queue /\ jobs'[j].about = n
                 /\ jobs'[j].state = "waiting"
                 /\ jobs'[j].attemptsMade = 0 /\ jobs'[j].stalls = 0
<1> DEFINE new == [queue |-> queue, about |-> n, state |-> "waiting",
                   attemptsMade |-> 0, stalls |-> 0]
<1>1. new \in Job
  BY AttemptsAssumption DEF Job
<1>2. jobs' = Append(jobs, new)
  BY DEF AddJob
<1> HIDE DEF new
<1>3. /\ jobs' \in Seq(Job) /\ JobIds' = JobIds \cup {Len(jobs) + 1}
      /\ Len(jobs) + 1 \notin JobIds
      /\ \A j \in JobIds : jobs'[j] = jobs[j]
      /\ jobs'[Len(jobs) + 1] = new
  BY <1>1, <1>2, DomainIsRange DEF JobIds
<1>4. /\ new.queue = queue /\ new.about = n /\ new.state = "waiting"
      /\ new.attemptsMade = 0 /\ new.stalls = 0
  BY DEF new
<1> QED BY <1>3, <1>4
-----------------------------------------------------------------------------
(* What holds of the jobs as long as they stay about the same *)

SameKeys ==
    /\ DOMAIN jobs' = DOMAIN jobs
    /\ \A i \in JobIds : jobs'[i].queue = jobs[i].queue /\ jobs'[i].about = jobs[i].about

SameDone == \A i \in JobIds : jobs'[i].state = "done" <=> jobs[i].state = "done"

LEMMA MovesMeans ==
    ASSUME TypeOK, NEW j \in JobIds, NEW state, NEW made, Moves(j, state, made)
    PROVE  /\ SameKeys
           /\ jobs'[j].state = state /\ jobs'[j].attemptsMade = made
           /\ state # "done" /\ jobs[j].state # "done" => SameDone
BY DEF Moves, BecomesJob, SameKeys, SameDone

LEMMA KeysKeep ==
    ASSUME SameKeys
    PROVE  /\ \A queue, n : (Has(queue, n))' <=> Has(queue, n)
           /\ OneJob => OneJob'
BY DEF SameKeys, Has, OneJob, JobIds

LEMMA DoneKeep ==
    ASSUME SameKeys, SameDone
    PROVE  \A n : (IsDone(n))' <=> IsDone(n)
BY DEF SameKeys, SameDone, IsDone, JobIds

LEMMA StagesKeep ==
    ASSUME TypeOK, Stages, SameKeys, SameDone, telling' \subseteq telling,
           UNCHANGED announced, UNCHANGED mailing \/ mailing' = << >>
    PROVE  Stages'
<1>1. \A n \in telling' : ~(Has("notification", n))'
  BY KeysKeep DEF Stages
<1>2. \A j \in JobIds' : (jobs[j].about)' \in announced'
  BY DEF Stages, SameKeys, JobIds
<1>3. ToSet(mailing)' \subseteq ToSet(mailing)
  BY DEF ToSet
<1>4. ASSUME NEW j \in JobIds', (jobs[j].queue)' = "email"
      PROVE  (IsDone(jobs[j].about))' /\ (jobs[j].about)' \notin ToSet(mailing)'
  <2>1. j \in JobIds /\ jobs[j].queue = "email" /\ jobs'[j].about = jobs[j].about
    BY <1>4 DEF SameKeys, JobIds
  <2>2. IsDone(jobs[j].about) /\ jobs[j].about \notin ToSet(mailing)
    BY <2>1 DEF Stages
  <2> QED BY <2>1, <2>2, <1>3, DoneKeep
<1>5. \A k \in DOMAIN mailing' : (IsDone(mailing[k]))'
  BY DoneKeep DEF Stages
<1>6. \A k, l \in DOMAIN mailing' : mailing'[k] = mailing'[l] => k = l
  BY DEF Stages
<1> QED BY <1>1, <1>2, <1>4, <1>5, <1>6 DEF Stages

\* What accounts for news and jobs stays, unless a job fails for good.
LEMMA AccountedKeep ==
    ASSUME TypeOK, Accounted, SameKeys, SameDone, UNCHANGED <<announced, telling, mailing>>,
           dropped \subseteq dropped', dying \cup dlq \subseteq dying' \cup dlq',
           \A j \in JobIds : jobs'[j].state = "failed" =>
              \/ jobs[j].state = "failed"
              \/ j \in dying' \cup dlq'
              \/ (Took({"letter", "stall"}, jobs[j].about))'
    PROVE  Accounted'
<1>1. \A kinds, n : Took(kinds, n) => (Took(kinds, n))'
  BY DEF Took
<1>2. \A n \in announced' : n \in telling' \/ (Has("notification", n))' \/ (Took({"news"}, n))'
  BY <1>1, KeysKeep DEF Accounted
<1>3. \A n \in Oversold : (IsDone(n))' =>
         n \in ToSet(mailing)' \/ (Has("email", n))' \/ (Took({"mail"}, n))'
  BY <1>1, KeysKeep, DoneKeep DEF Accounted
<1>4. ASSUME NEW j \in JobIds', (jobs[j].state)' = "failed"
      PROVE  j \in dying' \cup dlq' \/ (Took({"letter", "stall"}, jobs[j].about))'
  <2>1. j \in JobIds /\ jobs'[j].about = jobs[j].about
    BY DEF SameKeys, JobIds
  <2>2. CASE jobs[j].state = "failed"
    BY <1>1, <2>1, <2>2 DEF Accounted
  <2>3. CASE jobs[j].state # "failed"
    BY <1>4, <2>1, <2>3
  <2> QED BY <2>2, <2>3
<1> QED BY <1>2, <1>3, <1>4 DEF Accounted

\* Effects stay made while none is made and jobs do not go on, or only by failing.
LEMMA EffectsKeep ==
    ASSUME TypeOK, EffectsMade, SameKeys, UNCHANGED <<rows, sent>>, repeated \subseteq repeated',
           \A j \in JobIds :
              /\ (Ran(j))' => Ran(j)
              /\ Ran(j) /\ ~(Ran(j))' => jobs[j].about \in repeated'
    PROVE  EffectsMade'
<1>1. \A queue, n : (Effects(queue, n))' = Effects(queue, n)
  BY DEF Effects
<1>2. ASSUME NEW j \in JobIds'
      PROVE  /\ (Ran(j))' => (Effects(jobs[j].queue, jobs[j].about))' > 0
             /\ (jobs[j].about)' \notin repeated' =>
                   (Effects(jobs[j].queue, jobs[j].about))' = IF (Ran(j))' THEN 1 ELSE 0
  <2>1. j \in JobIds /\ jobs'[j].about = jobs[j].about /\ jobs'[j].queue = jobs[j].queue
    BY DEF SameKeys, JobIds
  <2>2. (Effects(jobs[j].queue, jobs[j].about))' = Effects(jobs[j].queue, jobs[j].about)
    BY <1>1, <2>1 DEF Effects
  <2> QED BY <2>1, <2>2 DEF EffectsMade
<1>3. \A queue \in {"notification", "email"}, n \in News :
         ~(Has(queue, n))' => (Effects(queue, n))' = 0
  BY <1>1, KeysKeep DEF EffectsMade
<1> QED BY <1>2, <1>3 DEF EffectsMade
-----------------------------------------------------------------------------
(* The steps of the request *)

LEMMA InitInv == Init => NewsInv
<1> SUFFICES ASSUME Init PROVE NewsInv
  OBVIOUS
<1>1. jobs = << >> /\ JobIds = {} /\ mailing = << >> /\ DOMAIN mailing = {}
  BY DEF Init, JobIds
<1>2. TypeOK
  BY <1>1, FaultsAssumption DEF Init, TypeOK
<1>3. OneJob /\ AttemptsLeft /\ Stages /\ EffectsMade /\ Accounted
  BY <1>1 DEF Init, OneJob, AttemptsLeft, Stages, EffectsMade, Effects, Accounted, IsDone
<1> QED BY <1>2, <1>3 DEF NewsInv

\* A step that leaves the jobs alone.
LEMMA JobsAlone ==
    ASSUME TypeOK, UNCHANGED jobs
    PROVE  /\ SameKeys /\ SameDone
           /\ \A j \in JobIds : (Ran(j))' <=> Ran(j)
           /\ AttemptsLeft => AttemptsLeft'
BY DEF SameKeys, SameDone, Ran, AttemptsLeft, Stalled, JobIds

LEMMA CommitInv == ASSUME NewsInv, NEW news \in SUBSET News, Commit(news) PROVE NewsInv'
<1>1. TypeOK /\ OneJob /\ AttemptsLeft /\ Stages /\ EffectsMade /\ Accounted
  BY DEF NewsInv
<1>2. /\ announced' = announced \cup news /\ telling' = news /\ news \cap announced = {}
      /\ UNCHANGED <<jobs, dying, dlq, rows, mailing, sent, faults, dropped, repeated>>
  BY DEF Commit, queueVars
<1>3. TypeOK'
  BY <1>1, <1>2 DEF TypeOK, JobIds
<1>4. OneJob' /\ AttemptsLeft' /\ EffectsMade'
  BY <1>1, <1>2, JobsAlone, KeysKeep, EffectsKeep
<1>5. Stages'
  <2>1. \A n : (IsDone(n))' <=> IsDone(n)
    BY <1>1, <1>2, JobsAlone, DoneKeep
  <2>2. \A n \in telling' : ~(Has("notification", n))'
    BY <1>1, <1>2 DEF Stages, Has, JobIds
  <2> QED BY <1>1, <1>2, <2>1, <2>2 DEF Stages, JobIds
<1>6. Accounted'
  <2>1. \A n : (IsDone(n))' <=> IsDone(n)
    BY <1>1, <1>2, JobsAlone, DoneKeep
  <2>2. \A queue, n : (Has(queue, n))' <=> Has(queue, n)
    BY <1>1, <1>2, JobsAlone, KeysKeep
  <2>3. telling = {}
    BY DEF Commit
  <2> QED BY <1>1, <1>2, <2>1, <2>2, <2>3 DEF Accounted, Took, JobIds
<1> QED BY <1>3, <1>4, <1>5, <1>6 DEF NewsInv

LEMMA TellFailsInv == ASSUME NewsInv, TellFails PROVE NewsInv'
<1>1. TypeOK /\ OneJob /\ AttemptsLeft /\ Stages /\ EffectsMade /\ Accounted
  BY DEF NewsInv
<1>2. /\ telling' = {} /\ dropped' = dropped \cup Lost("news", telling)
      /\ faults < MaxFaults /\ faults' = faults + 1
      /\ UNCHANGED <<announced, jobs, dying, dlq, rows, mailing, sent, repeated>>
  BY DEF TellFails, queueVars
<1>3. TypeOK'
  <2>1. Lost("news", telling) \subseteq [kind : {"news", "mail", "letter", "stall"}, about : News]
    BY <1>1 DEF Lost, TypeOK
  <2>2. faults' \in 0..MaxFaults
    BY <1>1, <1>2, FaultsAssumption DEF TypeOK
  <2> QED BY <1>1, <1>2, <2>1, <2>2 DEF TypeOK, JobIds
<1>4. OneJob' /\ AttemptsLeft' /\ EffectsMade' /\ Stages'
  BY <1>1, <1>2, JobsAlone, KeysKeep, EffectsKeep, StagesKeep
<1>5. Accounted'
  <2>1. \A n : (IsDone(n))' <=> IsDone(n)
    BY <1>1, <1>2, JobsAlone, DoneKeep
  <2>2. \A queue, n : (Has(queue, n))' <=> Has(queue, n)
    BY <1>1, <1>2, JobsAlone, KeysKeep
  <2>3. \A kinds, n : Took(kinds, n) => (Took(kinds, n))'
    BY <1>2 DEF Took
  <2>4. \A n \in telling : (Took({"news"}, n))'
    BY <1>2 DEF Took, Lost
  <2>5. \A n \in announced' :
           n \in telling' \/ (Has("notification", n))' \/ (Took({"news"}, n))'
    BY <1>1, <1>2, <2>2, <2>3, <2>4 DEF Accounted
  <2>6. \A n \in Oversold : (IsDone(n))' =>
           n \in ToSet(mailing)' \/ (Has("email", n))' \/ (Took({"mail"}, n))'
    BY <1>1, <1>2, <2>1, <2>2, <2>3 DEF Accounted
  <2>7. \A j \in JobIds' : (jobs[j].state)' = "failed" =>
           j \in dying' \cup dlq' \/ (Took({"letter", "stall"}, jobs[j].about))'
    BY <1>1, <1>2, <2>3 DEF Accounted, JobIds
  <2> QED BY <2>5, <2>6, <2>7 DEF Accounted
<1> QED BY <1>3, <1>4, <1>5 DEF NewsInv

LEMMA BuryInv == ASSUME NewsInv, NEW j \in JobIds, Bury(j) PROVE NewsInv'
<1>1. TypeOK /\ OneJob /\ AttemptsLeft /\ Stages /\ EffectsMade /\ Accounted
  BY DEF NewsInv
<1>2. /\ dying' = dying \ {j} /\ dlq' = dlq \cup {j}
      /\ UNCHANGED <<announced, telling, jobs, rows, mailing, sent, faults, dropped, repeated>>
  BY DEF Bury
<1>3. TypeOK'
  BY <1>1, <1>2 DEF TypeOK, JobIds
<1>4. OneJob' /\ AttemptsLeft' /\ EffectsMade' /\ Stages'
  BY <1>1, <1>2, JobsAlone, KeysKeep, EffectsKeep, StagesKeep
<1>5. Accounted'
  BY <1>1, <1>2, JobsAlone, AccountedKeep
<1> QED BY <1>3, <1>4, <1>5 DEF NewsInv
-----------------------------------------------------------------------------
(* The steps of the workers *)

\* A failed attempt, for which an effect was made only if it may be repeated.
LEMMA FailureInv ==
    ASSUME NewsInv, NEW j \in JobIds, Fails(j), TypeOK',
           jobs[j].state \in {"waiting", "active"},
           jobs[j].state = "active" => jobs[j].about \in repeated',
           UNCHANGED <<announced, telling, rows, mailing, dlq, sent>>,
           dropped \subseteq dropped', repeated \subseteq repeated',
           jobs[j].attemptsMade + 1 # attempts /\ Stalled(j) => (Took({"letter", "stall"}, jobs[j].about))'
    PROVE  NewsInv'
<1>1. TypeOK /\ OneJob /\ AttemptsLeft /\ Stages /\ EffectsMade /\ Accounted
  BY DEF NewsInv
<1> DEFINE made == jobs[j].attemptsMade + 1
<1>2. jobs[j].attemptsMade < attempts /\ jobs[j].attemptsMade \in Nat
  <2>1. jobs[j] \in Job
    BY <1>1, JobsTyped
  <2> QED BY <1>1, <2>1, AttemptsAssumption DEF AttemptsLeft, Job
<1>3. /\ Moves(j, AfterFailure(j), made)
      /\ dying' = IF made = attempts THEN dying \cup {j} ELSE dying
  BY <1>1, <1>2, FailsMoves
<1>4. /\ SameKeys /\ SameDone /\ jobs'[j].state = AfterFailure(j) /\ jobs'[j].attemptsMade = made
      /\ \A i \in JobIds \ {j} : jobs'[i] = jobs[i]
  BY <1>1, <1>3, MovesMeans, ZenonT(100) DEF Moves, AfterFailure
<1>5. AfterFailure(j) = "waiting" => made < attempts
  BY DEF AfterFailure, Retries
<1>6. OneJob' /\ Stages'
  BY <1>1, <1>4, KeysKeep, StagesKeep
<1>7. AttemptsLeft'
  BY <1>1, <1>4, <1>5 DEF AttemptsLeft, AfterFailure, Stalled, SameKeys, JobIds
<1>8. EffectsMade'
  <2>1. \A i \in JobIds : (Ran(i))' => Ran(i)
    BY <1>4 DEF Ran, AfterFailure
  <2>2. \A i \in JobIds : Ran(i) /\ ~(Ran(i))' => jobs[i].about \in repeated'
    BY <1>4 DEF Ran
  <2> QED BY <1>1, <1>4, <2>1, <2>2, EffectsKeep
<1>9. Accounted'
  <2>1. AfterFailure(j) = "failed" => made = attempts \/ Stalled(j)
    BY <1>2, AttemptsAssumption DEF AfterFailure, Retries
  <2>2. jobs'[j].state = "failed" =>
           j \in dying' \cup dlq' \/ (Took({"letter", "stall"}, jobs[j].about))'
    BY <1>3, <1>4, <2>1
  <2>3. (Took({"letter", "stall"}, jobs[j].about))' <=>
           \E kind \in {"letter", "stall"} : [kind |-> kind, about |-> jobs[j].about] \in dropped'
    BY <1>4 DEF Took, SameKeys
  <2>4. \A i \in JobIds : jobs'[i].state = "failed" =>
           \/ jobs[i].state = "failed"
           \/ i \in dying' \cup dlq'
           \/ (Took({"letter", "stall"}, jobs[i].about))'
    BY <1>4, <2>2
  <2> QED BY <1>1, <1>3, <1>4, <2>4, AccountedKeep
<1> QED BY <1>6, <1>7, <1>8, <1>9 DEF NewsInv

LEMMA FailBeforeInv == ASSUME NewsInv, NEW j \in JobIds, FailBefore(j) PROVE NewsInv'
<1>1. TypeOK /\ AttemptsLeft
  BY DEF NewsInv
<1>2. /\ jobs[j].state = "waiting" /\ ~Stalled(j) /\ Fails(j)
      /\ UNCHANGED <<announced, telling, rows, mailing, dlq, sent, faults, dropped, repeated>>
  BY DEF FailBefore
<1>3. TypeOK'
  <2>1. jobs[j].attemptsMade < attempts
    BY <1>1, <1>2 DEF AttemptsLeft
  <2>2. jobs' \in Seq(Job) /\ DOMAIN jobs' = DOMAIN jobs /\ dying' \subseteq dying \cup {j}
    BY <1>1, <1>2, <2>1, FailsMoves DEF Moves
  <2> QED BY <1>1, <1>2, <2>2 DEF TypeOK, Job, JobIds
<1> QED BY <1>2, <1>3, FailureInv

LEMMA GiveUpInv == ASSUME NewsInv, NEW j \in JobIds, GiveUp(j) PROVE NewsInv'
<1>1. TypeOK /\ AttemptsLeft
  BY DEF NewsInv
<1>2. /\ jobs[j].state = "waiting" /\ Fails(j)
      /\ dropped' = IF IsLast(jobs[j].attemptsMade + 1) THEN dropped
                    ELSE dropped \cup Lost("stall", {jobs[j].about})
      /\ UNCHANGED <<announced, telling, rows, mailing, dlq, sent, faults, repeated>>
  BY DEF GiveUp
<1>3. jobs[j].attemptsMade < attempts /\ jobs[j].attemptsMade \in Nat /\ jobs[j].about \in News
  <2>1. jobs[j] \in Job
    BY <1>1, JobsTyped
  <2> QED BY <1>1, <1>2, <2>1, AttemptsAssumption DEF AttemptsLeft, Job
<1>4. /\ jobs' \in Seq(Job) /\ DOMAIN jobs' = DOMAIN jobs /\ dying' \subseteq dying \cup {j}
      /\ jobs'[j].about = jobs[j].about
  BY <1>1, <1>2, <1>3, FailsMoves, MovesMeans DEF Moves, SameKeys
<1>5. TypeOK'
  <2>1. dropped' \subseteq [kind : {"news", "mail", "letter", "stall"}, about : News]
    BY <1>1, <1>2, <1>3 DEF TypeOK, Lost
  <2> QED BY <1>1, <1>2, <1>4, <2>1 DEF TypeOK, Job, JobIds
<1>6. jobs[j].attemptsMade + 1 # attempts => (Took({"letter", "stall"}, jobs[j].about))'
  <2> SUFFICES ASSUME jobs[j].attemptsMade + 1 # attempts
               PROVE  (Took({"letter", "stall"}, jobs[j].about))'
    OBVIOUS
  <2>1. ~IsLast(jobs[j].attemptsMade + 1)
    BY <1>3, AttemptsAssumption DEF IsLast
  <2>2. [kind |-> "stall", about |-> jobs[j].about] \in dropped'
    BY <1>2, <2>1 DEF Lost
  <2> QED BY <1>4, <2>2 DEF Took
<1> QED BY <1>2, <1>5, <1>6, FailureInv

LEMMA FailAfterInv == ASSUME NewsInv, NEW j \in JobIds, FailAfter(j) PROVE NewsInv'
<1>1. TypeOK /\ AttemptsLeft
  BY DEF NewsInv
<1>2. /\ jobs[j].state = "active" /\ faults < MaxFaults /\ faults' = faults + 1 /\ Fails(j)
      /\ repeated' = repeated \cup {jobs[j].about}
      /\ UNCHANGED <<announced, telling, rows, mailing, dlq, sent, dropped>>
  BY DEF FailAfter
<1>3. TypeOK'
  <2>1. jobs[j].attemptsMade < attempts
    BY <1>1, <1>2 DEF AttemptsLeft
  <2>2. jobs' \in Seq(Job) /\ DOMAIN jobs' = DOMAIN jobs /\ dying' \subseteq dying \cup {j}
    BY <1>1, <1>2, <2>1, FailsMoves DEF Moves
  <2>3. jobs[j] \in Job
    BY <1>1, JobsTyped
  <2>4. faults' \in 0..MaxFaults /\ repeated' \subseteq News
    BY <1>1, <1>2, <2>3, FaultsAssumption DEF TypeOK, Job
  <2> QED BY <1>1, <1>2, <2>2, <2>4 DEF TypeOK, Job, JobIds
<1>4. ~Stalled(j)
  BY <1>1, <1>2 DEF AttemptsLeft
<1> QED BY <1>2, <1>3, <1>4, FailureInv

LEMMA RunInv == ASSUME NewsInv, NEW j \in JobIds, Run(j) PROVE NewsInv'
<1>1. TypeOK /\ OneJob /\ AttemptsLeft /\ Stages /\ EffectsMade /\ Accounted
  BY DEF NewsInv
<1>2. /\ jobs[j].state = "waiting" /\ ~Stalled(j) /\ Effect(j) /\ Becomes(j, "active")
      /\ UNCHANGED <<announced, telling, mailing, dying, dlq, faults, dropped, repeated>>
  BY DEF Run
<1>3. Moves(j, "active", jobs[j].attemptsMade) /\ jobs' \in Seq(Job)
  BY <1>1, <1>2, BecomesMoves
<1>4. /\ SameKeys /\ SameDone /\ jobs'[j].state = "active"
      /\ jobs'[j].attemptsMade = jobs[j].attemptsMade /\ jobs'[j].stalls = jobs[j].stalls
      /\ \A i \in JobIds \ {j} : jobs'[i] = jobs[i]
  BY <1>1, <1>2, <1>3, MovesMeans DEF Moves, BecomesJob
<1> DEFINE queue0 == jobs[j].queue
           n0 == jobs[j].about
<1>5. queue0 \in {"notification", "email"} /\ n0 \in News
  <2>1. jobs[j] \in Job
    BY <1>1, JobsTyped
  <2> QED BY <2>1 DEF Job
<1>6. /\ rows' \in [News -> Nat] /\ sent' \in [News -> Nat]
      /\ \A queue \in {"notification", "email"}, n \in News :
            (Effects(queue, n))' =
               IF queue = queue0 /\ n = n0 THEN Effects(queue, n) + 1 ELSE Effects(queue, n)
  <2>1. rows \in [News -> Nat] /\ sent \in [News -> Nat]
    BY <1>1 DEF TypeOK
  <2>2. IF queue0 = "notification"
        THEN rows' = [rows EXCEPT ![n0] = rows[n0] + 1] /\ sent' = sent
        ELSE sent' = [sent EXCEPT ![n0] = sent[n0] + 1] /\ rows' = rows
    BY <1>2 DEF Effect
  <2> HIDE DEF queue0, n0
  <2>3. CASE queue0 = "notification"
    <3>1. rows' = [rows EXCEPT ![n0] = rows[n0] + 1] /\ sent' = sent
      BY <2>2, <2>3
    <3>2. rows' \in [News -> Nat] /\ \A n \in News : rows'[n] = IF n = n0 THEN rows[n] + 1 ELSE rows[n]
      BY <1>5, <2>1, <3>1
    <3> QED BY <2>1, <2>3, <3>1, <3>2 DEF Effects
  <2>4. CASE queue0 = "email"
    <3>1. sent' = [sent EXCEPT ![n0] = sent[n0] + 1] /\ rows' = rows
      BY <2>2, <2>4
    <3>2. sent' \in [News -> Nat] /\ \A n \in News : sent'[n] = IF n = n0 THEN sent[n] + 1 ELSE sent[n]
      BY <1>5, <2>1, <3>1
    <3> QED BY <2>1, <2>4, <3>1, <3>2 DEF Effects
  <2> QED BY <1>5, <2>3, <2>4
<1>7. TypeOK'
  BY <1>1, <1>2, <1>3, <1>6 DEF TypeOK, Job, JobIds, Moves
<1>8. OneJob' /\ Stages'
  BY <1>1, <1>2, <1>4, KeysKeep, StagesKeep
<1>9. AttemptsLeft'
  BY <1>1, <1>2, <1>4 DEF AttemptsLeft, Stalled, SameKeys, JobIds
<1>10. EffectsMade'
  <2>1. ASSUME NEW i \in JobIds'
        PROVE  /\ (Ran(i))' => (Effects(jobs[i].queue, jobs[i].about))' > 0
               /\ (jobs[i].about)' \notin repeated' =>
                     (Effects(jobs[i].queue, jobs[i].about))' = IF (Ran(i))' THEN 1 ELSE 0
    <3>1. i \in JobIds /\ jobs'[i].about = jobs[i].about /\ jobs'[i].queue = jobs[i].queue
      BY <1>4 DEF SameKeys, JobIds
    <3>2. jobs[i].queue \in {"notification", "email"} /\ jobs[i].about \in News
      BY <1>1, <3>1, JobsTyped DEF Job
    <3> DEFINE before == Effects(jobs[i].queue, jobs[i].about)
    <3>3. before \in Nat
      BY <1>1, <3>2 DEF TypeOK, Effects
    <3>4. CASE i = j
      <4>1. (Effects(jobs[i].queue, jobs[i].about))' = before + 1
        BY <1>5, <1>6, <3>1, <3>2, <3>4 DEF Effects
      <4>2. (Ran(i))' /\ ~Ran(i)
        BY <1>2, <1>4, <3>4 DEF Ran
      <4>3. jobs[i].about \notin repeated => before = 0
        BY <1>1, <3>1, <4>2 DEF EffectsMade
      <4> HIDE DEF before
      <4> QED BY <1>2, <3>1, <3>3, <4>1, <4>2, <4>3
    <3>5. CASE i # j
      <4>1. ~(jobs[i].queue = queue0 /\ jobs[i].about = n0)
        BY <1>1, <3>1, <3>5 DEF OneJob
      <4>2. (Effects(jobs[i].queue, jobs[i].about))' = before
        BY <1>6, <3>1, <3>2, <4>1 DEF Effects
      <4>3. (Ran(i))' <=> Ran(i)
        BY <1>4, <3>1, <3>5 DEF Ran
      <4> QED BY <1>1, <1>2, <3>1, <4>2, <4>3 DEF EffectsMade
    <3> QED BY <3>4, <3>5
  <2>2. ASSUME NEW queue \in {"notification", "email"}, NEW n \in News, ~(Has(queue, n))'
        PROVE  (Effects(queue, n))' = 0
    <3>1. ~Has(queue, n)
      BY <1>4, <2>2, KeysKeep
    <3>2. ~(queue = queue0 /\ n = n0)
      BY <3>1 DEF Has
    <3> QED BY <1>1, <1>6, <3>1, <3>2 DEF EffectsMade
  <2> QED BY <2>1, <2>2 DEF EffectsMade
<1>11. Accounted'
  <2>1. \A i \in JobIds : jobs'[i].state = "failed" => jobs[i].state = "failed"
    BY <1>4
  <2> QED BY <1>1, <1>2, <1>4, <2>1, AccountedKeep
<1> QED BY <1>7, <1>8, <1>9, <1>10, <1>11 DEF NewsInv

LEMMA FinishInv == ASSUME NewsInv, NEW j \in JobIds, Finish(j) PROVE NewsInv'
<1>1. TypeOK /\ OneJob /\ AttemptsLeft /\ Stages /\ EffectsMade /\ Accounted
  BY DEF NewsInv
<1>0. PICK n0 : n0 = jobs[j].about
  OBVIOUS
<1> DEFINE told == jobs[j].queue = "notification"
           mails == told /\ n0 \in Oversold
<1>2. /\ jobs[j].state = "active" /\ Becomes(j, "done")
      /\ mailing' = IF mails THEN Append(mailing, n0) ELSE mailing
      /\ UNCHANGED <<announced, telling, rows, dying, dlq, sent, faults, dropped, repeated>>
  BY <1>0 DEF Finish
<1>3. Moves(j, "done", jobs[j].attemptsMade) /\ jobs' \in Seq(Job)
  BY <1>1, <1>2, BecomesMoves
<1>4. /\ SameKeys /\ jobs'[j].state = "done"
      /\ jobs'[j].queue = jobs[j].queue /\ jobs'[j].about = n0
      /\ \A i \in JobIds \ {j} : jobs'[i] = jobs[i]
  BY <1>0, <1>1, <1>2, <1>3, MovesMeans DEF Moves, BecomesJob
<1>5. \A n : (IsDone(n))' <=> IsDone(n) \/ (told /\ n = n0)
  BY <1>0, <1>2, <1>4 DEF IsDone, SameKeys, JobIds
<1>6. told => ~IsDone(n0)
  BY <1>0, <1>1, <1>2 DEF OneJob, IsDone
<1>7. \A queue, n : (Has(queue, n))' <=> Has(queue, n)
  BY <1>4, KeysKeep
<1>8. /\ mailing \in Seq(Oversold) /\ mailing' \in Seq(Oversold)
      /\ DOMAIN mailing' = IF mails THEN DOMAIN mailing \cup {Len(mailing) + 1} ELSE DOMAIN mailing
      /\ mails => mailing'[Len(mailing) + 1] = n0 /\ Len(mailing) + 1 \notin DOMAIN mailing
      /\ \A k \in DOMAIN mailing : mailing'[k] = mailing[k]
  <2>1. mailing \in Seq(Oversold)
    BY <1>1 DEF TypeOK
  <2> HIDE DEF mails
  <2>2. CASE mails
    <3>1. n0 \in Oversold /\ mailing' = Append(mailing, n0)
      BY <1>2, <2>2 DEF mails
    <3> QED BY <2>1, <2>2, <3>1
  <2>3. CASE ~mails
    BY <1>2, <2>1, <2>3
  <2> QED BY <2>2, <2>3
<1>9. ToSet(mailing)' = IF mails THEN ToSet(mailing) \cup {n0} ELSE ToSet(mailing)
  <2> HIDE DEF mails
  <2> QED BY <1>8 DEF ToSet
<1>10. told => n0 \notin ToSet(mailing) /\ ~Has("email", n0)
  <2> SUFFICES ASSUME told PROVE n0 \notin ToSet(mailing) /\ ~Has("email", n0)
    OBVIOUS
  <2> QED BY <1>1, <1>6 DEF Stages, ToSet, Has
<1>11. TypeOK'
  BY <1>1, <1>2, <1>3, <1>8 DEF TypeOK, Job, JobIds, Moves
<1>12. OneJob'
  BY <1>1, <1>4, KeysKeep
<1>13. AttemptsLeft'
  BY <1>1, <1>4 DEF AttemptsLeft, Stalled, SameKeys, JobIds
<1>14. Stages'
  <2>1. \A n \in telling' : ~(Has("notification", n))'
    BY <1>1, <1>2, <1>7 DEF Stages
  <2>2. \A i \in JobIds' : (jobs[i].about)' \in announced'
    BY <1>1, <1>2, <1>4 DEF Stages, SameKeys, JobIds
  <2>3. ASSUME NEW i \in JobIds', (jobs[i].queue)' = "email"
        PROVE  (IsDone(jobs[i].about))' /\ (jobs[i].about)' \notin ToSet(mailing)'
    <3>1. i \in JobIds /\ jobs[i].queue = "email" /\ jobs'[i].about = jobs[i].about
      BY <1>4, <2>3 DEF SameKeys, JobIds
    <3>2. IsDone(jobs[i].about) /\ jobs[i].about \notin ToSet(mailing)
      BY <1>1, <3>1 DEF Stages
    <3>3. told => jobs[i].about # n0
      BY <1>6, <3>2
    <3> QED BY <1>5, <1>9, <3>1, <3>2, <3>3
  <2>4. \A k \in DOMAIN mailing' : (IsDone(mailing[k]))'
    <3>1. \A k \in DOMAIN mailing : IsDone(mailing[k])
      BY <1>1 DEF Stages
    <3> SUFFICES ASSUME NEW k \in DOMAIN mailing' PROVE (IsDone(mailing[k]))'
      OBVIOUS
    <3>2. PICK n : n = mailing'[k]
      OBVIOUS
    <3>3. IsDone(n) \/ (told /\ n = n0)
      BY <1>8, <3>1, <3>2
    <3>4. (IsDone(n))'
      BY <1>5, <3>3
    <3> QED BY <3>2, <3>4
  <2>5. \A k, l \in DOMAIN mailing' : mailing'[k] = mailing'[l] => k = l
    <3>1. \A k, l \in DOMAIN mailing : mailing[k] = mailing[l] => k = l
      BY <1>1 DEF Stages
    <3>2. mails => \A k \in DOMAIN mailing : mailing[k] # n0
      BY <1>10 DEF ToSet
    <3> HIDE DEF mails
    <3> QED BY <1>8, <3>1, <3>2
  <2> QED BY <2>1, <2>2, <2>3, <2>4, <2>5 DEF Stages
<1>15. EffectsMade'
  <2>1. \A i \in JobIds : (Ran(i))' <=> Ran(i)
    BY <1>2, <1>4 DEF Ran
  <2> QED BY <1>1, <1>2, <1>4, <2>1, EffectsKeep
<1>16. Accounted'
  <2>1. \A kinds, n : Took(kinds, n) <=> (Took(kinds, n))'
    BY <1>2 DEF Took
  <2>2. \A n \in announced' : n \in telling' \/ (Has("notification", n))' \/ (Took({"news"}, n))'
    BY <1>1, <1>2, <1>7, <2>1 DEF Accounted
  <2>3. \A n \in Oversold : (IsDone(n))' =>
           n \in ToSet(mailing)' \/ (Has("email", n))' \/ (Took({"mail"}, n))'
    BY <1>1, <1>5, <1>7, <1>9, <2>1 DEF Accounted
  <2>4. \A i \in JobIds' : (jobs[i].state)' = "failed" =>
           i \in dying' \cup dlq' \/ (Took({"letter", "stall"}, jobs[i].about))'
    <3> SUFFICES ASSUME NEW i \in JobIds', (jobs[i].state)' = "failed"
                 PROVE  i \in dying' \cup dlq' \/ (Took({"letter", "stall"}, jobs[i].about))'
      OBVIOUS
    <3>1. i \in JobIds /\ i # j /\ jobs'[i] = jobs[i]
      BY <1>4 DEF SameKeys, JobIds
    <3> QED BY <1>1, <1>2, <3>1 DEF Accounted, Took
  <2> QED BY <2>2, <2>3, <2>4 DEF Accounted
<1> QED BY <1>11, <1>12, <1>13, <1>14, <1>15, <1>16 DEF NewsInv
-----------------------------------------------------------------------------
(* The steps that add a job *)

LEMMA AddingKeeps ==
    ASSUME TypeOK, OneJob, AttemptsLeft, EffectsMade,
           NEW queue \in {"notification", "email"}, NEW n \in News,
           jobs' = AddJob(queue, n), ~Has(queue, n), UNCHANGED <<rows, sent, repeated>>
    PROVE  /\ \A q, m : (Has(q, m))' <=> Has(q, m) \/ (q = queue /\ m = n)
           /\ \A m : (IsDone(m))' <=> IsDone(m)
           /\ OneJob' /\ AttemptsLeft' /\ EffectsMade'
<1> DEFINE new == Len(jobs) + 1
<1>1. /\ JobIds' = JobIds \cup {new} /\ new \notin JobIds
      /\ \A j \in JobIds : jobs'[j] = jobs[j]
  BY AddingJob
<1>2. /\ jobs'[new].queue = queue /\ jobs'[new].about = n /\ jobs'[new].state = "waiting"
      /\ jobs'[new].attemptsMade = 0 /\ jobs'[new].stalls = 0
  BY <1>1, AddingJob
<1> HIDE DEF new
<1>3. \A q, m : (Has(q, m))' <=> Has(q, m) \/ (q = queue /\ m = n)
  BY <1>1, <1>2 DEF Has
<1>4. \A m : (IsDone(m))' <=> IsDone(m)
  BY <1>1, <1>2 DEF IsDone
<1>5. OneJob'
  BY <1>1, <1>2 DEF OneJob, Has
<1>6. AttemptsLeft'
  <2>1. 0 < attempts
    BY AttemptsAssumption
  <2> QED BY <1>1, <1>2, <2>1 DEF AttemptsLeft, Stalled
<1>7. EffectsMade'
  <2>1. ASSUME NEW j \in JobIds'
        PROVE  /\ (Ran(j))' => (Effects(jobs[j].queue, jobs[j].about))' > 0
               /\ (jobs[j].about)' \notin repeated' =>
                     (Effects(jobs[j].queue, jobs[j].about))' = IF (Ran(j))' THEN 1 ELSE 0
    <3>1. CASE j \in JobIds
      <4>1. jobs'[j] = jobs[j]
        BY <1>1, <3>1
      <4>2. (Effects(jobs[j].queue, jobs[j].about))' = Effects(jobs[j].queue, jobs[j].about)
        BY <4>1 DEF Effects
      <4>3. (Ran(j))' <=> Ran(j)
        BY <4>1 DEF Ran
      <4> QED BY <3>1, <4>1, <4>2, <4>3 DEF EffectsMade
    <3>2. CASE j = new
      <4>1. (Effects(jobs[j].queue, jobs[j].about))' = Effects(queue, n)
        BY <1>2, <3>2 DEF Effects
      <4>2. ~(Ran(j))'
        BY <1>2, <3>2 DEF Ran
      <4> QED BY <4>1, <4>2 DEF EffectsMade
    <3> QED BY <1>1, <3>1, <3>2
  <2>2. \A q \in {"notification", "email"}, m \in News : ~(Has(q, m))' => (Effects(q, m))' = 0
    BY <1>3 DEF EffectsMade, Effects
  <2> QED BY <2>1, <2>2 DEF EffectsMade
<1> QED BY <1>3, <1>4, <1>5, <1>6, <1>7

LEMMA TellInv == ASSUME NewsInv, NEW n \in News, Tell(n) PROVE NewsInv'
<1>1. TypeOK /\ OneJob /\ AttemptsLeft /\ Stages /\ EffectsMade /\ Accounted
  BY DEF NewsInv
<1>2. /\ n \in telling /\ telling' = telling \ {n} /\ jobs' = AddJob("notification", n)
      /\ UNCHANGED <<announced, rows, mailing, dying, dlq, sent, faults, dropped, repeated>>
  BY DEF Tell, Others
<1>3. ~Has("notification", n)
  BY <1>1, <1>2 DEF Stages
<1>4. /\ \A q, m : (Has(q, m))' <=> Has(q, m) \/ (q = "notification" /\ m = n)
      /\ \A m : (IsDone(m))' <=> IsDone(m)
      /\ OneJob' /\ AttemptsLeft' /\ EffectsMade'
  BY <1>1, <1>2, <1>3, AddingKeeps
<1> DEFINE new == Len(jobs) + 1
<1>5. /\ jobs' \in Seq(Job) /\ JobIds' = JobIds \cup {new} /\ new \notin JobIds
      /\ \A j \in JobIds : jobs'[j] = jobs[j]
      /\ jobs'[new].queue = "notification" /\ jobs'[new].about = n /\ jobs'[new].state = "waiting"
  BY <1>1, <1>2, AddingJob
<1> HIDE DEF new
<1>6. TypeOK'
  BY <1>1, <1>2, <1>5 DEF TypeOK, Job
<1>7. Stages'
  <2>1. \A m \in telling' : ~(Has("notification", m))'
    BY <1>1, <1>2, <1>4 DEF Stages
  <2>2. n \in announced
    BY <1>1, <1>2 DEF TypeOK
  <2>3. \A j \in JobIds' : (jobs[j].about)' \in announced'
    BY <1>1, <1>2, <1>5, <2>2 DEF Stages
  <2>4. ASSUME NEW j \in JobIds', (jobs[j].queue)' = "email"
        PROVE  (IsDone(jobs[j].about))' /\ (jobs[j].about)' \notin ToSet(mailing)'
    <3>1. j \in JobIds /\ jobs'[j] = jobs[j]
      BY <1>5, <2>4
    <3>2. IsDone(jobs[j].about) /\ jobs[j].about \notin ToSet(mailing)
      BY <1>1, <2>4, <3>1 DEF Stages
    <3> QED BY <1>2, <1>4, <3>1, <3>2
  <2>5. \A k \in DOMAIN mailing' : (IsDone(mailing[k]))'
    BY <1>1, <1>2, <1>4 DEF Stages
  <2>6. \A k, l \in DOMAIN mailing' : mailing'[k] = mailing'[l] => k = l
    BY <1>1, <1>2 DEF Stages
  <2> QED BY <2>1, <2>3, <2>4, <2>5, <2>6 DEF Stages
<1>8. Accounted'
  <2>1. \A kinds, m : Took(kinds, m) <=> (Took(kinds, m))'
    BY <1>2 DEF Took
  <2>2. \A m \in announced' : m \in telling' \/ (Has("notification", m))' \/ (Took({"news"}, m))'
    BY <1>1, <1>2, <1>4, <2>1 DEF Accounted
  <2>3. \A m \in Oversold : (IsDone(m))' =>
           m \in ToSet(mailing)' \/ (Has("email", m))' \/ (Took({"mail"}, m))'
    BY <1>1, <1>2, <1>4, <2>1 DEF Accounted
  <2>4. \A j \in JobIds' : (jobs[j].state)' = "failed" =>
           j \in dying' \cup dlq' \/ (Took({"letter", "stall"}, jobs[j].about))'
    BY <1>1, <1>2, <1>5 DEF Accounted, Took
  <2> QED BY <2>2, <2>3, <2>4 DEF Accounted
<1> QED BY <1>4, <1>6, <1>7, <1>8 DEF NewsInv

LEMMA MailInv == ASSUME NewsInv, NEW there \in BOOLEAN, Mail(there) PROVE NewsInv'
<1>1. TypeOK /\ OneJob /\ AttemptsLeft /\ Stages /\ EffectsMade /\ Accounted
  BY DEF NewsInv
<1>0. PICK n : n = Head(mailing)
  OBVIOUS
<1>2. /\ mailing # << >> /\ mailing' = Tail(mailing)
      /\ jobs' = IF there THEN AddJob("email", n) ELSE jobs
      /\ dropped' = IF there THEN dropped ELSE dropped \cup Lost("mail", {n})
      /\ UNCHANGED <<announced, telling, rows, dying, dlq, sent, faults, repeated>>
  BY <1>0 DEF Mail
<1>3. /\ mailing \in Seq(Oversold) /\ mailing' \in Seq(Oversold)
      /\ 1 \in DOMAIN mailing /\ mailing[1] = n /\ n \in Oversold
      /\ \A k \in DOMAIN mailing' : k + 1 \in DOMAIN mailing /\ mailing'[k] = mailing[k + 1] /\ k \in Nat \ {0}
      /\ \A k \in DOMAIN mailing : k = 1 \/ (k - 1 \in DOMAIN mailing' /\ mailing'[k - 1] = mailing[k])
  <2>1. mailing \in Seq(Oversold) /\ mailing # << >>
    BY <1>1, <1>2 DEF TypeOK
  <2> QED BY <1>0, <1>2, <2>1
<1>4. \A k, l \in DOMAIN mailing : mailing[k] = mailing[l] => k = l
  BY <1>1 DEF Stages
<1>5. ToSet(mailing)' = ToSet(mailing) \ {n}
  <2>1. ToSet(mailing)' \subseteq ToSet(mailing) \ {n}
    BY <1>3, <1>4 DEF ToSet
  <2>2. ToSet(mailing) \ {n} \subseteq ToSet(mailing)'
    BY <1>3 DEF ToSet
  <2> QED BY <2>1, <2>2
<1>6. n \in ToSet(mailing) /\ IsDone(n) /\ n \in News
  BY <1>1, <1>3 DEF Stages, ToSet, News
<1>7. ~Has("email", n)
  BY <1>1, <1>6 DEF Stages, Has
<1>8. \A m : (IsDone(m))' <=> IsDone(m)
  BY <1>1, <1>2, <1>6, <1>7, AddingKeeps, JobsAlone, DoneKeep
<1>9. \A q, m : (Has(q, m))' <=> Has(q, m) \/ (there /\ q = "email" /\ m = n)
  BY <1>1, <1>2, <1>6, <1>7, AddingKeeps, JobsAlone, KeysKeep
<1>10. OneJob' /\ AttemptsLeft' /\ EffectsMade'
  <2>1. CASE there
    BY <1>1, <1>2, <1>6, <1>7, <2>1, AddingKeeps
  <2>2. CASE ~there
    BY <1>1, <1>2, <2>2, JobsAlone, KeysKeep, EffectsKeep
  <2> QED BY <2>1, <2>2
<1>11. /\ jobs' \in Seq(Job) /\ JobIds \subseteq JobIds'
       /\ \A j \in JobIds : jobs'[j] = jobs[j]
       /\ \A j \in JobIds' \ JobIds :
             jobs'[j].queue = "email" /\ jobs'[j].about = n /\ jobs'[j].state = "waiting"
  <2>1. CASE there
    <3>1. jobs' = AddJob("email", n)
      BY <1>2, <2>1
    <3> QED BY <1>1, <1>6, <3>1, AddingJob
  <2>2. CASE ~there
    BY <1>1, <1>2, <2>2, DomainIsRange DEF JobIds
  <2> QED BY <2>1, <2>2
<1>12. TypeOK'
  <2>1. dropped' \subseteq [kind : {"news", "mail", "letter", "stall"}, about : News]
    BY <1>1, <1>2, <1>6 DEF TypeOK, Lost
  <2> QED BY <1>1, <1>2, <1>3, <1>11, <2>1 DEF TypeOK, Job
<1>13. Stages'
  <2>1. \A m \in telling' : ~(Has("notification", m))'
    BY <1>1, <1>2, <1>9 DEF Stages
  <2>2. \A j \in JobIds' : (jobs[j].about)' \in announced'
    <3>1. n \in announced
      BY <1>1, <1>6 DEF Stages, IsDone
    <3> QED BY <1>1, <1>2, <1>11, <3>1 DEF Stages
  <2>3. ASSUME NEW j \in JobIds', (jobs[j].queue)' = "email"
        PROVE  (IsDone(jobs[j].about))' /\ (jobs[j].about)' \notin ToSet(mailing)'
    <3>1. PICK m : m = jobs'[j].about
      OBVIOUS
    <3>2. IsDone(m) /\ m \notin ToSet(mailing)'
      <4>1. CASE j \in JobIds
        BY <1>1, <1>5, <1>11, <2>3, <3>1, <4>1 DEF Stages
      <4>2. CASE j \notin JobIds
        BY <1>5, <1>6, <1>11, <3>1, <4>2
      <4> QED BY <4>1, <4>2
    <3> QED BY <1>8, <3>1, <3>2
  <2>4. \A k \in DOMAIN mailing' : (IsDone(mailing[k]))'
    <3> SUFFICES ASSUME NEW k \in DOMAIN mailing' PROVE (IsDone(mailing[k]))'
      OBVIOUS
    <3>1. PICK m : m = mailing'[k]
      OBVIOUS
    <3>2. IsDone(m)
      BY <1>1, <1>3, <3>1 DEF Stages
    <3> QED BY <1>8, <3>1, <3>2
  <2>5. \A k, l \in DOMAIN mailing' : mailing'[k] = mailing'[l] => k = l
    BY <1>3, <1>4
  <2> QED BY <2>1, <2>2, <2>3, <2>4, <2>5 DEF Stages
<1>14. Accounted'
  <2>1. \A kinds, m : Took(kinds, m) => (Took(kinds, m))'
    BY <1>2 DEF Took
  <2>2. \A m \in announced' : m \in telling' \/ (Has("notification", m))' \/ (Took({"news"}, m))'
    BY <1>1, <1>2, <1>9, <2>1 DEF Accounted
  <2>3. ~there => (Took({"mail"}, n))'
    BY <1>2 DEF Took, Lost
  <2>4. \A m \in Oversold : (IsDone(m))' =>
           m \in ToSet(mailing)' \/ (Has("email", m))' \/ (Took({"mail"}, m))'
    BY <1>1, <1>5, <1>8, <1>9, <2>1, <2>3 DEF Accounted
  <2>5. ASSUME NEW j \in JobIds', (jobs[j].state)' = "failed"
        PROVE  j \in dying' \cup dlq' \/ (Took({"letter", "stall"}, jobs[j].about))'
    <3>1. j \in JobIds /\ jobs'[j] = jobs[j]
      BY <1>11, <2>5
    <3>2. j \in dying \cup dlq \/ Took({"letter", "stall"}, jobs[j].about)
      BY <1>1, <2>5, <3>1 DEF Accounted
    <3> QED BY <1>2, <2>1, <3>1, <3>2
  <2> QED BY <2>2, <2>4, <2>5 DEF Accounted
<1> QED BY <1>10, <1>12, <1>13, <1>14 DEF NewsInv
-----------------------------------------------------------------------------
(* The process stops *)

\* An active job waits again, one interruption later.
LEMMA StopChanges ==
    ASSUME TypeOK, Stop
    PROVE  /\ jobs' \in Seq(Job) /\ SameKeys /\ SameDone
           /\ \A j \in JobIds :
                 /\ jobs'[j].attemptsMade = jobs[j].attemptsMade
                 /\ jobs'[j].state = IF jobs[j].state = "active" THEN "waiting" ELSE jobs[j].state
<1> DEFINE Again(j) == [queue |-> jobs[j].queue, about |-> jobs[j].about, state |-> "waiting",
                        attemptsMade |-> jobs[j].attemptsMade, stalls |-> jobs[j].stalls + 1]
<1>1. /\ DOMAIN jobs' = DOMAIN jobs /\ jobs' = [j \in JobIds |-> jobs'[j]]
      /\ \A j \in JobIds :
            jobs'[j] = IF jobs[j].state = "active"
                       THEN [jobs[j] EXCEPT !.state = "waiting", !.stalls = jobs[j].stalls + 1]
                       ELSE jobs[j]
  BY DEF Stop, JobIds
<1>2. ASSUME NEW j \in JobIds
      PROVE  [jobs[j] EXCEPT !.state = "waiting", !.stalls = jobs[j].stalls + 1] = Again(j)
  <2>1. jobs[j] \in Job
    BY JobsTyped
  <2>2. PICK q, a, s, m, t : jobs[j] = [queue |-> q, about |-> a, state |-> s,
                                        attemptsMade |-> m, stalls |-> t]
    BY <2>1 DEF Job
  <2> DEFINE old == [queue |-> q, about |-> a, state |-> s, attemptsMade |-> m, stalls |-> t]
             mid == [queue |-> q, about |-> a, state |-> "waiting", attemptsMade |-> m, stalls |-> t]
  <2>3. PICK u : u = t + 1
    OBVIOUS
  <2>4. [old EXCEPT !.state = "waiting"] = mid
    OBVIOUS
  <2>5. [mid EXCEPT !.stalls = u]
          = [queue |-> q, about |-> a, state |-> "waiting", attemptsMade |-> m, stalls |-> u]
    OBVIOUS
  <2>6. old.queue = q /\ old.about = a /\ old.attemptsMade = m /\ old.stalls = t
    OBVIOUS
  <2> HIDE DEF old, mid
  <2>7. [old EXCEPT !.state = "waiting", !.stalls = u]
          = [[old EXCEPT !.state = "waiting"] EXCEPT !.stalls = u]
    OBVIOUS
  <2>8. jobs[j] = old
    BY <2>2 DEF old
  <2> QED BY <2>3, <2>4, <2>5, <2>6, <2>7, <2>8, Zenon
<1>3. ASSUME NEW j \in JobIds
      PROVE  /\ jobs'[j] \in Job
             /\ jobs'[j].queue = jobs[j].queue /\ jobs'[j].about = jobs[j].about
             /\ jobs'[j].attemptsMade = jobs[j].attemptsMade
             /\ jobs'[j].state = IF jobs[j].state = "active" THEN "waiting" ELSE jobs[j].state
  <2>1. jobs[j] \in Job
    BY JobsTyped
  <2>2. CASE jobs[j].state = "active"
    <3>1. jobs'[j] = Again(j)
      BY <1>1, <1>2, <2>2
    <3>2. Again(j) \in Job
      BY <2>1 DEF Job
    <3> QED BY <2>2, <3>1, <3>2
  <2>3. CASE jobs[j].state # "active"
    BY <1>1, <2>1, <2>3
  <2> QED BY <2>2, <2>3
<1>4. jobs' \in Seq(Job)
  BY <1>1, <1>3, JobsStayTyped
<1> HIDE DEF Again
<1> QED BY <1>1, <1>3, <1>4 DEF SameKeys, SameDone

LEMMA StopInv == ASSUME NewsInv, Stop PROVE NewsInv'
<1>1. TypeOK /\ OneJob /\ AttemptsLeft /\ Stages /\ EffectsMade /\ Accounted
  BY DEF NewsInv
<1>2. /\ faults < MaxFaults /\ faults' = faults + 1
      /\ dropped' = dropped \cup Lost("news", telling) \cup Lost("mail", ToSet(mailing))
                            \cup Lost("letter", {jobs[j].about : j \in dying})
      /\ repeated' = repeated \cup
                        {jobs[j].about : j \in {i \in JobIds : jobs[i].state = "active"}}
      /\ telling' = {} /\ mailing' = << >> /\ dying' = {}
      /\ UNCHANGED <<announced, rows, dlq, sent>>
  BY DEF Stop
<1>3. /\ jobs' \in Seq(Job) /\ SameKeys /\ SameDone
      /\ \A j \in JobIds :
            /\ jobs'[j].attemptsMade = jobs[j].attemptsMade
            /\ jobs'[j].state = IF jobs[j].state = "active" THEN "waiting" ELSE jobs[j].state
  BY <1>1, StopChanges
<1>4. \A j \in JobIds : jobs[j].about \in News
  BY <1>1, JobsTyped DEF Job
<1>5. TypeOK'
  <2>1. ToSet(mailing) \subseteq News /\ telling \subseteq News /\ dying \subseteq JobIds
    BY <1>1 DEF TypeOK, ToSet, News
  <2>2. dropped' \subseteq [kind : {"news", "mail", "letter", "stall"}, about : News]
    <3>1. /\ Lost("news", telling) \subseteq [kind : {"news", "mail", "letter", "stall"}, about : News]
          /\ Lost("mail", ToSet(mailing)) \subseteq [kind : {"news", "mail", "letter", "stall"}, about : News]
          /\ Lost("letter", {jobs[j].about : j \in dying}) \subseteq [kind : {"news", "mail", "letter", "stall"}, about : News]
      BY <1>4, <2>1 DEF Lost
    <3> QED BY <1>1, <1>2, <3>1 DEF TypeOK
  <2>3. repeated' \subseteq News /\ faults' \in 0..MaxFaults
    <3>1. repeated' \subseteq News
      BY <1>1, <1>2, <1>4 DEF TypeOK
    <3>2. faults' \in 0..MaxFaults
      BY <1>1, <1>2, FaultsAssumption DEF TypeOK
    <3> QED BY <3>1, <3>2
  <2>4. JobIds' = JobIds
    BY <1>3 DEF SameKeys, JobIds
  <2>5. /\ telling' \subseteq announced' /\ announced' \subseteq News
        /\ rows' \in [News -> Nat] /\ sent' \in [News -> Nat] /\ mailing' \in Seq(Oversold)
        /\ dying' \cup dlq' \subseteq JobIds'
    BY <1>1, <1>2, <2>4 DEF TypeOK
  <2>6. jobs' \in Seq(Job)
    BY <1>3
  <2> QED BY <2>2, <2>3, <2>5, <2>6 DEF TypeOK, Job
<1>6. OneJob' /\ Stages'
  BY <1>1, <1>2, <1>3, KeysKeep, StagesKeep
<1>7. AttemptsLeft'
  BY <1>1, <1>3 DEF AttemptsLeft, SameKeys, JobIds
<1>8. EffectsMade'
  <2>1. \A j \in JobIds : (Ran(j))' => Ran(j)
    BY <1>3 DEF Ran
  <2>2. \A j \in JobIds : Ran(j) /\ ~(Ran(j))' => jobs[j].about \in repeated'
    BY <1>2, <1>3 DEF Ran
  <2> QED BY <1>1, <1>2, <1>3, <2>1, <2>2, EffectsKeep
<1>9. Accounted'
  <2>1. \A kinds, n : Took(kinds, n) => (Took(kinds, n))'
    BY <1>2 DEF Took
  <2>2. /\ \A n \in telling : (Took({"news"}, n))'
        /\ \A n \in ToSet(mailing) : (Took({"mail"}, n))'
    BY <1>2 DEF Took, Lost
  <2>3. \A j \in dying : [kind |-> "letter", about |-> jobs[j].about] \in dropped'
    BY <1>2 DEF Lost
  <2>4. \A n \in announced' : n \in telling' \/ (Has("notification", n))' \/ (Took({"news"}, n))'
    BY <1>1, <1>2, <1>3, <2>1, <2>2, KeysKeep DEF Accounted
  <2>5. \A n \in Oversold : (IsDone(n))' =>
           n \in ToSet(mailing)' \/ (Has("email", n))' \/ (Took({"mail"}, n))'
    BY <1>1, <1>2, <1>3, <2>1, <2>2, KeysKeep, DoneKeep DEF Accounted
  <2>6. ASSUME NEW j \in JobIds', (jobs[j].state)' = "failed"
        PROVE  j \in dying' \cup dlq' \/ (Took({"letter", "stall"}, jobs[j].about))'
    <3>1. j \in JobIds /\ jobs'[j].about = jobs[j].about /\ jobs[j].state = "failed"
      BY <1>3, <2>6 DEF SameKeys, JobIds
    <3>2. PICK n : n = jobs[j].about
      OBVIOUS
    <3>3. j \in dying \cup dlq \/ Took({"letter", "stall"}, n)
      BY <1>1, <3>1, <3>2 DEF Accounted
    <3>4. j \in dying => (Took({"letter", "stall"}, n))'
      BY <2>3, <3>2 DEF Took
    <3> QED BY <1>2, <2>1, <3>1, <3>2, <3>3, <3>4
  <2> QED BY <2>4, <2>5, <2>6 DEF Accounted
<1> QED BY <1>5, <1>6, <1>7, <1>8, <1>9 DEF NewsInv
-----------------------------------------------------------------------------
(* News is lost or repeated by faults only *)

LEMMA NextInv == ASSUME NewsInv, [Next]_vars PROVE NewsInv'
<1>1. ASSUME NEW news \in SUBSET News, Commit(news) PROVE NewsInv'
  BY <1>1, CommitInv
<1>2. ASSUME NEW n \in News, Tell(n) PROVE NewsInv'
  BY <1>2, TellInv
<1>3. CASE TellFails
  BY <1>3, TellFailsInv
<1>4. ASSUME NEW j \in JobIds,
             Run(j) \/ FailBefore(j) \/ GiveUp(j) \/ Finish(j) \/ FailAfter(j) \/ Bury(j)
      PROVE  NewsInv'
  BY <1>4, RunInv, FailBeforeInv, GiveUpInv, FinishInv, FailAfterInv, BuryInv
<1>5. ASSUME NEW there \in BOOLEAN, Mail(there) PROVE NewsInv'
  BY <1>5, MailInv
<1>6. CASE Stop
  BY <1>6, StopInv
<1>7. CASE UNCHANGED vars
  <2>1. UNCHANGED <<announced, telling, jobs, rows, mailing, dying, dlq, sent,
                    faults, dropped, repeated>>
    BY <1>7 DEF vars, queueVars
  <2>2. TypeOK /\ OneJob /\ AttemptsLeft /\ Stages /\ EffectsMade /\ Accounted
    BY DEF NewsInv
  <2>3. TypeOK'
    BY <2>1, <2>2 DEF TypeOK, JobIds
  <2> QED BY <2>1, <2>2, <2>3, JobsAlone, KeysKeep, StagesKeep, EffectsKeep, AccountedKeep DEF NewsInv
<1> QED BY <1>1, <1>2, <1>3, <1>4, <1>5, <1>6, <1>7 DEF Next

LEMMA InvMeans == ASSUME NewsInv PROVE OnlyFaultsLoseOrRepeat
<1>1. TypeOK /\ OneJob /\ AttemptsLeft /\ Stages /\ EffectsMade /\ Accounted
  BY DEF NewsInv
<1>2. ASSUME NEW queue \in {"notification", "email"}, NEW n, Has(queue, n)
      PROVE  Held(queue, n) \/ Took({"letter", "stall"}, n)
  <2>1. PICK j \in JobIds : jobs[j].queue = queue /\ jobs[j].about = n
    BY <1>2 DEF Has
  <2>2. jobs[j].state \in {"waiting", "active", "done", "failed"}
    BY <1>1, JobsTyped DEF Job
  <2>3. jobs[j].state = "failed" => j \in dying \cup dlq \/ Took({"letter", "stall"}, n)
    BY <1>1, <2>1 DEF Accounted
  <2> QED BY <2>1, <2>2, <2>3 DEF Held, JobsOf
<1>3. ASSUME NEW n \in announced
      PROVE  \/ n \in telling \/ Held("notification", n)
             \/ \E kind \in {"news", "letter", "stall"} : [kind |-> kind, about |-> n] \in dropped
  <2>1. n \in telling \/ Has("notification", n) \/ Took({"news"}, n)
    BY <1>1 DEF Accounted
  <2> QED BY <1>2, <2>1 DEF Took
<1>4. ASSUME NEW n \in Oversold, \E j \in JobsOf("notification", n) : jobs[j].state = "done"
      PROVE  \/ n \in ToSet(mailing) \/ Held("email", n)
             \/ \E kind \in {"mail", "letter", "stall"} : [kind |-> kind, about |-> n] \in dropped
  <2>1. IsDone(n)
    BY <1>4 DEF JobsOf, IsDone
  <2>2. n \in ToSet(mailing) \/ Has("email", n) \/ Took({"mail"}, n)
    BY <1>1, <2>1 DEF Accounted
  <2> QED BY <1>2, <2>2 DEF Took
<1>5. ASSUME NEW n \in News \ repeated, NEW queue \in {"notification", "email"}
      PROVE  Effects(queue, n) <= 1
  <2>1. CASE Has(queue, n)
    <3>1. PICK j \in JobIds : jobs[j].queue = queue /\ jobs[j].about = n
      BY <2>1 DEF Has
    <3>2. Effects(queue, n) = IF Ran(j) THEN 1 ELSE 0
      BY <1>1, <3>1 DEF EffectsMade
    <3> QED BY <3>2
  <2>2. CASE ~Has(queue, n)
    <3>1. Effects(queue, n) = 0
      BY <1>1, <2>2 DEF EffectsMade
    <3> QED BY <3>1
  <2> QED BY <2>1, <2>2
<1>6. \A n \in News \ repeated : rows[n] <= 1 /\ sent[n] <= 1
  <2> SUFFICES ASSUME NEW n \in News \ repeated PROVE rows[n] <= 1 /\ sent[n] <= 1
    OBVIOUS
  <2>1. Effects("notification", n) <= 1 /\ Effects("email", n) <= 1
    BY <1>5
  <2> QED BY <2>1 DEF Effects
<1> QED BY <1>3, <1>4, <1>6 DEF OnlyFaultsLoseOrRepeat, NothingVanishes

LEMMA InvHolds == Spec => []NewsInv
<1>1. NewsInv /\ [Next]_vars => NewsInv'
  BY NextInv
<1> QED BY InitInv, <1>1, PTL DEF Spec

\* Whatever the order of the steps, however often the process stops and Redis refuses:
\* news of a committed order or arrival is enqueued, held, stored or a dead letter
\* unless a fault took it from memory or BullMQ gave its job up, and so is its e-mail
\* once it is stored; and no more than one row is stored and one e-mail sent unless an
\* attempt failed or stopped after its effect.
THEOREM NewsIsKept == Spec => [](TypeOK /\ OnlyFaultsLoseOrRepeat)
<1>1. NewsInv => TypeOK /\ OnlyFaultsLoseOrRepeat
  BY InvMeans DEF NewsInv
<1> QED BY InvHolds, <1>1, PTL
-----------------------------------------------------------------------------
(* The queue delivers at least once *)

GaveUp(n) ==
    \E j \in JobIds : jobs[j].queue = "notification" /\ jobs[j].about = n /\ jobs[j].state = "failed"

\* What a sender at least once sees, of the news that has a job.
LEMMA SeenNow ==
    ASSUME TypeOK
    PROVE  /\ SeenSent = {n \in News : Has("notification", n)}
           /\ SeenAcked = {n \in News : IsDone(n)}
           /\ SeenGivenUp = {n \in News : GaveUp(n)}
<1>1. \A j \in JobIds : jobs[j].about \in News
  BY JobsTyped DEF Job
<1> QED BY <1>1 DEF Has, IsDone, GaveUp, JobsOf, SeenSent, SeenAcked, SeenGivenUp

LEMMA SeenNext ==
    ASSUME TypeOK'
    PROVE  /\ SeenSent' = {n \in News : (Has("notification", n))'}
           /\ SeenAcked' = {n \in News : (IsDone(n))'}
           /\ SeenGivenUp' = {n \in News : (GaveUp(n))'}
<1>1. jobs' \in Seq(Job)
  BY DEF TypeOK, Job
<1>2. \A j \in JobIds' : jobs'[j].about \in News
  <2> SUFFICES ASSUME NEW j \in JobIds' PROVE jobs'[j].about \in News
    OBVIOUS
  <2>1. jobs'[j] \in Job
    BY <1>1 DEF JobIds
  <2> QED BY <2>1 DEF Job
<1> QED BY <1>2 DEF Has, IsDone, GaveUp, JobsOf, SeenSent, SeenAcked, SeenGivenUp

SameTold == \A n \in News : (Has("notification", n))' <=> Has("notification", n)
SameAcked == \A n \in News : (IsDone(n))' <=> IsDone(n)
SameGivenUp == \A n \in News : (GaveUp(n))' <=> GaveUp(n)

\* Each set that the sender sees stays while nothing happens to its items.
LEMMA SeenStays ==
    ASSUME TypeOK, TypeOK'
    PROVE  /\ SameTold => UNCHANGED SeenSent
           /\ SameAcked => UNCHANGED SeenAcked
           /\ SameGivenUp => UNCHANGED SeenGivenUp
           /\ UNCHANGED rows => UNCHANGED SeenApplied
BY SeenNow, SeenNext DEF SameTold, SameAcked, SameGivenUp, SeenApplied

\* The sender's stutter and its steps.
LEMMA SenderStutters ==
    UNCHANGED <<SeenSent, SeenApplied, SeenAcked, SeenGivenUp>> => UNCHANGED Delivery!vars
BY DEF Delivery!vars

LEMMA SenderSends ==
    ASSUME NEW n \in News, n \notin SeenSent, SeenSent' = SeenSent \cup {n},
           UNCHANGED <<SeenApplied, SeenAcked, SeenGivenUp>>
    PROVE  Delivery!Next
<1>1. Delivery!Send({n})
  BY DEF Delivery!Send
<1>2. {n} \in SUBSET News
  OBVIOUS
<1> QED BY <1>1, <1>2 DEF Delivery!Next

LEMMA SenderHandles == ASSUME NEW n \in News, Delivery!Handle(n) PROVE Delivery!Next
BY DEF Delivery!Next

SenderSteps == Delivery!Next \/ UNCHANGED Delivery!vars

\* A step that neither adds a job nor finishes or fails one is no step of the sender.
LEMMA QueueStutters ==
    ASSUME TypeOK, TypeOK', SameKeys, UNCHANGED rows,
           \A j \in JobIds : \/ jobs'[j].state = jobs[j].state
                             \/ /\ jobs[j].state \notin {"done", "failed"}
                                /\ jobs'[j].state \notin {"done", "failed"}
    PROVE  SenderSteps
<1>1. SameTold
  BY KeysKeep DEF SameTold
<1>2. SameAcked /\ SameGivenUp
  BY DEF SameAcked, SameGivenUp, IsDone, GaveUp, SameKeys, JobIds
<1> QED BY <1>1, <1>2, SeenStays, SenderStutters DEF SenderSteps

LEMMA TellSteps == ASSUME NewsInv, NewsInv', NEW n \in News, Tell(n) PROVE SenderSteps
<1>1. TypeOK /\ TypeOK' /\ Stages
  BY DEF NewsInv
<1>2. n \in telling /\ jobs' = AddJob("notification", n) /\ UNCHANGED rows
  BY DEF Tell
<1>3. ~Has("notification", n)
  BY <1>1, <1>2 DEF Stages
<1>4. /\ JobIds \subseteq JobIds' /\ JobIds' # JobIds
      /\ \A j \in JobIds : jobs'[j] = jobs[j]
      /\ \A j \in JobIds' \ JobIds :
            jobs'[j].queue = "notification" /\ jobs'[j].about = n /\ jobs'[j].state = "waiting"
  BY <1>1, <1>2, AddingJob
<1>5. \A m : (Has("notification", m))' <=> Has("notification", m) \/ m = n
  BY <1>4 DEF Has
<1>6. SeenSent' = SeenSent \cup {n} /\ n \notin SeenSent
  BY <1>1, <1>3, <1>5, SeenNow, SeenNext
<1>7. SameAcked /\ SameGivenUp
  BY <1>4 DEF SameAcked, SameGivenUp, IsDone, GaveUp
<1>8. UNCHANGED <<SeenApplied, SeenAcked, SeenGivenUp>>
  BY <1>1, <1>2, <1>7, SeenStays
<1> QED BY <1>6, <1>8, SenderSends DEF SenderSteps

LEMMA MailSteps == ASSUME NewsInv, NewsInv', NEW there \in BOOLEAN, Mail(there) PROVE SenderSteps
<1>1. TypeOK /\ TypeOK'
  BY DEF NewsInv
<1>2. CASE there
  <2>1. PICK n : n = Head(mailing)
    OBVIOUS
  <2>2. jobs' = AddJob("email", n) /\ UNCHANGED rows /\ mailing # << >>
    BY <1>2, <2>1 DEF Mail
  <2>3. n \in News
    BY <1>1, <2>1, <2>2 DEF TypeOK, News
  <2>4. /\ JobIds \subseteq JobIds'
        /\ \A j \in JobIds : jobs'[j] = jobs[j]
        /\ \A j \in JobIds' \ JobIds : jobs'[j].queue = "email"
    BY <1>1, <2>2, <2>3, AddingJob
  <2>5. SameTold /\ SameAcked /\ SameGivenUp
    BY <2>4 DEF SameTold, SameAcked, SameGivenUp, Has, IsDone, GaveUp
  <2> QED BY <1>1, <2>2, <2>5, SeenStays, SenderStutters DEF SenderSteps
<1>3. CASE ~there
  <2>1. UNCHANGED jobs /\ UNCHANGED rows
    BY <1>3 DEF Mail
  <2> QED BY <1>1, <2>1, QueueStutters, JobsAlone
<1> QED BY <1>2, <1>3

LEMMA RunSteps == ASSUME NewsInv, NewsInv', NEW j \in JobIds, Run(j) PROVE SenderSteps
<1>1. TypeOK /\ TypeOK'
  BY DEF NewsInv
<1>2. jobs[j].state = "waiting" /\ Effect(j) /\ Becomes(j, "active")
  BY DEF Run
<1>3. Moves(j, "active", jobs[j].attemptsMade)
  BY <1>1, <1>2, BecomesMoves
<1>4. /\ SameKeys /\ SameDone /\ jobs'[j].state = "active"
      /\ \A i \in JobIds \ {j} : jobs'[i] = jobs[i]
  BY <1>1, <1>2, <1>3, MovesMeans DEF Moves
<1>5. CASE jobs[j].queue = "email"
  <2>1. UNCHANGED rows
    BY <1>2, <1>5 DEF Effect
  <2> QED BY <1>1, <1>2, <1>4, <2>1, QueueStutters
<1>6. CASE jobs[j].queue = "notification"
  <2>1. PICK n \in News : n = jobs[j].about
    BY <1>1, JobsTyped DEF Job
  <2>2. rows \in [News -> Nat] /\ rows' = [rows EXCEPT ![n] = rows[n] + 1]
    BY <1>1, <1>2, <1>6, <2>1 DEF Effect, TypeOK
  <2>3. SeenApplied' = SeenApplied \cup {n}
    BY <2>1, <2>2 DEF SeenApplied
  <2>4. SameTold /\ SameAcked /\ SameGivenUp
    <3>1. SameTold
      BY <1>4, KeysKeep DEF SameTold
    <3> QED BY <1>2, <1>4, <3>1 DEF SameAcked, SameGivenUp, IsDone, GaveUp, SameKeys, JobIds
  <2>5. UNCHANGED <<SeenSent, SeenAcked, SeenGivenUp>>
    BY <1>1, <2>4, SeenStays
  <2>6. n \in SeenSent
    BY <1>1, <1>6, <2>1, SeenNow DEF Has
  <2>7. CASE n \in SeenApplied
    BY <2>3, <2>5, <2>7, SenderStutters DEF SenderSteps
  <2>8. CASE n \notin SeenApplied
    <3>1. Delivery!Handle(n)
      BY <2>3, <2>5, <2>6, <2>8 DEF Delivery!Handle, Delivery!Apply
    <3> QED BY <2>1, <3>1, SenderHandles DEF SenderSteps
  <2> QED BY <2>7, <2>8
<1>7. jobs[j].queue \in {"notification", "email"}
  BY <1>1, JobsTyped DEF Job
<1> QED BY <1>5, <1>6, <1>7

\* A job is done only after its row is stored.
LEMMA FinishSteps == ASSUME NewsInv, NewsInv', NEW j \in JobIds, Finish(j) PROVE SenderSteps
<1>1. TypeOK /\ TypeOK' /\ OneJob /\ EffectsMade
  BY DEF NewsInv
<1>2. jobs[j].state = "active" /\ Becomes(j, "done") /\ UNCHANGED rows
  BY DEF Finish
<1>3. Moves(j, "done", jobs[j].attemptsMade)
  BY <1>1, <1>2, BecomesMoves
<1>4. /\ SameKeys /\ jobs'[j].state = "done"
      /\ \A i \in JobIds \ {j} : jobs'[i] = jobs[i]
  BY <1>1, <1>3, MovesMeans DEF Moves
<1>5. SameTold /\ SameGivenUp
  <2>1. SameTold
    BY <1>4, KeysKeep DEF SameTold
  <2> QED BY <1>2, <1>4, <2>1 DEF SameGivenUp, GaveUp, SameKeys, JobIds
<1>6. UNCHANGED <<SeenSent, SeenApplied, SeenGivenUp>>
  BY <1>1, <1>2, <1>5, SeenStays
<1>7. CASE jobs[j].queue # "notification"
  <2>1. SameAcked
    BY <1>4, <1>7 DEF SameAcked, IsDone, SameKeys, JobIds
  <2> QED BY <1>1, <1>6, <2>1, SeenStays, SenderStutters DEF SenderSteps
<1>8. CASE jobs[j].queue = "notification"
  <2>1. PICK n \in News : n = jobs[j].about
    BY <1>1, JobsTyped DEF Job
  <2>2. \A m : (IsDone(m))' <=> IsDone(m) \/ m = n
    BY <1>2, <1>4, <1>8, <2>1 DEF IsDone, SameKeys, JobIds
  <2>3. ~IsDone(n)
    BY <1>1, <1>2, <1>8, <2>1 DEF OneJob, IsDone
  <2>4. SeenAcked' = SeenAcked \cup {n} /\ n \notin SeenAcked
    BY <1>1, <2>1, <2>2, <2>3, SeenNow, SeenNext
  <2>5. n \in SeenApplied
    <3>1. Effects("notification", n) > 0
      BY <1>1, <1>2, <1>8, <2>1 DEF EffectsMade, Ran
    <3> QED BY <2>1, <3>1 DEF SeenApplied, Effects
  <2>6. Delivery!Handle(n)
    BY <1>6, <2>4, <2>5 DEF Delivery!Handle, Delivery!Acknowledge
  <2> QED BY <2>1, <2>6, SenderHandles DEF SenderSteps
<1> QED BY <1>7, <1>8

\* A failed attempt gives the news up, or leaves its job for another one.
LEMMA FailureSteps ==
    ASSUME NewsInv, NewsInv', NEW j \in JobIds, Fails(j),
           jobs[j].state \in {"waiting", "active"}, UNCHANGED rows
    PROVE  SenderSteps
<1>1. TypeOK /\ TypeOK' /\ OneJob /\ AttemptsLeft
  BY DEF NewsInv
<1>2. jobs[j].attemptsMade < attempts
  BY <1>1 DEF AttemptsLeft
<1>3. Moves(j, AfterFailure(j), jobs[j].attemptsMade + 1)
  BY <1>1, <1>2, FailsMoves
<1>4. /\ SameKeys /\ SameDone /\ jobs'[j].state = AfterFailure(j)
      /\ \A i \in JobIds \ {j} : jobs'[i] = jobs[i]
  BY <1>1, <1>3, MovesMeans DEF Moves, AfterFailure
<1>5. CASE AfterFailure(j) = "waiting"
  BY <1>1, <1>4, <1>5, QueueStutters
<1>6. CASE AfterFailure(j) = "failed"
  <2>1. SameTold /\ SameAcked
    BY <1>4, KeysKeep, DoneKeep DEF SameTold, SameAcked
  <2>2. UNCHANGED <<SeenSent, SeenApplied, SeenAcked>>
    BY <1>1, <2>1, SeenStays
  <2>3. CASE jobs[j].queue # "notification"
    <3>1. SameGivenUp
      BY <1>4, <2>3 DEF SameGivenUp, GaveUp, SameKeys, JobIds
    <3> QED BY <1>1, <2>2, <3>1, SeenStays, SenderStutters DEF SenderSteps
  <2>4. CASE jobs[j].queue = "notification"
    <3>1. PICK n \in News : n = jobs[j].about
      BY <1>1, JobsTyped DEF Job
    <3>2. \A m : (GaveUp(m))' <=> GaveUp(m) \/ m = n
      BY <1>4, <1>6, <2>4, <3>1 DEF GaveUp, SameKeys, JobIds
    <3>3. ~GaveUp(n) /\ ~IsDone(n) /\ Has("notification", n)
      BY <1>1, <2>4, <3>1 DEF OneJob, GaveUp, IsDone, Has
    <3>4. /\ SeenGivenUp' = SeenGivenUp \cup {n}
          /\ n \in SeenSent \ (SeenAcked \cup SeenGivenUp)
      BY <1>1, <3>1, <3>2, <3>3, SeenNow, SeenNext
    <3>5. Delivery!Handle(n)
      BY <2>2, <3>4 DEF Delivery!Handle, Delivery!GiveUp
    <3> QED BY <3>1, <3>5, SenderHandles DEF SenderSteps
  <2> QED BY <2>3, <2>4
<1> QED BY <1>5, <1>6 DEF AfterFailure

LEMMA NextSteps == ASSUME NewsInv, NewsInv', [Next]_vars PROVE SenderSteps
<1>1. TypeOK /\ TypeOK'
  BY DEF NewsInv
<1>2. ASSUME UNCHANGED jobs, UNCHANGED rows PROVE SenderSteps
  BY <1>1, <1>2, QueueStutters, JobsAlone
<1>3. ASSUME NEW news \in SUBSET News, Commit(news) PROVE SenderSteps
  BY <1>2, <1>3 DEF Commit, queueVars
<1>4. CASE TellFails
  BY <1>2, <1>4 DEF TellFails, queueVars
<1>5. ASSUME NEW n \in News, Tell(n) PROVE SenderSteps
  BY <1>5, TellSteps
<1>6. ASSUME NEW j \in JobIds,
             Run(j) \/ FailBefore(j) \/ GiveUp(j) \/ Finish(j) \/ FailAfter(j) \/ Bury(j)
      PROVE  SenderSteps
  <2>1. CASE Run(j)
    BY <2>1, RunSteps
  <2>2. CASE Finish(j)
    BY <2>2, FinishSteps
  <2>3. CASE FailBefore(j) \/ GiveUp(j) \/ FailAfter(j)
    BY <2>3, FailureSteps DEF FailBefore, GiveUp, FailAfter
  <2>4. CASE Bury(j)
    BY <1>2, <2>4 DEF Bury
  <2> QED BY <1>6, <2>1, <2>2, <2>3, <2>4
<1>7. ASSUME NEW there \in BOOLEAN, Mail(there) PROVE SenderSteps
  BY <1>7, MailSteps
<1>8. CASE Stop
  <2>1. /\ SameKeys
        /\ \A j \in JobIds :
              jobs'[j].state = IF jobs[j].state = "active" THEN "waiting" ELSE jobs[j].state
    BY <1>1, <1>8, StopChanges
  <2>2. UNCHANGED rows
    BY <1>8 DEF Stop
  <2> QED BY <1>1, <2>1, <2>2, QueueStutters
<1>9. CASE UNCHANGED vars
  BY <1>2, <1>9 DEF vars, queueVars
<1> QED BY <1>3, <1>4, <1>5, <1>6, <1>7, <1>8, <1>9 DEF Next

\* The jobs of notifications implement the safety of delivery at least once: no job is
\* done before its row is stored, none is done or given up that was never added, and
\* none is given up once it is done.
THEOREM DeliversAtLeastOnce == Spec => Delivery!Init /\ [][Delivery!Next]_(Delivery!vars)
<1>1. Init => Delivery!Init
  BY DEF Init, Delivery!Init, SeenSent, SeenApplied, SeenAcked, SeenGivenUp, JobsOf, JobIds
<1>2. NewsInv /\ NewsInv' /\ [Next]_vars => [Delivery!Next]_(Delivery!vars)
  BY NextSteps DEF SenderSteps
<1> QED BY <1>1, <1>2, InvHolds, PTL DEF Spec
=============================================================================
