--------------------------- MODULE Notifications ---------------------------
(***************************************************************************)
(* From the commit of an order or an arrival to the notification of the    *)
(* seller: jobs that are tried a few times, the row and the e-mail of a    *)
(* notification, and the queue of dead letters.  The process may stop, and *)
(* Redis may refuse, between any two steps; what is only in the memory of  *)
(* the process is then gone; a job that it was running is tried again, but *)
(* BullMQ gives up one that was interrupted too often.                     *)
(***************************************************************************)
EXTENDS Integers, Sequences, SequencesExt

CONSTANTS
    Oversold,   \* news of lines sold without stock, which go by e-mail too
    Allocated,  \* news of orders that an arrival covered
    attempts,   \* how often a job is tried
    MaxFaults   \* bound: stops of the process and refusals of Redis

ASSUME AttemptsAssumption == attempts \in Nat \ {0}
ASSUME FaultsAssumption == MaxFaults \in Nat

\* BullMQ's default: how often a job may be interrupted and still be run again.
maxStalledCount == 1

News == Oversold \cup Allocated

VARIABLES
    announced,  \* news whose order or movement is committed
    telling,    \* news that the request still has to enqueue
    jobs,       \* all jobs, of both queues, in the order they were added
    rows,       \* notifications stored about each news
    mailing,    \* news whose e-mail is about to be enqueued
    dying,      \* jobs that failed for good, before the queue of dead letters knows
    dlq,        \* jobs in the queue of dead letters
    sent,       \* e-mails sent about each
    faults,     \* faults so far
    dropped,    \* what a fault took, by kind (for the properties)
    repeated    \* news whose job failed or stopped after storing its row (for the properties)

queueVars == <<jobs, dying, dlq>>
vars == <<announced, telling, jobs, rows, mailing, dying, dlq, sent,
          faults, dropped, repeated>>

JobIds == DOMAIN jobs

TypeOK ==
    /\ telling \subseteq announced /\ announced \subseteq News
    /\ jobs \in Seq([queue : {"notification", "email"}, about : News,
                     state : {"waiting", "active", "done", "failed"},
                     attemptsMade : 0..attempts, stalls : Nat])
    /\ rows \in [News -> Nat] /\ sent \in [News -> Nat]
    /\ mailing \in Seq(Oversold)
    /\ dying \cup dlq \subseteq JobIds
    /\ faults \in 0..MaxFaults
    /\ dropped \subseteq [kind : {"news", "mail", "letter", "stall"}, about : News]
    /\ repeated \subseteq News

Lost(kind, abouts) == [kind : {kind}, about : abouts]
-----------------------------------------------------------------------------
(* The request *)

\* An order or an arrival is committed, with news for the seller.
Commit(news) ==
    /\ telling = {} /\ news # {} /\ news \cap announced = {}
    /\ news \subseteq Oversold \/ news \subseteq Allocated
    /\ announced' = announced \cup news
    /\ telling' = news
    /\ UNCHANGED <<queueVars, rows, mailing, sent, faults, dropped, repeated>>

AddJob(queue, n) ==
    Append(jobs, [queue |-> queue, about |-> n, state |-> "waiting",
                  attemptsMade |-> 0, stalls |-> 0])

Others(n) == telling \ {n}

\* createNotification, once for each news.
Tell(n) ==
    /\ n \in telling
    /\ telling' = Others(n)
    /\ jobs' = AddJob("notification", n)
    /\ UNCHANGED <<announced, rows, mailing, dying, dlq, sent, faults, dropped, repeated>>

\* Redis refuses: the loop is left, and the request fails although it committed.
TellFails ==
    /\ telling # {} /\ faults < MaxFaults
    /\ faults' = faults + 1
    /\ telling' = {}
    /\ dropped' = dropped \cup Lost("news", telling)
    /\ UNCHANGED <<announced, queueVars, rows, mailing, sent, repeated>>
-----------------------------------------------------------------------------
(* The workers: each queue has one, and it runs one job at a time *)

Idle(queue) == \A j \in JobIds : jobs[j].queue = queue => jobs[j].state # "active"

Becomes(j, state) == jobs' = [jobs EXCEPT ![j].state = state]

Retries(made) == made < attempts

\* Mutant: handleFailedJob skips the last failure too.
LastOneToo(made) == made > attempts

\* handleFailedJob: only the last failure is for the queue of dead letters.
IsLast(made) == made >= attempts

Stalled(j) == jobs[j].stalls > maxStalledCount

\* A failed attempt: the job waits for its next one, or has failed for good, and
\* then the handler of the event is to put it in the queue of dead letters.
Fails(j) ==
    LET made == jobs[j].attemptsMade + 1
    IN  /\ jobs' = [jobs EXCEPT ![j].attemptsMade = made,
                                ![j].state = IF Retries(made) /\ ~Stalled(j)
                                             THEN "waiting" ELSE "failed"]
        /\ dying' = IF IsLast(made) THEN dying \cup {j} ELSE dying

\* Mutant: the attempt does not wait for its effect.
NotAwaited(j) == UNCHANGED <<rows, sent>>

\* A job for which the effect is made: the row of a notification, or an e-mail.
Effect(j) ==
    IF jobs[j].queue = "notification"
    THEN rows' = [rows EXCEPT ![jobs[j].about] = @ + 1] /\ UNCHANGED sent
    ELSE sent' = [sent EXCEPT ![jobs[j].about] = @ + 1] /\ UNCHANGED rows

\* The first step of an attempt: the effect, or a failure before it.
Run(j) ==
    /\ jobs[j].state = "waiting" /\ Idle(jobs[j].queue) /\ ~Stalled(j)
    /\ Effect(j) /\ Becomes(j, "active")
    /\ UNCHANGED <<announced, telling, mailing, dying, dlq, faults, dropped, repeated>>

FailBefore(j) ==
    /\ jobs[j].state = "waiting" /\ Idle(jobs[j].queue) /\ ~Stalled(j)
    /\ Fails(j)
    /\ UNCHANGED <<announced, telling, rows, mailing, dlq, sent, faults, dropped, repeated>>

\* A job that was interrupted too often is not run: it fails for good, whatever
\* attempts it has left, and then handleFailedJob takes it for one that is tried again.
GiveUp(j) ==
    /\ jobs[j].state = "waiting" /\ Idle(jobs[j].queue) /\ Stalled(j)
    /\ Fails(j)
    /\ dropped' = IF IsLast(jobs[j].attemptsMade + 1) THEN dropped
                  ELSE dropped \cup Lost("stall", {jobs[j].about})
    /\ UNCHANGED <<announced, telling, rows, mailing, dlq, sent, faults, repeated>>

\* The rest: the sockets are told, and the e-mail is enqueued by a call that nobody
\* waits for.
Finish(j) ==
    /\ jobs[j].state = "active"
    /\ Becomes(j, "done")
    /\ mailing' = IF jobs[j].queue = "notification" /\ jobs[j].about \in Oversold
                  THEN Append(mailing, jobs[j].about) ELSE mailing
    /\ UNCHANGED <<announced, telling, rows, dying, dlq, sent, faults, dropped, repeated>>

\* The effect was made, but its answer is lost, and the attempt fails.
FailAfter(j) ==
    /\ jobs[j].state = "active" /\ faults < MaxFaults
    /\ faults' = faults + 1
    /\ Fails(j)
    /\ repeated' = repeated \cup {jobs[j].about}
    /\ UNCHANGED <<announced, telling, rows, mailing, dlq, sent, dropped>>

\* sendEmailNotification: an account that is gone gets none, and a refusal of Redis is
\* only logged.
Mail(there) ==
    /\ mailing # << >>
    /\ mailing' = Tail(mailing)
    /\ jobs' = IF there THEN AddJob("email", Head(mailing)) ELSE jobs
    /\ dropped' = IF there THEN dropped ELSE dropped \cup Lost("mail", {Head(mailing)})
    /\ UNCHANGED <<announced, telling, rows, dying, dlq, sent, faults, repeated>>

Bury(j) ==
    /\ j \in dying
    /\ dying' = dying \ {j}
    /\ dlq' = dlq \cup {j}
    /\ UNCHANGED <<announced, telling, jobs, rows, mailing, sent, faults, dropped, repeated>>

\* The process stops, also when Redis refuses a dead letter, which nobody catches.  An
\* active job is found stalled, and waits again.
Stop ==
    /\ faults < MaxFaults
    /\ faults' = faults + 1
    /\ dropped' = dropped \cup Lost("news", telling) \cup Lost("mail", ToSet(mailing))
                          \cup Lost("letter", {jobs[j].about : j \in dying})
    /\ repeated' = repeated \cup {jobs[j].about : j \in {i \in JobIds : jobs[i].state = "active"}}
    /\ jobs' = [j \in JobIds |-> IF jobs[j].state = "active"
                                 THEN [jobs[j] EXCEPT !.state = "waiting", !.stalls = @ + 1]
                                 ELSE jobs[j]]
    /\ telling' = {} /\ mailing' = << >> /\ dying' = {}
    /\ UNCHANGED <<announced, rows, dlq, sent>>
-----------------------------------------------------------------------------
Init ==
    /\ announced = {} /\ telling = {}
    /\ jobs = << >> /\ dying = {} /\ dlq = {}
    /\ rows = [n \in News |-> 0] /\ mailing = << >> /\ sent = [n \in News |-> 0]
    /\ faults = 0 /\ dropped = {} /\ repeated = {}

Next ==
    \/ \E news \in SUBSET News : Commit(news)
    \/ \E n \in News : Tell(n)
    \/ TellFails
    \/ \E j \in JobIds : Run(j) \/ FailBefore(j) \/ GiveUp(j) \/ Finish(j) \/ FailAfter(j) \/ Bury(j)
    \/ \E there \in BOOLEAN : Mail(there)
    \/ Stop

\* The loop of a request, the workers, the handler of failures and the call that
\* enqueues an e-mail go on.
Fairness ==
    /\ \A n \in News : WF_vars(Tell(n))
    /\ WF_vars(\E there \in BOOLEAN : Mail(there))
    /\ WF_vars(\E j \in JobIds : Run(j) \/ FailBefore(j) \/ GiveUp(j))
    /\ WF_vars(\E j \in JobIds : Finish(j) \/ FailAfter(j))
    /\ WF_vars(\E j \in JobIds : Bury(j))

Spec == Init /\ [][Next]_vars /\ Fairness
-----------------------------------------------------------------------------
(* Properties *)

\* News is in the queue (notification), stored, or in the queue of dead letters.
JobsOf(queue, n) == {j \in JobIds : jobs[j].queue = queue /\ jobs[j].about = n}

Held(queue, n) == \E j \in JobsOf(queue, n) :
                     jobs[j].state \in {"waiting", "active", "done"} \/ j \in dying \cup dlq

\* It is still to be enqueued, its job is there or done, or it is a dead letter; and
\* so is the e-mail of news that was stored.  The only exceptions are what a fault took
\* from memory, jobs that BullMQ gave up before their last attempt, and the e-mail to an
\* account that is gone.
NothingVanishes ==
    /\ \A n \in announced :
          \/ n \in telling \/ Held("notification", n)
          \/ \E kind \in {"news", "letter", "stall"} : [kind |-> kind, about |-> n] \in dropped
    /\ \A n \in Oversold :
          (\E j \in JobsOf("notification", n) : jobs[j].state = "done") =>
             \/ n \in ToSet(mailing) \/ Held("email", n)
             \/ \E kind \in {"mail", "letter", "stall"} : [kind |-> kind, about |-> n] \in dropped

\* News of what was committed never just disappears, and a notification is stored, and
\* an e-mail sent, once for each news, unless an attempt failed or stopped after its
\* effect.
OnlyFaultsLoseOrRepeat ==
    /\ NothingVanishes
    /\ \A n \in News \ repeated : rows[n] <= 1 /\ sent[n] <= 1

\* What a sender at least once sees of the jobs of notifications.
SeenSent == {jobs[j].about : j \in {i \in JobIds : jobs[i].queue = "notification"}}
SeenApplied == {n \in News : rows[n] > 0}
SeenAcked == {n \in News : \E j \in JobsOf("notification", n) : jobs[j].state = "done"}
SeenGivenUp == {n \in News : \E j \in JobsOf("notification", n) : jobs[j].state = "failed"}

\* The jobs of notifications implement delivery at least once: a job is done only
\* when its row is stored, and each is done or given up in the end.
Delivery == INSTANCE AtLeastOnce WITH
    Item <- News, sent <- SeenSent, applied <- SeenApplied,
    acked <- SeenAcked, givenUp <- SeenGivenUp

Delivers == Delivery!Spec
=============================================================================
