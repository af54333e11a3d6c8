---------------------------- MODULE CampaignMailer ----------------------------
(***************************************************************************)
(* worker/email_worker.go: HandleCampaignMessage, behind the queue that    *)
(* CampaignDispatch fills with one task per user.  RabbitMQ keeps up to    *)
(* Prefetch unacknowledged tasks with the consumer, which handles them one *)
(* after another: it sends, writes its records, each best-effort, and      *)
(* acknowledges or requeues.  The breaker appears by what Execute returns. *)
(***************************************************************************)
EXTENDS Naturals, Sequences, FiniteSets

CONSTANTS UserIds,
          Refused,    \* users whose mail the server always refuses
          Prefetch,   \* cfg.Worker.CampaignPrefetch
          CountCap,   \* bound: counters saturate here
          MaxFaults,  \* bound: crashes, failed calls, lost answers
          NoUser      \* no task is being handled

ASSUME MailerAssumption ==
  /\ Refused \subseteq UserIds /\ NoUser \notin UserIds
  /\ Prefetch \in Nat \ {0} /\ CountCap \in Nat \ {0} /\ MaxFaults \in Nat

VARIABLES
  queue,        \* tasks ready in campaign.email
  buffer,       \* tasks delivered and not yet handled
  step, task,   \* where HandleCampaignMessage is, and its task
  rows,         \* campaign_recipients: rows per user and status
  sentCount, failedCount,  \* campaigns.sent_count and failed_count
  mails,        \* how many mails each user was sent
  swallowed,    \* history: users for whom Execute returned nil without sending
  arrived,      \* users whose task was published
  faults

counters == <<sentCount, failedCount>>
delivery == <<queue, buffer, arrived>>
handler == <<step, task>>
mailerVars == <<delivery, handler, rows, counters, mails, swallowed, faults>>

Plus1(n) == IF n < CountCap THEN n + 1 ELSE n

MailerInit ==
  /\ queue = <<>> /\ buffer = <<>> /\ arrived = {}
  /\ step = "idle" /\ task = NoUser
  /\ rows = [u \in UserIds |-> [sent |-> 0, failed |-> 0]]
  /\ sentCount = 0 /\ failedCount = 0
  /\ mails = [u \in UserIds |-> 0]
  /\ swallowed = {}
  /\ faults = 0

Fault == faults < MaxFaults /\ faults' = faults + 1
NoFault == UNCHANGED faults

\* A campaign publishes one task per user (CampaignDispatch, PublishedOnce).
TaskPublished(u) ==
  /\ u \notin arrived
  /\ arrived' = arrived \cup {u}
  /\ queue' = Append(queue, u)
  /\ UNCHANGED <<buffer, handler, rows, counters, mails, swallowed, faults>>

Unacknowledged == Len(buffer) + (IF step = "idle" THEN 0 ELSE 1)

Deliver(u) ==
  /\ queue # <<>> /\ u = Head(queue) /\ Unacknowledged < Prefetch
  /\ queue' = Tail(queue) /\ buffer' = Append(buffer, u)
  /\ UNCHANGED <<arrived, handler, rows, counters, mails, swallowed, faults>>

Take ==
  /\ step = "idle" /\ buffer # <<>>
  /\ task' = Head(buffer) /\ step' = "send"
  /\ buffer' = Tail(buffer)
  /\ UNCHANGED <<queue, arrived, rows, counters, mails, swallowed, faults>>

\* The mail is sent; a fault loses the server's answer.
SendOk(u) ==
  /\ step = "send" /\ task = u /\ u \notin Refused
  /\ mails' = [mails EXCEPT ![u] = Plus1(@)]
  /\ \/ step' = "sent" /\ NoFault
     \/ step' = "failed" /\ Fault
  /\ UNCHANGED <<delivery, task, rows, counters, swallowed>>

SendFails ==
  /\ step = "send" /\ step' = "failed"
  /\ UNCHANGED <<delivery, task, rows, counters, mails, swallowed, faults>>

\* The breaker turns half-open and returns nil.
Swallow ==
  /\ step = "send" /\ step' = "sent"
  /\ swallowed' = swallowed \cup {task}
  /\ UNCHANGED <<delivery, task, rows, counters, mails, faults>>

\* Bug: a requeued task is tried again before anything else.
Nack_InPlace ==
  /\ buffer' = <<task>> \o buffer
  /\ step' = "idle" /\ task' = NoUser
  /\ UNCHANGED <<queue, arrived>>

\* Nack(requeue = true): the task returns to the head of the queue.
Nack ==
  /\ queue' = <<task>> \o queue
  /\ step' = "idle" /\ task' = NoUser
  /\ UNCHANGED <<buffer, arrived>>

\* ErrCircuitBreakerOpen: nothing is recorded.
CircuitOpen ==
  /\ step = "send" /\ Nack
  /\ UNCHANGED <<rows, counters, mails, swallowed, faults>>

\* insertCampaignAudit and insertCampaignRecipient, best-effort.
InsertRecipient ==
  /\ \/ /\ step = "sent" /\ step' = "count sent"
        /\ \/ rows' = [rows EXCEPT ![task].sent = Plus1(@)] /\ NoFault
           \/ UNCHANGED rows /\ Fault
     \/ /\ step = "failed" /\ step' = "count failed"
        /\ \/ rows' = [rows EXCEPT ![task].failed = Plus1(@)] /\ NoFault
           \/ UNCHANGED rows /\ Fault
  /\ UNCHANGED <<delivery, task, counters, mails, swallowed>>

\* Bug: both outcomes increment sent_count.
IncrementCounter_SentOnly ==
  /\ \/ step = "count sent" /\ step' = "ack"
     \/ step = "count failed" /\ step' = "nack"
  /\ sentCount' = Plus1(sentCount)
  /\ UNCHANGED <<delivery, task, rows, failedCount, mails, swallowed, faults>>

\* IncrementCampaignCounter, its error ignored.
IncrementCounter ==
  /\ \/ /\ step = "count sent" /\ step' = "ack"
        /\ \/ sentCount' = Plus1(sentCount) /\ NoFault
           \/ UNCHANGED sentCount /\ Fault
        /\ UNCHANGED failedCount
     \/ /\ step = "count failed" /\ step' = "nack"
        /\ \/ failedCount' = Plus1(failedCount) /\ NoFault
           \/ UNCHANGED failedCount /\ Fault
        /\ UNCHANGED sentCount
  /\ UNCHANGED <<delivery, task, rows, mails, swallowed>>

Ack ==
  /\ step = "ack"
  /\ step' = "idle" /\ task' = NoUser
  /\ UNCHANGED <<delivery, rows, counters, mails, swallowed, faults>>

\* Bug: a task whose mail failed is acknowledged.
SendError_Acks ==
  /\ step = "nack"
  /\ step' = "idle" /\ task' = NoUser
  /\ UNCHANGED <<delivery, rows, counters, mails, swallowed, faults>>

\* return sendErr: the task is requeued, for ever.
SendError ==
  /\ step = "nack" /\ Nack
  /\ UNCHANGED <<rows, counters, mails, swallowed, faults>>

Unhandled == IF step = "idle" THEN buffer ELSE <<task>> \o buffer

\* The pod dies: everything unacknowledged is redelivered, in order.
Crash ==
  /\ Fault
  /\ queue' = Unhandled \o queue
  /\ buffer' = <<>> /\ step' = "idle" /\ task' = NoUser
  /\ UNCHANGED <<arrived, rows, counters, mails, swallowed>>

Handle ==
  \/ Take \/ (\E u \in UserIds : SendOk(u)) \/ SendFails \/ Swallow
  \/ CircuitOpen \/ InsertRecipient \/ IncrementCounter \/ Ack \/ SendError

MailerNext == (\E u \in UserIds : TaskPublished(u) \/ Deliver(u)) \/ Handle \/ Crash

MailerSpec == MailerInit /\ [][MailerNext]_mailerVars

\* The consumer keeps working; RabbitMQ refills its window while it is busy, so a task
\* that is at the head again and again is delivered; a mail that is tried again and
\* again and that the server does not refuse is accepted some day.
MailerFairSpec ==
  /\ MailerSpec
  /\ WF_mailerVars(Handle)
  /\ \A u \in UserIds : SF_mailerVars(Deliver(u)) /\ SF_mailerVars(SendOk(u))
-----------------------------------------------------------------------------
Occurrences(u, s) == Cardinality({k \in DOMAIN s : s[k] = u})

\* The copies of a user's task that RabbitMQ holds, delivered or not.
Copies(u) ==
  Occurrences(u, queue) + Occurrences(u, buffer) + (IF task = u THEN 1 ELSE 0)

\* Requeues and redeliveries neither lose nor multiply a task: there is at most one
\* copy, and there is one until the user was mailed (or the breaker swallowed it).
OneCopy ==
  \A u \in UserIds :
    /\ Copies(u) <= 1
    /\ u \in arrived /\ mails[u] = 0 /\ u \notin swallowed => Copies(u) = 1

\* Without faults a user gets one mail, and sent_count and the recipients' rows tell
\* who: no user is counted twice, none counted who was not sent (or swallowed).
MailedAndCountedOnce ==
  faults = 0 =>
    /\ \A u \in UserIds :
         /\ mails[u] <= 1
         /\ rows[u].sent <= 1
         /\ rows[u].sent = 1 => mails[u] = 1 \/ u \in swallowed
         /\ u \in arrived /\ Copies(u) = 0 => rows[u].sent = 1
    /\ sentCount <= Cardinality({u \in UserIds : rows[u].sent = 1})

\* Users whose mail is refused are requeued for ever; without faults, and while
\* they are fewer than Prefetch, everybody else is mailed (or swallowed) all the same.
OthersAreMailed ==
  \A u \in UserIds \ Refused :
    u \in arrived ~> mails[u] > 0 \/ u \in swallowed \/ faults > 0
=============================================================================
