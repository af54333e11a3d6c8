---------------------------- MODULE EmailPipeline ----------------------------
(***************************************************************************)
(* The email pipeline behind the outbox: the email worker with its circuit *)
(* breaker and retry queue, the webhook worker, the DLQ worker and the     *)
(* admin's replay, on shared queues and one notifications table.           *)
(***************************************************************************)
EXTENDS EmailWorker, WebhookWorker, DeadLetters, FiniteSets

VARIABLE arrived  \* notifications the outbox has handed to the broker

vars == <<shared, workerVars, webhookVars, deadVars, arrived>>

Init == InitShared /\ InitWorker /\ InitWebhook /\ InitDead /\ arrived = {}

\* The outbox publishes an event: once for each notification (module Outbox).
HandOver(i) ==
  /\ i \notin arrived
  /\ arrived' = arrived \cup {i}
  /\ status' = [status EXCEPT ![i] = "pending"]
  /\ Enqueue("email", Fresh(i))
  /\ UNCHANGED <<mails, faults, workerVars, webhookVars, deadVars>>

Next ==
  \/ \E i \in Ids : HandOver(i)
  \/ WorkerNext /\ UNCHANGED <<webhookVars, deadVars, arrived>>
  \/ WebhookNext /\ UNCHANGED <<workerVars, deadVars, arrived>>
  \/ DeadNext /\ UNCHANGED <<workerVars, webhookVars, arrived>>

Spec == Init /\ [][Next]_vars

\* Subscribed goroutines keep consuming and dead pods are restarted, the mail
\* server answers every send (with success or failure), message TTLs and the
\* breaker's clock run.  Campaigns, clients, admins, Mailpit and faults are not fair.
Fairness ==
  /\ WF_vars(HandleMessage /\ UNCHANGED <<webhookVars, deadVars, arrived>>)
  /\ WF_vars(RetryExpires /\ UNCHANGED <<webhookVars, deadVars, arrived>>)
  /\ WF_vars(Time /\ UNCHANGED <<webhookVars, deadVars, arrived>>)
  /\ WF_vars(OtherReturns /\ UNCHANGED <<webhookVars, deadVars, arrived>>)
  /\ WF_vars(WebhookWork /\ UNCHANGED <<workerVars, deadVars, arrived>>)
  /\ WF_vars(DeadWork /\ UNCHANGED <<workerVars, webhookVars, arrived>>)

FairSpec == Spec /\ Fairness
-----------------------------------------------------------------------------
Messages(q, i) == {k \in DOMAIN queue[q] : queue[q][k].id = i}

\* Copies of a notification that are still to be handled or parked for replay.
Moving(i) ==
  \/ \E q \in {"email", "email.retry", "email.dlq"} : Messages(q, i) # {}
  \/ worker # Idle /\ task.id = i
Parked(i) == {k \in DOMAIN rows : rows[k].id = i}
\* HandleMessage, the DLQ and the replay lose no message whatever crashes between
\* their calls: a notification that was handed over and not mailed still has a
\* copy in a queue, in the worker's hand or in dlq_messages, unless a publish was
\* dropped without an error or the breaker swallowed its half-open probe.
NoSilentLoss ==
  \A i \in arrived :
    \/ mails[i] > 0 \/ Moving(i) \/ Parked(i) # {} \/ i \in lost \cup swallowed

\* A notification is sent at most MaxRetries + 1 times for its hand-over, and as
\* often again for each replay and each crash or failed publish: retries do not
\* multiply, and no retry restarts its own count.
AttemptsBounded ==
  \A i \in Ids : attempts[i] <= (MaxRetries + 1) * (1 + replays + faults)

\* The status tells the truth: "sent" means a stored mail, "delivering" that a
\* send succeeded (or was swallowed), "failed" that all attempts were used.
StatusIsEarned ==
  \A i \in Ids :
    /\ status[i] = "sent" => mails[i] > 0
    /\ status[i] = "delivering" => mails[i] > 0 \/ i \in swallowed
    /\ status[i] = "failed" => attempts[i] > MaxRetries

\* Without faults and replays every notification that came to rest has exactly
\* one outcome: one mail (or a swallowed probe) and no row in dlq_messages, or
\* status failed, no mail and one row.
OneOutcome ==
  replays = 0 /\ faults = 0 => \A i \in arrived : ~Moving(i) =>
    \/ /\ status[i] \in {"delivering", "sent"}
       /\ mails[i] + Cardinality({i} \cap swallowed) = 1
       /\ Parked(i) = {}
    \/ /\ status[i] = "failed"
       /\ mails[i] = 0 /\ i \notin swallowed
       /\ Cardinality(Parked(i)) = 1

\* A row is marked replayed only after its message was published again: a replay
\* that fails half way can be repeated, never forgotten.
ReplayedWasPublished ==
  \A k \in DOMAIN rows : rows[k].status = "replayed" => republished[k] > 0

\* Every notification handed over comes to rest: mailed, swallowed, dropped by the
\* broker, or stored in dlq_messages.  No message circulates for ever between the
\* email queue, the open breaker and the retry queue.  The campaign goroutine sends
\* through the same breaker (email_worker.go:84): it may take any slot it wants, but
\* once it has no more campaign mails to send it cannot have left the breaker in a
\* state the email subscription never gets out of.
ComesToRest ==
  <>[](\A c \in OtherCallers : pc[c] = "idle") =>
    \A i \in Ids : i \in arrived ~>
      mails[i] > 0 \/ i \in swallowed \cup lost \/ Parked(i) # {}
=============================================================================
