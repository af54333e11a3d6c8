---------------------------- MODULE WebhookWorker ----------------------------
(***************************************************************************)
(* The confirmation path.  Mailpit posts one webhook per stored mail; the  *)
(* API publishes it and answers; worker/webhook_worker.go looks the        *)
(* notification up in the mail's headers and sets it to sent.              *)
(***************************************************************************)
EXTENDS Broker

CONSTANT NoHook  \* the webhook worker holds no message

VARIABLES posted,  \* how many webhooks Mailpit has posted per notification
          hook     \* the message applied and not yet acknowledged

webhookVars == <<posted, hook>>

InitWebhook ==
  /\ posted = [i \in Ids |-> 0]
  /\ hook = NoHook

\* Mailpit calls the API, which publishes the webhook.  Mailpit does not repeat a
\* call that failed, so an error of Publish loses the webhook as a drop does.
PostWebhook(i) ==
  /\ posted[i] < mails[i]
  /\ posted' = [posted EXCEPT ![i] = @ + 1]
  /\ LET m == [id |-> i, retryCount |-> 0] IN
       \/ Enqueue("webhook_mailpit", m) /\ NoFault
       \/ UNCHANGED <<queue, lost>> /\ Fault
  /\ UNCHANGED <<status, mails, hook>>

\* HandleMailpitWebhook: status sent, sent_at = now.  A failed header request or
\* update requeues the message, which leaves everything as it was.
HandleWebhook ==
  \E m \in Task :
    /\ hook = NoHook
    /\ Take("webhook_mailpit", m)
    /\ UpdateDeliveryStatus(m.id, "sent")
    /\ hook' = m
    /\ NoFault
    /\ UNCHANGED <<mails, posted>>

AckWebhook ==
  /\ hook # NoHook
  /\ hook' = NoHook
  /\ UNCHANGED <<shared, posted>>

\* The pod dies before the acknowledgement: the webhook is applied again.
CrashWebhook ==
  /\ hook # NoHook
  /\ Fault
  /\ Requeue("webhook_mailpit", hook)
  /\ hook' = NoHook
  /\ UNCHANGED <<status, mails, posted>>

WebhookWork == HandleWebhook \/ AckWebhook

WebhookNext == (\E i \in Ids : PostWebhook(i)) \/ WebhookWork \/ CrashWebhook
=============================================================================
