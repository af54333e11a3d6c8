------------------------------- MODULE Broker --------------------------------
(***************************************************************************)
(* What the workers of the email pipeline share: the RabbitMQ queues as    *)
(* pkg/broker/rabbitmq.go uses them, the notifications table, the mails    *)
(* Mailpit has stored, and the budget of faults a behaviour may contain.   *)
(* A message that a consumer holds unacknowledged is in that consumer's    *)
(* state, not in the queue; it returns to the head when it is requeued.    *)
(***************************************************************************)
EXTENDS Naturals, Sequences

CONSTANTS Ids,         \* notifications
          MaxRetries,  \* cfg.Worker.MaxRetries
          MaxFaults    \* bound: crashes, failed calls and dropped publishes

ASSUME BrokerAssumption == MaxRetries \in Nat /\ MaxFaults \in Nat

Task == [id : Ids, retryCount : 0..MaxRetries]

Queues == {"email", "email.retry", "email.dlq", "webhook_mailpit"}

VARIABLES queue,   \* the messages ready in each queue
          status,  \* notifications.status
          mails,   \* how many mails of each notification Mailpit has stored
          lost,    \* history: a publish for it returned nil and was dropped
          faults   \* how many faults happened

shared == <<queue, status, mails, lost, faults>>

InitShared ==
  /\ queue = [q \in Queues |-> <<>>]
  /\ status = [i \in Ids |-> "none"]
  /\ mails = [i \in Ids |-> 0]
  /\ lost = {}
  /\ faults = 0

Fault == faults < MaxFaults /\ faults' = faults + 1
NoFault == UNCHANGED faults

\* Publish reaches the queue bound to the routing key.
Enqueue(q, m) == queue' = [queue EXCEPT ![q] = Append(@, m)] /\ UNCHANGED lost

\* Publish returns nil, but the connection breaks before the broker has the
\* message (no confirms) or no queue is bound (mandatory = false).
PublishDropped(m) == Fault /\ lost' = lost \cup {m.id} /\ UNCHANGED queue

\* handleMessages receives the head of a queue.
Take(q, m) ==
  /\ queue[q] # <<>>
  /\ m = Head(queue[q])
  /\ queue' = [queue EXCEPT ![q] = Tail(@)]
  /\ UNCHANGED lost

\* Bug: the message is acknowledged instead.
Requeue_Acks(q, m) == UNCHANGED <<queue, lost>>

\* Nack(requeue = true), or the channel closes with the message unacknowledged.
Requeue(q, m) == queue' = [queue EXCEPT ![q] = <<m>> \o @] /\ UNCHANGED lost

\* UPDATE notifications SET status = s WHERE id = i: no condition on the old
\* status.  sent_at follows the status: set with "sent", NULL otherwise.
UpdateDeliveryStatus(i, s) == status' = [status EXCEPT ![i] = s]
=============================================================================
