----------------------------- MODULE EmailWorker -----------------------------
(***************************************************************************)
(* worker/email_worker.go: the goroutine of the email subscription of one  *)
(* email worker pod.  It takes one message at a time (prefetch 1), sends   *)
(* it through the circuit breaker it shares with the campaign goroutine,   *)
(* and then acknowledges, requeues, retries through the TTL queue or       *)
(* rejects to the dead-letter queue.  The breaker is CircuitBreaker,       *)
(* composed by conjunction of actions.                                     *)
(***************************************************************************)
EXTENDS Broker

CONSTANTS Email,         \* this goroutine, a caller of the breaker
          OtherCallers,  \* the campaign goroutine
          NoCaller, NoTask,
          MaxFailures, OpenDuration

ASSUME GoroutinesAssumption == Email \notin OtherCallers

VARIABLES worker,     \* where HandleMessage is, and the message it holds
          attempts,   \* history: how often an SMTP send was started
          swallowed,  \* history: the breaker returned nil without sending
          \* the breaker
          state, failureCount, cool, holder, pc, ret, smtp, streak, quiet

breaker == <<state, failureCount, cool, holder, pc, ret, smtp, streak, quiet>>
workerVars == <<worker, attempts, swallowed, breaker>>
workerHistory == <<attempts, swallowed>>

Callers == {Email} \cup OtherCallers

B == INSTANCE CircuitBreaker

Idle == [step |-> "idle", task |-> NoTask]

InitWorker ==
  /\ worker = Idle
  /\ attempts = [i \in Ids |-> 0]
  /\ swallowed = {}
  /\ B!Init

At(s) == worker.step = s
Goto(s) == worker' = [worker EXCEPT !.step = s]
Done == worker' = Idle
task == worker.task

Receive ==
  \E m \in Task :
    /\ At("idle")
    /\ Take("email", m)
    /\ worker' = [step |-> "send", task |-> m]
    /\ B!Call(Email)
    /\ NoFault
    /\ UNCHANGED <<status, mails, workerHistory>>

\* ErrCircuitBreakerOpen: back to the queue, not counted as a retry.
CircuitOpen ==
  /\ At("send") /\ B!Reject(Email)
  /\ Requeue("email", task)
  /\ Done
  /\ NoFault
  /\ UNCHANGED <<status, mails, workerHistory>>

\* The breaker turns half-open and returns nil: nothing is sent.
CircuitHalfOpens ==
  /\ At("send") /\ B!HalfOpen(Email)
  /\ swallowed' = swallowed \cup {task.id}
  /\ Goto("sent")
  /\ UNCHANGED <<shared, attempts>>

StartSend ==
  /\ At("send") /\ B!Begin(Email)
  /\ attempts' = [attempts EXCEPT ![task.id] = @ + 1]
  /\ UNCHANGED <<shared, worker, swallowed>>

SendOk ==
  /\ At("send") /\ B!EndOk(Email)
  /\ mails' = [mails EXCEPT ![task.id] = @ + 1]
  /\ Goto("sent")
  /\ UNCHANGED <<queue, status, lost, faults, workerHistory>>

\* The send fails; under a fault the server had stored the mail all the same
\* and only its answer was lost.
SendFails ==
  /\ At("send") /\ B!EndFailed(Email)
  /\ \/ NoFault /\ UNCHANGED mails
     \/ Fault /\ mails' = [mails EXCEPT ![task.id] = @ + 1]
  /\ Goto("failed")
  /\ UNCHANGED <<queue, status, lost, workerHistory>>

\* Status delivering, "Waiting for webhook confirmation"; an error is logged.
MarkDelivering ==
  /\ At("sent")
  /\ \/ UpdateDeliveryStatus(task.id, "delivering") /\ NoFault
     \/ UNCHANGED status /\ Fault
  /\ Goto("ack")
  /\ UNCHANGED <<queue, mails, lost, workerHistory, breaker>>

\* Bug: the retry is published with the count it came with.
NextAttempt_NotCounted(m) == m
NextAttempt(m) == [m EXCEPT !.retryCount = @ + 1]

\* Bug: one retry less than configured.
RetriesLeft_OneEarly(m) == m.retryCount + 1 < MaxRetries
RetriesLeft(m) == m.retryCount < MaxRetries

\* To the retry queue; if the publish fails the message is requeued as it is.
Retry ==
  /\ At("failed") /\ RetriesLeft(task)
  /\ \/ Enqueue("email.retry", NextAttempt(task)) /\ Goto("ack") /\ NoFault
     \/ PublishDropped(task) /\ Goto("ack")
     \/ Requeue("email", task) /\ Done /\ Fault
  /\ UNCHANGED <<status, mails, workerHistory, breaker>>

\* Retries exhausted: status failed (its error is ignored), then the rejection.
MarkFailed ==
  /\ At("failed") /\ ~RetriesLeft(task)
  /\ \/ UpdateDeliveryStatus(task.id, "failed") /\ NoFault
     \/ UNCHANGED status /\ Fault
  /\ Goto("reject")
  /\ UNCHANGED <<queue, mails, lost, workerHistory, breaker>>

Ack ==
  /\ At("ack") /\ Done
  /\ UNCHANGED <<shared, workerHistory, breaker>>

\* Bug: the handler returns nil instead of ErrRejectToDLQ.
RejectToDLQ_Acks ==
  /\ At("reject") /\ Done
  /\ UNCHANGED <<shared, workerHistory, breaker>>

\* Nack(requeue = false): RabbitMQ moves the message to email.dlq.
RejectToDLQ ==
  /\ At("reject") /\ Done
  /\ Enqueue("email.dlq", task)
  /\ UNCHANGED <<status, mails, faults, workerHistory, breaker>>

\* The pod dies: RabbitMQ redelivers the message it held, a new pod starts with a
\* new breaker, and a send under way may or may not have been accepted.
CrashWorker ==
  /\ Fault
  /\ IF At("idle") THEN UNCHANGED <<queue, lost>> ELSE Requeue("email", task)
  /\ Done
  /\ \/ UNCHANGED mails
     \/ pc[Email] = "running" /\ mails' = [mails EXCEPT ![task.id] = @ + 1]
  /\ state' = "closed" /\ failureCount' = 0 /\ cool' = OpenDuration + 1
  /\ holder' = NoCaller
  /\ pc' = [c \in Callers |-> "idle"]
  /\ ret' = [c \in Callers |-> B!NoReturn]
  /\ streak' = 0 /\ quiet' = OpenDuration + 1
  /\ UNCHANGED <<smtp, status, workerHistory>>

\* The message TTL of email.retry ends: RabbitMQ moves its head to email.
RetryExpires ==
  /\ queue["email.retry"] # <<>>
  /\ queue' = [queue EXCEPT !["email.retry"] = Tail(@),
                            !["email"] = Append(@, Head(queue["email.retry"]))]
  /\ UNCHANGED <<status, mails, lost, faults, workerVars>>

\* The campaign goroutine uses the same breaker.
OtherCall ==
  /\ \E c \in OtherCallers : B!Call(c)
  /\ UNCHANGED <<shared, worker, workerHistory>>

OtherReturns ==
  /\ \E c \in OtherCallers : B!Acquire(c) \/ B!End(c)
  /\ UNCHANGED <<shared, worker, workerHistory>>

Time ==
  /\ B!Tick
  /\ UNCHANGED <<shared, worker, workerHistory>>

SmtpChanges ==
  /\ B!SmtpChanges
  /\ UNCHANGED <<shared, worker, workerHistory>>

HandleMessage ==
  \/ Receive \/ CircuitOpen \/ CircuitHalfOpens \/ StartSend \/ SendOk \/ SendFails
  \/ MarkDelivering \/ Retry \/ MarkFailed \/ Ack \/ RejectToDLQ

WorkerNext ==
  HandleMessage \/ CrashWorker \/ RetryExpires \/ OtherCall \/ OtherReturns \/ Time \/ SmtpChanges
=============================================================================
