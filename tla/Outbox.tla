------------------------------- MODULE Outbox --------------------------------
(***************************************************************************)
(* The transactional outbox of the notification service.  The API inserts  *)
(* a notification and its outbox event in one transaction; the pods of the *)
(* outbox worker claim batches of pending events, publish them one by one  *)
(* and record the result, each record in a transaction of its own.  A pod  *)
(* may crash, and a database call may fail, between any two of these.      *)
(***************************************************************************)
EXTENDS Naturals, FiniteSets

CONSTANTS Ids,               \* notification requests; one outbox event each
          Pods,              \* pods of the outbox worker
          BatchSize,         \* cfg.Worker.OutboxBatchSize
          OutboxMaxRetries,  \* cfg.Worker.OutboxMaxRetries
          MaxFaults,         \* bound: crashes and failed database calls
          NoEvent            \* a pod handles no event

Event == [id : Ids, retryCount : Nat]

ASSUME OutboxAssumption ==
  /\ IsFiniteSet(Ids)
  /\ BatchSize \in Nat \ {0}
  /\ OutboxMaxRetries \in Nat \ {0}
  /\ MaxFaults \in Nat
  /\ NoEvent \notin Event

VARIABLES
  notification,  \* status of each notification row, "none" before the insert
  outbox,        \* each outbox row: status and retry_count
  createdAt,     \* created_at of each outbox row, 0 before the insert
  todo,          \* per pod: claimed events not yet handled
  step,          \* per pod: where processBatch is
  now,           \* per pod: the event publishEvent is at
  handed,        \* history: how often broker.Publish returned nil for the event
  refused,       \* history: how often it returned an error
  faults         \* how many faults happened

rows == <<notification, outbox, createdAt>>
pods == <<todo, step, now>>
history == <<handed, refused>>
vars == <<rows, pods, history, faults>>

Init ==
  /\ notification = [i \in Ids |-> "none"]
  /\ outbox = [i \in Ids |-> [status |-> "none", retryCount |-> 0]]
  /\ createdAt = [i \in Ids |-> 0]
  /\ todo = [p \in Pods |-> {}]
  /\ step = [p \in Pods |-> "ready"]
  /\ now = [p \in Pods |-> NoEvent]
  /\ handed = [i \in Ids |-> 0]
  /\ refused = [i \in Ids |-> 0]
  /\ faults = 0

Fault == faults < MaxFaults /\ faults' = faults + 1

\* The API: createWithOutbox commits the notification and its event together.
CreateWithOutbox(i) ==
  /\ outbox[i].status = "none"
  /\ notification' = [notification EXCEPT ![i] = "pending"]
  /\ outbox' = [outbox EXCEPT ![i] = [status |-> "pending", retryCount |-> 0]]
  /\ createdAt' = [createdAt EXCEPT
       ![i] = 1 + Cardinality({j \in Ids : outbox[j].status # "none"})]
  /\ UNCHANGED <<pods, history, faults>>

Pending == {i \in Ids : outbox[i].status = "pending"}

Claimable == Pending

\* The oldest BatchSize pending rows: ORDER BY created_at LIMIT n.
OldestBatch(S) ==
  /\ S \subseteq Claimable /\ S # {}
  /\ Cardinality(S) <= BatchSize
  /\ S # Claimable => Cardinality(S) = BatchSize
  /\ \A i \in S, j \in Claimable \ S : createdAt[i] < createdAt[j]

\* SELECT ... FOR UPDATE SKIP LOCKED and UPDATE status = 'processing', committed.
ClaimRows(S) ==
  /\ OldestBatch(S)
  /\ outbox' = [i \in Ids |->
       IF i \in S THEN [outbox[i] EXCEPT !.status = "processing"] ELSE outbox[i]]
  /\ UNCHANGED <<notification, createdAt>>

Ready(p) == step[p] = "ready" /\ todo[p] = {}

ClaimPendingBatch(p) ==
  \E S \in SUBSET Ids :
    /\ Ready(p)
    /\ ClaimRows(S)
    /\ todo' = [todo EXCEPT
         ![p] = {[id |-> i, retryCount |-> outbox[i].retryCount] : i \in S}]
    /\ UNCHANGED <<step, now, history, faults>>

\* The claim commits but its reply is lost: processBatch logs and returns.
ClaimReplyLost(p) ==
  \E S \in SUBSET Ids :
    /\ Ready(p)
    /\ ClaimRows(S)
    /\ Fault
    /\ UNCHANGED <<pods, history>>

Goto(p, where, e) ==
  /\ step' = [step EXCEPT ![p] = where]
  /\ now' = [now EXCEPT ![p] = e]

\* publishEvent takes the events of the batch in created_at order.
TakeNext(p, e) ==
  /\ step[p] = "ready" /\ e \in todo[p]
  /\ \A f \in todo[p] \ {e} : createdAt[e.id] < createdAt[f.id]
  /\ todo' = [todo EXCEPT ![p] = @ \ {e}]

PublishOk(p) ==
  \E e \in todo[p] :
    /\ TakeNext(p, e)
    /\ handed' = [handed EXCEPT ![e.id] = @ + 1]
    /\ Goto(p, "mark", e)
    /\ UNCHANGED <<rows, refused, faults>>

PublishFails(p) ==
  \E e \in todo[p] :
    /\ TakeNext(p, e)
    /\ refused' = [refused EXCEPT ![e.id] = @ + 1]
    /\ Goto(p, "record", e)
    /\ UNCHANGED <<rows, handed, faults>>

NextEvent(p) == Goto(p, "ready", NoEvent) /\ UNCHANGED <<todo, history>>

MarkPublished(p) ==
  /\ step[p] = "mark"
  /\ outbox' = [outbox EXCEPT ![now[p].id].status = "published"]
  /\ NextEvent(p)
  /\ UNCHANGED <<notification, createdAt, faults>>

\* Bug: the last retry is one short.
Exhausted_OneEarly(e) == e.retryCount + 2 >= OutboxMaxRetries
Exhausted(e) == e.retryCount + 1 >= OutboxMaxRetries

\* Bug: the row is put back without leaving status processing.
IncrementRetry_KeepsProcessing(p) ==
  /\ step[p] = "record" /\ ~Exhausted(now[p])
  /\ outbox' = [outbox EXCEPT ![now[p].id].retryCount = @ + 1]
  /\ NextEvent(p)
  /\ UNCHANGED <<notification, createdAt, faults>>

IncrementRetry(p) ==
  /\ step[p] = "record" /\ ~Exhausted(now[p])
  /\ outbox' = [outbox EXCEPT ![now[p].id] = [status |-> "pending",
                                              retryCount |-> @.retryCount + 1]]
  /\ NextEvent(p)
  /\ UNCHANGED <<notification, createdAt, faults>>

\* Bug: only the outbox row is marked failed.
GiveUp_OutboxOnly(p) ==
  /\ step[p] = "record" /\ Exhausted(now[p])
  /\ outbox' = [outbox EXCEPT ![now[p].id].status = "failed"]
  /\ NextEvent(p)
  /\ UNCHANGED <<notification, createdAt, faults>>

\* MarkFailed and the notification's status failed, in one transaction.
GiveUp(p) ==
  /\ step[p] = "record" /\ Exhausted(now[p])
  /\ outbox' = [outbox EXCEPT ![now[p].id].status = "failed"]
  /\ notification' = [notification EXCEPT ![now[p].id] = "failed"]
  /\ NextEvent(p)
  /\ UNCHANGED <<createdAt, faults>>

\* Bug: a failed MarkPublished puts the row back as pending.
RecordLost_BackToPending(p) ==
  /\ step[p] \in {"mark", "record"}
  /\ outbox' = [outbox EXCEPT ![now[p].id].status = "pending"]
  /\ Fault
  /\ NextEvent(p)
  /\ UNCHANGED <<notification, createdAt>>

\* The database call that records the result fails: logged, and nothing else.
RecordLost(p) ==
  /\ step[p] \in {"mark", "record"}
  /\ Fault
  /\ NextEvent(p)
  /\ UNCHANGED rows

\* A pod dies (or is stopped) and restarts with nothing in memory.
Crash(p) ==
  /\ ~Ready(p)
  /\ Fault
  /\ todo' = [todo EXCEPT ![p] = {}]
  /\ Goto(p, "ready", NoEvent)
  /\ UNCHANGED <<rows, history>>

PodWork(p) ==
  \/ ClaimPendingBatch(p) \/ PublishOk(p) \/ PublishFails(p)
  \/ MarkPublished(p) \/ IncrementRetry(p) \/ GiveUp(p)

PodFault(p) == ClaimReplyLost(p) \/ RecordLost(p) \/ Crash(p)

Next == (\E i \in Ids : CreateWithOutbox(i)) \/ (\E p \in Pods : PodWork(p) \/ PodFault(p))

Spec == Init /\ [][Next]_vars

\* The ticker fires again and again and Kubernetes restarts a dead pod, so every
\* pod keeps working; clients, the broker's errors and faults are not fair.
FairSpec == Spec /\ \A p \in Pods : WF_vars(PodWork(p))
-----------------------------------------------------------------------------
\* The events a pod has claimed and not yet dropped.
Held(p) == todo[p] \cup ({now[p]} \ {NoEvent})

\* The ranges of rows, pods and history; retry_count never reaches the limit.
TypeOK ==
  /\ notification \in [Ids -> {"none", "pending", "failed"}]
  /\ outbox \in [Ids -> [status : {"none", "pending", "processing", "published", "failed"},
                         retryCount : 0..OutboxMaxRetries - 1]]
  /\ createdAt \in [Ids -> Nat]
  /\ todo \in [Pods -> SUBSET Event]
  /\ step \in [Pods -> {"ready", "mark", "record"}]
  /\ now \in [Pods -> Event \cup {NoEvent}]
  /\ handed \in [Ids -> Nat]
  /\ refused \in [Ids -> Nat]
  /\ faults \in 0..MaxFaults

\* ClaimPendingBatch: "multiple worker pods never process the same row".  An
\* event in a pod's memory belongs to no other pod, its row is 'processing', and
\* the retry count read at the claim is still the row's.
OneOwner ==
  \A p \in Pods : \A e \in Held(p) :
    /\ outbox[e.id].status = "processing"
    /\ outbox[e.id].retryCount = e.retryCount
    /\ \A q \in Pods : \A f \in Held(q) : f.id = e.id => q = p /\ f = e

\* publishEvent hands an event to the broker at most once, whatever crashes, and
\* never one that ends 'failed': no two mails from one request, and no mail after
\* the user was told it failed.
HandedAtMostOnce ==
  \A i \in Ids :
    /\ handed[i] <= 1
    /\ outbox[i].status \in {"pending", "failed"} => handed[i] = 0
    /\ outbox[i].status = "published" => handed[i] = 1

\* The worker gives up only after OutboxMaxRetries refused publishes, counted
\* across pods, and the user-visible status is failed exactly then.
GivesUpAfterAllRetries ==
  \A i \in Ids :
    /\ refused[i] <= OutboxMaxRetries
    /\ outbox[i].status = "failed" => refused[i] = OutboxMaxRetries
    /\ outbox[i].status = "failed" <=> notification[i] = "failed"

\* What the history says about a row at each point of its life: while an event
\* waits in a pod's memory the broker has refused it exactly retry_count times and
\* never taken it; a refusal or a hand-over is recorded before the event is dropped.
HistoryMatchesRow ==
  /\ \A i \in Ids :
       /\ outbox[i].status = "none" => handed[i] = 0 /\ refused[i] = 0 /\ outbox[i].retryCount = 0
       /\ outbox[i].status = "pending" => refused[i] = outbox[i].retryCount
       /\ outbox[i].status = "processing" => refused[i] <= outbox[i].retryCount + 1
  /\ \A p \in Pods :
       /\ step[p] = "ready" <=> now[p] = NoEvent
       /\ now[p] \notin todo[p]
       /\ \A e \in todo[p] : handed[e.id] = 0 /\ refused[e.id] = e.retryCount
       /\ step[p] = "mark" => handed[now[p].id] = 1
       /\ step[p] = "record" => /\ handed[now[p].id] = 0
                                /\ refused[now[p].id] = now[p].retryCount + 1

\* A 'processing' row nobody holds: nothing in the code ever resets it.
Stranded == {i \in Ids : outbox[i].status = "processing"
                         /\ \A p \in Pods : \A e \in Held(p) : e.id # i}

\* Rows are stranded by faults alone, a batch at most per fault: the worker's own
\* paths through publishEvent lose none.
OnlyFaultsStrand == Cardinality(Stranded) <= faults * BatchSize

\* The refinement mapping: what the broker and the user can see of a request.
Contract == INSTANCE OutboxContract WITH
  copies <- handed,
  phase <- [i \in Ids |-> IF outbox[i].status = "none" THEN "absent"
                          ELSE IF handed[i] > 0 THEN "handed"
                          ELSE IF notification[i] = "failed" THEN "abandoned"
                          ELSE "accepted"]

\* The outbox implements its contract: at most once, or abandoned and reported.
ImplementsContract == Contract!Spec

\* With no faults every accepted event is published or, after its retries, failed
\* and reported, however the pods' batches interleave.
EveryEventSettles ==
  \A i \in Ids : outbox[i].status = "pending" ~>
                 outbox[i].status \in {"published", "failed"} \/ faults > 0
=============================================================================
