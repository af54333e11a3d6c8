--------------------------- MODULE CampaignDispatch ---------------------------
(***************************************************************************)
(* worker/campaign_worker.go: the pods of the campaign worker dispatch one *)
(* campaign.  A pod claims it, counts the users, and then pages through    *)
(* the identity service's stream of users in the order of their ids,       *)
(* publishing a task for each and saving the cursor after every batch.     *)
(* Users register and are deleted meanwhile.  The stream, a batch and what *)
(* is left of it are sets of ids, always taken from the smallest.          *)
(***************************************************************************)
EXTENDS Naturals, FiniteSets

CONSTANTS UserIds,     \* user ids, ordered as the UUIDs are; 0 is the empty cursor
          Pods,        \* pods of the campaign worker
          BatchSize,   \* cfg.Worker.CampaignBatchSize
          QueueLimit,  \* x-max-length of campaign.email
          MaxFaults    \* bound: shutdowns, failed calls, dropped publishes

ASSUME CampaignAssumption ==
  /\ UserIds \subseteq Nat \ {0}
  /\ IsFiniteSet(UserIds)
  /\ BatchSize \in Nat \ {0}
  /\ QueueLimit \in Nat
  /\ MaxFaults \in Nat

VARIABLES
  status,      \* campaigns.status
  saved,       \* campaigns.last_dispatched_cursor
  dispatched,  \* campaigns.dispatched_count
  total,       \* campaigns.total_recipients
  user,        \* the identity service's table: each user's life
  depth,       \* messages ready in campaign.email
  step,        \* per pod: where dispatchCampaign is
  batch,       \* per pod: the users collected for the next batch
  todo,        \* per pod: those of the batch not yet published
  wire,        \* per pod: users the server has streamed and the pod not received
  sent,        \* per pod: the server's cursor
  ended,       \* per pod: whether the server has closed the stream
  published,   \* history: how often Publish returned nil for a user's task
  audience,    \* history: the users there were when the campaign was claimed
  faults       \* how many faults happened

campaign == <<status, saved, dispatched, total>>
pods == <<step, batch, todo>>
stream == <<wire, sent, ended>>
history == <<published, audience>>
vars == <<campaign, user, depth, pods, stream, history, faults>>

Live == {u \in UserIds : user[u] = "live"}

Init ==
  /\ status = "pending" /\ saved = 0 /\ dispatched = 0 /\ total = 0
  /\ user \in [UserIds -> {"absent", "live"}]
  /\ depth = 0
  /\ step = [p \in Pods |-> "idle"]
  /\ batch = [p \in Pods |-> {}]
  /\ todo = [p \in Pods |-> {}]
  /\ wire = [p \in Pods |-> {}]
  /\ sent = [p \in Pods |-> 0]
  /\ ended = [p \in Pods |-> "no"]
  /\ published = [u \in UserIds |-> 0]
  /\ audience = {}
  /\ faults = 0

Fault == faults < MaxFaults /\ faults' = faults + 1
NoFault == UNCHANGED faults

Goto(p, s) == step' = [step EXCEPT ![p] = s]

Claimable == status = "pending"

\* SELECT ... FOR UPDATE SKIP LOCKED and status dispatching, committed; the reply
\* may be lost, and then the pod just logs.
ClaimPendingCampaign(p) ==
  /\ step[p] = "idle"
  /\ Claimable
  /\ status' = "dispatching"
  /\ audience' = Live
  /\ \/ Goto(p, "count") /\ NoFault
     \/ UNCHANGED step /\ Fault
  /\ UNCHANGED <<saved, dispatched, total, user, depth, batch, todo, stream, published>>

\* CountUsers and SetTotalRecipients (its error is only a warning), then the
\* stream is opened at the saved cursor.  An error of CountUsers fails the campaign.
CountUsers(p) ==
  /\ step[p] = "count"
  /\ \/ total' = Cardinality(Live) /\ Goto(p, "receive") /\ NoFault
     \/ UNCHANGED total /\ Goto(p, "receive") /\ Fault
     \/ UNCHANGED total /\ Goto(p, "fail") /\ Fault
  /\ batch' = [batch EXCEPT ![p] = {}]
  /\ wire' = [wire EXCEPT ![p] = {}]
  /\ sent' = [sent EXCEPT ![p] = saved]
  /\ ended' = [ended EXCEPT ![p] = "no"]
  /\ UNCHANGED <<status, saved, dispatched, user, depth, todo, history>>

\* Bug: the page is taken without ORDER BY.
FirstPage_Unordered(P, S) ==
  /\ P \subseteq S
  /\ Cardinality(P) <= BatchSize
  /\ P # S => Cardinality(P) = BatchSize

\* ORDER BY id ASC LIMIT BatchSize over the users S.
FirstPage(P, S) ==
  /\ P \subseteq S
  /\ Cardinality(P) <= BatchSize
  /\ P # S => Cardinality(P) = BatchSize
  /\ \A u \in P, v \in S \ P : u < v

\* user_service_server.go StreamUsers: one page of users with id > cursor; the
\* stream ends after a page that is not full.
StreamPage(p) ==
  \E P \in SUBSET UserIds :
    /\ step[p] \in {"receive", "publish", "checkpoint"}
    /\ ended[p] = "no"
    /\ FirstPage(P, {u \in Live : u > sent[p]})
    /\ wire' = [wire EXCEPT ![p] = @ \cup P]
    /\ \/ P = {} /\ UNCHANGED sent
       \/ \E u \in P : (\A v \in P : v <= u) /\ sent' = [sent EXCEPT ![p] = u]
    /\ ended' = [ended EXCEPT ![p] = IF Cardinality(P) < BatchSize THEN "yes" ELSE "no"]
    /\ UNCHANGED <<campaign, user, depth, pods, history, faults>>

\* The callback of StreamUsers collects a record; a full batch is flushed.
Receive(p) ==
  \E u \in wire[p] :
    /\ step[p] = "receive"
    /\ \A v \in wire[p] : u <= v
    /\ wire' = [wire EXCEPT ![p] = @ \ {u}]
    /\ batch' = [batch EXCEPT ![p] = @ \cup {u}]
    /\ IF Cardinality(batch[p] \cup {u}) < BatchSize
       THEN UNCHANGED <<step, todo>>
       ELSE Goto(p, "publish") /\ todo' = [todo EXCEPT ![p] = batch'[p]]
    /\ UNCHANGED <<campaign, user, depth, sent, ended, history, faults>>

\* Bug: the end of the stream is only noticed between two batches.
StreamEnds_NeedsEmptyBatch(p) ==
  /\ step[p] = "receive" /\ ended[p] = "yes" /\ wire[p] = {} /\ batch[p] = {}
  /\ Goto(p, "complete")
  /\ UNCHANGED <<campaign, user, depth, batch, todo, stream, history, faults>>

\* The stream is over: the remaining partial batch is flushed, if there is one.
StreamEnds(p) ==
  /\ step[p] = "receive" /\ ended[p] = "yes" /\ wire[p] = {}
  /\ IF batch[p] = {} THEN Goto(p, "complete") ELSE Goto(p, "publish")
  /\ todo' = [todo EXCEPT ![p] = batch[p]]
  /\ UNCHANGED <<campaign, user, depth, batch, stream, history, faults>>

\* The server or the connection fails.
StreamBreaks(p) ==
  /\ step[p] = "receive"
  /\ Fault
  /\ Goto(p, "fail")
  /\ UNCHANGED <<campaign, user, depth, batch, todo, stream, history>>

\* tryPublishBatch: the next task.  Publish returns nil also when the queue is full
\* (reject-publish shows only in confirms, which are off) or the message is lost.
PublishTask(p) ==
  \E u \in todo[p] :
    /\ step[p] = "publish"
    /\ \A v \in todo[p] : u <= v
    /\ todo' = [todo EXCEPT ![p] = @ \ {u}]
    /\ IF todo'[p] = {} THEN Goto(p, "checkpoint") ELSE UNCHANGED step
    /\ published' = [published EXCEPT ![u] = @ + 1]
    /\ \/ /\ depth < QueueLimit
          /\ depth' = depth + 1
          /\ NoFault
       \/ /\ \/ depth >= QueueLimit /\ NoFault
             \/ depth < QueueLimit /\ Fault
          /\ UNCHANGED depth
    /\ UNCHANGED <<campaign, user, batch, stream, audience>>

\* Bug: a batch that could not be published whole is checkpointed like any other.
PublishFails_StillCheckpoints(p) ==
  /\ step[p] = "publish"
  /\ Fault
  /\ Goto(p, "checkpoint")
  /\ UNCHANGED <<campaign, user, depth, batch, todo, stream, history>>

\* Publish returns an error (never ErrQueueFull): the campaign fails.
PublishFails(p) ==
  /\ step[p] = "publish"
  /\ Fault
  /\ Goto(p, "fail")
  /\ UNCHANGED <<campaign, user, depth, batch, todo, stream, history>>

\* Where dispatchCampaign goes after flushing batch B: a full batch was flushed in
\* the callback and the stream goes on; a partial one was the last.
AfterFlush(B) == IF Cardinality(B) = BatchSize THEN "receive" ELSE "complete"

\* Bug: the batch is not emptied after it was flushed.
CheckpointDispatch_KeepsBatch(p) ==
  /\ step[p] = "checkpoint"
  /\ \E u \in batch[p] : (\A v \in batch[p] : v <= u) /\ saved' = u
  /\ dispatched' = dispatched + Cardinality(batch[p])
  /\ Goto(p, AfterFlush(batch[p]))
  /\ UNCHANGED <<status, total, user, depth, batch, todo, stream, history, faults>>

\* CheckpointDispatch, whose error is only a warning; then the batch is emptied.
CheckpointDispatch(p) ==
  /\ step[p] = "checkpoint"
  /\ \/ /\ \E u \in batch[p] : (\A v \in batch[p] : v <= u) /\ saved' = u
        /\ dispatched' = dispatched + Cardinality(batch[p])
        /\ NoFault
     \/ UNCHANGED <<saved, dispatched>> /\ Fault
  /\ batch' = [batch EXCEPT ![p] = {}]
  /\ Goto(p, AfterFlush(batch[p]))
  /\ UNCHANGED <<status, total, user, depth, todo, stream, history>>

\* MarkCampaignStatus; its error is ignored.
Finish(p, at, s) ==
  /\ step[p] = at
  /\ \/ status' = s /\ NoFault
     \/ UNCHANGED status /\ Fault
  /\ Goto(p, "idle")
  /\ UNCHANGED <<saved, dispatched, total, user, depth, batch, todo, stream, history>>

MarkFailed(p) == Finish(p, "fail", "failed")
MarkCompleted(p) == Finish(p, "complete", "completed")

\* The pod is stopped or dies: nothing is written (a cancelled context fails every
\* call), the status stays dispatching "so the next pod can resume".
Shutdown(p) ==
  /\ step[p] # "idle"
  /\ Fault
  /\ Goto(p, "idle")
  /\ UNCHANGED <<campaign, user, depth, batch, todo, stream, history>>

\* The identity service registers and deletes users; the email workers take tasks.
Register(u) ==
  /\ user[u] = "absent" /\ user' = [user EXCEPT ![u] = "live"]
  /\ UNCHANGED <<campaign, depth, pods, stream, history, faults>>

Delete(u) ==
  /\ user[u] = "live" /\ user' = [user EXCEPT ![u] = "deleted"]
  /\ UNCHANGED <<campaign, depth, pods, stream, history, faults>>

TaskTaken ==
  /\ depth > 0 /\ depth' = depth - 1
  /\ UNCHANGED <<campaign, user, pods, stream, history, faults>>

PodWork(p) ==
  \/ ClaimPendingCampaign(p) \/ CountUsers(p)
  \/ Receive(p) \/ StreamEnds(p) \/ PublishTask(p) \/ CheckpointDispatch(p)
  \/ MarkFailed(p) \/ MarkCompleted(p)

PodFault(p) == StreamBreaks(p) \/ PublishFails(p) \/ Shutdown(p)

Next ==
  \/ \E p \in Pods : PodWork(p) \/ StreamPage(p) \/ PodFault(p)
  \/ \E u \in UserIds : Register(u) \/ Delete(u)
  \/ TaskTaken

Spec == Init /\ [][Next]_vars

\* Tickers keep firing and dead pods are restarted; an open stream is served.
FairSpec == Spec /\ \A p \in Pods : WF_vars(PodWork(p)) /\ WF_vars(StreamPage(p))
-----------------------------------------------------------------------------
\* The users the campaign is for: live since it was claimed.
Recipients == audience \cap Live

Published == {u \in UserIds : published[u] > 0}

CampaignOK ==
  /\ status \in {"pending", "dispatching", "completed", "failed"}
  /\ saved \in UserIds \cup {0}
  /\ dispatched \in Nat /\ total \in Nat

UsersOK ==
  /\ user \in [UserIds -> {"absent", "live", "deleted"}]
  /\ published \in [UserIds -> Nat]
  /\ audience \subseteq UserIds

PodsOK ==
  /\ step \in [Pods -> {"idle", "count", "receive", "publish", "checkpoint",
                        "fail", "complete"}]
  /\ batch \in [Pods -> SUBSET UserIds]
  /\ todo \in [Pods -> SUBSET UserIds]

StreamOK ==
  /\ wire \in [Pods -> SUBSET UserIds]
  /\ sent \in [Pods -> UserIds \cup {0}]
  /\ ended \in [Pods -> {"yes", "no"}]

BoundsOK == depth \in 0..QueueLimit /\ faults \in 0..MaxFaults

\* Everything stays in its range; in particular the cursor is the id of a user.
TypeOK == CampaignOK /\ UsersOK /\ PodsOK /\ StreamOK /\ BoundsOK

\* ClaimPendingCampaign: "multiple pods never race".  One pod dispatches the
\* campaign, and only while the table says dispatching.
OneDispatcher ==
  \A p \in Pods : step[p] # "idle" =>
    /\ status = "dispatching"
    /\ \A q \in Pods : step[q] # "idle" => q = p

\* No user gets two tasks, whatever fails and whoever registers or leaves.
PublishedOnce == \A u \in UserIds : published[u] <= 1

\* A completed campaign has published a task for everyone who was a user from its
\* claim to its end: paging, a last partial batch and new users skip nobody.
CompletedSkipsNobody ==
  status = "completed" => \A u \in Recipients : published[u] > 0

\* The saved cursor can be resumed from: nobody up to it is without a task.
CheckpointIsSafe == \A u \in Recipients : u <= saved => published[u] > 0

\* Without faults every campaign is dispatched to its end.
CampaignSettles == status = "pending" ~> status = "completed" \/ faults > 0
=============================================================================
