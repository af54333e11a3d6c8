----------------------------- MODULE DeadLetters -----------------------------
(***************************************************************************)
(* worker/dlq_worker.go, which stores rejected messages in dlq_messages,   *)
(* and service/dlq_service.go, the admin's replay: read the row, publish   *)
(* the message, mark the row, reset the notification, each a call that may *)
(* fail and between which another request for the same row may run.        *)
(***************************************************************************)
EXTENDS Broker

CONSTANTS Admins,      \* replay requests that may run at the same time
          MaxReplays,  \* bound: replay requests in a behaviour
          NoHeld       \* the DLQ worker holds no message

ASSUME ReplayAssumption == MaxReplays \in Nat

VARIABLES rows,        \* dlq_messages, in order of insertion
          held,        \* the message stored and not yet acknowledged
          admin,       \* per request: where it is and the index of its row
          replays,     \* replay requests started
          republished  \* history: publishes from each row

deadVars == <<rows, held, admin, replays, republished>>

NoRequest == [step |-> "idle", row |-> 0]

InitDead ==
  /\ rows = <<>>
  /\ held = NoHeld
  /\ admin = [a \in Admins |-> NoRequest]
  /\ replays = 0
  /\ republished = <<>>

\* saveToDLQ inserts a row; a failed insert requeues the message unchanged.
SaveToDLQ ==
  \E m \in Task :
    /\ held = NoHeld
    /\ Take("email.dlq", m)
    /\ rows' = Append(rows, [id |-> m.id, status |-> "pending"])
    /\ republished' = Append(republished, 0)
    /\ held' = m
    /\ UNCHANGED <<status, mails, faults, admin, replays>>

AckDead ==
  /\ held # NoHeld
  /\ held' = NoHeld
  /\ UNCHANGED <<shared, rows, admin, replays, republished>>

\* The pod dies after the insert: the message is stored a second time.
CrashDead ==
  /\ held # NoHeld
  /\ Fault
  /\ Requeue("email.dlq", held)
  /\ held' = NoHeld
  /\ UNCHANGED <<status, mails, rows, admin, replays, republished>>

Step(a, s) == admin' = [admin EXCEPT ![a].step = s]
Finish(a) == admin' = [admin EXCEPT ![a] = NoRequest]
RowOf(a) == admin[a].row
IdOf(a) == rows[RowOf(a)].id

Replayable(k) == rows[k].status # "replayed"

\* GetByID and the check that the message has not been replayed.
LoadRow(a) ==
  \E k \in DOMAIN rows :
    /\ admin[a].step = "idle" /\ replays < MaxReplays
    /\ Replayable(k)
    /\ admin' = [admin EXCEPT ![a] = [step |-> "publish", row |-> k]]
    /\ replays' = replays + 1
    /\ UNCHANGED <<shared, rows, held, republished>>

Fresh(i) == [id |-> i, retryCount |-> 0]

\* Bug: the row is marked although the publish failed.
PublishReplay_IgnoresError(a) ==
  /\ admin[a].step = "publish"
  /\ \/ /\ Enqueue("email", Fresh(IdOf(a))) /\ NoFault
        /\ republished' = [republished EXCEPT ![RowOf(a)] = @ + 1]
     \/ Fault /\ UNCHANGED <<queue, lost, republished>>
  /\ Step(a, "mark")
  /\ UNCHANGED <<status, mails, rows, held, replays>>

\* Publish with RetryCount = 0; an error ends the request.
PublishReplay(a) ==
  /\ admin[a].step = "publish"
  /\ \/ /\ Enqueue("email", Fresh(IdOf(a))) /\ NoFault
        /\ republished' = [republished EXCEPT ![RowOf(a)] = @ + 1]
        /\ Step(a, "mark")
     \/ /\ PublishDropped(Fresh(IdOf(a)))
        /\ republished' = [republished EXCEPT ![RowOf(a)] = @ + 1]
        /\ Step(a, "mark")
     \/ Fault /\ Finish(a) /\ UNCHANGED <<queue, lost, republished>>
  /\ UNCHANGED <<status, mails, rows, held, replays>>

\* UpdateStatus(replayed); an error ends the request.
MarkReplayed(a) ==
  /\ admin[a].step = "mark"
  /\ \/ rows' = [rows EXCEPT ![RowOf(a)].status = "replayed"] /\ Step(a, "reset") /\ NoFault
     \/ UNCHANGED rows /\ Finish(a) /\ Fault
  /\ UNCHANGED <<queue, status, mails, lost, held, replays, republished>>

\* The notification goes back to pending; an error is ignored.
ResetStatus(a) ==
  /\ admin[a].step = "reset"
  /\ Finish(a)
  /\ \/ UpdateDeliveryStatus(IdOf(a), "pending") /\ NoFault
     \/ UNCHANGED status /\ Fault
  /\ UNCHANGED <<queue, mails, lost, rows, held, replays, republished>>

\* The API pod dies in the middle of a request.
CrashApi(a) ==
  /\ admin[a].step # "idle"
  /\ Fault /\ Finish(a)
  /\ UNCHANGED <<queue, status, mails, lost, rows, held, replays, republished>>

DeadWork == SaveToDLQ \/ AckDead
Replay(a) == PublishReplay(a) \/ MarkReplayed(a) \/ ResetStatus(a)

DeadNext == DeadWork \/ CrashDead \/ \E a \in Admins : LoadRow(a) \/ Replay(a) \/ CrashApi(a)
=============================================================================
