------------------------------ MODULE Scheduler ------------------------------
(***************************************************************************)
(* Daily reminders: service/scheduler_service.go, worker/scheduler_worker  *)
(* .go, repository/schedule_repository.go and the schedule handlers.  Each *)
(* slot is one (user_id, event_type), which the table holds at most once.  *)
(* Time is a UTC clock of Day ticks; a run of the worker (every 60 s) is   *)
(* short against a tick.  Stored times are ages in ticks: Day stands for a *)
(* day or more ago and for NULL, which the code treats alike.              *)
(***************************************************************************)
EXTENDS Naturals

CONSTANTS Slots,      \* the (user_id, event_type) pairs users schedule
          Pods,       \* the scheduler pods: one, two while a rollout overlaps
          Day,        \* ticks in a day
          Window,     \* 20 hours, in ticks: FindDueCandidates
          SendTimes,  \* the send_time values, in ticks after local midnight
          Zones,      \* the time zones, as ticks ahead of UTC
          MaxEdits, MaxFaults

ASSUME SchedulerAssumption ==
  /\ Day \in Nat /\ Window \in Nat /\ Window < Day
  /\ SendTimes \subseteq 0..(Day - 1) /\ Zones \subseteq 0..(Day - 1)
  /\ MaxEdits \in Nat /\ MaxFaults \in Nat

VARIABLES
  wired,       \* the notification service has its outbox repository
  clock,       \* UTC time of day
  rows,        \* the table user_notification_schedules
  pc,          \* what each pod is doing
  batch,       \* the candidates it read
  todo,        \* those of them that are due and not yet handled
  current,     \* the slot whose last_sent_at it is about to write
  scanned,     \* a run has ended, well or badly, in this tick
  edits, faults,
  sent,        \* history: ticks since the slot's last notification
  unrecorded,  \* history: slots whose last notification left no last_sent_at
  alone,       \* history: no other pod has run since this one read its batch
  disturbed    \* history: slots edited, or met by a fault, in this tick

podVars == <<pc, batch, todo, current, alone>>
vars == <<wired, clock, rows, podVars, scanned, edits, faults, sent, unrecorded, disturbed>>

\* enabled is the column's default: a slot without a row has no last_sent_at
\* and no recipient.
NoRow == [id |-> 0, at |-> 0, zone |-> 0, recipient |-> FALSE, enabled |-> TRUE, last |-> Day]
Exists(s) == rows[s].id # 0

Running(p) == pc[p] \in {"creating", "recording"}
Up(p) == pc[p] # "down"
LocalTime(zone) == (clock + zone) % Day
Older(age) == IF age < Day THEN age + 1 ELSE Day
Fault == faults < MaxFaults /\ faults' = faults + 1

Init ==
  /\ wired \in BOOLEAN
  /\ clock = 0
  /\ rows = [s \in Slots |-> NoRow]
  /\ \E p \in Pods : pc = [q \in Pods |-> IF q = p THEN "waiting" ELSE "down"]
  /\ batch = [p \in Pods |-> [s \in Slots |-> NoRow]]
  /\ todo = [p \in Pods |-> {}]
  /\ current = [p \in Pods |-> {}]
  /\ scanned = FALSE
  /\ edits = 0 /\ faults = 0
  /\ sent = [s \in Slots |-> Day]
  /\ unrecorded = {}
  /\ alone = [p \in Pods |-> TRUE]
  /\ disturbed = {}

-----------------------------------------------------------------------------
(* Users: PUT and DELETE /users/:id/notification-schedules *)

Edited(s) ==
  /\ edits < MaxEdits /\ edits' = edits + 1
  /\ disturbed' = disturbed \cup {s}

\* Zero values never reach the row: gorm's Assign skips them on an update, and
\* the column default replaces them on a create.
StoredEnabled(row, asked) == asked \/ row.enabled
StoredRecipient(row, payload) ==
  payload = "recipient" \/ (payload = "absent" /\ row.recipient)

UpsertSchedule(s) ==
  \E at \in SendTimes, zone \in Zones, enabled \in BOOLEAN,
     payload \in {"absent", "recipient", "other"} :
    /\ Edited(s)
    /\ rows' = [rows EXCEPT ![s] =
         [id |-> IF Exists(s) THEN @.id ELSE edits + 1, at |-> at, zone |-> zone,
          recipient |-> StoredRecipient(@, payload),
          enabled |-> StoredEnabled(@, enabled), last |-> @.last]]
    /\ UNCHANGED <<wired, clock, podVars, scanned, faults, sent, unrecorded>>

\* A hard delete: a schedule created again has no last_sent_at.
DeleteSchedule(s) ==
  /\ Exists(s)
  /\ Edited(s)
  /\ rows' = [rows EXCEPT ![s] = NoRow]
  /\ unrecorded' = unrecorded \cup {s}
  /\ UNCHANGED <<wired, clock, podVars, scanned, faults, sent>>

-----------------------------------------------------------------------------
(* The worker *)

\* enabled = true AND (last_sent_at IS NULL OR last_sent_at < now - 20 h).
Candidate(row) == row.id # 0 /\ row.enabled /\ row.last > Window

\* Bug: the time of day alone decides, so the window is the only guard.
IsDue_NoSameDay(row) == LocalTime(row.zone) >= row.at
\* Bug: a schedule is due only at its send time.
IsDue_ExactTime(row) ==
  /\ LocalTime(row.zone) = row.at
  /\ row.last > LocalTime(row.zone)
\* The local send time has passed and last_sent_at is not of this local day.
IsDue(row) ==
  /\ LocalTime(row.zone) >= row.at
  /\ row.last > LocalTime(row.zone)

\* Ending a run, or dying in it, forgets what was read.
Forget(p) ==
  /\ batch' = [batch EXCEPT ![p] = [s \in Slots |-> NoRow]]
  /\ todo' = [todo EXCEPT ![p] = {}]
  /\ current' = [current EXCEPT ![p] = {}]

\* ProcessDueSchedules reads the candidates and one template per event type;
\* a slot whose template cannot be read is skipped in this run.
Scan(p) == \E missing \in SUBSET Slots :
  LET due == {s \in Slots : Candidate(rows[s]) /\ IsDue(rows[s])}
  IN /\ pc[p] = "waiting"
     /\ missing \subseteq due
     /\ IF missing = {} THEN UNCHANGED <<faults, disturbed>>
                        ELSE Fault /\ disturbed' = Slots
     /\ pc' = [pc EXCEPT ![p] = "creating"]
     /\ batch' = [batch EXCEPT ![p] = [s \in Slots |-> IF s \in due THEN rows[s] ELSE NoRow]]
     /\ todo' = [todo EXCEPT ![p] = due \ missing]
     /\ alone' = [q \in Pods |-> IF q = p THEN \A r \in Pods \ {p} : ~Running(r) ELSE FALSE]
     /\ UNCHANGED <<wired, clock, rows, current, scanned, edits, sent, unrecorded>>

\* FindDueCandidates failed: the error is logged and the next tick tries again.
ScanFails(p) ==
  /\ pc[p] = "waiting"
  /\ Fault /\ disturbed' = Slots
  /\ scanned' = TRUE
  /\ UNCHANGED <<wired, clock, rows, podVars, edits, sent, unrecorded>>

Handled(p, s) == todo' = [todo EXCEPT ![p] = @ \ {s}]

\* No recipient in the payload: an error, logged, and on to the next schedule.
Skip(p, s) ==
  /\ pc[p] = "creating" /\ s \in todo[p] /\ ~batch[p][s].recipient
  /\ Handled(p, s)
  /\ UNCHANGED <<wired, clock, rows, pc, batch, current, alone, scanned, edits, faults,
                 sent, unrecorded, disturbed>>

CreateFails(p, s) ==
  /\ pc[p] = "creating" /\ s \in todo[p] /\ batch[p][s].recipient
  /\ Fault /\ disturbed' = Slots
  /\ Handled(p, s)
  /\ UNCHANGED <<wired, clock, rows, pc, batch, current, alone, scanned, edits, sent, unrecorded>>

\* The notification and its outbox event are committed.
Create(p, s) ==
  /\ wired
  /\ pc[p] = "creating" /\ s \in todo[p] /\ batch[p][s].recipient
  /\ pc' = [pc EXCEPT ![p] = "recording"]
  /\ current' = [current EXCEPT ![p] = {s}]
  /\ Handled(p, s)
  /\ sent' = [sent EXCEPT ![s] = 0]
  /\ unrecorded' = unrecorded \cup {s}
  /\ UNCHANGED <<wired, clock, rows, batch, alone, scanned, edits, faults, disturbed>>

\* Without an outbox repository the transaction panics on the nil interface
\* and is rolled back: the process ends.
Panic(p, s) ==
  /\ ~wired
  /\ pc[p] = "creating" /\ s \in todo[p] /\ batch[p][s].recipient
  /\ pc' = [pc EXCEPT ![p] = "down"]
  /\ Forget(p)
  /\ scanned' = TRUE
  /\ UNCHANGED <<wired, clock, rows, alone, edits, faults, sent, unrecorded, disturbed>>

Recorded(p) == /\ pc' = [pc EXCEPT ![p] = "creating"]
               /\ current' = [current EXCEPT ![p] = {}]

\* UpdateLastSentAt: WHERE id = ?, so a row deleted meanwhile is not touched.
Record(p) == \E s \in current[p] :
  /\ pc[p] = "recording"
  /\ Recorded(p)
  /\ IF rows[s].id = batch[p][s].id
     THEN rows' = [rows EXCEPT ![s].last = 0] /\ unrecorded' = unrecorded \ {s}
     ELSE UNCHANGED <<rows, unrecorded>>
  /\ UNCHANGED <<wired, clock, batch, todo, alone, scanned, edits, faults, sent, disturbed>>

\* The error is logged; the notification stays.
RecordFails(p) ==
  /\ pc[p] = "recording"
  /\ Fault /\ disturbed' = Slots
  /\ Recorded(p)
  /\ UNCHANGED <<wired, clock, rows, batch, todo, alone, scanned, edits, sent, unrecorded>>

Finish(p) ==
  /\ pc[p] = "creating" /\ todo[p] = {}
  /\ pc' = [pc EXCEPT ![p] = "waiting"]
  /\ Forget(p)
  /\ scanned' = TRUE
  /\ UNCHANGED <<wired, clock, rows, alone, edits, faults, sent, unrecorded, disturbed>>

-----------------------------------------------------------------------------
(* Pods and time *)

Crash(p) ==
  /\ Up(p)
  /\ Fault /\ disturbed' = Slots
  /\ pc' = [pc EXCEPT ![p] = "down"]
  /\ Forget(p)
  /\ scanned' = TRUE
  /\ UNCHANGED <<wired, clock, rows, alone, edits, sent, unrecorded>>

\* Kubernetes keeps one replica; a rollout starts the new pod before it stops
\* the old one.  The worker runs at once when it starts.
StartPod(p) ==
  /\ ~Up(p)
  /\ IF \E q \in Pods : Up(q) THEN Fault ELSE UNCHANGED faults
  /\ pc' = [pc EXCEPT ![p] = "waiting"]
  /\ scanned' = FALSE
  /\ UNCHANGED <<wired, clock, rows, batch, todo, current, alone, edits, sent, unrecorded, disturbed>>

StopPod(p) ==
  /\ pc[p] = "waiting" /\ \E q \in Pods \ {p} : Up(q)
  /\ pc' = [pc EXCEPT ![p] = "down"]
  /\ UNCHANGED <<wired, clock, rows, batch, todo, current, alone, scanned, edits, faults,
                 sent, unrecorded, disturbed>>

\* A tick passes only after a run of it has ended, unless no pod is up.
Tick ==
  /\ \A p \in Pods : ~Running(p)
  /\ scanned \/ \A p \in Pods : ~Up(p)
  /\ scanned' = FALSE
  /\ clock' = (clock + 1) % Day
  /\ rows' = [s \in Slots |-> [rows[s] EXCEPT !.last = Older(@)]]
  /\ sent' = [s \in Slots |-> Older(sent[s])]
  /\ disturbed' = {}
  /\ UNCHANGED <<wired, podVars, edits, faults, unrecorded>>

User == \E s \in Slots : UpsertSchedule(s) \/ DeleteSchedule(s)
Worker(p) ==
  \/ Scan(p) \/ Record(p) \/ Finish(p)
  \/ \E s \in Slots : Skip(p, s) \/ Create(p, s) \/ Panic(p, s)
Failure(p) ==
  \/ ScanFails(p) \/ RecordFails(p) \/ Crash(p)
  \/ \E s \in Slots : CreateFails(p, s)
Cluster(p) == StartPod(p) \/ StopPod(p)

Next == User \/ Tick \/ \E p \in Pods : Worker(p) \/ Failure(p) \/ Cluster(p)
Spec == Init /\ [][Next]_vars

-----------------------------------------------------------------------------
(* Properties *)

AgeRange == 0..Day
Row == [id : 0..MaxEdits, at : SendTimes \cup {0}, zone : Zones \cup {0},
        recipient : BOOLEAN, enabled : BOOLEAN, last : AgeRange]
RowsOK == rows \in [Slots -> Row] /\ batch \in [Pods -> [Slots -> Row]]
PodsOK ==
  /\ pc \in [Pods -> {"down", "waiting", "creating", "recording"}]
  /\ todo \in [Pods -> SUBSET Slots] /\ current \in [Pods -> SUBSET Slots]
  /\ alone \in [Pods -> BOOLEAN] /\ wired \in BOOLEAN /\ scanned \in BOOLEAN
AgesOK ==
  /\ sent \in [Slots -> AgeRange]
  /\ unrecorded \subseteq Slots /\ disturbed \subseteq Slots
BoundsOK == clock \in 0..(Day - 1) /\ edits \in 0..MaxEdits /\ faults \in 0..MaxFaults

\* Everything stays in its range: pods read and write rows of the table's shape.
TypeOK == RowsOK /\ PodsOK /\ AgesOK /\ BoundsOK

\* A user gets a reminder at most once in a local day and never twice within
\* twenty hours, however the schedule is edited in between, unless the earlier
\* one left no last_sent_at (the write failed, the pod died before it, the
\* schedule was deleted) or two pods of a rollout ran at once: isDue against
\* the batch read before, and UpdateLastSentAt after the notification.
SendsAreSpaced ==
  [][\A p \in Pods, s \in Slots :
       Create(p, s) => \/ sent[s] > Window /\ sent[s] > LocalTime(batch[p][s].zone)
                       \/ s \in unrecorded
                       \/ ~alone[p]]_vars

\* No local day ends without the reminder of a schedule, whatever happened in it
\* before its last tick and although the twenty-hour window may push the reminder
\* past its send time: FindDueCandidates and isDue together.
NoDaySkipped ==
  [][Tick => \A s \in Slots \ disturbed :
       /\ wired /\ Exists(s) /\ rows[s].recipient
       /\ LocalTime(rows[s].zone) = Day - 1 /\ \E p \in Pods : Up(p)
       => sent[s] < Day]_vars
=============================================================================
