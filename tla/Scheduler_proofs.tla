-------------------------- MODULE Scheduler_proofs ---------------------------
(***************************************************************************)
(* For any number of schedules, pods, edits and faults, and any send times *)
(* and zones: no reminder follows another in a local day or within the     *)
(* window, unless the other was not recorded or two pods ran at once, and  *)
(* no local day ends without one unless its last tick was disturbed.       *)
(***************************************************************************)
EXTENDS Scheduler, TLAPS

\* Only a run has work: candidates to create, or one creation to record.
WorkIsInRuns ==
  \A p \in Pods : /\ ~Running(p) => todo[p] = {}
                  /\ pc[p] # "recording" => current[p] = {}

\* What a pod is about to record was sent in this tick, and is out of its batch.
CurrentIsFresh ==
  \A p \in Pods : \A s \in current[p] : sent[s] = 0 /\ s \notin todo[p]

\* last_sent_at is the time of the last notification, where one was recorded.
RecordedMatches == \A s \in Slots \ unrecorded : rows[s].last = sent[s]

AloneIsAlone ==
  \A p, q \in Pods : alone[p] /\ Running(p) /\ Running(q) => p = q

\* What an undisturbed run read as due still is, unless its record is missing.
BatchStillDue ==
  \A p \in Pods : alone[p] => \A s \in todo[p] \ unrecorded :
    sent[s] > Window /\ sent[s] > LocalTime(batch[p][s].zone)

\* A schedule is always enabled: see StoredEnabled.  A deleted one has forgotten
\* when it was sent, and a notification is recorded in the tick that creates it.
RowsKnow == \A s \in Slots : rows[s].enabled /\ sent[s] <= rows[s].last

\* A schedule that a run would send to, and one that has its reminder or is not due.
Remindable(s) == wired /\ Exists(s) /\ rows[s].recipient
Served(s) == sent[s] = 0 \/ ~(Candidate(rows[s]) /\ IsDue(rows[s]))
InHand(p, s) == s \in todo[p] /\ batch[p][s].recipient

\* In an undisturbed tick a run that is under way serves the schedules it has not
\* yet handled, and one that has ended has served all.
RunsServe ==
  \A s \in Slots \ disturbed : Remindable(s) =>
    /\ \A p \in Pods : Running(p) => Served(s) \/ InHand(p, s)
    /\ scanned => Served(s)

\* Inductive: a reminder is spaced because last_sent_at says when the last one
\* was, and because nobody but the pod itself sends one during its run; none is
\* left out because a run does not end before it has handled all that was due.
IInv ==
  /\ TypeOK /\ WorkIsInRuns /\ CurrentIsFresh /\ RecordedMatches
  /\ AloneIsAlone /\ BatchStillDue /\ RowsKnow /\ RunsServe

\* At the start no time has been written and nothing is under way.
LEMMA InitIInv == Init => IInv
<1> SUFFICES ASSUME Init PROVE IInv
  OBVIOUS
<1>1. NoRow \in Row
  BY SchedulerAssumption DEF NoRow, Row, AgeRange
<1>2. RowsOK
  BY <1>1 DEF Init, RowsOK
<1>3. PodsOK
  BY DEF Init, PodsOK
<1>4. AgesOK /\ BoundsOK
  BY SchedulerAssumption DEF Init, AgesOK, BoundsOK, AgeRange
<1>5. WorkIsInRuns /\ CurrentIsFresh /\ AloneIsAlone /\ BatchStillDue
  BY DEF Init, WorkIsInRuns, CurrentIsFresh, AloneIsAlone, BatchStillDue, Running
<1>6. RecordedMatches
  BY DEF Init, RecordedMatches, NoRow
<1>7. RowsKnow /\ RunsServe
  BY SchedulerAssumption DEF Init, RowsKnow, RunsServe, Running, NoRow
<1> QED
  BY <1>2, <1>3, <1>4, <1>5, <1>6, <1>7 DEF IInv, TypeOK

-----------------------------------------------------------------------------
(* Types *)

\* A user's edit leaves a row of the table's shape.
LEMMA UserTypeOK == ASSUME IInv, User PROVE TypeOK'
<1>1. ASSUME NEW s \in Slots, UpsertSchedule(s) PROVE TypeOK'
  <2>1. PICK at \in SendTimes, zone \in Zones, enabled \in BOOLEAN,
             payload \in {"absent", "recipient", "other"} :
          rows' = [rows EXCEPT ![s] =
            [id |-> IF Exists(s) THEN @.id ELSE edits + 1, at |-> at, zone |-> zone,
             recipient |-> StoredRecipient(@, payload),
             enabled |-> StoredEnabled(@, enabled), last |-> @.last]]
    BY <1>1 DEF UpsertSchedule
  <2>2. edits < MaxEdits /\ edits' = edits + 1 /\ disturbed' = disturbed \cup {s}
    BY <1>1 DEF UpsertSchedule, Edited
  <2>3. rows[s] \in Row
    BY DEF IInv, TypeOK, RowsOK
  <2>4. edits + 1 \in 0..MaxEdits
    BY <2>2, SchedulerAssumption DEF IInv, TypeOK, BoundsOK
  <2>5. /\ StoredRecipient(rows[s], payload) \in BOOLEAN
        /\ StoredEnabled(rows[s], enabled) \in BOOLEAN
        /\ rows[s].id \in 0..MaxEdits /\ rows[s].last \in AgeRange
    BY <2>3 DEF StoredRecipient, StoredEnabled, Row
  <2> DEFINE row == [id |-> IF Exists(s) THEN rows[s].id ELSE edits + 1, at |-> at,
                     zone |-> zone, recipient |-> StoredRecipient(rows[s], payload),
                     enabled |-> StoredEnabled(rows[s], enabled), last |-> rows[s].last]
  <2>6. row \in Row
    BY <2>4, <2>5 DEF Row
  <2>7. rows' = [rows EXCEPT ![s] = row]
    BY <2>1
  <2> HIDE DEF row
  <2>8. RowsOK'
    BY <2>6, <2>7, <1>1 DEF UpsertSchedule, IInv, TypeOK, RowsOK, podVars
  <2>9. PodsOK' /\ AgesOK' /\ BoundsOK'
    BY <1>1, <2>2, <2>4, SchedulerAssumption
    DEF UpsertSchedule, IInv, TypeOK, PodsOK, AgesOK, BoundsOK, podVars, AgeRange
  <2> QED
    BY <2>8, <2>9 DEF TypeOK
<1>2. ASSUME NEW s \in Slots, DeleteSchedule(s) PROVE TypeOK'
  <2>1. NoRow \in Row
    BY SchedulerAssumption DEF NoRow, Row, AgeRange
  <2>2. RowsOK'
    BY <1>2, <2>1 DEF DeleteSchedule, IInv, TypeOK, RowsOK, podVars
  <2>3. PodsOK' /\ AgesOK' /\ BoundsOK'
    BY <1>2, SchedulerAssumption
    DEF DeleteSchedule, Edited, IInv, TypeOK, PodsOK, AgesOK, BoundsOK, podVars, AgeRange
  <2> QED
    BY <2>2, <2>3 DEF TypeOK
<1> QED
  BY <1>1, <1>2 DEF User

\* A tick makes every stored time older, up to a day.
LEMMA TickTypeOK == ASSUME IInv, Tick PROVE TypeOK'
<1>1. \A age \in AgeRange : Older(age) \in AgeRange
  BY SchedulerAssumption DEF Older, AgeRange
<1>2. \A s \in Slots : [rows[s] EXCEPT !.last = Older(@)] \in Row
  BY <1>1 DEF IInv, TypeOK, RowsOK, Row
<1>3. RowsOK'
  BY <1>2 DEF Tick, IInv, TypeOK, RowsOK, podVars
<1>4. AgesOK'
  BY <1>1, SchedulerAssumption DEF Tick, IInv, TypeOK, AgesOK, AgeRange
<1>5. PodsOK'
  BY DEF Tick, IInv, TypeOK, PodsOK, podVars
<1>6. BoundsOK'
  <2>1. (clock + 1) % Day \in 0..(Day - 1)
    BY SchedulerAssumption DEF IInv, TypeOK, BoundsOK
  <2> QED
    BY <2>1 DEF Tick, IInv, TypeOK, BoundsOK
<1> QED
  BY <1>3, <1>4, <1>5, <1>6 DEF TypeOK

\* A run reads rows, and writes only a time into them.
LEMMA WorkerTypeOK == ASSUME IInv, NEW p \in Pods, Worker(p) PROVE TypeOK'
<1>0. NoRow \in Row /\ 0 \in AgeRange
  BY SchedulerAssumption DEF NoRow, Row, AgeRange
<1>1. ASSUME Scan(p) PROVE TypeOK'
  BY <1>0, <1>1, SchedulerAssumption
  DEF Scan, Fault, IInv, TypeOK, RowsOK, PodsOK, AgesOK, BoundsOK
<1>2. ASSUME Record(p) PROVE TypeOK'
  <2>1. PICK s \in current[p] :
          IF rows[s].id = batch[p][s].id
          THEN rows' = [rows EXCEPT ![s].last = 0] /\ unrecorded' = unrecorded \ {s}
          ELSE UNCHANGED <<rows, unrecorded>>
    BY <1>2 DEF Record
  <2>2. s \in Slots
    BY DEF IInv, TypeOK, PodsOK
  <2>3. [rows[s] EXCEPT !.last = 0] \in Row
    BY <1>0, <2>2 DEF IInv, TypeOK, RowsOK, Row
  <2>4. RowsOK'
    BY <1>2, <2>1, <2>2, <2>3 DEF Record, IInv, TypeOK, RowsOK
  <2>5. PodsOK' /\ AgesOK' /\ BoundsOK'
    BY <1>2, <2>1 DEF Record, Recorded, IInv, TypeOK, PodsOK, AgesOK, BoundsOK
  <2> QED
    BY <2>4, <2>5 DEF TypeOK
<1>3. ASSUME Finish(p) PROVE TypeOK'
  BY <1>0, <1>3 DEF Finish, Forget, IInv, TypeOK, RowsOK, PodsOK, AgesOK, BoundsOK
<1>4. ASSUME NEW s \in Slots, Skip(p, s) PROVE TypeOK'
  BY <1>4 DEF Skip, Handled, IInv, TypeOK, RowsOK, PodsOK, AgesOK, BoundsOK
<1>5. ASSUME NEW s \in Slots, Create(p, s) PROVE TypeOK'
  BY <1>0, <1>5 DEF Create, Handled, IInv, TypeOK, RowsOK, PodsOK, AgesOK, BoundsOK
<1>6. ASSUME NEW s \in Slots, Panic(p, s) PROVE TypeOK'
  BY <1>0, <1>6 DEF Panic, Forget, IInv, TypeOK, RowsOK, PodsOK, AgesOK, BoundsOK
<1> QED
  BY <1>1, <1>2, <1>3, <1>4, <1>5, <1>6 DEF Worker

\* A run that fails or dies forgets what it read.
LEMMA FailureTypeOK == ASSUME IInv, NEW p \in Pods, Failure(p) PROVE TypeOK'
<1>0. NoRow \in Row /\ 0 \in AgeRange
  BY SchedulerAssumption DEF NoRow, Row, AgeRange
<1>1. ASSUME Fault PROVE faults' \in 0..MaxFaults
  BY <1>1, SchedulerAssumption DEF Fault, IInv, TypeOK, BoundsOK
<1>2. ASSUME ScanFails(p) PROVE TypeOK'
  BY <1>0, <1>1, <1>2
  DEF ScanFails, IInv, TypeOK, RowsOK, PodsOK, AgesOK, BoundsOK, podVars
<1>3. ASSUME RecordFails(p) PROVE TypeOK'
  BY <1>0, <1>1, <1>3
  DEF RecordFails, Recorded, IInv, TypeOK, RowsOK, PodsOK, AgesOK, BoundsOK
<1>4. ASSUME Crash(p) PROVE TypeOK'
  BY <1>0, <1>1, <1>4
  DEF Crash, Forget, IInv, TypeOK, RowsOK, PodsOK, AgesOK, BoundsOK
<1>5. ASSUME NEW s \in Slots, CreateFails(p, s) PROVE TypeOK'
  BY <1>0, <1>1, <1>5
  DEF CreateFails, Handled, IInv, TypeOK, RowsOK, PodsOK, AgesOK, BoundsOK
<1> QED
  BY <1>2, <1>3, <1>4, <1>5 DEF Failure

\* Starting and stopping a pod changes only what it does.
LEMMA ClusterTypeOK == ASSUME IInv, NEW p \in Pods, Cluster(p) PROVE TypeOK'
<1>1. faults' \in 0..MaxFaults
  BY SchedulerAssumption DEF Cluster, StartPod, StopPod, Fault, IInv, TypeOK, BoundsOK
<1> QED
  BY <1>1 DEF Cluster, StartPod, StopPod, IInv, TypeOK, RowsOK, PodsOK, AgesOK, BoundsOK

\* No step takes a variable out of its range.
LEMMA NextTypeOK == ASSUME IInv, Next PROVE TypeOK'
  BY UserTypeOK, TickTypeOK, WorkerTypeOK, FailureTypeOK, ClusterTypeOK DEF Next

-----------------------------------------------------------------------------
(* Runs *)

\* Work starts with a run and does not outlive it.
LEMMA NextWorkIsInRuns == ASSUME IInv, Next PROVE WorkIsInRuns'
<1> USE DEF IInv, TypeOK, PodsOK, WorkIsInRuns, Running
<1>1. ASSUME User \/ Tick PROVE WorkIsInRuns'
  BY <1>1 DEF User, UpsertSchedule, DeleteSchedule, Tick, podVars
<1>2. ASSUME NEW p \in Pods, Scan(p) \/ Record(p) \/ Finish(p) PROVE WorkIsInRuns'
  BY <1>2 DEF Scan, Record, Recorded, Finish, Forget
<1>3. ASSUME NEW p \in Pods, NEW s \in Slots, Skip(p, s) \/ Create(p, s) \/ Panic(p, s)
      PROVE WorkIsInRuns'
  BY <1>3 DEF Skip, Create, Panic, Handled, Forget
<1>4. ASSUME NEW p \in Pods, Failure(p) \/ Cluster(p) PROVE WorkIsInRuns'
  BY <1>4 DEF Failure, ScanFails, RecordFails, Recorded, Crash, Forget, CreateFails,
     Handled, Cluster, StartPod, StopPod, Up, podVars
<1> QED
  BY <1>1, <1>2, <1>3, <1>4 DEF Next, Worker

\* A tick passes only between runs, so what is being recorded stays fresh.
LEMMA NextCurrentIsFresh == ASSUME IInv, Next PROVE CurrentIsFresh'
<1> USE DEF IInv, TypeOK, PodsOK, AgesOK, CurrentIsFresh, WorkIsInRuns, Running
<1>1. ASSUME User PROVE CurrentIsFresh'
  BY <1>1 DEF User, UpsertSchedule, DeleteSchedule, podVars
<1>2. ASSUME Tick PROVE CurrentIsFresh'
  BY <1>2 DEF Tick, podVars
<1>3. ASSUME NEW p \in Pods, Scan(p) \/ Record(p) \/ Finish(p) PROVE CurrentIsFresh'
  BY <1>3 DEF Scan, Record, Recorded, Finish, Forget
<1>4. ASSUME NEW p \in Pods, NEW s \in Slots, Skip(p, s) \/ Panic(p, s)
      PROVE CurrentIsFresh'
  BY <1>4 DEF Skip, Panic, Handled, Forget
<1>5. ASSUME NEW p \in Pods, NEW s \in Slots, Create(p, s) PROVE CurrentIsFresh'
  BY <1>5, SchedulerAssumption DEF Create, Handled
<1>6. ASSUME NEW p \in Pods, Failure(p) \/ Cluster(p) PROVE CurrentIsFresh'
  BY <1>6 DEF Failure, ScanFails, RecordFails, Recorded, Crash, Forget, CreateFails,
     Handled, Cluster, StartPod, StopPod, podVars
<1> QED
  BY <1>1, <1>2, <1>3, <1>4, <1>5, <1>6 DEF Next, Worker

\* A run is alone from its scan on, until another pod scans.
LEMMA NextAloneIsAlone == ASSUME IInv, Next PROVE AloneIsAlone'
<1> USE DEF IInv, TypeOK, PodsOK, AloneIsAlone, Running
<1>1. ASSUME User \/ Tick PROVE AloneIsAlone'
  BY <1>1 DEF User, UpsertSchedule, DeleteSchedule, Tick, podVars
<1>2. ASSUME NEW p \in Pods, Scan(p) PROVE AloneIsAlone'
  BY <1>2 DEF Scan
<1>3. ASSUME NEW p \in Pods, Record(p) \/ Finish(p) PROVE AloneIsAlone'
  BY <1>3 DEF Record, Recorded, Finish
<1>4. ASSUME NEW p \in Pods, NEW s \in Slots, Skip(p, s) \/ Create(p, s) \/ Panic(p, s)
      PROVE AloneIsAlone'
  BY <1>4 DEF Skip, Create, Panic
<1>5. ASSUME NEW p \in Pods, Failure(p) \/ Cluster(p) PROVE AloneIsAlone'
  BY <1>5 DEF Failure, ScanFails, RecordFails, Recorded, Crash, CreateFails,
     Cluster, StartPod, StopPod, Up, podVars
<1> QED
  BY <1>1, <1>2, <1>3, <1>4, <1>5 DEF Next, Worker

-----------------------------------------------------------------------------
(* Times *)

\* Editing keeps last_sent_at, deleting is remembered, recording writes the
\* tick of the notification itself.
LEMMA NextRecordedMatches == ASSUME IInv, Next PROVE RecordedMatches'
<1> USE DEF IInv, TypeOK, RowsOK, PodsOK, AgesOK, RecordedMatches
<1>1. ASSUME NEW s \in Slots, UpsertSchedule(s) PROVE RecordedMatches'
  <2>1. \A t \in Slots : rows'[t].last = rows[t].last
    BY <1>1 DEF UpsertSchedule
  <2> QED
    BY <1>1, <2>1 DEF UpsertSchedule
<1>2. ASSUME NEW s \in Slots, DeleteSchedule(s) PROVE RecordedMatches'
  BY <1>2 DEF DeleteSchedule
<1>3. ASSUME Tick PROVE RecordedMatches'
  <2>1. \A s \in Slots : rows'[s].last = Older(rows[s].last) /\ sent'[s] = Older(sent[s])
    BY <1>3 DEF Tick, Row
  <2> QED
    BY <1>3, <2>1 DEF Tick
<1>4. ASSUME NEW p \in Pods, Record(p) PROVE RecordedMatches'
  <2>1. PICK s \in current[p] :
          IF rows[s].id = batch[p][s].id
          THEN rows' = [rows EXCEPT ![s].last = 0] /\ unrecorded' = unrecorded \ {s}
          ELSE UNCHANGED <<rows, unrecorded>>
    BY <1>4 DEF Record
  <2>2. sent' = sent /\ sent[s] = 0 /\ s \in Slots
    BY <1>4, <2>1 DEF Record, CurrentIsFresh
  <2>3. ASSUME rows[s].id = batch[p][s].id PROVE RecordedMatches'
    <3>1. rows'[s].last = 0 /\ \A t \in Slots \ {s} : rows'[t] = rows[t]
      BY <2>1, <2>2, <2>3 DEF Row
    <3> QED
      BY <2>1, <2>2, <2>3, <3>1
  <2> QED
    BY <2>1, <2>2, <2>3
<1>5. ASSUME NEW p \in Pods, Scan(p) \/ Finish(p) PROVE RecordedMatches'
  BY <1>5 DEF Scan, Finish
<1>6. ASSUME NEW p \in Pods, NEW s \in Slots, Skip(p, s) \/ Create(p, s) \/ Panic(p, s)
      PROVE RecordedMatches'
  BY <1>6 DEF Skip, Create, Panic
<1>7. ASSUME NEW p \in Pods, Failure(p) \/ Cluster(p) PROVE RecordedMatches'
  BY <1>7 DEF Failure, ScanFails, RecordFails, Crash, CreateFails, Cluster, StartPod, StopPod
<1> QED
  BY <1>1, <1>2, <1>3, <1>4, <1>5, <1>6, <1>7 DEF Next, User, Worker

\* A scan reads the times of the table; until the run ends no tick passes and
\* only the run itself sends.
LEMMA ScanBatchStillDue == ASSUME IInv, NEW p \in Pods, Scan(p) PROVE BatchStillDue'
<1> USE DEF IInv, TypeOK, RowsOK, PodsOK, AgesOK
<1> DEFINE due == {s \in Slots : Candidate(rows[s]) /\ IsDue(rows[s])}
<1>1. /\ todo'[p] \subseteq due
      /\ \A s \in due : batch'[p][s] = rows[s]
      /\ \A q \in Pods \ {p} : ~alone'[q]
      /\ UNCHANGED <<clock, sent, unrecorded>>
  BY DEF Scan
<1>2. \A s \in due \ unrecorded : sent[s] > Window /\ sent[s] > LocalTime(rows[s].zone)
  BY DEF Candidate, IsDue, RecordedMatches
<1> HIDE DEF due
<1>3. ASSUME NEW q \in Pods, alone'[q], NEW s \in todo'[q] \ unrecorded'
      PROVE  sent'[s] > Window /\ sent'[s] > (clock' + batch'[q][s].zone) % Day
  <2>1. q = p /\ s \in due \ unrecorded /\ batch'[q][s] = rows[s]
    BY <1>1, <1>3
  <2> QED
    BY <1>1, <1>2, <2>1 DEF LocalTime
<1> QED
  BY <1>3 DEF BatchStillDue, LocalTime

\* While an undisturbed run lasts, nothing moves the clock, and nobody else
\* sends; what the run itself sends leaves its list of work.
LEMMA NextBatchStillDue == ASSUME IInv, Next PROVE BatchStillDue'
<1> USE DEF IInv, TypeOK, PodsOK, AgesOK
<1>0. ASSUME UNCHANGED <<clock, sent, batch, alone>>,
             \A p \in Pods : todo'[p] \ unrecorded' \subseteq todo[p] \ unrecorded
      PROVE  BatchStillDue'
  BY <1>0 DEF BatchStillDue, LocalTime
<1>1. ASSUME UNCHANGED <<clock, sent, alone>>, NEW p \in Pods, Forget(p),
             unrecorded' = unrecorded
      PROVE  BatchStillDue'
  <2>1. todo'[p] = {} /\ \A q \in Pods \ {p} : todo'[q] = todo[q] /\ batch'[q] = batch[q]
    BY <1>1 DEF Forget, RowsOK
  <2> QED
    BY <1>1, <2>1 DEF BatchStillDue, LocalTime
<1>2. ASSUME User PROVE BatchStillDue'
  BY <1>0, <1>2 DEF User, UpsertSchedule, DeleteSchedule, podVars
<1>3. ASSUME Tick PROVE BatchStillDue'
  BY <1>3 DEF Tick, podVars, BatchStillDue, WorkIsInRuns
<1>4. ASSUME NEW p \in Pods, Record(p) PROVE BatchStillDue'
  <2>1. PICK s \in current[p] : unrecorded \ {s} \subseteq unrecorded'
    BY <1>4 DEF Record
  <2>2. s \in Slots /\ Running(p) /\ s \notin todo[p]
    BY <1>4, <2>1 DEF Record, Running, CurrentIsFresh
  <2>3. UNCHANGED <<clock, sent, batch, todo, alone>>
    BY <1>4 DEF Record
  <2>4. ASSUME NEW q \in Pods, alone[q], todo[q] # {} PROVE s \notin todo[q]
    \* The record of another run would be a second run beside a lone one.
    BY <2>2, <2>4 DEF WorkIsInRuns, AloneIsAlone
  <2> QED
    BY <2>1, <2>3, <2>4 DEF BatchStillDue, LocalTime
<1>5. ASSUME NEW p \in Pods, NEW s \in Slots, Create(p, s) PROVE BatchStillDue'
  <2>1. /\ UNCHANGED <<clock, batch, alone>> /\ unrecorded' = unrecorded \cup {s}
        /\ \A t \in Slots \ {s} : sent'[t] = sent[t]
        /\ \A q \in Pods : todo'[q] \subseteq todo[q]
    BY <1>5 DEF Create, Handled
  <2> QED
    BY <2>1 DEF BatchStillDue, LocalTime
<1>6. ASSUME NEW p \in Pods, NEW s \in Slots, Skip(p, s) \/ CreateFails(p, s)
      PROVE BatchStillDue'
  BY <1>0, <1>6 DEF Skip, CreateFails, Handled
<1>7. ASSUME NEW p \in Pods, Finish(p) \/ Crash(p) \/ \E s \in Slots : Panic(p, s)
      PROVE BatchStillDue'
  BY <1>1, <1>7 DEF Finish, Crash, Panic
<1>8. ASSUME NEW p \in Pods, ScanFails(p) \/ RecordFails(p) \/ Cluster(p)
      PROVE BatchStillDue'
  BY <1>0, <1>8 DEF ScanFails, RecordFails, Cluster, StartPod, StopPod, podVars
<1> QED
  BY ScanBatchStillDue, <1>2, <1>3, <1>4, <1>5, <1>6, <1>7, <1>8 DEF Next, Worker, Failure

-----------------------------------------------------------------------------
(* No schedule is left out *)

\* What an edit leaves of the flag and of the time of the last notification.
LEMMA NextRowsKnow == ASSUME IInv, Next PROVE RowsKnow'
<1> USE DEF IInv, TypeOK, RowsOK, PodsOK, AgesOK, RowsKnow
<1>1. ASSUME NEW s \in Slots, UpsertSchedule(s) PROVE RowsKnow'
  <2>1. \A t \in Slots : rows'[t].last = rows[t].last /\ rows'[t].enabled
    BY <1>1 DEF UpsertSchedule, StoredEnabled, Row
  <2> QED
    BY <1>1, <2>1 DEF UpsertSchedule
<1>2. ASSUME NEW s \in Slots, DeleteSchedule(s) PROVE RowsKnow'
  <2>1. \A t \in Slots : sent'[t] = sent[t] /\ sent[t] \in 0..Day
    BY <1>2 DEF DeleteSchedule, AgeRange
  <2>2. \A t \in Slots : rows'[t] = IF t = s THEN NoRow ELSE rows[t]
    BY <1>2 DEF DeleteSchedule
  <2> QED
    BY <2>1, <2>2, SchedulerAssumption DEF NoRow
<1>3. ASSUME Tick PROVE RowsKnow'
  <2>1. ASSUME NEW s \in Slots PROVE rows'[s].enabled /\ sent'[s] <= rows'[s].last
    <3>1. rows'[s] = [rows[s] EXCEPT !.last = Older(rows[s].last)] /\ sent'[s] = Older(sent[s])
      BY <1>3 DEF Tick
    <3>2. rows[s] \in Row /\ rows[s].enabled
      OBVIOUS
    <3>3. rows'[s].enabled /\ rows'[s].last = Older(rows[s].last)
      BY <3>1, <3>2 DEF Row
    <3>4. Older(sent[s]) <= Older(rows[s].last)
      BY <3>2, SchedulerAssumption DEF Older, Row, AgeRange
    <3> QED
      BY <3>1, <3>3, <3>4
  <2> QED
    BY <2>1
<1>4. ASSUME NEW p \in Pods, Record(p) PROVE RowsKnow'
  <2>1. PICK s \in current[p] :
          IF rows[s].id = batch[p][s].id
          THEN rows' = [rows EXCEPT ![s].last = 0] /\ unrecorded' = unrecorded \ {s}
          ELSE UNCHANGED <<rows, unrecorded>>
    BY <1>4 DEF Record
  <2>2. sent' = sent /\ sent[s] = 0 /\ s \in Slots
    BY <1>4, <2>1 DEF Record, CurrentIsFresh
  <2>3. ASSUME rows[s].id = batch[p][s].id PROVE RowsKnow'
    <3>1. /\ rows'[s].last = 0 /\ rows'[s].enabled = rows[s].enabled
          /\ \A t \in Slots \ {s} : rows'[t] = rows[t]
      BY <2>1, <2>2, <2>3 DEF Row
    <3> QED
      BY <2>2, <3>1
  <2> QED
    BY <2>1, <2>2, <2>3
<1>5. ASSUME NEW p \in Pods, NEW s \in Slots, Create(p, s) PROVE RowsKnow'
  <2>1. UNCHANGED rows /\ \A t \in Slots : sent'[t] = IF t = s THEN 0 ELSE sent[t]
    BY <1>5 DEF Create
  <2>2. rows[s].last \in 0..Day
    BY DEF Row, AgeRange
  <2> QED
    BY <2>1, <2>2, SchedulerAssumption
<1>6. ASSUME NEW p \in Pods, Scan(p) \/ Finish(p) PROVE RowsKnow'
  BY <1>6 DEF Scan, Finish
<1>7. ASSUME NEW p \in Pods, NEW s \in Slots, Skip(p, s) \/ Panic(p, s) PROVE RowsKnow'
  BY <1>7 DEF Skip, Panic
<1>8. ASSUME NEW p \in Pods, Failure(p) \/ Cluster(p) PROVE RowsKnow'
  BY <1>8 DEF Failure, ScanFails, RecordFails, Crash, CreateFails, Cluster, StartPod, StopPod
<1> QED
  BY <1>1, <1>2, <1>3, <1>4, <1>5, <1>6, <1>7, <1>8 DEF Next, User, Worker

\* Nothing within a tick makes a served schedule due again, unless it is edited:
\* a notification and its record only serve.
LEMMA StaysServed ==
  ASSUME IInv, Next, ~Tick, ~User, NEW s \in Slots, Served(s)
  PROVE  Served(s)'
<1> USE DEF IInv, TypeOK, RowsOK, PodsOK, AgesOK
<1>1. ASSUME UNCHANGED <<clock, rows, sent>> PROVE Served(s)'
  BY <1>1 DEF Served, IsDue, LocalTime
<1>2. ASSUME NEW p \in Pods, Record(p) PROVE Served(s)'
  <2>1. PICK t \in current[p] :
          IF rows[t].id = batch[p][t].id
          THEN rows' = [rows EXCEPT ![t].last = 0] /\ unrecorded' = unrecorded \ {t}
          ELSE UNCHANGED <<rows, unrecorded>>
    BY <1>2 DEF Record
  <2>2. UNCHANGED <<clock, sent>> /\ sent[t] = 0 /\ t \in Slots
    BY <1>2, <2>1 DEF Record, CurrentIsFresh
  <2>3. s = t \/ rows'[s] = rows[s]
    BY <2>1, <2>2
  <2> QED
    BY <2>2, <2>3 DEF Served, IsDue, LocalTime
<1>3. ASSUME NEW p \in Pods, NEW t \in Slots, Create(p, t) PROVE Served(s)'
  <2>1. UNCHANGED <<clock, rows>> /\ sent'[t] = 0 /\ (s = t \/ sent'[s] = sent[s])
    BY <1>3 DEF Create
  <2> QED
    BY <2>1 DEF Served, IsDue, LocalTime
<1>4. ASSUME NEW p \in Pods, Scan(p) \/ Finish(p) PROVE Served(s)'
  BY <1>1, <1>4 DEF Scan, Finish
<1>5. ASSUME NEW p \in Pods, NEW t \in Slots, Skip(p, t) \/ Panic(p, t) PROVE Served(s)'
  BY <1>1, <1>5 DEF Skip, Panic
<1>6. ASSUME NEW p \in Pods, Failure(p) \/ Cluster(p) PROVE Served(s)'
  BY <1>1, <1>6
  DEF Failure, ScanFails, RecordFails, Crash, CreateFails, Cluster, StartPod, StopPod
<1> QED
  BY <1>2, <1>3, <1>4, <1>5, <1>6 DEF Next, Worker

\* A run serves what was due when it read the table, one schedule after the other;
\* it ends when all are handled.
LEMMA NextRunsServe == ASSUME IInv, Next PROVE RunsServe'
<1> USE DEF IInv, TypeOK, PodsOK, AgesOK
<1>1. ASSUME NEW s \in Slots, UpsertSchedule(s) \/ DeleteSchedule(s) PROVE RunsServe'
  <2>1. /\ UNCHANGED <<wired, clock, podVars, scanned, sent>>
        /\ disturbed' = disturbed \cup {s}
        /\ \A t \in Slots \ {s} : rows'[t] = rows[t]
    BY <1>1 DEF UpsertSchedule, DeleteSchedule, Edited, RowsOK
  <2>2. ASSUME NEW t \in Slots \ {s}
        PROVE  /\ Remindable(t)' <=> Remindable(t)
               /\ Served(t)' <=> Served(t)
               /\ \A p \in Pods : Running(p)' = Running(p) /\ InHand(p, t)' = InHand(p, t)
    BY <2>1, <2>2 DEF Remindable, Served, Exists, Running, IsDue, LocalTime, InHand, podVars
  <2> QED
    BY <2>1, <2>2 DEF RunsServe
<1>2. ASSUME Tick PROVE RunsServe'
  BY <1>2 DEF Tick, RunsServe, Running, podVars
<1>3. ASSUME ~Tick, ~User, disturbed' = disturbed, NEW s \in Slots \ disturbed, Remindable(s)'
      PROVE  Remindable(s)
  <2>1. wired' = wired /\ (rows' = rows \/ \E p \in Pods : Record(p))
    BY <1>3
    DEF Next, Worker, Scan, Record, Finish, Skip, Create, Panic, Failure, ScanFails,
        RecordFails, Crash, CreateFails, Cluster, StartPod, StopPod
  <2>2. ASSUME NEW p \in Pods, Record(p)
        PROVE  rows'[s].id = rows[s].id /\ rows'[s].recipient = rows[s].recipient
    <3>1. PICK t \in current[p] :
            rows' = [rows EXCEPT ![t].last = 0] \/ UNCHANGED rows
      BY <2>2 DEF Record
    <3>2. rows[s] \in Row /\ rows[t] \in Row /\ t \in Slots
      BY DEF RowsOK
    <3>3. rows'[s] = rows[s] \/ rows'[s] = [rows[s] EXCEPT !.last = 0]
      BY <3>1, <3>2 DEF RowsOK
    <3> QED
      BY <3>2, <3>3 DEF Row
  <2>3. rows'[s].id = rows[s].id /\ rows'[s].recipient = rows[s].recipient
    BY <2>1, <2>2
  <2> QED
    BY <1>3, <2>1, <2>3 DEF Remindable, Exists
<1>4. ASSUME ~Tick, ~User, disturbed' = disturbed,
             \A s \in Slots \ disturbed :
               Remindable(s) /\ scanned' => scanned \/ Served(s)',
             \A p \in Pods, s \in Slots \ disturbed :
               Remindable(s) /\ Running(p)' =>
                 \/ Served(s)' \/ InHand(p, s)'
                 \/ Running(p) /\ ~InHand(p, s)
      PROVE  RunsServe'
  <2> SUFFICES ASSUME NEW s \in Slots \ disturbed, Remindable(s)'
               PROVE  /\ \A p \in Pods : Running(p)' => Served(s)' \/ InHand(p, s)'
                      /\ scanned' => Served(s)'
    BY <1>4 DEF RunsServe
  <2>1. Remindable(s)
    BY <1>3, <1>4
  <2>2. Served(s) => Served(s)'
    BY <1>4, StaysServed
  <2>3. scanned' => Served(s)'
    BY <1>4, <2>1, <2>2 DEF RunsServe
  <2>4. ASSUME NEW p \in Pods, Running(p)' PROVE Served(s)' \/ InHand(p, s)'
    BY <1>4, <2>1, <2>2, <2>4 DEF RunsServe
  <2> QED
    BY <2>3, <2>4
<1>5. ASSUME disturbed' = Slots PROVE RunsServe'
  BY <1>5 DEF RunsServe
<1>6. ASSUME ~Tick, ~User, NEW p \in Pods, Scan(p) PROVE RunsServe'
  <2> DEFINE due == {s \in Slots : Candidate(rows[s]) /\ IsDue(rows[s])}
  <2>1. PICK missing \in SUBSET Slots :
          /\ IF missing = {} THEN UNCHANGED disturbed ELSE disturbed' = Slots
          /\ pc' = [pc EXCEPT ![p] = "creating"]
          /\ batch' = [batch EXCEPT ![p] = [s \in Slots |-> IF s \in due THEN rows[s] ELSE NoRow]]
          /\ todo' = [todo EXCEPT ![p] = due \ missing]
          /\ UNCHANGED <<clock, rows, scanned, sent>>
    BY <1>6 DEF Scan
  <2>2. CASE missing # {}
    BY <1>5, <2>1, <2>2
  <2>3. CASE missing = {}
    <3>1. ASSUME NEW s \in Slots, Remindable(s) PROVE Served(s)' \/ InHand(p, s)'
      <4>1. CASE s \notin due
        BY <2>1, <4>1 DEF Served, IsDue, LocalTime
      <4>2. CASE s \in due
        <5>1. todo'[p] = due /\ batch'[p][s] = rows[s]
          BY <2>1, <2>3, <4>2 DEF RowsOK
        <5> QED
          BY <3>1, <4>2, <5>1 DEF InHand, Remindable
      <4> QED
        BY <4>1, <4>2
    <3>2. ASSUME NEW q \in Pods \ {p}, NEW s \in Slots
          PROVE  Running(q)' = Running(q) /\ InHand(q, s)' = InHand(q, s)
      BY <2>1 DEF Running, InHand, RowsOK
    <3> QED
      BY <1>4, <1>6, <2>1, <2>3, <3>1, <3>2
  <2> QED
    BY <2>2, <2>3
<1>7. ASSUME ~Tick, ~User, NEW p \in Pods, Record(p) PROVE RunsServe'
  <2>1. \A q \in Pods, s \in Slots :
          (Running(q)' => Running(q)) /\ InHand(q, s)' = InHand(q, s)
    BY <1>7 DEF Record, Recorded, Running, InHand
  <2> QED
    BY <1>4, <1>7, <2>1 DEF Record
<1>8. ASSUME ~Tick, ~User, NEW p \in Pods, Finish(p) PROVE RunsServe'
  <2>1. \A s \in Slots \ disturbed : Remindable(s) => Served(s)
    BY <1>8 DEF Finish, RunsServe, Running, InHand
  <2>2. \A s \in Slots \ disturbed : Remindable(s) => Served(s)'
    BY <1>8, <2>1, StaysServed
  <2> QED
    BY <1>4, <1>8, <2>2 DEF Finish
<1>9. ASSUME ~Tick, ~User, NEW p \in Pods, NEW t \in Slots, Skip(p, t) \/ Create(p, t)
      PROVE  RunsServe'
  <2>1. UNCHANGED <<scanned, disturbed>>
    BY <1>9 DEF Skip, Create
  <2>2. /\ \A q \in Pods : Running(q)' => Running(q)
        /\ \A q \in Pods, s \in Slots : q # p \/ s # t => InHand(q, s)' = InHand(q, s)
    BY <1>9 DEF Skip, Create, Handled, Running, InHand
  <2>3. CASE Skip(p, t)
    <3>1. ~InHand(p, t)
      BY <2>3 DEF Skip, InHand
    <3> QED
      BY <1>4, <1>9, <2>1, <2>2, <3>1
  <2>4. CASE Create(p, t)
    <3>1. Served(t)'
      BY <2>4 DEF Create, Served
    <3> QED
      BY <1>4, <1>9, <2>1, <2>2, <3>1
  <2> QED
    BY <1>9, <2>3, <2>4
<1>10. ASSUME NEW p \in Pods, NEW t \in Slots, Panic(p, t) PROVE RunsServe'
  BY <1>10 DEF Panic, RunsServe, Remindable
<1>11. ASSUME NEW p \in Pods, Failure(p) PROVE RunsServe'
  BY <1>5, <1>11 DEF Failure, ScanFails, RecordFails, Crash, CreateFails
<1>12. ASSUME ~Tick, ~User, NEW p \in Pods, Cluster(p) PROVE RunsServe'
  <2>1. \A q \in Pods, s \in Slots :
          (Running(q)' => Running(q)) /\ InHand(q, s)' = InHand(q, s)
    BY <1>12 DEF Cluster, StartPod, StopPod, Up, Running, InHand
  <2> QED
    BY <1>4, <1>12, <2>1 DEF Cluster, StartPod, StopPod
<1>13. ASSUME ~Tick, ~User, NEW p \in Pods, Worker(p) PROVE RunsServe'
  BY <1>6, <1>7, <1>8, <1>9, <1>10, <1>13 DEF Worker
<1>14. ASSUME User PROVE RunsServe'
  BY <1>1, <1>14 DEF User
<1>15. Tick \/ User \/ \E p \in Pods : Worker(p) \/ Failure(p) \/ Cluster(p)
  BY DEF Next
<1> QED
  BY <1>2, <1>11, <1>12, <1>13, <1>14, <1>15

-----------------------------------------------------------------------------
(* The theorems *)

\* A step that changes nothing keeps the invariant.
LEMMA StutterIInv == ASSUME IInv, UNCHANGED vars PROVE IInv'
<1> USE DEF vars, podVars
<1>1. TypeOK'
  BY DEF IInv, TypeOK, RowsOK, PodsOK, AgesOK, BoundsOK
<1>2. WorkIsInRuns' /\ CurrentIsFresh' /\ RecordedMatches' /\ AloneIsAlone' /\ RowsKnow'
  BY DEF IInv, WorkIsInRuns, CurrentIsFresh, RecordedMatches, AloneIsAlone, RowsKnow, Running
<1>3. BatchStillDue'
  BY DEF IInv, BatchStillDue, LocalTime
<1>4. RunsServe'
  BY DEF IInv, RunsServe, Remindable, Exists, Served, IsDue, LocalTime, InHand, Running
<1> QED
  BY <1>1, <1>2, <1>3, <1>4 DEF IInv

\* The invariant holds in every reachable state.
LEMMA SchedulerInvariant == Spec => []IInv
<1>1. IInv /\ [Next]_vars => IInv'
  BY NextTypeOK, NextWorkIsInRuns, NextCurrentIsFresh, NextRecordedMatches,
     NextAloneIsAlone, NextBatchStillDue, NextRowsKnow, NextRunsServe, StutterIInv DEF IInv
<1> QED
  BY InitIInv, <1>1, PTL DEF Spec

\* Rows, batches and recorded times keep the shape the code relies on.
THEOREM SchedulerTypeCorrect == Spec => []TypeOK
<1>1. IInv => TypeOK
  BY DEF IInv
<1> QED
  BY SchedulerInvariant, <1>1, PTL

\* No user gets a second reminder in a local day or within the window, unless
\* the first left no last_sent_at or two pods ran at once: isDue against the
\* batch read before, and UpdateLastSentAt after the notification.
THEOREM SchedulerSendsAreSpaced == Spec => SendsAreSpaced
<1> DEFINE Spaced ==
      \A p \in Pods, s \in Slots :
        Create(p, s) => \/ sent[s] > Window /\ sent[s] > LocalTime(batch[p][s].zone)
                        \/ s \in unrecorded
                        \/ ~alone[p]
<1>1. IInv => Spaced
  BY DEF IInv, BatchStillDue, Create
<1>2. Spec => [][Spaced]_vars
  BY SchedulerInvariant, <1>1, PTL
<1> QED
  BY <1>2 DEF SendsAreSpaced

\* At the end of a local day every schedule has had its reminder of that day, unless
\* it was edited or a fault met it in the day's last tick: FindDueCandidates and
\* isDue do not push a reminder out of its day.
THEOREM SchedulerNoDaySkipped == Spec => NoDaySkipped
<1> DEFINE Reminded ==
      Tick => \A s \in Slots \ disturbed :
        /\ wired /\ Exists(s) /\ rows[s].recipient
        /\ LocalTime(rows[s].zone) = Day - 1 /\ \E p \in Pods : Up(p)
        => sent[s] < Day
<1>1. IInv => Reminded
  <2> SUFFICES ASSUME IInv, Tick, NEW s \in Slots \ disturbed, Remindable(s),
                      LocalTime(rows[s].zone) = Day - 1, \E p \in Pods : Up(p)
               PROVE  sent[s] < Day
    BY DEF Remindable
  <2>1. Served(s)
    BY DEF IInv, RunsServe, Tick
  <2>2. rows[s] \in Row /\ rows[s].enabled /\ sent[s] \in 0..Day /\ sent[s] <= rows[s].last
    BY DEF IInv, TypeOK, RowsOK, AgesOK, AgeRange, RowsKnow
  <2>3. rows[s].at \in 0..(Day - 1) /\ rows[s].last \in 0..Day
    <3>1. rows[s].at \in SendTimes \cup {0} /\ rows[s].last \in 0..Day
      BY <2>2 DEF Row, AgeRange
    <3>2. 0 \in 0..(Day - 1)
      BY SchedulerAssumption
    <3> QED
      BY <3>1, <3>2, SchedulerAssumption
  <2>4. CASE sent[s] = 0
    BY <2>4, SchedulerAssumption
  <2>5. CASE ~(Candidate(rows[s]) /\ IsDue(rows[s]))
    BY <2>2, <2>3, <2>5, SchedulerAssumption DEF Candidate, IsDue, Remindable, Exists
  <2> QED
    BY <2>1, <2>4, <2>5 DEF Served
<1>2. Spec => [][Reminded]_vars
  BY SchedulerInvariant, <1>1, PTL
<1> QED
  BY <1>2 DEF NoDaySkipped
=============================================================================
