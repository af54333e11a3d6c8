---------------------------- MODULE Outbox_proofs ----------------------------
(***************************************************************************)
(* The outbox for any number of requests, pods, retries and faults: each   *)
(* event has one owner, is handed to the broker at most once, and is given *)
(* up exactly when all its retries were refused and the user was told.     *)
(***************************************************************************)
EXTENDS Outbox, FiniteSetTheorems, TLAPS

\* Inductive: an event is handed over at most once only because its row stays
\* 'processing' while a pod holds it, and because the histories agree with the
\* rows at every point of publishEvent.
IInv ==
  /\ TypeOK
  /\ OneOwner
  /\ HandedAtMostOnce
  /\ GivesUpAfterAllRetries
  /\ HistoryMatchesRow

\* Nothing exists initially, so the inductive invariant holds.
LEMMA InitIInv == Init => IInv
  BY OutboxAssumption
  DEF Init, IInv, TypeOK, OneOwner, Held, HandedAtMostOnce, GivesUpAfterAllRetries,
      HistoryMatchesRow

\* created_at is a number: only finitely many rows exist.
LEMMA RowsCounted ==
  1 + Cardinality({j \in Ids : outbox[j].status # "none"}) \in Nat
<1> DEFINE S == {j \in Ids : outbox[j].status # "none"}
<1>1. IsFiniteSet(S)
  BY OutboxAssumption, FS_Subset
<1> QED
  BY <1>1, FS_CardinalityType

\* CreateWithOutbox preserves the inductive invariant.
LEMMA CreateWithOutboxIInv ==
  ASSUME IInv, NEW i \in Ids, CreateWithOutbox(i) PROVE IInv'
<1>1. TypeOK'
  BY OutboxAssumption, RowsCounted DEF IInv, CreateWithOutbox, pods, history,
     TypeOK, OneOwner, HistoryMatchesRow, HandedAtMostOnce,
     GivesUpAfterAllRetries, Held, Event
<1>2. OneOwner'
  BY OutboxAssumption DEF IInv, CreateWithOutbox, pods, history, TypeOK,
     OneOwner, HistoryMatchesRow, HandedAtMostOnce, GivesUpAfterAllRetries,
     Held, Event
<1>3. HandedAtMostOnce'
  BY OutboxAssumption DEF IInv, CreateWithOutbox, pods, history, TypeOK,
     HandedAtMostOnce, OneOwner, HistoryMatchesRow, GivesUpAfterAllRetries,
     Held, Event
<1>4. GivesUpAfterAllRetries'
  BY OutboxAssumption DEF IInv, CreateWithOutbox, pods, history, TypeOK,
     GivesUpAfterAllRetries, OneOwner, HistoryMatchesRow, HandedAtMostOnce,
     Held, Event
<1>5. HistoryMatchesRow'
  BY OutboxAssumption DEF IInv, CreateWithOutbox, pods, history, TypeOK,
     HistoryMatchesRow, OneOwner, HandedAtMostOnce, GivesUpAfterAllRetries,
     Held, Event
<1> QED
  BY <1>1, <1>2, <1>3, <1>4, <1>5 DEF IInv

\* ClaimPendingBatch preserves the inductive invariant.
LEMMA ClaimPendingBatchIInv ==
  ASSUME IInv, NEW p \in Pods, ClaimPendingBatch(p) PROVE IInv'
<1>1. TypeOK'
  BY OutboxAssumption DEF IInv, ClaimPendingBatch, ClaimRows, OldestBatch,
     Claimable, Pending, Ready, history, TypeOK, OneOwner, HistoryMatchesRow,
     HandedAtMostOnce, GivesUpAfterAllRetries, Held, Event
<1>2. OneOwner'
  BY OutboxAssumption DEF IInv, ClaimPendingBatch, ClaimRows, OldestBatch,
     Claimable, Pending, Ready, history, TypeOK, OneOwner, HistoryMatchesRow,
     HandedAtMostOnce, GivesUpAfterAllRetries, Held, Event
<1>3. HandedAtMostOnce'
  BY OutboxAssumption DEF IInv, ClaimPendingBatch, ClaimRows, OldestBatch,
     Claimable, Pending, Ready, history, TypeOK, HandedAtMostOnce, OneOwner,
     HistoryMatchesRow, GivesUpAfterAllRetries, Held, Event
<1>4. GivesUpAfterAllRetries'
  BY OutboxAssumption DEF IInv, ClaimPendingBatch, ClaimRows, OldestBatch,
     Claimable, Pending, Ready, history, TypeOK, GivesUpAfterAllRetries,
     OneOwner, HistoryMatchesRow, HandedAtMostOnce, Held, Event
<1>5. HistoryMatchesRow'
  BY OutboxAssumption DEF IInv, ClaimPendingBatch, ClaimRows, OldestBatch,
     Claimable, Pending, Ready, history, TypeOK, HistoryMatchesRow, OneOwner,
     HandedAtMostOnce, GivesUpAfterAllRetries, Held, Event
<1> QED
  BY <1>1, <1>2, <1>3, <1>4, <1>5 DEF IInv

\* ClaimReplyLost preserves the inductive invariant.
LEMMA ClaimReplyLostIInv ==
  ASSUME IInv, NEW p \in Pods, ClaimReplyLost(p) PROVE IInv'
<1>1. TypeOK'
  BY OutboxAssumption DEF IInv, ClaimReplyLost, ClaimRows, OldestBatch,
     Claimable, Pending, Ready, Fault, pods, history, TypeOK, OneOwner,
     HistoryMatchesRow, HandedAtMostOnce, GivesUpAfterAllRetries, Held, Event
<1>2. OneOwner'
  BY OutboxAssumption DEF IInv, ClaimReplyLost, ClaimRows, OldestBatch,
     Claimable, Pending, Ready, Fault, pods, history, TypeOK, OneOwner,
     HistoryMatchesRow, HandedAtMostOnce, GivesUpAfterAllRetries, Held, Event
<1>3. HandedAtMostOnce'
  BY OutboxAssumption DEF IInv, ClaimReplyLost, ClaimRows, OldestBatch,
     Claimable, Pending, Ready, Fault, pods, history, TypeOK, HandedAtMostOnce,
     OneOwner, HistoryMatchesRow, GivesUpAfterAllRetries, Held, Event
<1>4. GivesUpAfterAllRetries'
  BY OutboxAssumption DEF IInv, ClaimReplyLost, ClaimRows, OldestBatch,
     Claimable, Pending, Ready, Fault, pods, history, TypeOK,
     GivesUpAfterAllRetries, OneOwner, HistoryMatchesRow, HandedAtMostOnce,
     Held, Event
<1>5. HistoryMatchesRow'
  BY OutboxAssumption DEF IInv, ClaimReplyLost, ClaimRows, OldestBatch,
     Claimable, Pending, Ready, Fault, pods, history, TypeOK, HistoryMatchesRow,
     OneOwner, HandedAtMostOnce, GivesUpAfterAllRetries, Held, Event
<1> QED
  BY <1>1, <1>2, <1>3, <1>4, <1>5 DEF IInv

\* PublishOk preserves the inductive invariant.
LEMMA PublishOkIInv ==
  ASSUME IInv, NEW p \in Pods, PublishOk(p) PROVE IInv'
<1>1. TypeOK'
  BY OutboxAssumption DEF IInv, PublishOk, TakeNext, Goto, rows, TypeOK,
     OneOwner, HistoryMatchesRow, HandedAtMostOnce, GivesUpAfterAllRetries,
     Held, Event
<1>2. OneOwner'
  BY OutboxAssumption DEF IInv, PublishOk, TakeNext, Goto, rows, TypeOK,
     OneOwner, HistoryMatchesRow, HandedAtMostOnce, GivesUpAfterAllRetries,
     Held, Event
<1>3. HandedAtMostOnce'
  BY OutboxAssumption DEF IInv, PublishOk, TakeNext, Goto, rows, TypeOK,
     HandedAtMostOnce, OneOwner, HistoryMatchesRow, GivesUpAfterAllRetries,
     Held, Event
<1>4. GivesUpAfterAllRetries'
  BY OutboxAssumption DEF IInv, PublishOk, TakeNext, Goto, rows, TypeOK,
     GivesUpAfterAllRetries, OneOwner, HistoryMatchesRow, HandedAtMostOnce,
     Held, Event
<1>5. HistoryMatchesRow'
  BY OutboxAssumption DEF IInv, PublishOk, TakeNext, Goto, rows, TypeOK,
     HistoryMatchesRow, OneOwner, HandedAtMostOnce, GivesUpAfterAllRetries,
     Held, Event
<1> QED
  BY <1>1, <1>2, <1>3, <1>4, <1>5 DEF IInv

\* PublishFails preserves the inductive invariant.
LEMMA PublishFailsIInv ==
  ASSUME IInv, NEW p \in Pods, PublishFails(p) PROVE IInv'
<1>1. TypeOK'
  BY OutboxAssumption DEF IInv, PublishFails, TakeNext, Goto, rows, TypeOK,
     OneOwner, HistoryMatchesRow, HandedAtMostOnce, GivesUpAfterAllRetries,
     Held, Event
<1>2. OneOwner'
  BY OutboxAssumption DEF IInv, PublishFails, TakeNext, Goto, rows, TypeOK,
     OneOwner, HistoryMatchesRow, HandedAtMostOnce, GivesUpAfterAllRetries,
     Held, Event
<1>3. HandedAtMostOnce'
  BY OutboxAssumption DEF IInv, PublishFails, TakeNext, Goto, rows, TypeOK,
     HandedAtMostOnce, OneOwner, HistoryMatchesRow, GivesUpAfterAllRetries,
     Held, Event
<1>4. GivesUpAfterAllRetries'
  BY OutboxAssumption DEF IInv, PublishFails, TakeNext, Goto, rows, TypeOK,
     GivesUpAfterAllRetries, OneOwner, HistoryMatchesRow, HandedAtMostOnce,
     Held, Event
<1>5. HistoryMatchesRow'
  BY OutboxAssumption DEF IInv, PublishFails, TakeNext, Goto, rows, TypeOK,
     HistoryMatchesRow, OneOwner, HandedAtMostOnce, GivesUpAfterAllRetries,
     Held, Event
<1> QED
  BY <1>1, <1>2, <1>3, <1>4, <1>5 DEF IInv

\* MarkPublished preserves the inductive invariant.
LEMMA MarkPublishedIInv ==
  ASSUME IInv, NEW p \in Pods, MarkPublished(p) PROVE IInv'
<1>1. TypeOK'
  BY OutboxAssumption DEF IInv, MarkPublished, NextEvent, Goto, history, TypeOK,
     OneOwner, HistoryMatchesRow, HandedAtMostOnce, GivesUpAfterAllRetries,
     Held, Event
<1>2. OneOwner'
  BY OutboxAssumption DEF IInv, MarkPublished, NextEvent, Goto, history, TypeOK,
     OneOwner, HistoryMatchesRow, HandedAtMostOnce, GivesUpAfterAllRetries,
     Held, Event
<1>3. HandedAtMostOnce'
  BY OutboxAssumption DEF IInv, MarkPublished, NextEvent, Goto, history, TypeOK,
     HandedAtMostOnce, OneOwner, HistoryMatchesRow, GivesUpAfterAllRetries,
     Held, Event
<1>4. GivesUpAfterAllRetries'
  BY OutboxAssumption DEF IInv, MarkPublished, NextEvent, Goto, history, TypeOK,
     GivesUpAfterAllRetries, OneOwner, HistoryMatchesRow, HandedAtMostOnce,
     Held, Event
<1>5. HistoryMatchesRow'
  BY OutboxAssumption DEF IInv, MarkPublished, NextEvent, Goto, history, TypeOK,
     HistoryMatchesRow, OneOwner, HandedAtMostOnce, GivesUpAfterAllRetries,
     Held, Event
<1> QED
  BY <1>1, <1>2, <1>3, <1>4, <1>5 DEF IInv

\* IncrementRetry preserves the inductive invariant.
LEMMA IncrementRetryIInv ==
  ASSUME IInv, NEW p \in Pods, IncrementRetry(p) PROVE IInv'
<1>1. TypeOK'
  BY OutboxAssumption DEF IInv, IncrementRetry, Exhausted, NextEvent, Goto,
     history, TypeOK, OneOwner, HistoryMatchesRow, HandedAtMostOnce,
     GivesUpAfterAllRetries, Held, Event
<1>2. OneOwner'
  BY OutboxAssumption DEF IInv, IncrementRetry, Exhausted, NextEvent, Goto,
     history, TypeOK, OneOwner, HistoryMatchesRow, HandedAtMostOnce,
     GivesUpAfterAllRetries, Held, Event
<1>3. HandedAtMostOnce'
  BY OutboxAssumption DEF IInv, IncrementRetry, Exhausted, NextEvent, Goto,
     history, TypeOK, HandedAtMostOnce, OneOwner, HistoryMatchesRow,
     GivesUpAfterAllRetries, Held, Event
<1>4. GivesUpAfterAllRetries'
  BY OutboxAssumption DEF IInv, IncrementRetry, Exhausted, NextEvent, Goto,
     history, TypeOK, GivesUpAfterAllRetries, OneOwner, HistoryMatchesRow,
     HandedAtMostOnce, Held, Event
<1>5. HistoryMatchesRow'
  BY OutboxAssumption DEF IInv, IncrementRetry, Exhausted, NextEvent, Goto,
     history, TypeOK, HistoryMatchesRow, OneOwner, HandedAtMostOnce,
     GivesUpAfterAllRetries, Held, Event
<1> QED
  BY <1>1, <1>2, <1>3, <1>4, <1>5 DEF IInv

\* GiveUp preserves the inductive invariant.
LEMMA GiveUpIInv ==
  ASSUME IInv, NEW p \in Pods, GiveUp(p) PROVE IInv'
<1>1. TypeOK'
  BY OutboxAssumption DEF IInv, GiveUp, Exhausted, NextEvent, Goto, history,
     TypeOK, OneOwner, HistoryMatchesRow, HandedAtMostOnce,
     GivesUpAfterAllRetries, Held, Event
<1>2. OneOwner'
  BY OutboxAssumption DEF IInv, GiveUp, Exhausted, NextEvent, Goto, history,
     TypeOK, OneOwner, HistoryMatchesRow, HandedAtMostOnce,
     GivesUpAfterAllRetries, Held, Event
<1>3. HandedAtMostOnce'
  BY OutboxAssumption DEF IInv, GiveUp, Exhausted, NextEvent, Goto, history,
     TypeOK, HandedAtMostOnce, OneOwner, HistoryMatchesRow,
     GivesUpAfterAllRetries, Held, Event
<1>4. GivesUpAfterAllRetries'
  BY OutboxAssumption DEF IInv, GiveUp, Exhausted, NextEvent, Goto, history,
     TypeOK, GivesUpAfterAllRetries, OneOwner, HistoryMatchesRow,
     HandedAtMostOnce, Held, Event
<1>5. HistoryMatchesRow'
  BY OutboxAssumption DEF IInv, GiveUp, Exhausted, NextEvent, Goto, history,
     TypeOK, HistoryMatchesRow, OneOwner, HandedAtMostOnce,
     GivesUpAfterAllRetries, Held, Event
<1> QED
  BY <1>1, <1>2, <1>3, <1>4, <1>5 DEF IInv

\* RecordLost preserves the inductive invariant.
LEMMA RecordLostIInv ==
  ASSUME IInv, NEW p \in Pods, RecordLost(p) PROVE IInv'
<1>1. TypeOK'
  BY OutboxAssumption DEF IInv, RecordLost, Fault, NextEvent, Goto, history,
     rows, TypeOK, OneOwner, HistoryMatchesRow, HandedAtMostOnce,
     GivesUpAfterAllRetries, Held, Event
<1>2. OneOwner'
  BY OutboxAssumption DEF IInv, RecordLost, Fault, NextEvent, Goto, history,
     rows, TypeOK, OneOwner, HistoryMatchesRow, HandedAtMostOnce,
     GivesUpAfterAllRetries, Held, Event
<1>3. HandedAtMostOnce'
  BY OutboxAssumption DEF IInv, RecordLost, Fault, NextEvent, Goto, history,
     rows, TypeOK, HandedAtMostOnce, OneOwner, HistoryMatchesRow,
     GivesUpAfterAllRetries, Held, Event
<1>4. GivesUpAfterAllRetries'
  BY OutboxAssumption DEF IInv, RecordLost, Fault, NextEvent, Goto, history,
     rows, TypeOK, GivesUpAfterAllRetries, OneOwner, HistoryMatchesRow,
     HandedAtMostOnce, Held, Event
<1>5. HistoryMatchesRow'
  BY OutboxAssumption DEF IInv, RecordLost, Fault, NextEvent, Goto, history,
     rows, TypeOK, HistoryMatchesRow, OneOwner, HandedAtMostOnce,
     GivesUpAfterAllRetries, Held, Event
<1> QED
  BY <1>1, <1>2, <1>3, <1>4, <1>5 DEF IInv

\* Crash preserves the inductive invariant.
LEMMA CrashIInv ==
  ASSUME IInv, NEW p \in Pods, Crash(p) PROVE IInv'
<1>1. TypeOK'
  BY OutboxAssumption DEF IInv, Crash, Fault, Goto, Ready, rows, history,
     TypeOK, OneOwner, HistoryMatchesRow, HandedAtMostOnce,
     GivesUpAfterAllRetries, Held, Event
<1>2. OneOwner'
  BY OutboxAssumption DEF IInv, Crash, Fault, Goto, Ready, rows, history,
     TypeOK, OneOwner, HistoryMatchesRow, HandedAtMostOnce,
     GivesUpAfterAllRetries, Held, Event
<1>3. HandedAtMostOnce'
  BY OutboxAssumption DEF IInv, Crash, Fault, Goto, Ready, rows, history,
     TypeOK, HandedAtMostOnce, OneOwner, HistoryMatchesRow,
     GivesUpAfterAllRetries, Held, Event
<1>4. GivesUpAfterAllRetries'
  BY OutboxAssumption DEF IInv, Crash, Fault, Goto, Ready, rows, history,
     TypeOK, GivesUpAfterAllRetries, OneOwner, HistoryMatchesRow,
     HandedAtMostOnce, Held, Event
<1>5. HistoryMatchesRow'
  BY OutboxAssumption DEF IInv, Crash, Fault, Goto, Ready, rows, history,
     TypeOK, HistoryMatchesRow, OneOwner, HandedAtMostOnce,
     GivesUpAfterAllRetries, Held, Event
<1> QED
  BY <1>1, <1>2, <1>3, <1>4, <1>5 DEF IInv

\* Every step of the API and of the pods preserves the inductive invariant.
LEMMA NextIInv == IInv /\ [Next]_vars => IInv'
<1> SUFFICES ASSUME IInv, [Next]_vars PROVE IInv'
  OBVIOUS
<1>1. ASSUME NEW i \in Ids, CreateWithOutbox(i) PROVE IInv'
  BY <1>1, CreateWithOutboxIInv
<1>2. ASSUME NEW p \in Pods, PodWork(p) PROVE IInv'
  BY <1>2, ClaimPendingBatchIInv, PublishOkIInv, PublishFailsIInv, MarkPublishedIInv,
     IncrementRetryIInv, GiveUpIInv DEF PodWork
<1>3. ASSUME NEW p \in Pods, PodFault(p) PROVE IInv'
  BY <1>3, ClaimReplyLostIInv, RecordLostIInv, CrashIInv DEF PodFault
<1>4. CASE UNCHANGED vars
  BY <1>4 DEF vars, rows, pods, history, IInv, TypeOK, OneOwner, Held, HandedAtMostOnce,
     GivesUpAfterAllRetries, HistoryMatchesRow
<1> QED
  BY <1>1, <1>2, <1>3, <1>4 DEF Next

\* The inductive invariant holds in every state of every behaviour.
LEMMA IInvAlways == Spec => []IInv
<1>1. Init => IInv
  BY InitIInv
<1>2. IInv /\ [Next]_vars => IInv'
  BY NextIInv
<1> QED
  BY <1>1, <1>2, PTL DEF Spec

\* Rows, pods and histories stay in their ranges; retry_count stays below the
\* limit although pods increment it from different snapshots.
THEOREM OutboxTypeCorrect == Spec => []TypeOK
  BY IInvAlways, PTL DEF IInv

\* No two pods of the outbox worker ever hold the same event.
THEOREM OutboxOneOwner == Spec => []OneOwner
  BY IInvAlways, PTL DEF IInv

\* No event is handed to the broker twice, and none that ended failed.
THEOREM OutboxHandedAtMostOnce == Spec => []HandedAtMostOnce
  BY IInvAlways, PTL DEF IInv

\* The worker gives an event up only after OutboxMaxRetries refusals, and the
\* notification is failed exactly then.
THEOREM OutboxGivesUpAfterAllRetries == Spec => []GivesUpAfterAllRetries
  BY IInvAlways, PTL DEF IInv

\* The phase of a request, as the refinement mapping computes it.
Phase(i) == IF outbox[i].status = "none" THEN "absent"
            ELSE IF handed[i] > 0 THEN "handed"
            ELSE IF notification[i] = "failed" THEN "abandoned"
            ELSE "accepted"

\* A step that changes no row's visible phase is a stutter of the contract.
LEMMA SamePhase ==
  ASSUME \A i \in Ids : Phase(i)' = Phase(i), handed' = handed
  PROVE  UNCHANGED Contract!vars
  BY DEF Contract!vars, Phase

\* A step that moves one request's phase is a Move of the contract.
LEMMA OneMove ==
  ASSUME NEW k \in Ids, NEW from, NEW to, Phase(k) = from, Phase(k)' = to,
         \A i \in Ids \ {k} : Phase(i)' = Phase(i)
  PROVE  Contract!Move(k, from, to)
  BY DEF Contract!Move, Phase

\* Each step of the outbox is a step of the contract or leaves it unchanged.
LEMMA StepImplements ==
  ASSUME IInv, [Next]_vars PROVE [Contract!Next]_(Contract!vars)
<1> USE OutboxAssumption DEF IInv, TypeOK
<1>1. ASSUME NEW i \in Ids, CreateWithOutbox(i) PROVE Contract!Accept(i)
  <2>1. Phase(i) = "absent" /\ Phase(i)' = "accepted"
    BY <1>1 DEF CreateWithOutbox, Phase, HistoryMatchesRow, history
  <2>2. \A j \in Ids \ {i} : Phase(j)' = Phase(j)
    BY <1>1 DEF CreateWithOutbox, Phase, history
  <2> QED
    BY <1>1, <2>1, <2>2, OneMove DEF Contract!Accept, CreateWithOutbox, history
<1>2. ASSUME NEW p \in Pods, ClaimPendingBatch(p) \/ ClaimReplyLost(p)
      PROVE  UNCHANGED Contract!vars
  <2>1. handed' = handed /\ notification' = notification
    BY <1>2 DEF ClaimPendingBatch, ClaimReplyLost, ClaimRows, history
  <2>2. \A i \in Ids : outbox[i].status = "none" <=> outbox'[i].status = "none"
    BY <1>2 DEF ClaimPendingBatch, ClaimReplyLost, ClaimRows, OldestBatch, Claimable, Pending
  <2> QED
    BY <2>1, <2>2, SamePhase DEF Phase
<1>3. ASSUME NEW p \in Pods, PublishOk(p) PROVE \E i \in Ids : Contract!HandOver(i)
  <2>1. PICK e \in todo[p] : /\ handed' = [handed EXCEPT ![e.id] = @ + 1]
                             /\ UNCHANGED rows
    BY <1>3 DEF PublishOk
  <2>2. e.id \in Ids /\ outbox[e.id].status = "processing" /\ handed[e.id] = 0
    BY <2>1 DEF Event, OneOwner, Held, HistoryMatchesRow
  <2>3. Phase(e.id) = "accepted" /\ Phase(e.id)' = "handed"
    BY <2>1, <2>2 DEF Phase, GivesUpAfterAllRetries, rows
  <2>4. \A j \in Ids \ {e.id} : Phase(j)' = Phase(j)
    BY <2>1, <2>2 DEF Phase, rows
  <2>5. handed' = [handed EXCEPT ![e.id] = 1]
    BY <2>1, <2>2
  <2> QED
    BY <2>2, <2>3, <2>4, <2>5, OneMove DEF Contract!HandOver
<1>4. ASSUME NEW p \in Pods, PublishFails(p) \/ RecordLost(p) \/ Crash(p)
      PROVE  UNCHANGED Contract!vars
  BY <1>4, SamePhase DEF PublishFails, RecordLost, Crash, NextEvent, rows, history, Phase
<1>5. ASSUME NEW p \in Pods, MarkPublished(p) \/ IncrementRetry(p)
      PROVE  UNCHANGED Contract!vars
  <2>1. handed' = handed /\ notification' = notification
    BY <1>5 DEF MarkPublished, IncrementRetry, NextEvent, history
  <2>2. \A i \in Ids : outbox[i].status = "none" <=> outbox'[i].status = "none"
    BY <1>5 DEF MarkPublished, IncrementRetry, OneOwner, Held, HistoryMatchesRow, Event
  <2> QED
    BY <2>1, <2>2, SamePhase DEF Phase
<1>6. ASSUME NEW p \in Pods, GiveUp(p) PROVE \E i \in Ids : Contract!Abandon(i)
  <2>1. PICK k \in Ids : /\ k = now[p].id
                          /\ outbox[k].status = "processing" /\ handed[k] = 0
    BY <1>6 DEF GiveUp, Event, OneOwner, Held, HistoryMatchesRow
  <2>2. Phase(k) = "accepted" /\ Phase(k)' = "abandoned"
    BY <1>6, <2>1 DEF GiveUp, NextEvent, history, Phase, GivesUpAfterAllRetries
  <2>3. \A j \in Ids \ {k} : Phase(j)' = Phase(j)
    BY <1>6, <2>1 DEF GiveUp, NextEvent, history, Phase
  <2> QED
    BY <1>6, <2>1, <2>2, <2>3, OneMove DEF Contract!Abandon, GiveUp, NextEvent, history
<1>7. ASSUME UNCHANGED vars PROVE UNCHANGED Contract!vars
  BY <1>7, SamePhase DEF vars, rows, history, Phase
<1> QED
  BY <1>1, <1>2, <1>3, <1>4, <1>5, <1>6, <1>7 DEF Next, PodWork, PodFault, Contract!Next

\* The outbox implements its contract: a request is handed over at most once, or
\* abandoned and reported, never both.
THEOREM OutboxImplementsContract == Spec => ImplementsContract
<1>1. Init => Contract!Init
  BY DEF Init, Contract!Init
<1>2. IInv /\ [Next]_vars => [Contract!Next]_(Contract!vars)
  BY StepImplements
<1> QED
  BY <1>1, <1>2, IInvAlways, PTL DEF Spec, ImplementsContract, Contract!Spec

-----------------------------------------------------------------------------
(* Stranded rows *)

\* The rows of the events a pod holds: a batch at most.
HeldIds(p) == {e.id : e \in Held(p)}
FitsBatch == \A p \in Pods : Cardinality(HeldIds(p)) <= BatchSize

\* Inductive with IInv: a fault strands what one pod holds, or one claimed batch.
StrandInv == FitsBatch /\ OnlyFaultsStrand

\* Sets of requests are finite.
LEMMA IdsFinite == \A S \in SUBSET Ids : IsFiniteSet(S) /\ Cardinality(S) \in Nat
  BY OutboxAssumption, FS_Subset, FS_CardinalityType

\* A smaller set has fewer elements, and a union at most those of both.
LEMMA IdsCounted ==
  ASSUME NEW S \in SUBSET Ids, NEW L \in SUBSET Ids
  PROVE  /\ S \subseteq L => Cardinality(S) <= Cardinality(L)
         /\ Cardinality(S \cup L) <= Cardinality(S) + Cardinality(L)
<1>1. /\ IsFiniteSet(S) /\ IsFiniteSet(L) /\ Cardinality(S) \in Nat /\ Cardinality(L) \in Nat
      /\ IsFiniteSet(S \cap L) /\ Cardinality(S \cap L) \in Nat
  BY IdsFinite
<1>2. S \subseteq L => Cardinality(S) <= Cardinality(L)
  BY <1>1, FS_Subset
<1>3. Cardinality(S \cup L) = Cardinality(S) + Cardinality(L) - Cardinality(S \cap L)
  BY <1>1, FS_Union
<1> QED
  BY <1>1, <1>2, <1>3

\* A pod holds events of requests.
LEMMA HeldAreIds == TypeOK => \A p \in Pods : HeldIds(p) \in SUBSET Ids
  BY DEF TypeOK, HeldIds, Held, Event

\* Only ClaimPendingBatch gives a pod more, and then it held nothing before.
LEMMA FitsBatchStep ==
  ASSUME IInv, FitsBatch, [Next]_vars
  PROVE  FitsBatch'
<1>1. TypeOK /\ TypeOK' /\ HistoryMatchesRow
  BY NextIInv DEF IInv
<1>2. \A p \in Pods : HeldIds(p) \in SUBSET Ids
  BY <1>1, HeldAreIds
<1>3. ASSUME NEW p \in Pods, HeldIds(p)' \subseteq HeldIds(p)
      PROVE  Cardinality(HeldIds(p)') <= BatchSize
  <2>1. Cardinality(HeldIds(p)') <= Cardinality(HeldIds(p))
    BY <1>2, <1>3, IdsCounted
  <2>2. Cardinality(HeldIds(p)') \in Nat /\ Cardinality(HeldIds(p)) \in Nat
    BY <1>2, <1>3, IdsFinite
  <2> QED
    BY <2>1, <2>2, OutboxAssumption DEF FitsBatch
<1>4. ASSUME NEW p \in Pods, NEW q \in Pods, ClaimPendingBatch(q)
      PROVE  Cardinality(HeldIds(p)') <= BatchSize
  <2>1. PICK S \in SUBSET Ids :
          /\ Ready(q) /\ Cardinality(S) <= BatchSize /\ UNCHANGED now
          /\ todo' = [todo EXCEPT
               ![q] = {[id |-> i, retryCount |-> outbox[i].retryCount] : i \in S}]
    BY <1>4 DEF ClaimPendingBatch, ClaimRows, OldestBatch
  <2>2. CASE p = q
    <3>1. now[p] = NoEvent
      BY <1>1, <2>1, <2>2 DEF HistoryMatchesRow, Ready
    <3>2. Held(p)' = {[id |-> i, retryCount |-> outbox[i].retryCount] : i \in S}
      BY <1>1, <2>1, <2>2, <3>1 DEF Held, TypeOK
    <3>3. \A i \in S : \E e \in Held(p)' : e.id = i
      <4> TAKE i \in S
      <4>1. [id |-> i, retryCount |-> outbox[i].retryCount] \in Held(p)'
        BY <3>2
      <4> QED
        BY <4>1
    <3>4. \A e \in Held(p)' : e.id \in S
      BY <3>2
    <3>5. HeldIds(p)' = S
      BY <3>3, <3>4 DEF HeldIds
    <3> QED
      BY <2>1, <3>5
  <2>3. CASE p # q
    <3>1. Held(p)' = Held(p)
      BY <1>1, <2>1, <2>3 DEF Held, TypeOK
    <3> QED
      BY <1>3, <3>1 DEF HeldIds
  <2> QED
    BY <2>2, <2>3
<1>5. ASSUME NEW p \in Pods, NEW q \in Pods, PublishOk(q) \/ PublishFails(q)
      PROVE  HeldIds(p)' \subseteq HeldIds(p)
  <2>1. PICK e \in todo[q] : /\ todo' = [todo EXCEPT ![q] = todo[q] \ {e}]
                             /\ now' = [now EXCEPT ![q] = e]
    BY <1>5 DEF PublishOk, PublishFails, TakeNext, Goto
  <2>2. Held(p)' \subseteq Held(p)
    BY <1>1, <2>1 DEF Held, TypeOK
  <2> QED
    BY <2>2 DEF HeldIds
<1>6. ASSUME NEW p \in Pods, NEW q \in Pods,
             \/ MarkPublished(q) \/ IncrementRetry(q) \/ GiveUp(q) \/ RecordLost(q) \/ Crash(q)
      PROVE  HeldIds(p)' \subseteq HeldIds(p)
  <2>1. /\ now' = [now EXCEPT ![q] = NoEvent]
        /\ todo' = todo \/ todo' = [todo EXCEPT ![q] = {}]
    BY <1>6 DEF MarkPublished, IncrementRetry, GiveUp, RecordLost, Crash, NextEvent, Goto
  <2>2. Held(p)' \subseteq Held(p)
    BY <1>1, <2>1 DEF Held, TypeOK
  <2> QED
    BY <2>2 DEF HeldIds
<1>7. ASSUME NEW p \in Pods, UNCHANGED pods PROVE HeldIds(p)' \subseteq HeldIds(p)
  BY <1>7 DEF pods, HeldIds, Held
<1>8. ASSUME NEW p \in Pods PROVE Cardinality(HeldIds(p)') <= BatchSize
  <2>1. CASE \E i \in Ids : CreateWithOutbox(i)
    BY <1>3, <1>7, <2>1 DEF CreateWithOutbox
  <2>2. CASE \E q \in Pods : PodWork(q) \/ PodFault(q)
    BY <1>3, <1>4, <1>5, <1>6, <1>7, <2>2 DEF PodWork, PodFault, ClaimReplyLost
  <2>3. CASE UNCHANGED vars
    BY <1>3, <1>7, <2>3 DEF vars
  <2> QED
    BY <2>1, <2>2, <2>3 DEF Next
<1> QED
  BY <1>8 DEF FitsBatch

\* A step strands no row, or it is a fault and strands a batch at most.
LEMMA StrandedStep ==
  ASSUME IInv, FitsBatch, [Next]_vars
  PROVE  \/ Stranded' \subseteq Stranded /\ faults' = faults
         \/ /\ faults' = faults + 1
            /\ \E L \in SUBSET Ids : /\ Cardinality(L) <= BatchSize
                                     /\ Stranded' \subseteq Stranded \cup L
<1>1. TypeOK /\ HistoryMatchesRow /\ faults \in Nat
  BY OutboxAssumption DEF IInv, TypeOK
\* What a row must do to be stranded: be processing and lose its holder.
<1>2. ASSUME NEW i \in Ids, i \in Stranded', i \notin Stranded
      PROVE  /\ outbox'[i].status = "processing" /\ \A p \in Pods : i \notin HeldIds(p)'
             /\ outbox[i].status # "processing" \/ \E p \in Pods : i \in HeldIds(p)
  BY <1>2 DEF Stranded, HeldIds
<1>3. ASSUME NEW i \in Ids, CreateWithOutbox(i) PROVE Stranded' \subseteq Stranded /\ faults' = faults
  BY <1>1, <1>3 DEF CreateWithOutbox, pods, Stranded, Held, TypeOK
<1>4. ASSUME NEW q \in Pods, NEW S \in SUBSET Ids, ClaimRows(S)
      PROVE  /\ Cardinality(S) <= BatchSize
             /\ \A i \in Ids \ S : outbox'[i].status = outbox[i].status
  BY <1>1, <1>4 DEF ClaimRows, OldestBatch
<1>5. ASSUME NEW q \in Pods, ClaimPendingBatch(q) PROVE Stranded' \subseteq Stranded /\ faults' = faults
  <2>1. PICK S \in SUBSET Ids :
          /\ Ready(q) /\ ClaimRows(S) /\ UNCHANGED <<now, faults>>
          /\ todo' = [todo EXCEPT
               ![q] = {[id |-> i, retryCount |-> outbox[i].retryCount] : i \in S}]
    BY <1>5 DEF ClaimPendingBatch
  <2>2. now[q] = NoEvent /\ todo[q] = {}
    BY <1>1, <2>1 DEF HistoryMatchesRow, Ready
  <2>3. \A p \in Pods \ {q} : Held(p)' = Held(p)
    BY <1>1, <2>1 DEF Held, TypeOK
  <2>4. \A i \in S : i \in HeldIds(q)'
    <3>1. todo'[q] = {[id |-> i, retryCount |-> outbox[i].retryCount] : i \in S}
      BY <1>1, <2>1 DEF TypeOK
    <3> TAKE i \in S
    <3>2. [id |-> i, retryCount |-> outbox[i].retryCount] \in Held(q)'
      BY <3>1 DEF Held
    <3> QED
      BY <3>2 DEF HeldIds
  <2>5. \A i : i \notin HeldIds(q)
    BY <2>2 DEF HeldIds, Held
  <2>6. \A p \in Pods \ {q} : HeldIds(p)' = HeldIds(p)
    BY <2>3 DEF HeldIds
  <2> QED
    BY <1>2, <1>4, <2>1, <2>4, <2>5, <2>6 DEF Stranded
<1>6. ASSUME NEW q \in Pods, ClaimReplyLost(q)
      PROVE  /\ faults' = faults + 1
             /\ \E L \in SUBSET Ids : /\ Cardinality(L) <= BatchSize
                                      /\ Stranded' \subseteq Stranded \cup L
  <2>1. PICK S \in SUBSET Ids : ClaimRows(S) /\ Fault /\ UNCHANGED pods
    BY <1>6 DEF ClaimReplyLost
  <2>2. \A p \in Pods : HeldIds(p)' = HeldIds(p)
    BY <2>1 DEF HeldIds, Held, pods
  <2>3. Stranded' \subseteq Stranded \cup S
    BY <1>2, <1>4, <1>6, <2>1, <2>2 DEF Stranded
  <2> QED
    BY <1>4, <1>6, <2>1, <2>3 DEF Fault
<1>7. ASSUME NEW q \in Pods, PublishOk(q) \/ PublishFails(q)
      PROVE  Stranded' \subseteq Stranded /\ faults' = faults
  <2>1. PICK e \in todo[q] : /\ todo' = [todo EXCEPT ![q] = todo[q] \ {e}] /\ step[q] = "ready"
                             /\ now' = [now EXCEPT ![q] = e] /\ UNCHANGED <<rows, faults>>
    BY <1>7 DEF PublishOk, PublishFails, TakeNext, Goto
  <2>2. now[q] = NoEvent /\ e # NoEvent
    BY <1>1, <2>1, OutboxAssumption DEF HistoryMatchesRow, TypeOK
  <2>3. \A p \in Pods : Held(p)' = Held(p)
    BY <1>1, <2>1, <2>2 DEF Held, TypeOK
  <2> QED
    BY <2>1, <2>3 DEF Stranded, rows
<1>8. ASSUME NEW q \in Pods, MarkPublished(q) \/ IncrementRetry(q) \/ GiveUp(q) \/ RecordLost(q)
      PROVE  /\ now[q] \in Event /\ now[q].id \in Ids
             /\ \A p \in Pods : HeldIds(p) \ {now[q].id} \subseteq HeldIds(p)'
             /\ \A i \in Ids \ {now[q].id} : outbox'[i].status = outbox[i].status
  <2>1. /\ now' = [now EXCEPT ![q] = NoEvent] /\ todo' = todo /\ step[q] # "ready"
        /\ \/ outbox' = outbox
           \/ \E s : outbox' = [outbox EXCEPT ![now[q].id] = s]
    BY <1>8 DEF MarkPublished, IncrementRetry, GiveUp, RecordLost, NextEvent, Goto, rows
  <2>2. now[q] \in Event /\ now[q].id \in Ids
    BY <1>1, <2>1 DEF HistoryMatchesRow, TypeOK, Event
  <2>3. \A p \in Pods : Held(p) \ {now[q]} \subseteq Held(p)'
    BY <1>1, <2>1 DEF Held, TypeOK
  <2>4. \A p \in Pods : HeldIds(p) \ {now[q].id} \subseteq HeldIds(p)'
    BY <2>3 DEF HeldIds
  <2> QED
    BY <1>1, <2>1, <2>2, <2>4 DEF TypeOK
<1>9. ASSUME NEW q \in Pods, MarkPublished(q) \/ IncrementRetry(q) \/ GiveUp(q)
      PROVE  Stranded' \subseteq Stranded /\ faults' = faults
  <2>1. PICK k \in Ids : k = now[q].id
    BY <1>8, <1>9
  <2>2. DOMAIN outbox = Ids /\ DOMAIN outbox[k] = {"status", "retryCount"}
    BY <1>1 DEF TypeOK
  <2>3. outbox'[now[q].id].status # "processing"
    <3>1. CASE MarkPublished(q)
      BY <2>1, <2>2, <3>1 DEF MarkPublished
    <3>2. CASE IncrementRetry(q)
      BY <2>1, <2>2, <3>2 DEF IncrementRetry
    <3>3. CASE GiveUp(q)
      BY <2>1, <2>2, <3>3 DEF GiveUp
    <3> QED
      BY <1>9, <3>1, <3>2, <3>3
  <2>4. faults' = faults
    BY <1>9 DEF MarkPublished, IncrementRetry, GiveUp
  <2> QED
    BY <1>2, <1>8, <1>9, <2>3, <2>4 DEF Stranded
<1>10. ASSUME NEW q \in Pods, RecordLost(q)
       PROVE  /\ faults' = faults + 1
              /\ \E L \in SUBSET Ids : /\ Cardinality(L) <= BatchSize
                                       /\ Stranded' \subseteq Stranded \cup L
  <2>1. PICK k : k = now[q].id
    OBVIOUS
  <2>2. {k} \in SUBSET Ids /\ Cardinality({k}) <= BatchSize
    <3>1. Cardinality({k}) = 1 /\ 1 <= BatchSize
      BY FS_Singleton, OutboxAssumption
    <3>2. k \in Ids
      BY <1>8, <1>10, <2>1
    <3> QED
      BY <3>1, <3>2
  <2>3. Stranded' \subseteq Stranded \cup {k}
    BY <1>2, <1>8, <1>10, <2>1 DEF Stranded
  <2> QED
    BY <1>10, <2>2, <2>3 DEF RecordLost, Fault
<1>11. ASSUME NEW q \in Pods, Crash(q)
       PROVE  /\ faults' = faults + 1
              /\ \E L \in SUBSET Ids : /\ Cardinality(L) <= BatchSize
                                       /\ Stranded' \subseteq Stranded \cup L
  <2>1. /\ todo' = [todo EXCEPT ![q] = {}] /\ now' = [now EXCEPT ![q] = NoEvent] /\ outbox' = outbox
        /\ faults' = faults + 1
    BY <1>11 DEF Crash, Goto, rows, Fault
  <2>2. HeldIds(q) \in SUBSET Ids /\ Cardinality(HeldIds(q)) <= BatchSize
    BY <1>1, HeldAreIds DEF FitsBatch
  <2>3. \A p \in Pods \ {q} : Held(p)' = Held(p)
    BY <1>1, <2>1 DEF Held, TypeOK
  <2>4. \A p \in Pods \ {q} : HeldIds(p)' = HeldIds(p)
    BY <2>3 DEF HeldIds
  <2>5. Stranded' \subseteq Stranded \cup HeldIds(q)
    BY <1>2, <2>1, <2>4 DEF Stranded
  <2> QED
    BY <2>1, <2>2, <2>5
<1>12. CASE UNCHANGED vars
  BY <1>1, <1>12 DEF vars, rows, pods, Stranded, Held
<1> QED
  BY <1>1, <1>3, <1>5, <1>6, <1>7, <1>9, <1>10, <1>11, <1>12 DEF Next, PodWork, PodFault

\* Rows are stranded by faults alone, a batch at most per fault: crashes between a
\* claim and its records, and claims and records the database answered with an error.
THEOREM OutboxOnlyFaultsStrand == Spec => []OnlyFaultsStrand
<1>1. Init => StrandInv
  <2> SUFFICES ASSUME Init PROVE StrandInv
    OBVIOUS
  <2>1. \A p \in Pods : HeldIds(p) = {}
    BY DEF Init, HeldIds, Held
  <2>2. Stranded = {} /\ faults = 0
    BY DEF Init, Stranded
  <2> QED
    BY <2>1, <2>2, FS_EmptySet, OutboxAssumption DEF StrandInv, FitsBatch, OnlyFaultsStrand
<1>2. IInv /\ StrandInv /\ [Next]_vars => StrandInv'
  <2> SUFFICES ASSUME IInv, FitsBatch, OnlyFaultsStrand, [Next]_vars PROVE OnlyFaultsStrand'
    BY FitsBatchStep DEF StrandInv
  <2>1. /\ Stranded \in SUBSET Ids /\ Stranded' \in SUBSET Ids /\ BatchSize \in Nat
        /\ faults \in Nat /\ faults' \in Nat
    BY NextIInv, OutboxAssumption DEF Stranded, IInv, TypeOK
  <2>2. Cardinality(Stranded) \in Nat /\ Cardinality(Stranded') \in Nat
    BY <2>1, IdsFinite
  <2>3. Cardinality(Stranded) <= faults * BatchSize
    BY DEF OnlyFaultsStrand
  <2>4. CASE Stranded' \subseteq Stranded /\ faults' = faults
    <3>1. Cardinality(Stranded') <= Cardinality(Stranded)
      BY <2>1, <2>4, IdsCounted
    <3>2. faults' * BatchSize = faults * BatchSize /\ faults * BatchSize \in Nat
      BY <2>1, <2>4
    <3> QED
      BY <2>2, <2>3, <3>1, <3>2 DEF OnlyFaultsStrand
  <2>5. ASSUME faults' = faults + 1,
               NEW L \in SUBSET Ids, Cardinality(L) <= BatchSize, Stranded' \subseteq Stranded \cup L
        PROVE  OnlyFaultsStrand'
    <3>1. Cardinality(Stranded') <= Cardinality(Stranded \cup L)
      BY <2>1, <2>5, IdsCounted
    <3>2. Cardinality(Stranded \cup L) <= Cardinality(Stranded) + Cardinality(L)
      BY <2>1, IdsCounted
    <3>3. Cardinality(Stranded \cup L) \in Nat /\ Cardinality(L) \in Nat
      BY <2>1, IdsFinite
    <3>4. faults' * BatchSize = faults * BatchSize + BatchSize /\ faults * BatchSize \in Nat
      BY <2>1, <2>5
    <3> QED
      BY <2>1, <2>2, <2>3, <2>5, <3>1, <3>2, <3>3, <3>4 DEF OnlyFaultsStrand
  <2> QED
    BY <2>4, <2>5, StrandedStep
<1>3. StrandInv => OnlyFaultsStrand
  BY DEF StrandInv
<1> QED
  BY <1>1, <1>2, <1>3, IInvAlways, PTL DEF Spec
=============================================================================
