----------------------- MODULE CampaignDispatch_proofs -----------------------
(***************************************************************************)
(* The safety of the campaign dispatcher for any set of users and pods,    *)
(* any batch size, queue limit and number of faults.                       *)
(***************************************************************************)
EXTENDS CampaignDispatch, FiniteSetTheorems, TLAPS

Streaming(p) == step[p] \in {"receive", "publish", "checkpoint"}
Flushing(p) == step[p] \in {"publish", "checkpoint"}

\* Nothing has been published yet.
Untouched == saved = 0 /\ \A u \in UserIds : published[u] = 0

\* The users of the batch come before those on the wire, and all of them before
\* what the server has not read; nobody beyond its cursor was published.
InOrder(p) ==
  /\ \A u \in batch[p] \cup wire[p] : u <= sent[p]
  /\ \A u \in batch[p], v \in wire[p] : u < v
  /\ \A u \in UserIds : published[u] > 0 => u <= sent[p]

\* What is still to be published was not, what left todo was, once.
NotYet(p) ==
  /\ \A u \in wire[p] : published[u] = 0
  /\ step[p] = "receive" => \A u \in batch[p] : published[u] = 0
  /\ step[p] = "publish" => todo[p] \subseteq batch[p]
  /\ step[p] = "publish" => \A u \in todo[p] : published[u] = 0
  /\ step[p] = "publish" => \A u \in batch[p] \ todo[p] : published[u] > 0
  /\ step[p] = "checkpoint" => \A u \in batch[p] : published[u] > 0

\* Whom the server has read is published, in the batch or on the wire; at the end
\* of the stream that is everybody.
Covered(p) ==
  \A u \in Recipients : u <= sent[p] \/ ended[p] = "yes" =>
    published[u] > 0 \/ u \in batch[p] \cup wire[p]

\* A batch is never overfull, and a partial one is flushed only as the last.
BatchSized(p) ==
  /\ step[p] = "receive" => Cardinality(batch[p]) < BatchSize
  /\ Flushing(p) => \/ Cardinality(batch[p]) = BatchSize
                    \/ ended[p] = "yes" /\ wire[p] = {}

PodInv(p) ==
  /\ step[p] = "count" => Untouched
  /\ Streaming(p) => InOrder(p) /\ NotYet(p) /\ Covered(p) /\ BatchSized(p)
  /\ step[p] = "complete" => \A u \in Recipients : published[u] > 0

IInv ==
  /\ TypeOK
  /\ OneDispatcher
  /\ status = "pending" => Untouched
  /\ \A u \in audience : user[u] # "absent"
  /\ \A p \in Pods : PodInv(p)
  /\ PublishedOnce
  /\ CompletedSkipsNobody
  /\ CheckpointIsSafe

\* Sets of users are finite, so their sizes are natural numbers.
LEMMA SizesAreNat == \A S \in SUBSET UserIds : IsFiniteSet(S) /\ Cardinality(S) \in Nat
  BY CampaignAssumption, FS_Subset, FS_CardinalityType

\* The initial rows, pods, streams and histories are in their ranges.
LEMMA InitTypeOK == Init => TypeOK
  BY CampaignAssumption
  DEF Init, TypeOK, CampaignOK, UsersOK, PodsOK, StreamOK, BoundsOK, Published

\* Every step keeps rows, pods, streams and histories in their ranges.
LEMMA NextTypeOK == TypeOK /\ [Next]_vars => TypeOK'
<1> SUFFICES ASSUME TypeOK, [Next]_vars PROVE TypeOK'
  OBVIOUS
<1> USE CampaignAssumption DEF TypeOK, Fault, NoFault, Goto, campaign, pods, stream, history
<1>1. ASSUME NEW p \in Pods, ClaimPendingCampaign(p) PROVE TypeOK'
  <2>1. CampaignOK'
    BY <1>1 DEF ClaimPendingCampaign, Live, CampaignOK
  <2>2. UsersOK'
    BY <1>1 DEF ClaimPendingCampaign, Live, UsersOK, Published
  <2>3. PodsOK'
    BY <1>1 DEF ClaimPendingCampaign, Live, PodsOK
  <2>4. StreamOK'
    BY <1>1 DEF ClaimPendingCampaign, Live, StreamOK
  <2>5. BoundsOK'
    BY <1>1 DEF ClaimPendingCampaign, Live, BoundsOK
  <2> QED
    BY <2>1, <2>2, <2>3, <2>4, <2>5
<1>2. ASSUME NEW p \in Pods, CountUsers(p) PROVE TypeOK'
  <2>1. CampaignOK'
    BY SizesAreNat, <1>2 DEF CountUsers, Live, CampaignOK
  <2>2. UsersOK'
    BY <1>2 DEF CountUsers, Live, UsersOK, Published
  <2>3. PodsOK'
    BY <1>2 DEF CountUsers, Live, PodsOK
  <2>4. StreamOK'
    BY <1>2 DEF CountUsers, Live, CampaignOK, StreamOK
  <2>5. BoundsOK'
    BY <1>2 DEF CountUsers, Live, BoundsOK
  <2> QED
    BY <2>1, <2>2, <2>3, <2>4, <2>5
<1>3. ASSUME NEW p \in Pods, StreamPage(p) PROVE TypeOK'
  <2>1. CampaignOK'
    BY <1>3 DEF StreamPage, CampaignOK
  <2>2. UsersOK'
    BY <1>3 DEF StreamPage, UsersOK, Published
  <2>3. PodsOK'
    BY <1>3 DEF StreamPage, PodsOK
  <2>4. StreamOK'
    <3>1. PICK P \in SUBSET UserIds : 
            /\ wire' = [wire EXCEPT ![p] = @ \cup P]
            /\ sent' = sent \/ \E u \in P : sent' = [sent EXCEPT ![p] = u]
            /\ ended' = [ended EXCEPT ![p] = "yes"] \/ ended' = [ended EXCEPT ![p] = "no"]
      BY <1>3 DEF StreamPage
    <3>2. wire' \in [Pods -> SUBSET UserIds]
      BY <3>1 DEF StreamOK
    <3>3. sent' \in [Pods -> UserIds \cup {0}]
      BY <3>1 DEF StreamOK
    <3>4. ended' \in [Pods -> {"yes", "no"}]
      BY <3>1 DEF StreamOK
    <3> QED
      BY <3>2, <3>3, <3>4 DEF StreamOK
  <2>5. BoundsOK'
    BY <1>3 DEF StreamPage, BoundsOK
  <2> QED
    BY <2>1, <2>2, <2>3, <2>4, <2>5
<1>4. ASSUME NEW p \in Pods, Receive(p) PROVE TypeOK'
  <2>1. CampaignOK'
    BY <1>4 DEF Receive, CampaignOK
  <2>2. UsersOK'
    BY <1>4 DEF Receive, UsersOK, Published
  <2>3. PodsOK'
    BY <1>4 DEF Receive, PodsOK, StreamOK
  <2>4. StreamOK'
    BY <1>4 DEF Receive, StreamOK
  <2>5. BoundsOK'
    BY <1>4 DEF Receive, BoundsOK
  <2> QED
    BY <2>1, <2>2, <2>3, <2>4, <2>5
<1>5. ASSUME NEW p \in Pods, StreamEnds(p) PROVE TypeOK'
  <2>1. CampaignOK'
    BY <1>5 DEF StreamEnds, CampaignOK
  <2>2. UsersOK'
    BY <1>5 DEF StreamEnds, UsersOK, Published
  <2>3. PodsOK'
    BY <1>5 DEF StreamEnds, PodsOK
  <2>4. StreamOK'
    BY <1>5 DEF StreamEnds, StreamOK
  <2>5. BoundsOK'
    BY <1>5 DEF StreamEnds, BoundsOK
  <2> QED
    BY <2>1, <2>2, <2>3, <2>4, <2>5
<1>6. ASSUME NEW p \in Pods, StreamBreaks(p) PROVE TypeOK'
  <2>1. CampaignOK'
    BY <1>6 DEF StreamBreaks, CampaignOK
  <2>2. UsersOK'
    BY <1>6 DEF StreamBreaks, UsersOK, Published
  <2>3. PodsOK'
    BY <1>6 DEF StreamBreaks, PodsOK
  <2>4. StreamOK'
    BY <1>6 DEF StreamBreaks, StreamOK
  <2>5. BoundsOK'
    BY <1>6 DEF StreamBreaks, BoundsOK
  <2> QED
    BY <2>1, <2>2, <2>3, <2>4, <2>5
<1>7. ASSUME NEW p \in Pods, PublishTask(p) PROVE TypeOK'
  <2>1. CampaignOK'
    BY <1>7 DEF PublishTask, CampaignOK
  <2>2. UsersOK'
    <3>1. PICK u \in UserIds :
            /\ published' = [published EXCEPT ![u] = @ + 1]
            /\ UNCHANGED <<user, audience>>
      BY <1>7 DEF PublishTask, PodsOK
    <3>2. published' \in [UserIds -> Nat]
      BY <3>1 DEF UsersOK
    <3> QED
      BY <3>1, <3>2 DEF UsersOK
  <2>3. PodsOK'
    BY <1>7 DEF PublishTask, PodsOK
  <2>4. StreamOK'
    BY <1>7 DEF PublishTask, StreamOK
  <2>5. BoundsOK'
    BY <1>7 DEF PublishTask, BoundsOK
  <2> QED
    BY <2>1, <2>2, <2>3, <2>4, <2>5
<1>8. ASSUME NEW p \in Pods, PublishFails(p) PROVE TypeOK'
  <2>1. CampaignOK'
    BY <1>8 DEF PublishFails, CampaignOK
  <2>2. UsersOK'
    BY <1>8 DEF PublishFails, UsersOK, Published
  <2>3. PodsOK'
    BY <1>8 DEF PublishFails, PodsOK
  <2>4. StreamOK'
    BY <1>8 DEF PublishFails, StreamOK
  <2>5. BoundsOK'
    BY <1>8 DEF PublishFails, BoundsOK
  <2> QED
    BY <2>1, <2>2, <2>3, <2>4, <2>5
<1>9. ASSUME NEW p \in Pods, CheckpointDispatch(p) PROVE TypeOK'
  <2>1. CampaignOK'
    BY SizesAreNat, <1>9 DEF CheckpointDispatch, CampaignOK, PodsOK
  <2>2. UsersOK'
    BY <1>9 DEF CheckpointDispatch, UsersOK, Published
  <2>3. PodsOK'
    BY <1>9 DEF CheckpointDispatch, AfterFlush, PodsOK
  <2>4. StreamOK'
    BY <1>9 DEF CheckpointDispatch, StreamOK
  <2>5. BoundsOK'
    BY <1>9 DEF CheckpointDispatch, BoundsOK
  <2> QED
    BY <2>1, <2>2, <2>3, <2>4, <2>5
<1>10. ASSUME NEW p \in Pods, MarkFailed(p) PROVE TypeOK'
  <2>1. CampaignOK'
    BY <1>10 DEF MarkFailed, Finish, CampaignOK
  <2>2. UsersOK'
    BY <1>10 DEF MarkFailed, Finish, UsersOK, Published
  <2>3. PodsOK'
    BY <1>10 DEF MarkFailed, Finish, PodsOK
  <2>4. StreamOK'
    BY <1>10 DEF MarkFailed, Finish, StreamOK
  <2>5. BoundsOK'
    BY <1>10 DEF MarkFailed, Finish, BoundsOK
  <2> QED
    BY <2>1, <2>2, <2>3, <2>4, <2>5
<1>11. ASSUME NEW p \in Pods, MarkCompleted(p) PROVE TypeOK'
  <2>1. CampaignOK'
    BY <1>11 DEF MarkCompleted, Finish, CampaignOK
  <2>2. UsersOK'
    BY <1>11 DEF MarkCompleted, Finish, UsersOK, Published
  <2>3. PodsOK'
    BY <1>11 DEF MarkCompleted, Finish, PodsOK
  <2>4. StreamOK'
    BY <1>11 DEF MarkCompleted, Finish, StreamOK
  <2>5. BoundsOK'
    BY <1>11 DEF MarkCompleted, Finish, BoundsOK
  <2> QED
    BY <2>1, <2>2, <2>3, <2>4, <2>5
<1>12. ASSUME NEW p \in Pods, Shutdown(p) PROVE TypeOK'
  <2>1. CampaignOK'
    BY <1>12 DEF Shutdown, CampaignOK
  <2>2. UsersOK'
    BY <1>12 DEF Shutdown, UsersOK, Published
  <2>3. PodsOK'
    BY <1>12 DEF Shutdown, PodsOK
  <2>4. StreamOK'
    BY <1>12 DEF Shutdown, StreamOK
  <2>5. BoundsOK'
    BY <1>12 DEF Shutdown, BoundsOK
  <2> QED
    BY <2>1, <2>2, <2>3, <2>4, <2>5
<1>13. ASSUME NEW u \in UserIds, Register(u) PROVE TypeOK'
  <2>1. CampaignOK'
    BY <1>13 DEF Register, CampaignOK
  <2>2. UsersOK'
    BY <1>13 DEF Register, UsersOK, Published
  <2>3. PodsOK'
    BY <1>13 DEF Register, PodsOK
  <2>4. StreamOK'
    BY <1>13 DEF Register, StreamOK
  <2>5. BoundsOK'
    BY <1>13 DEF Register, BoundsOK
  <2> QED
    BY <2>1, <2>2, <2>3, <2>4, <2>5
<1>14. ASSUME NEW u \in UserIds, Delete(u) PROVE TypeOK'
  <2>1. CampaignOK'
    BY <1>14 DEF Delete, CampaignOK
  <2>2. UsersOK'
    BY <1>14 DEF Delete, UsersOK, Published
  <2>3. PodsOK'
    BY <1>14 DEF Delete, PodsOK
  <2>4. StreamOK'
    BY <1>14 DEF Delete, StreamOK
  <2>5. BoundsOK'
    BY <1>14 DEF Delete, BoundsOK
  <2> QED
    BY <2>1, <2>2, <2>3, <2>4, <2>5
<1>15. ASSUME TaskTaken PROVE TypeOK'
  <2>1. CampaignOK'
    BY <1>15 DEF TaskTaken, CampaignOK
  <2>2. UsersOK'
    BY <1>15 DEF TaskTaken, UsersOK, Published
  <2>3. PodsOK'
    BY <1>15 DEF TaskTaken, PodsOK
  <2>4. StreamOK'
    BY <1>15 DEF TaskTaken, StreamOK
  <2>5. BoundsOK'
    BY <1>15 DEF TaskTaken, BoundsOK
  <2> QED
    BY <2>1, <2>2, <2>3, <2>4, <2>5
<1>16. CASE UNCHANGED vars
  BY <1>16 DEF vars, CampaignOK, UsersOK, PodsOK, StreamOK, BoundsOK, Published
<1> QED
  BY <1>1, <1>2, <1>3, <1>4, <1>5, <1>6, <1>7, <1>8, <1>9, <1>10, <1>11, <1>12, <1>13, <1>14, <1>15, <1>16 DEF Next, PodWork, PodFault

\* Rows, pods, streams and histories stay in their ranges; the saved cursor is a user's id.
THEOREM CampaignTypeCorrect == Spec => []TypeOK
  BY InitTypeOK, NextTypeOK, PTL DEF Spec

\* The initial state satisfies the inductive invariant.
LEMMA InitIInv == Init => IInv
<1> SUFFICES ASSUME Init PROVE IInv
  OBVIOUS
<1>1. TypeOK
  BY InitTypeOK
<1>2. /\ Untouched
      /\ status = "pending" /\ saved = 0 /\ audience = {}
      /\ \A p \in Pods : step[p] = "idle"
  BY DEF Init, Untouched
<1>3. OneDispatcher /\ \A p \in Pods : PodInv(p)
  BY <1>2 DEF OneDispatcher, PodInv, Streaming
<1>4. PublishedOnce /\ CompletedSkipsNobody /\ CheckpointIsSafe
  BY <1>2 DEF Untouched, PublishedOnce, CompletedSkipsNobody, CheckpointIsSafe, Recipients
<1> QED
  BY <1>1, <1>2, <1>3, <1>4 DEF IInv

\* A step of the one pod that dispatches need only be looked at in that pod.
LEMMA PodStep ==
  ASSUME IInv, TypeOK', NEW p \in Pods, step[p] # "idle",
         \A q \in Pods \ {p} : step'[q] = step[q],
         status' = status \/ step'[p] = "idle", status' # "pending",
         UNCHANGED <<user, audience>>,
         PodInv(p)', PublishedOnce', CompletedSkipsNobody', CheckpointIsSafe'
  PROVE  IInv'
<1>1. /\ status = "dispatching"
      /\ \A q \in Pods \ {p} : step[q] = "idle"
  BY DEF IInv, OneDispatcher
<1>2. OneDispatcher'
  BY <1>1 DEF OneDispatcher
<1>3. \A q \in Pods \ {p} : PodInv(q)'
  BY <1>1 DEF PodInv, Streaming
<1>4. \A u \in audience' : user'[u] # "absent"
  BY DEF IInv
<1> QED
  BY <1>2, <1>3, <1>4 DEF IInv

\* The claim starts on untouched rows.
LEMMA ClaimIInv ==
  ASSUME IInv, TypeOK', NEW p \in Pods, ClaimPendingCampaign(p)
  PROVE  IInv'
<1>1. /\ status = "pending" /\ status' = "dispatching" /\ audience' = Live
      /\ step' = [step EXCEPT ![p] = "count"] \/ step' = step
      /\ UNCHANGED <<saved, published, user>>
  BY DEF ClaimPendingCampaign, Claimable, Goto
<1>2. Untouched /\ \A q \in Pods : step[q] = "idle"
  BY <1>1 DEF IInv, OneDispatcher
<1>3. \A q \in Pods : step'[q] = "idle" \/ (q = p /\ step'[q] = "count")
  BY <1>1, <1>2 DEF IInv, TypeOK, PodsOK
<1>4. OneDispatcher'
  BY <1>1, <1>3 DEF OneDispatcher
<1>5. Untouched'
  BY <1>1, <1>2 DEF Untouched
<1>6. \A q \in Pods : PodInv(q)'
  BY <1>3, <1>5 DEF PodInv, Streaming
<1>7. \A u \in audience' : user'[u] # "absent"
  BY <1>1 DEF Live
<1>8. PublishedOnce' /\ CompletedSkipsNobody' /\ CheckpointIsSafe'
  BY <1>1, <1>5, CampaignAssumption
  DEF Untouched, PublishedOnce, CompletedSkipsNobody, CheckpointIsSafe, Recipients, Live
<1> QED
  BY <1>1, <1>4, <1>6, <1>7, <1>8 DEF IInv

\* The stream is opened at the saved cursor, where nobody is published yet.
LEMMA CountIInv ==
  ASSUME IInv, TypeOK', NEW p \in Pods, CountUsers(p)
  PROVE  IInv'
<1>1. /\ step[p] = "count"
      /\ step' = [step EXCEPT ![p] = "receive"] \/ step' = [step EXCEPT ![p] = "fail"]
      /\ batch' = [batch EXCEPT ![p] = {}]
      /\ wire' = [wire EXCEPT ![p] = {}]
      /\ sent' = [sent EXCEPT ![p] = saved]
      /\ ended' = [ended EXCEPT ![p] = "no"]
      /\ UNCHANGED <<status, saved, user, published, audience>>
  BY DEF CountUsers, Goto, history
<1>2. status = "dispatching" /\ Untouched
  BY <1>1 DEF IInv, OneDispatcher, PodInv
<1>3. /\ step'[p] \in {"receive", "fail"}
      /\ batch'[p] = {} /\ wire'[p] = {} /\ sent'[p] = 0 /\ ended'[p] = "no"
      /\ \A q \in Pods \ {p} : step'[q] = step[q]
  BY <1>1, <1>2 DEF IInv, TypeOK, PodsOK, StreamOK, Untouched
<1>4. \A u \in UserIds : published'[u] = 0
  BY <1>1, <1>2 DEF Untouched
<1>5. InOrder(p)' /\ NotYet(p)'
  BY <1>3, <1>4 DEF InOrder, NotYet
<1>6. Covered(p)'
  <2>1. Recipients' \subseteq UserIds
    BY DEF Recipients, Live
  <2>2. \A u \in UserIds : ~(u <= 0)
    BY CampaignAssumption
  <2> QED
    BY <1>3, <2>1, <2>2 DEF Covered
<1>7. BatchSized(p)'
  BY <1>3, CampaignAssumption, FS_EmptySet DEF BatchSized, Flushing
<1>8. PodInv(p)'
  BY <1>3, <1>5, <1>6, <1>7 DEF PodInv, Streaming
<1>9. PublishedOnce' /\ CompletedSkipsNobody' /\ CheckpointIsSafe'
  BY <1>1 DEF IInv, PublishedOnce, CompletedSkipsNobody, CheckpointIsSafe, Recipients, Live
<1> QED
  BY <1>1, <1>2, <1>3, <1>8, <1>9, PodStep

\* A pod that gives up, dies or finishes leaves nothing to be looked at.
LEMMA StopIInv ==
  ASSUME IInv, TypeOK', NEW p \in Pods,
         \/ StreamBreaks(p) \/ PublishFails(p) \/ Shutdown(p)
         \/ MarkFailed(p) \/ MarkCompleted(p)
  PROVE  IInv'
<1>1. /\ step[p] # "idle"
      /\ step' = [step EXCEPT ![p] = "fail"] \/ step' = [step EXCEPT ![p] = "idle"]
      /\ status' = status \/ status' = "failed" \/ step[p] = "complete"
      /\ status' = status \/ status' \in {"failed", "completed"}
      /\ status' = status \/ step' = [step EXCEPT ![p] = "idle"]
      /\ UNCHANGED <<saved, user, published, audience>>
  BY DEF StreamBreaks, PublishFails, Shutdown, MarkFailed, MarkCompleted, Finish, Goto,
         campaign, history
<1>2. /\ step'[p] \in {"fail", "idle"}
      /\ status' = status \/ step'[p] = "idle"
      /\ \A q \in Pods \ {p} : step'[q] = step[q]
  BY <1>1 DEF IInv, TypeOK, PodsOK
<1>3. status = "dispatching"
  BY <1>1 DEF IInv, OneDispatcher
<1>4. PodInv(p)'
  BY <1>2 DEF PodInv, Streaming
<1>5. CompletedSkipsNobody'
  BY <1>1, <1>3 DEF IInv, PodInv, CompletedSkipsNobody, Recipients, Live
<1>6. PublishedOnce' /\ CheckpointIsSafe'
  BY <1>1 DEF IInv, PublishedOnce, CheckpointIsSafe, Recipients, Live
<1> QED
  BY <1>1, <1>2, <1>3, <1>4, <1>5, <1>6, PodStep

\* What a pod holds are users, whose ids and cursors are numbers.
LEMMA Ranges ==
  ASSUME TypeOK, NEW p \in Pods
  PROVE  /\ batch[p] \subseteq UserIds /\ wire[p] \subseteq UserIds
         /\ sent[p] \in Nat /\ UserIds \subseteq Nat
         /\ \A u \in UserIds : published[u] \in Nat
<1>1. batch[p] \subseteq UserIds /\ wire[p] \subseteq UserIds
  BY DEF TypeOK, PodsOK, StreamOK
<1>2. sent[p] \in UserIds \cup {0}
  BY DEF TypeOK, StreamOK
<1>3. UserIds \subseteq Nat
  BY CampaignAssumption
<1>4. \A u \in UserIds : published[u] \in Nat
  BY DEF TypeOK, UsersOK
<1>5. \A n \in UserIds \cup {0} : n \in Nat
  BY <1>3
<1>6. sent[p] \in Nat
  BY <1>2, <1>5, Zenon
<1> QED
  BY <1>1, <1>3, <1>4, <1>6

\* A page lies wholly behind the cursor and leaves nobody before its new place.
LEMMA StreamPageIInv ==
  ASSUME IInv, TypeOK', NEW p \in Pods, StreamPage(p)
  PROVE  IInv'
<1>1. /\ Streaming(p) /\ ended[p] = "no"
      /\ UNCHANGED <<status, saved, user, step, batch, todo, published, audience>>
  BY DEF StreamPage, Streaming, campaign, pods, history
<1>2. PICK P \in SUBSET UserIds :
        /\ FirstPage(P, {u \in Live : u > sent[p]})
        /\ wire' = [wire EXCEPT ![p] = @ \cup P]
        /\ \/ P = {} /\ sent' = sent
           \/ \E u \in P : (\A v \in P : v <= u) /\ sent' = [sent EXCEPT ![p] = u]
        /\ ended' = [ended EXCEPT ![p] = IF Cardinality(P) < BatchSize THEN "yes" ELSE "no"]
  BY DEF StreamPage
<1>3. /\ batch[p] \subseteq UserIds /\ wire[p] \subseteq UserIds
      /\ sent[p] \in Nat /\ UserIds \subseteq Nat
      /\ \A u \in UserIds : published[u] \in Nat
  BY Ranges DEF IInv
<1>4. wire'[p] = wire[p] \cup P
  BY <1>2 DEF IInv, TypeOK, StreamOK
<1>5. /\ P \subseteq {u \in Live : u > sent[p]}
      /\ \A u \in P, v \in {u \in Live : u > sent[p]} \ P : u < v
      /\ P # {u \in Live : u > sent[p]} => Cardinality(P) = BatchSize
  BY <1>2 DEF FirstPage
<1>6. /\ sent[p] <= sent'[p] /\ \A u \in P : u <= sent'[p]
      /\ sent'[p] = sent[p] \/ sent'[p] \in P
  <2>1. CASE P = {} /\ sent' = sent
    BY <2>1, <1>3
  <2>2. ASSUME NEW u \in P, \A v \in P : v <= u, sent' = [sent EXCEPT ![p] = u]
        PROVE  /\ sent[p] <= sent'[p] /\ \A v \in P : v <= sent'[p]
               /\ sent'[p] \in P
    <3>1. sent'[p] = u
      BY <2>2 DEF IInv, TypeOK, StreamOK
    <3>2. u > sent[p]
      BY <1>5
    <3> QED
      BY <3>1, <3>2, <2>2, <1>3
  <2> QED
    BY <1>2, <2>1, <2>2
<1>7. ended'[p] = "yes" => P = {u \in Live : u > sent[p]}
  BY <1>2, <1>5, CampaignAssumption DEF IInv, TypeOK, StreamOK
<1>8. InOrder(p) /\ NotYet(p) /\ Covered(p) /\ BatchSized(p)
  BY <1>1 DEF IInv, PodInv
<1>9. InOrder(p)'
  <2>1. \A u \in P : u \in UserIds /\ u > sent[p]
    BY <1>5
  <2>2. sent'[p] \in Nat
    BY <1>3, <1>6
  <2>3. \A u \in UserIds : u <= sent[p] => u <= sent'[p]
    BY <1>3, <1>6, <2>2
  <2>4. \A u \in batch[p] \cup wire[p] \cup P : u <= sent'[p]
    BY <1>3, <1>6, <1>8, <2>3 DEF InOrder
  <2>5. \A u, v \in UserIds : u <= sent[p] /\ v > sent[p] => u < v
    BY <1>3
  <2>6. \A u \in batch[p], v \in wire[p] \cup P : u < v
    BY <1>3, <1>8, <2>1, <2>5 DEF InOrder
  <2>7. \A u \in UserIds : published[u] > 0 => u <= sent'[p]
    BY <1>8, <2>3 DEF InOrder
  <2> QED
    BY <1>1, <1>4, <2>4, <2>6, <2>7 DEF InOrder
<1>10. NotYet(p)'
  <2>1. ASSUME NEW u \in P PROVE published[u] = 0
    <3>1. u \in UserIds /\ u > sent[p]
      BY <1>5
    <3>2. u \in Nat /\ sent[p] \in Nat
      BY <3>1, <1>3
    <3>3. ~(u <= sent[p])
      BY <3>1, <3>2
    <3> QED
      BY <3>1, <3>3, <1>3, <1>8 DEF InOrder
  <2> QED
    BY <2>1, <1>1, <1>4, <1>8 DEF NotYet
<1>11. Covered(p)'
  <2> SUFFICES ASSUME NEW u \in Recipients, u <= sent'[p] \/ ended'[p] = "yes"
               PROVE  published[u] > 0 \/ u \in batch[p] \cup wire[p] \cup P
    BY <1>1, <1>4 DEF Covered, Recipients, Live
  <2>1. u \in Live /\ u \in Nat
    BY <1>3 DEF Recipients, Live
  <2>2. CASE u <= sent[p]
    BY <2>2, <1>8 DEF Covered
  <2>3. CASE u > sent[p]
    <3>1. u \in {w \in Live : w > sent[p]}
      BY <2>1, <2>3
    <3>2. CASE ended'[p] = "yes"
      BY <3>1, <3>2, <1>7
    <3>3. CASE u <= sent'[p]
      <4>1. sent'[p] \in P
        BY <2>1, <2>3, <3>3, <1>3, <1>6
      <4>2. sent'[p] \in Nat
        BY <4>1, <1>3
      <4>3. ~(u < sent'[p]) => u = sent'[p]
        BY <2>1, <3>3, <4>2
      <4>4. u < sent'[p] => ~(sent'[p] < u)
        BY <2>1, <4>2
      <4>5. u \notin P => sent'[p] < u
        BY <3>1, <4>1, <1>5
      <4> QED
        BY <4>1, <4>3, <4>4, <4>5
    <3> QED
      BY <3>2, <3>3
  <2> QED
    BY <2>1, <2>2, <2>3, <1>3
<1>12. BatchSized(p)'
  BY <1>1, <1>8 DEF BatchSized, Flushing
<1>13. PodInv(p)'
  BY <1>1, <1>9, <1>10, <1>11, <1>12 DEF PodInv, Streaming
<1>14. PublishedOnce' /\ CompletedSkipsNobody' /\ CheckpointIsSafe'
  BY <1>1 DEF IInv, PublishedOnce, CompletedSkipsNobody, CheckpointIsSafe, Recipients, Live
<1>15. step[p] # "idle" /\ status # "pending"
  BY <1>1 DEF IInv, OneDispatcher, Streaming
<1> QED
  BY <1>1, <1>13, <1>14, <1>15, PodStep

\* The record that is received is the first on the wire.
LEMMA ReceiveIInv ==
  ASSUME IInv, TypeOK', NEW p \in Pods, Receive(p)
  PROVE  IInv'
<1>1. PICK u \in wire[p] :
        /\ step[p] = "receive"
        /\ \A v \in wire[p] : u <= v
        /\ wire' = [wire EXCEPT ![p] = @ \ {u}]
        /\ batch' = [batch EXCEPT ![p] = @ \cup {u}]
        /\ \/ Cardinality(batch[p] \cup {u}) < BatchSize /\ step' = step
           \/ /\ ~(Cardinality(batch[p] \cup {u}) < BatchSize)
              /\ step' = [step EXCEPT ![p] = "publish"]
              /\ todo' = [todo EXCEPT ![p] = batch'[p]]
        /\ UNCHANGED <<status, saved, user, sent, ended, published, audience>>
  BY DEF Receive, Goto, campaign, history
<1>2. /\ batch[p] \subseteq UserIds /\ wire[p] \subseteq UserIds
      /\ sent[p] \in Nat /\ UserIds \subseteq Nat
  BY Ranges DEF IInv
<1>3. /\ batch'[p] = batch[p] \cup {u} /\ wire'[p] = wire[p] \ {u}
      /\ step'[p] \in {"receive", "publish"}
      /\ step'[p] = "receive" => Cardinality(batch'[p]) < BatchSize
      /\ step'[p] = "publish" => ~(Cardinality(batch'[p]) < BatchSize)
      /\ step'[p] = "publish" => todo'[p] = batch'[p]
      /\ \A q \in Pods \ {p} : step'[q] = step[q]
  BY <1>1 DEF IInv, TypeOK, PodsOK, StreamOK
<1>4. InOrder(p) /\ NotYet(p) /\ Covered(p) /\ BatchSized(p)
  BY <1>1 DEF IInv, PodInv, Streaming
<1>5. InOrder(p)'
  <2>1. \A v \in wire[p] \ {u} : u < v
    BY <1>1, <1>2
  <2> QED
    BY <1>1, <1>3, <1>4, <2>1 DEF InOrder
<1>6. NotYet(p)'
  BY <1>1, <1>3, <1>4 DEF NotYet
<1>7. Covered(p)'
  BY <1>1, <1>3, <1>4 DEF Covered, Recipients, Live
<1>8. BatchSized(p)'
  <2>1. Cardinality(batch[p]) < BatchSize /\ Cardinality(batch[p]) \in Nat
    BY <1>1, <1>2, <1>4, SizesAreNat DEF BatchSized
  <2>2. /\ Cardinality(batch'[p]) <= Cardinality(batch[p]) + 1
        /\ Cardinality(batch'[p]) \in Nat
    BY <1>2, <1>3, SizesAreNat, FS_AddElement
  <2>3. BatchSize \in Nat
    BY CampaignAssumption
  <2>4. ASSUME step'[p] = "publish" PROVE Cardinality(batch'[p]) = BatchSize
    <3>1. ~(Cardinality(batch'[p]) < BatchSize)
      BY <2>4, <1>3
    <3> QED
      BY <3>1, <2>1, <2>2, <2>3
  <2>5. ~(step'[p] = "checkpoint")
    BY <1>3
  <2> QED
    BY <2>4, <2>5, <1>3 DEF BatchSized, Flushing
<1>9. PodInv(p)'
  BY <1>3, <1>5, <1>6, <1>7, <1>8 DEF PodInv, Streaming
<1>10. PublishedOnce' /\ CompletedSkipsNobody' /\ CheckpointIsSafe'
  BY <1>1 DEF IInv, PublishedOnce, CompletedSkipsNobody, CheckpointIsSafe, Recipients, Live
<1>11. step[p] # "idle" /\ status # "pending"
  BY <1>1 DEF IInv, OneDispatcher
<1> QED
  BY <1>1, <1>3, <1>9, <1>10, <1>11, PodStep

\* At the end of the stream whoever is not in the batch is published.
LEMMA StreamEndsIInv ==
  ASSUME IInv, TypeOK', NEW p \in Pods, StreamEnds(p)
  PROVE  IInv'
<1>1. /\ step[p] = "receive" /\ ended[p] = "yes" /\ wire[p] = {}
      /\ \/ batch[p] = {} /\ step' = [step EXCEPT ![p] = "complete"]
         \/ step' = [step EXCEPT ![p] = "publish"]
      /\ todo' = [todo EXCEPT ![p] = batch[p]]
      /\ UNCHANGED <<status, saved, user, batch, wire, sent, ended, published, audience>>
  BY DEF StreamEnds, Goto, campaign, history, stream
<1>2. /\ \/ batch[p] = {} /\ step'[p] = "complete"
         \/ step'[p] = "publish"
      /\ todo'[p] = batch[p]
      /\ \A q \in Pods \ {p} : step'[q] = step[q]
  BY <1>1 DEF IInv, TypeOK, PodsOK
<1>3. InOrder(p) /\ NotYet(p) /\ Covered(p) /\ BatchSized(p)
  BY <1>1 DEF IInv, PodInv, Streaming
<1>4. InOrder(p)' /\ BatchSized(p)'
  BY <1>1, <1>2, <1>3 DEF InOrder, BatchSized, Flushing
<1>5. NotYet(p)'
  BY <1>1, <1>2, <1>3 DEF NotYet
<1>6. Covered(p)' /\ (batch[p] = {} => \A u \in Recipients' : published'[u] > 0)
  BY <1>1, <1>3 DEF Covered, Recipients, Live
<1>7. PodInv(p)'
  BY <1>2, <1>4, <1>5, <1>6 DEF PodInv, Streaming
<1>8. PublishedOnce' /\ CompletedSkipsNobody' /\ CheckpointIsSafe'
  BY <1>1 DEF IInv, PublishedOnce, CompletedSkipsNobody, CheckpointIsSafe, Recipients, Live
<1>9. step[p] # "idle" /\ status # "pending"
  BY <1>1 DEF IInv, OneDispatcher
<1> QED
  BY <1>1, <1>2, <1>7, <1>8, <1>9, PodStep
\* A published task leaves todo; it is neither on the wire nor published before.
LEMMA PublishTaskIInv ==
  ASSUME IInv, TypeOK', NEW p \in Pods, PublishTask(p)
  PROVE  IInv'
<1>1. PICK u \in todo[p] :
        /\ step[p] = "publish"
        /\ todo' = [todo EXCEPT ![p] = @ \ {u}]
        /\ \/ todo'[p] = {} /\ step' = [step EXCEPT ![p] = "checkpoint"]
           \/ step' = step
        /\ published' = [published EXCEPT ![u] = @ + 1]
        /\ UNCHANGED <<status, saved, user, batch, wire, sent, ended, audience>>
  BY DEF PublishTask, Goto, campaign, stream
<1>2. InOrder(p) /\ NotYet(p) /\ Covered(p) /\ BatchSized(p)
  BY <1>1 DEF IInv, PodInv, Streaming
<1>3. /\ batch[p] \subseteq UserIds /\ wire[p] \subseteq UserIds
      /\ sent[p] \in Nat /\ UserIds \subseteq Nat
      /\ \A v \in UserIds : published[v] \in Nat
  BY Ranges DEF IInv
<1>4. /\ u \in batch[p] /\ u \in UserIds /\ published[u] = 0
      /\ todo[p] \subseteq batch[p]
  BY <1>1, <1>2, <1>3 DEF NotYet
<1>5. u \notin wire[p]
  <2>1. u \in wire[p] => u < u
    BY <1>2, <1>4 DEF InOrder
  <2>2. u \in Nat
    BY <1>3, <1>4
  <2>3. ~(u < u)
    BY <2>2
  <2> QED
    BY <2>1, <2>3
<1>6. /\ todo'[p] = todo[p] \ {u}
      /\ \/ todo'[p] = {} /\ step'[p] = "checkpoint"
         \/ step'[p] = "publish"
      /\ \A q \in Pods \ {p} : step'[q] = step[q]
  BY <1>1 DEF IInv, TypeOK, PodsOK
<1>7. published'[u] = 1 /\ \A v \in UserIds \ {u} : published'[v] = published[v]
  BY <1>1, <1>4 DEF IInv, TypeOK, UsersOK
<1>8. InOrder(p)'
  BY <1>1, <1>2, <1>4, <1>7 DEF InOrder
<1>9. NotYet(p)'
  BY <1>1, <1>2, <1>3, <1>4, <1>5, <1>6, <1>7 DEF NotYet
<1>10. \A v \in UserIds : published[v] > 0 => published'[v] > 0
  BY <1>7
<1>11. Covered(p)'
  BY <1>1, <1>2, <1>10 DEF Covered, Recipients, Live
<1>12. BatchSized(p)'
  BY <1>1, <1>2, <1>6 DEF BatchSized, Flushing
<1>13. PodInv(p)'
  BY <1>6, <1>8, <1>9, <1>11, <1>12 DEF PodInv, Streaming
<1>14. PublishedOnce'
  BY <1>7 DEF IInv, PublishedOnce
<1>15. CompletedSkipsNobody' /\ CheckpointIsSafe'
  BY <1>1, <1>10 DEF IInv, CompletedSkipsNobody, CheckpointIsSafe, Recipients, Live
<1>16. step[p] # "idle" /\ status # "pending"
  BY <1>1 DEF IInv, OneDispatcher
<1> QED
  BY <1>1, <1>6, <1>13, <1>14, <1>15, <1>16, PodStep

\* The cursor moves to the end of a batch that is published, past nobody on the wire.
LEMMA CheckpointIInv ==
  ASSUME IInv, TypeOK', NEW p \in Pods, CheckpointDispatch(p)
  PROVE  IInv'
<1>1. /\ step[p] = "checkpoint"
      /\ saved' = saved \/ saved' \in batch[p]
      /\ batch' = [batch EXCEPT ![p] = {}]
      /\ step' = [step EXCEPT ![p] = AfterFlush(batch[p])]
      /\ UNCHANGED <<status, user, todo, wire, sent, ended, published, audience>>
  BY DEF CheckpointDispatch, Goto, stream, history
<1>2. InOrder(p) /\ NotYet(p) /\ Covered(p) /\ BatchSized(p)
  BY <1>1 DEF IInv, PodInv, Streaming
<1>3. /\ batch[p] \subseteq UserIds /\ wire[p] \subseteq UserIds
      /\ sent[p] \in Nat /\ UserIds \subseteq Nat
  BY Ranges DEF IInv
<1>4. /\ batch'[p] = {}
      /\ step'[p] \in {"receive", "complete"}
      /\ step'[p] = "complete" => ended[p] = "yes" /\ wire[p] = {}
      /\ \A q \in Pods \ {p} : step'[q] = step[q]
  BY <1>1, <1>2 DEF IInv, TypeOK, PodsOK, AfterFlush, BatchSized, Flushing
<1>5. \A u \in batch[p] : published[u] > 0
  BY <1>1, <1>2 DEF NotYet
<1>6. InOrder(p)'
  BY <1>1, <1>2, <1>4 DEF InOrder
<1>7. NotYet(p)'
  BY <1>1, <1>2, <1>4 DEF NotYet
<1>8. Covered(p)'
  BY <1>1, <1>2, <1>4, <1>5 DEF Covered, Recipients, Live
<1>9. BatchSized(p)'
  BY <1>4, CampaignAssumption, FS_EmptySet DEF BatchSized, Flushing
<1>10. step'[p] = "complete" => \A u \in Recipients' : published'[u] > 0
  BY <1>1, <1>4, <1>8 DEF Covered
<1>11. PodInv(p)'
  BY <1>4, <1>6, <1>7, <1>8, <1>9, <1>10 DEF PodInv, Streaming
<1>12. CheckpointIsSafe'
  <2>1. CASE saved' = saved
    BY <2>1, <1>1 DEF IInv, CheckpointIsSafe, Recipients, Live
  <2>2. CASE saved' \in batch[p]
    <3> SUFFICES ASSUME NEW u \in Recipients, u <= saved' PROVE published[u] > 0
      BY <1>1 DEF CheckpointIsSafe, Recipients, Live
    <3>1. u \in Nat /\ saved' \in Nat
      BY <2>2, <1>3 DEF Recipients, Live
    <3>2. u <= sent[p]
      BY <2>2, <3>1, <1>2, <1>3 DEF InOrder
    <3>3. u \notin wire[p]
      BY <2>2, <3>1, <1>2 DEF InOrder
    <3> QED
      BY <3>2, <3>3, <1>2, <1>5 DEF Covered
  <2> QED
    BY <1>1, <2>1, <2>2
<1>13. PublishedOnce' /\ CompletedSkipsNobody'
  BY <1>1 DEF IInv, PublishedOnce, CompletedSkipsNobody, Recipients, Live
<1>14. step[p] # "idle" /\ status # "pending"
  BY <1>1 DEF IInv, OneDispatcher
<1> QED
  BY <1>1, <1>4, <1>11, <1>12, <1>13, <1>14, PodStep

\* Registering and deleting users only takes recipients away; the rest is untouched.
LEMMA UsersIInv ==
  ASSUME IInv, TypeOK',
         \/ \E u \in UserIds : Register(u) \/ Delete(u)
         \/ TaskTaken
         \/ UNCHANGED vars
  PROVE  IInv'
<1>1. UNCHANGED <<status, saved, step, batch, todo, wire, sent, ended, published, audience>>
  BY DEF Register, Delete, TaskTaken, vars, campaign, pods, stream, history
<1>2. \/ \E u \in UserIds : user[u] = "absent" /\ user' = [user EXCEPT ![u] = "live"]
      \/ \E u \in UserIds : user[u] = "live" /\ user' = [user EXCEPT ![u] = "deleted"]
      \/ user' = user
  BY DEF Register, Delete, TaskTaken, vars
<1>3. audience \subseteq UserIds /\ \A u \in audience : user[u] # "absent"
  BY DEF IInv, TypeOK, UsersOK
<1>4. \A u \in audience : user'[u] # "absent" /\ (user'[u] = "live" => user[u] = "live")
  BY <1>2, <1>3 DEF IInv, TypeOK, UsersOK
<1>5. Recipients' \subseteq Recipients
  BY <1>1, <1>4 DEF Recipients, Live
<1>6. \A p \in Pods : PodInv(p)'
  <2> SUFFICES ASSUME NEW p \in Pods PROVE PodInv(p)'
    OBVIOUS
  <2>1. PodInv(p)
    BY DEF IInv
  <2>2. Untouched => Untouched'
    BY <1>1 DEF Untouched
  <2>3. InOrder(p) => InOrder(p)'
    BY <1>1 DEF InOrder
  <2>4. NotYet(p) => NotYet(p)'
    BY <1>1 DEF NotYet
  <2>5. Covered(p) => Covered(p)'
    BY <1>1, <1>5 DEF Covered
  <2>6. BatchSized(p) => BatchSized(p)'
    BY <1>1 DEF BatchSized, Flushing
  <2> QED
    BY <1>1, <1>5, <2>1, <2>2, <2>3, <2>4, <2>5, <2>6 DEF PodInv, Streaming
<1>7. OneDispatcher' /\ PublishedOnce'
  BY <1>1 DEF IInv, OneDispatcher, PublishedOnce
<1>8. CompletedSkipsNobody' /\ CheckpointIsSafe'
  BY <1>1, <1>5 DEF IInv, CompletedSkipsNobody, CheckpointIsSafe
<1>9. status' = "pending" => Untouched'
  BY <1>1 DEF IInv, Untouched
<1> QED
  BY <1>1, <1>4, <1>6, <1>7, <1>8, <1>9 DEF IInv

\* Every step preserves the inductive invariant.
LEMMA NextIInv == IInv /\ [Next]_vars => IInv'
<1> SUFFICES ASSUME IInv, [Next]_vars PROVE IInv'
  OBVIOUS
<1>1. TypeOK'
  BY NextTypeOK DEF IInv
<1>2. ASSUME NEW p \in Pods, PodWork(p) \/ StreamPage(p) \/ PodFault(p) PROVE IInv'
  BY <1>1, <1>2, ClaimIInv, CountIInv, StreamPageIInv, ReceiveIInv, StreamEndsIInv,
     PublishTaskIInv, CheckpointIInv, StopIInv DEF PodWork, PodFault
<1>3. CASE (\E u \in UserIds : Register(u) \/ Delete(u)) \/ TaskTaken \/ UNCHANGED vars
  BY <1>1, <1>3, UsersIInv
<1> QED
  BY <1>2, <1>3 DEF Next

\* The inductive invariant holds in every reachable state.
LEMMA CampaignInvariant == Spec => []IInv
  BY InitIInv, NextIInv, PTL DEF Spec

\* One pod at a time dispatches, for any number of pods.
THEOREM CampaignOneDispatcher == Spec => []OneDispatcher
<1>1. IInv => OneDispatcher
  BY DEF IInv
<1> QED
  BY <1>1, CampaignInvariant, PTL

\* No user gets two tasks, whatever fails and whoever registers or leaves.
THEOREM CampaignPublishedOnce == Spec => []PublishedOnce
<1>1. IInv => PublishedOnce
  BY DEF IInv
<1> QED
  BY <1>1, CampaignInvariant, PTL

\* A completed campaign has skipped nobody, for any batch size and any set of users.
THEOREM CampaignSkipsNobody == Spec => []CompletedSkipsNobody
<1>1. IInv => CompletedSkipsNobody
  BY DEF IInv
<1> QED
  BY <1>1, CampaignInvariant, PTL

\* The saved cursor can always be resumed from.
THEOREM CampaignCheckpointIsSafe == Spec => []CheckpointIsSafe
<1>1. IInv => CheckpointIsSafe
  BY DEF IInv
<1> QED
  BY <1>1, CampaignInvariant, PTL
=============================================================================
