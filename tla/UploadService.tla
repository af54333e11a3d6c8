---------------------------- MODULE UploadService ----------------------------
(***************************************************************************)
(* The upload service: both kinds of uploads of one video, served by the   *)
(* API's pods, and the janitor of cmd/main.go's other mode, on one         *)
(* database and one bucket.                                                *)
(***************************************************************************)
EXTENDS VideoUpload, ChunkedUpload, UploadJanitor

vars == <<tables, janitorVars>>

Init == InitTables /\ InitJanitor

Next ==
  \/ VideoNext /\ UNCHANGED janitorVars
  \/ SessionNext /\ UNCHANGED janitorVars
  \/ (\E R \in SUBSET Requests : RequestsStop(R)) /\ UNCHANGED janitorVars
  \/ (\E x \in Sessions \cup {Video} : Expire(x)) /\ UNCHANGED janitorVars
  \/ JanitorStep \/ JanitorDies

Spec == Init /\ [][Next]_vars

\* A handler goes on once it has begun, expiry times pass, and the janitor's
\* ticker fires.  Clients and faults are not fair.
Fairness ==
  /\ \A r \in Requests : WF_vars((VideoStep(r) \/ SessionStep(r)) /\ UNCHANGED janitorVars)
  /\ \A x \in Sessions \cup {Video} : WF_vars(x \notin late /\ Expire(x) /\ UNCHANGED janitorVars)
  /\ WF_vars(JanitorStep)

FairSpec == Spec /\ Fairness
-----------------------------------------------------------------------------
Completing(s) ==
  {r \in Requests : req[r].s = s
     /\ req[r].at \in {"assemble", "unlock", "saveVideo", "saveSession"}}

\* CompleteSession's transition is a lock: whatever aborts, expires or unlocks the
\* row meanwhile, one request at most completes a session, and unless something
\* failed a completing session has one.
LockIsHeldByOne ==
  \A s \in Sessions :
    /\ Cardinality(Completing(s)) <= 1
    /\ session[s] = "completing" /\ faults = 0 => Completing(s) # {}

HandsOn == {"createSession", "dropMultipart", "assemble", "unlock"}

\* Table and bucket agree: as long as no process dies and no abort fails on S3, a
\* multipart upload is open only for a session the janitor will find or for the
\* request that is about to create, drop or complete it.
NoOrphanUploads ==
  \A s \in Sessions : multipart[s] = "open" /\ ~stopped =>
    \/ session[s] \in Active
    \/ \E r \in Requests : req[r].s = s /\ req[r].at \in HandsOn

\* A row that says uploaded has its object, unless AbortUpload deleted it, and a
\* session that says completed was assembled.
ClaimsAreStored ==
  /\ video = "uploaded" => object \/ deleted
  /\ \A s \in Sessions : session[s] = "completed" => multipart[s] = "completed"

\* No session stays active for ever once it is overdue, whatever requests race
\* with the janitor and whatever fails.
SessionsSettle == \A s \in Sessions : s \in late ~> session[s] \notin Active

\* processVideo recovers what the client stored and never completed, unless it
\* was already at work when the object came: such a video never ends as expired.
LostCompleteIsRecovered ==
  video = "pending" /\ object /\ jan = "idle" ~> video \in {"uploaded", "aborted"} \/ deleted

\* Whoever saves the video as uploaded publishes the event, unless something fails.
UploadedIsAnnounced == video = "uploaded" ~> announced \/ faults > 0
=============================================================================
