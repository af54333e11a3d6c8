---------------------------- MODULE UploadJanitor ----------------------------
(***************************************************************************)
(* The janitor (worker/janitor_worker.go): at every tick it settles the    *)
(* expired pending video, then a batch of expired active sessions.  It     *)
(* writes back whole rows as it read them at the beginning of its batch.   *)
(***************************************************************************)
EXTENDS UploadTables

CONSTANT JanitorBatch  \* cfg.Janitor.BatchSize

ASSUME JanitorAssumption == JanitorBatch \in Nat \ {0}

VARIABLES jan,    \* the call the janitor is at
          batch,  \* the sessions it still has to expire
          now     \* the one it is at

janitorVars == <<jan, batch, now>>

InitJanitor == jan = "idle" /\ batch = {} /\ now = NoSession

JanitorGoto(from, to) == jan = from /\ jan' = to /\ UNCHANGED <<batch, now, req>>

\* runBatch: ListExpiredPending.  A failed query leaves the videos for later.
ListVideos ==
  /\ \/ video = "pending" /\ Video \in late /\ JanitorGoto("idle", "head") /\ NoFault
     \/ ~(video = "pending" /\ Video \in late) /\ JanitorGoto("idle", "list") /\ NoFault
     \/ JanitorGoto("idle", "list") /\ Fault
  /\ UNCHANGED <<rows, bucket, history>>

\* Mutant: an expired video is never looked for in the bucket.
HeadExpired_NotAsked ==
  /\ JanitorGoto("head", "expire")
  /\ UNCHANGED <<rows, bucket, history, faults>>

\* processVideo: is the object there?
HeadExpired ==
  /\ IF object THEN JanitorGoto("head", "recover") ELSE JanitorGoto("head", "expire")
  /\ UNCHANGED <<rows, bucket, history, faults>>

\* Mutant: the janitor saves the video and publishes nothing.
RecoverVideo_Silent ==
  /\ JanitorGoto("recover", "list")
  /\ SetVideo("uploaded")
  /\ UNCHANGED <<bucket, history, faults>>

RecoverVideo ==
  /\ JanitorGoto("recover", "announce")
  /\ SetVideo("uploaded")
  /\ UNCHANGED <<bucket, history, faults>>

AnnounceVideo ==
  /\ JanitorGoto("announce", "list")
  /\ Announce
  /\ UNCHANGED <<rows, bucket, faults>>

ExpireVideo ==
  /\ JanitorGoto("expire", "list")
  /\ SetVideo("expired")
  /\ UNCHANGED <<bucket, history, faults>>

\* Any of these calls fails: the error is logged and the sessions come next.
VideoCallFails ==
  /\ \E step \in {"head", "recover", "announce", "expire"} : JanitorGoto(step, "list")
  /\ Fault
  /\ UNCHANGED <<rows, bucket, history>>

\* Mutant: only sessions nobody has begun to upload are listed.
Overdue_InitiatedOnly == {s \in Sessions \cap late : session[s] = "initiated"}

\* runSessionBatch: ListExpiredActiveSessions, in no particular order.
Overdue == {s \in Sessions \cap late : session[s] \in Active}

ListSessions(S) ==
  /\ jan = "list"
  /\ S \subseteq Overdue /\ (S = Overdue \/ Cardinality(S) = JanitorBatch)
  /\ Cardinality(S) <= JanitorBatch
  /\ batch' = S
  /\ jan' = IF S = {} THEN "idle" ELSE "abort"
  /\ UNCHANGED <<rows, bucket, history, now, req, faults>>

ListSessionsFails ==
  /\ JanitorGoto("list", "idle")
  /\ Fault
  /\ UNCHANGED <<rows, bucket, history>>

\* A failed abort is logged and the row expires all the same.
AbortOverdue(s) ==
  /\ jan = "abort" /\ s \in batch
  /\ \/ AbortMultipart(s) /\ UNCHANGED history /\ NoFault
     \/ AbortMultipartFails
  /\ jan' = "save" /\ now' = s /\ batch' = batch \ {s}
  /\ UNCHANGED <<rows, req>>

SaveExpired ==
  /\ jan = "save"
  /\ \/ SetSession(now, "expired") /\ NoFault
     \/ UNCHANGED rows /\ Fault
  /\ jan' = IF batch = {} THEN "idle" ELSE "abort"
  /\ now' = NoSession
  /\ UNCHANGED <<bucket, history, batch, req>>

JanitorDies ==
  /\ jan # "idle"
  /\ jan' = "idle" /\ batch' = {} /\ now' = NoSession
  /\ stopped' = TRUE
  /\ Fault
  /\ UNCHANGED <<rows, bucket, announced, deleted, req>>

JanitorStep ==
  \/ ListVideos \/ HeadExpired \/ RecoverVideo \/ AnnounceVideo \/ ExpireVideo \/ VideoCallFails
  \/ \E S \in SUBSET Sessions : ListSessions(S)
  \/ ListSessionsFails
  \/ \E s \in Sessions : AbortOverdue(s)
  \/ SaveExpired
=============================================================================
