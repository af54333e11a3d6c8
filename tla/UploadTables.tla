---------------------------- MODULE UploadTables -----------------------------
(***************************************************************************)
(* What the handlers of the upload service and its janitor share: the rows *)
(* of one video and of its upload sessions, the bucket as storage/s3.go    *)
(* uses it, the requests that are being served, and the budget of faults.  *)
(* A request is between two of its calls to Postgres, S3 or RabbitMQ.      *)
(***************************************************************************)
EXTENDS Naturals, FiniteSets

CONSTANTS Sessions,   \* upload sessions that may be created for the video
          Parts,      \* part numbers of a session
          Requests,   \* requests that may be served at the same time
          Video,      \* the video, in the set of what is past its expiry
          NoSession,  \* of a request that is about no session
          MaxPuts,    \* bound: how often a client uploads a part
          MaxFaults   \* bound: failed calls and dead processes

ASSUME UploadAssumption ==
  /\ Video \notin Sessions /\ NoSession \notin Sessions
  /\ MaxPuts \in Nat /\ MaxFaults \in Nat

VARIABLES video,      \* videos.status, "none" before the row exists
          session,    \* upload_sessions.status, "none" before the row exists
          part,       \* upload_parts: 0 if pending, else the confirmed ETag
          late,       \* whose upload_expires_at or expires_at is past
          object,     \* is there an object under the video's key?
          multipart,  \* a session's multipart upload on S3
          stored,     \* ETag of the part S3 stores: its latest upload, 0 if none
          urls,       \* parts whose presigned URL a client holds
          req,        \* the requests
          announced,  \* history: video.uploaded was published
          deleted,    \* history: an AbortUpload deleted the object
          stopped,    \* history: a process died or an abort failed on S3
          faults      \* how many faults happened

rows == <<video, session, part, late>>
bucket == <<object, multipart, stored, urls>>
history == <<announced, deleted, stopped>>
tables == <<rows, bucket, history, req, faults>>

Active == {"initiated", "in_progress"}

\* fresh: the session was read as initiated; etags: the parts that were read.
NoRequest == [at |-> "idle", s |-> NoSession, n |-> 0, etag |-> 0, fresh |-> FALSE,
              etags |-> [n \in Parts |-> 0]]

InitTables ==
  /\ video = "none" /\ late = {} /\ object = FALSE /\ urls = {}
  /\ session = [s \in Sessions |-> "none"]
  /\ part = [s \in Sessions |-> [n \in Parts |-> 0]]
  /\ multipart = [s \in Sessions |-> "none"]
  /\ stored = [s \in Sessions |-> [n \in Parts |-> 0]]
  /\ req = [r \in Requests |-> NoRequest]
  /\ announced = FALSE /\ deleted = FALSE /\ stopped = FALSE
  /\ faults = 0

Fault == faults < MaxFaults /\ faults' = faults + 1
NoFault == UNCHANGED faults

At(r, step) == req[r].at = step
Goto(r, step) == req' = [req EXCEPT ![r].at = step]
Finish(r) == req' = [req EXCEPT ![r] = NoRequest]

SetVideo(to) == video' = to /\ UNCHANGED <<session, part, late>>
SetSession(s, to) == session' = [session EXCEPT ![s] = to] /\ UNCHANGED <<video, part, late>>
SetPart(s, n, etag) == part' = [part EXCEPT ![s][n] = etag] /\ UNCHANGED <<video, session, late>>

\* Mutant: the condition on the old status is forgotten.
Transition_Unconditional(s, from, to) == SetSession(s, to)

\* UPDATE ... SET status = to WHERE id = s AND status = from.
Transition(s, from, to) ==
  IF session[s] = from THEN SetSession(s, to) ELSE UNCHANGED rows

\* AbortMultipartUpload; a 404 for an upload that is not open counts as success.
AbortMultipart(s) ==
  /\ multipart' = [multipart EXCEPT ![s] = IF @ = "open" THEN "aborted" ELSE @]
  /\ UNCHANGED <<object, stored, urls>>

AbortMultipartFails == UNCHANGED <<bucket, announced, deleted>> /\ stopped' = TRUE /\ Fault

Announce == announced' = TRUE /\ UNCHANGED <<deleted, stopped>>

\* A call of a handler that gives up on errors fails, or the pod that serves
\* these requests dies: what they had done stays done.
RequestsStop(R) ==
  /\ R # {} /\ \A r \in R : ~At(r, "idle")
  /\ req' = [r \in Requests |-> IF r \in R THEN NoRequest ELSE req[r]]
  /\ stopped' = TRUE
  /\ Fault
  /\ UNCHANGED <<rows, bucket, announced, deleted>>

\* The clock passes the expiry of the video's URL, or of a session.
Expire(x) ==
  /\ IF x = Video THEN video # "none" ELSE session[x] # "none"
  /\ late' = late \cup {x}
  /\ UNCHANGED <<video, session, part, bucket, history, req, faults>>
=============================================================================
