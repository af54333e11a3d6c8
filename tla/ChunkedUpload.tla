---------------------------- MODULE ChunkedUpload ----------------------------
(***************************************************************************)
(* Uploads in parts (service/upload_session_service.go): a session per S3  *)
(* multipart upload, a presigned URL and a confirmation per part, and one  *)
(* completion, locked by the transition from in_progress to completing.    *)
(***************************************************************************)
EXTENDS UploadTables

Begin(r, step, fields) ==
  /\ At(r, "idle")
  /\ req' = [req EXCEPT ![r] = [fields EXCEPT !.at = step]]
  /\ UNCHANGED <<rows, bucket, history, faults>>

About(s) == [NoRequest EXCEPT !.s = s]

\* InitChunkedUpload: the row of the video is read and has to be pending.
InitChunkedUpload(r) == video = "pending" /\ Begin(r, "createMultipart", NoRequest)

CreateMultipart(r, s) ==
  /\ At(r, "createMultipart") /\ multipart[s] = "none"
  /\ multipart' = [multipart EXCEPT ![s] = "open"]
  /\ req' = [req EXCEPT ![r].at = "createSession", ![r].s = s]
  /\ UNCHANGED <<rows, object, stored, urls, history, faults>>

\* CreateSession inserts session and parts in one transaction.  On an error the
\* multipart upload is aborted, also when the commit had taken effect.
CreateSession(r) ==
  /\ At(r, "createSession")
  /\ \/ SetSession(req[r].s, "initiated") /\ Finish(r) /\ NoFault
     \/ SetSession(req[r].s, "initiated") /\ Goto(r, "dropMultipart") /\ Fault
     \/ UNCHANGED rows /\ Goto(r, "dropMultipart") /\ Fault
  /\ UNCHANGED <<bucket, history>>

\* Mutant: the upload without a row is left on S3.
DropMultipart_Skipped(r) ==
  /\ At(r, "dropMultipart")
  /\ Finish(r)
  /\ UNCHANGED <<rows, bucket, history, faults>>

DropMultipart(r) ==
  /\ At(r, "dropMultipart")
  /\ AbortMultipart(req[r].s)
  /\ Finish(r)
  /\ UNCHANGED <<rows, history, faults>>

\* GetPartURL reads the session, then the part.
GetPartURL(r, s, n) ==
  /\ session[s] \in Active
  /\ Begin(r, "readPart", [About(s) EXCEPT !.n = n, !.fresh = (session[s] = "initiated")])

ReadPart(r) ==
  /\ At(r, "readPart")
  /\ IF part[req[r].s][req[r].n] = 0 THEN Goto(r, "savePart") ELSE Finish(r)
  /\ UNCHANGED <<rows, bucket, history, faults>>

HandURL(r) == urls' = urls \cup {<<req[r].s, req[r].n>>} /\ UNCHANGED <<object, multipart, stored>>

\* Save writes the whole row as it was read, pending.  An error is only logged.
SavePart(r) ==
  /\ At(r, "savePart")
  /\ \/ SetPart(req[r].s, req[r].n, 0) /\ NoFault
     \/ UNCHANGED rows /\ Fault
  /\ IF req[r].fresh THEN Goto(r, "start") /\ UNCHANGED bucket ELSE Finish(r) /\ HandURL(r)
  /\ UNCHANGED history

\* A failed transition is only logged as well.
StartProgress(r) ==
  /\ At(r, "start")
  /\ \/ Transition(req[r].s, "initiated", "in_progress") /\ NoFault
     \/ UNCHANGED rows /\ Fault
  /\ Finish(r) /\ HandURL(r)
  /\ UNCHANGED history

\* The client uploads a part; S3 keeps the latest and answers with its ETag.
PutPart(s, n) ==
  /\ <<s, n>> \in urls /\ multipart[s] = "open" /\ stored[s][n] < MaxPuts
  /\ stored' = [stored EXCEPT ![s][n] = @ + 1]
  /\ UNCHANGED <<rows, object, multipart, urls, history, req, faults>>

\* ConfirmPart with an ETag the client was given, perhaps not the latest.
ConfirmPart(r, s, n, etag) ==
  /\ session[s] \in Active /\ etag \in 1..stored[s][n]
  /\ Begin(r, "readConfirm", [About(s) EXCEPT !.n = n, !.etag = etag])

ReadConfirm(r) ==
  /\ At(r, "readConfirm")
  /\ IF part[req[r].s][req[r].n] = 0 THEN Goto(r, "saveConfirm") ELSE Finish(r)
  /\ UNCHANGED <<rows, bucket, history, faults>>

SaveConfirm(r) ==
  /\ At(r, "saveConfirm")
  /\ SetPart(req[r].s, req[r].n, req[r].etag)
  /\ Finish(r)
  /\ UNCHANGED <<bucket, history, faults>>

\* CompleteSession reads the session, then its parts (Preload), and locks.
CompleteSession(r, s) == session[s] = "in_progress" /\ Begin(r, "readParts", About(s))

ReadParts(r) ==
  /\ At(r, "readParts")
  /\ IF \A n \in Parts : part[req[r].s][n] # 0
       THEN req' = [req EXCEPT ![r].at = "lock", ![r].etags = part[req[r].s]]
       ELSE Finish(r)
  /\ UNCHANGED <<rows, bucket, history, faults>>

Lock(r) ==
  /\ At(r, "lock")
  /\ Transition(req[r].s, "in_progress", "completing")
  /\ IF session[req[r].s] = "in_progress" THEN Goto(r, "assemble") ELSE Finish(r)
  /\ UNCHANGED <<bucket, history, faults>>

\* CompleteMultipartUpload: S3 wants an open upload and the ETag of every part.
Assembles(r) == multipart[req[r].s] = "open" /\ stored[req[r].s] = req[r].etags

Assemble(r) ==
  /\ At(r, "assemble")
  /\ IF Assembles(r)
       THEN multipart' = [multipart EXCEPT ![req[r].s] = "completed"] /\ object' = TRUE
       ELSE UNCHANGED <<multipart, object>>
  /\ IF Assembles(r) THEN Goto(r, "saveVideo") ELSE Goto(r, "unlock")
  /\ UNCHANGED <<rows, stored, urls, history, faults>>

\* The call fails, or its answer is lost.
AssembleFails(r) ==
  /\ At(r, "assemble")
  /\ \/ UNCHANGED <<multipart, object>>
     \/ /\ Assembles(r)
        /\ multipart' = [multipart EXCEPT ![req[r].s] = "completed"] /\ object' = TRUE
  /\ Goto(r, "unlock")
  /\ Fault
  /\ UNCHANGED <<rows, stored, urls, history>>

Unlock(r) ==
  /\ At(r, "unlock")
  /\ Transition(req[r].s, "completing", "in_progress")
  /\ Finish(r)
  /\ UNCHANGED <<bucket, history, faults>>

SaveVideo(r) ==
  /\ At(r, "saveVideo")
  /\ SetVideo("uploaded")
  /\ Goto(r, "saveSession")
  /\ UNCHANGED <<bucket, history, faults>>

\* A failed write is only logged; publishUploadedEvent follows in any case.
SaveSession(r) ==
  /\ At(r, "saveSession")
  /\ \/ SetSession(req[r].s, "completed") /\ NoFault
     \/ UNCHANGED rows /\ Fault
  /\ Goto(r, "publish")
  /\ UNCHANGED <<bucket, history>>

\* AbortSession looks at one status only: aborted.
AbortSession(r, s) ==
  /\ session[s] \notin {"none", "aborted"}
  /\ Begin(r, "abortMultipart", About(s))

AbortMultipartUpload(r) ==
  /\ At(r, "abortMultipart")
  /\ \/ AbortMultipart(req[r].s) /\ UNCHANGED history /\ NoFault
     \/ AbortMultipartFails
  /\ Goto(r, "saveAbort")
  /\ UNCHANGED rows

SaveAbort(r) ==
  /\ At(r, "saveAbort")
  /\ SetSession(req[r].s, "aborted")
  /\ Finish(r)
  /\ UNCHANGED <<bucket, history, faults>>

SessionStep(r) ==
  \/ \E s \in Sessions : CreateMultipart(r, s)
  \/ CreateSession(r) \/ DropMultipart(r)
  \/ ReadPart(r) \/ SavePart(r) \/ StartProgress(r)
  \/ ReadConfirm(r) \/ SaveConfirm(r)
  \/ ReadParts(r) \/ Lock(r) \/ Assemble(r) \/ AssembleFails(r) \/ Unlock(r)
  \/ SaveVideo(r) \/ SaveSession(r)
  \/ AbortMultipartUpload(r) \/ SaveAbort(r)

SessionRequest(r, s) ==
  \/ CompleteSession(r, s) \/ AbortSession(r, s)
  \/ \E n \in Parts : GetPartURL(r, s, n) \/ \E etag \in 1..MaxPuts : ConfirmPart(r, s, n, etag)

SessionNext ==
  \/ \E r \in Requests : SessionStep(r) \/ InitChunkedUpload(r)
  \/ \E r \in Requests, s \in Sessions : SessionRequest(r, s)
  \/ \E s \in Sessions, n \in Parts : PutPart(s, n)
=============================================================================
