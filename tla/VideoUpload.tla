----------------------------- MODULE VideoUpload -----------------------------
(***************************************************************************)
(* Uploads with one PUT (service/video_service.go): the client gets a      *)
(* presigned URL, stores the object and calls complete, or aborts.         *)
(***************************************************************************)
EXTENDS UploadTables

\* InitUpload: the presigned URL is signed locally, so the row is its only call.
InitUpload ==
  /\ video = "none"
  /\ SetVideo("pending")
  /\ UNCHANGED <<bucket, history, req, faults>>

\* The client stores the object.  A PUT that began before the URL expired may
\* end after it.
PutObject ==
  /\ video # "none" /\ ~object
  /\ object' = TRUE
  /\ UNCHANGED <<rows, multipart, stored, urls, history, req, faults>>

\* CompleteUpload; on an uploaded video it returns the row as it is.
CompleteUpload(r) ==
  /\ At(r, "idle") /\ video \notin {"none", "uploaded"}
  /\ Goto(r, "headObject")
  /\ UNCHANGED <<rows, bucket, history, faults>>

\* Mutant: the answer of HeadObject is not looked at.
HeadObject_Unchecked(r) ==
  /\ At(r, "headObject")
  /\ Goto(r, "saveUploaded")
  /\ UNCHANGED <<rows, bucket, history, faults>>

HeadObject(r) ==
  /\ At(r, "headObject")
  /\ IF object THEN Goto(r, "saveUploaded") ELSE Finish(r)
  /\ UNCHANGED <<rows, bucket, history, faults>>

SaveUploaded(r) ==
  /\ At(r, "saveUploaded")
  /\ SetVideo("uploaded")
  /\ Goto(r, "publish")
  /\ UNCHANGED <<bucket, history, faults>>

\* publishUploadedEvent, of both services; its error is only logged.
PublishUploaded(r) ==
  /\ At(r, "publish")
  /\ Announce
  /\ Finish(r)
  /\ UNCHANGED <<rows, bucket, faults>>

\* AbortUpload; on an aborted video it returns the row as it is.
AbortUpload(r) ==
  /\ At(r, "idle") /\ video \notin {"none", "aborted"}
  /\ Goto(r, "deleteObject")
  /\ UNCHANGED <<rows, bucket, history, faults>>

\* A failed delete is logged and the row is aborted all the same.
DeleteObject(r) ==
  /\ At(r, "deleteObject")
  /\ Goto(r, "saveAborted")
  /\ \/ /\ object' = FALSE /\ deleted' = TRUE /\ NoFault
        /\ UNCHANGED <<multipart, stored, urls, announced, stopped>>
     \/ UNCHANGED <<bucket, history>> /\ Fault
  /\ UNCHANGED rows

SaveAborted(r) ==
  /\ At(r, "saveAborted")
  /\ SetVideo("aborted")
  /\ Finish(r)
  /\ UNCHANGED <<bucket, history, faults>>

VideoStep(r) ==
  HeadObject(r) \/ SaveUploaded(r) \/ PublishUploaded(r) \/ DeleteObject(r) \/ SaveAborted(r)

VideoNext ==
  \/ InitUpload \/ PutObject
  \/ \E r \in Requests : CompleteUpload(r) \/ AbortUpload(r) \/ VideoStep(r)
=============================================================================
