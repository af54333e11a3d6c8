------------------------ MODULE UploadService_proofs -------------------------
(***************************************************************************)
(* For any number of sessions, parts, requests and faults: one request at  *)
(* most completes a session, a multipart upload is open only where someone *)
(* will find it, and what the rows claim was stored.                       *)
(***************************************************************************)
EXTENDS UploadService, FiniteSetTheorems, TLAPS

\* The calls between which a request of a session can be.
Completers == {"assemble", "unlock", "saveVideo", "saveSession"}
Knowing == Completers \cup {"abortMultipart", "saveAbort"}
SessionSteps ==
  Knowing \cup {"createSession", "dropMultipart", "readPart", "savePart", "start",
                "readConfirm", "saveConfirm", "readParts", "lock"}
Steps ==
  SessionSteps \cup {"idle", "createMultipart", "publish", "headObject", "saveUploaded",
                     "deleteObject", "saveAborted"}

\* A request, and the session it is about.
Reqs == [at : Steps, s : Sessions \cup {NoSession}, n : Parts \cup {0}, etag : Nat,
         fresh : BOOLEAN, etags : [Parts -> Nat]]
RequestsOK ==
  /\ req \in [Requests -> Reqs]
  /\ \A r \in Requests : req[r].at \in SessionSteps => req[r].s \in Sessions

\* The rows and the bucket.
TablesOK ==
  /\ video \in {"none", "pending", "uploaded", "aborted", "expired"}
  /\ session \in [Sessions -> {"none", "initiated", "in_progress", "completing",
                               "completed", "aborted", "expired"}]
  /\ multipart \in [Sessions -> {"none", "open", "aborted", "completed"}]
  /\ object \in BOOLEAN /\ announced \in BOOLEAN /\ deleted \in BOOLEAN /\ stopped \in BOOLEAN
  /\ faults \in Nat

\* The parts, and the requests that are about one.
PartSteps == {"readPart", "savePart", "start", "readConfirm", "saveConfirm"}

PartsOK ==
  /\ part \in [Sessions -> [Parts -> Nat]] /\ stored \in [Sessions -> [Parts -> Nat]]
  /\ urls \subseteq Sessions \X Parts
  /\ \A r \in Requests : req[r].at \in PartSteps => req[r].n \in Parts

JanitorOK ==
  /\ jan \in {"idle", "head", "recover", "announce", "expire", "list", "abort", "save"}
  /\ batch \subseteq Sessions /\ now \in Sessions \cup {NoSession}
  /\ (jan = "save") = (now \in Sessions)

TypeOK == RequestsOK /\ TablesOK /\ PartsOK /\ JanitorOK

\* Is a request of session s between two of these calls?
In(r, s, steps) == req[r].s = s /\ req[r].at \in steps

\* The row of a session is inserted once, by the request that opened its upload.
CreatedOnce(s) ==
  /\ session[s] # "none" => multipart[s] # "none"
  /\ \A r \in Requests :
       In(r, s, {"createSession"}) => session[s] = "none" /\ multipart[s] # "none"
  /\ \A r, q \in Requests : In(r, s, {"createSession"}) /\ In(q, s, {"createSession"}) => r = q

\* Who completes, aborts or expires a session has read its row.
RowIsKnown(s) ==
  /\ \A r \in Requests : In(r, s, Knowing) => session[s] # "none"
  /\ s \in batch \cup {now} => session[s] # "none"

\* From Lock on a request is alone, and the row stays locked.
OneCompleter(s) ==
  /\ \A r, q \in Requests : In(r, s, Completers) /\ In(q, s, Completers) => r = q
  /\ \A r \in Requests : In(r, s, Completers) => session[s] \notin {"initiated", "in_progress"}

CompleterStays(s) ==
  session[s] = "completing" /\ faults = 0 => \E r \in Requests : In(r, s, Completers)

\* A row is aborted or expired after its upload was.
AbortReaches(s) ==
  multipart[s] = "open" /\ ~stopped =>
    /\ \A r \in Requests : ~In(r, s, {"saveAbort"})
    /\ now # s /\ session[s] \notin {"aborted", "expired"}

\* A row is completed after its upload was.
AssembledFirst(s) ==
  /\ \A r \in Requests : In(r, s, {"saveVideo", "saveSession"}) => multipart[s] = "completed"
  /\ session[s] = "completed" => multipart[s] = "completed"

\* An open upload has a row the janitor will list, or a request that will end it.
FoundAgain(s) ==
  multipart[s] = "open" /\ ~stopped =>
    session[s] \in Active \/ \E r \in Requests : In(r, s, HandsOn)

SessionOK(s) ==
  /\ CreatedOnce(s) /\ RowIsKnown(s) /\ OneCompleter(s) /\ CompleterStays(s)
  /\ AbortReaches(s) /\ AssembledFirst(s) /\ FoundAgain(s)

\* A video is saved as uploaded by who saw its object or assembled it.
ObjectSeen ==
  /\ video = "uploaded" \/ jan = "recover" => object \/ deleted
  /\ \A r \in Requests : req[r].at \in {"saveUploaded", "saveVideo"} => object \/ deleted

IInv == TypeOK /\ (\A s \in Sessions : SessionOK(s)) /\ ObjectSeen

-----------------------------------------------------------------------------------------
(* Requests *)

\* Every other request stays where it is.
OthersStay(r) == \A q \in Requests : q # r => req'[q] = req[q]

\* A request goes on to its next call.
LEMMA GotoIs ==
  ASSUME RequestsOK, NEW r \in Requests, NEW step \in Steps, Goto(r, step),
         step \in SessionSteps => req[r].at \in SessionSteps
  PROVE  /\ RequestsOK' /\ OthersStay(r)
         /\ req'[r].at = step /\ req'[r].s = req[r].s
  BY DEF RequestsOK, Goto, OthersStay, Reqs

\* Nothing is left of an answered request.
LEMMA FinishIs ==
  ASSUME RequestsOK, NEW r \in Requests, Finish(r)
  PROVE  RequestsOK' /\ OthersStay(r) /\ req'[r].at = "idle"
<1>1. NoRequest \in Reqs /\ NoRequest.at = "idle" /\ "idle" \notin SessionSteps
  BY DEF NoRequest, Reqs, Steps, SessionSteps, Knowing, Completers
<1> QED
  BY <1>1 DEF RequestsOK, Finish, OthersStay

\* A request begins with what it was given and the row it has read.
LEMMA BeginIs ==
  ASSUME RequestsOK, NEW r \in Requests, NEW step \in Steps, NEW fields \in Reqs,
         Begin(r, step, fields), step \in SessionSteps => fields.s \in Sessions
  PROVE  /\ RequestsOK' /\ OthersStay(r) /\ req[r].at = "idle"
         /\ req'[r].at = step /\ req'[r].s = fields.s
         /\ UNCHANGED <<rows, bucket, history, faults>>
  BY DEF RequestsOK, Begin, OthersStay, Reqs, At

\* What a request about a session, or about none yet, begins with.
LEMMA FieldsOK ==
  /\ NoRequest \in Reqs
  /\ \A s \in Sessions : About(s) \in Reqs /\ About(s).s = s
  BY DEF About, NoRequest, Reqs, Steps

\* The calls that SessionOK speaks of.
Watched == Knowing \cup {"createSession", "dropMultipart"}

\* VideoUpload's requests are about no session.
LEMMA VideoRequest ==
  ASSUME RequestsOK, NEW r \in Requests,
         CompleteUpload(r) \/ AbortUpload(r) \/ VideoStep(r)
  PROVE  RequestsOK' /\ OthersStay(r) /\ {req[r].at, req'[r].at} \cap Watched = {}
<1> USE DEF At, Steps, SessionSteps, Watched, Knowing, Completers
<1>1. CASE CompleteUpload(r)
  BY <1>1, GotoIs DEF CompleteUpload
<1>2. CASE AbortUpload(r)
  BY <1>2, GotoIs DEF AbortUpload
<1>3. CASE HeadObject(r)
  BY <1>3, GotoIs, FinishIs DEF HeadObject
<1>4. CASE SaveUploaded(r)
  BY <1>4, GotoIs DEF SaveUploaded
<1>5. CASE PublishUploaded(r) \/ SaveAborted(r)
  BY <1>5, FinishIs DEF PublishUploaded, SaveAborted
<1>6. CASE DeleteObject(r)
  BY <1>6, GotoIs DEF DeleteObject
<1> QED
  BY <1>1, <1>2, <1>3, <1>4, <1>5, <1>6 DEF VideoStep

\* Handing out URLs and confirming parts is no concern of the session's row.
LEMMA PartRequest ==
  ASSUME RequestsOK, PartsOK, NEW r \in Requests,
         \/ InitChunkedUpload(r) \/ ReadPart(r) \/ SavePart(r) \/ StartProgress(r)
         \/ ReadConfirm(r) \/ SaveConfirm(r) \/ ReadParts(r)
         \/ \E s \in Sessions :
              \/ CompleteSession(r, s)
              \/ \E n \in Parts : \/ GetPartURL(r, s, n)
                                  \/ \E etag \in 1..MaxPuts : ConfirmPart(r, s, n, etag)
  PROVE  /\ RequestsOK' /\ OthersStay(r) /\ {req[r].at, req'[r].at} \cap Watched = {}
         /\ UNCHANGED <<video, object, multipart, history>>
         /\ session' = session \/ StartProgress(r)
<1> USE DEF At, Steps, SessionSteps, Watched, Knowing, Completers, rows, bucket
<1>1. CASE InitChunkedUpload(r)
  BY <1>1, FieldsOK, BeginIs DEF InitChunkedUpload
<1>2. CASE ReadPart(r)
  BY <1>2, GotoIs, FinishIs DEF ReadPart
<1>3. CASE SavePart(r)
  <2>1. (Goto(r, "start") \/ Finish(r)) /\ req[r].at = "savePart"
    BY <1>3 DEF SavePart
  <2>2. RequestsOK' /\ OthersStay(r) /\ req'[r].at \in {"start", "idle"}
    BY <2>1, GotoIs, FinishIs
  <2> QED
    BY <1>3, <2>1, <2>2 DEF SavePart, SetPart, HandURL
<1>4. CASE StartProgress(r)
  BY <1>4, FinishIs DEF StartProgress, HandURL, Transition, SetSession
<1>5. CASE ReadConfirm(r)
  BY <1>5, GotoIs, FinishIs DEF ReadConfirm
<1>6. CASE SaveConfirm(r)
  BY <1>6, FinishIs DEF SaveConfirm, SetPart
<1>7. CASE ReadParts(r)
  <2>1. req[r].at = "readParts" /\ req[r].s \in Sessions
    BY <1>7 DEF ReadParts, RequestsOK
  <2>2. part[req[r].s] \in [Parts -> Nat]
    BY <2>1 DEF PartsOK
  <2>3. CASE Finish(r)
    BY <1>7, <2>1, <2>3, FinishIs DEF ReadParts
  <2>4. CASE req' = [req EXCEPT ![r].at = "lock", ![r].etags = part[req[r].s]]
    <3> DEFINE e == part[req[r].s]
    <3>1. e \in [Parts -> Nat] /\ req' = [req EXCEPT ![r].at = "lock", ![r].etags = e]
      BY <2>2, <2>4
    <3> HIDE DEF e
    <3>2. /\ req[r] \in Reqs
          /\ req' = [req EXCEPT ![r] = [[req[r] EXCEPT !.at = "lock"] EXCEPT !.etags = e]]
      BY <3>1 DEF RequestsOK
    <3>3. [[req[r] EXCEPT !.at = "lock"] EXCEPT !.etags = e] \in Reqs
      BY <3>1, <3>2 DEF Reqs
    <3>4. RequestsOK' /\ OthersStay(r) /\ req'[r].at = "lock"
      BY <2>1, <3>2, <3>3 DEF RequestsOK, Reqs, OthersStay
    <3> QED
      BY <1>7, <2>1, <3>4 DEF ReadParts
  <2> QED
    BY <1>7, <2>3, <2>4 DEF ReadParts
<1>8. ASSUME NEW s \in Sessions, CompleteSession(r, s)
      PROVE  /\ RequestsOK' /\ OthersStay(r) /\ {req[r].at, req'[r].at} \cap Watched = {}
             /\ UNCHANGED <<video, object, multipart, history, session>>
  BY <1>8, FieldsOK, BeginIs DEF CompleteSession
<1>9. ASSUME NEW s \in Sessions, NEW n \in Parts, GetPartURL(r, s, n)
      PROVE  /\ RequestsOK' /\ OthersStay(r) /\ {req[r].at, req'[r].at} \cap Watched = {}
             /\ UNCHANGED <<video, object, multipart, history, session>>
  <2> DEFINE b == (session[s] = "initiated")
             f == [About(s) EXCEPT !.n = n, !.fresh = b]
  <2>1. b \in BOOLEAN
    OBVIOUS
  <2> HIDE DEF b
  <2>2. f \in Reqs /\ f.s = s
    <3>1. f = [[About(s) EXCEPT !.n = n] EXCEPT !.fresh = b]
      OBVIOUS
    <3>2. About(s) \in Reqs /\ About(s).s = s
      BY FieldsOK
    <3> QED
      BY <2>1, <3>1, <3>2 DEF Reqs
  <2>3. Begin(r, "readPart", f)
    BY <1>9 DEF GetPartURL, b
  <2> HIDE DEF f
  <2> QED
    BY <2>2, <2>3, BeginIs
<1>10. ASSUME NEW s \in Sessions, NEW n \in Parts, NEW etag \in 1..MaxPuts,
              ConfirmPart(r, s, n, etag)
      PROVE  /\ RequestsOK' /\ OthersStay(r) /\ {req[r].at, req'[r].at} \cap Watched = {}
             /\ UNCHANGED <<video, object, multipart, history, session>>
  <2> DEFINE f == [About(s) EXCEPT !.n = n, !.etag = etag]
  <2>1. f \in Reqs /\ f.s = s
    <3>1. f = [[About(s) EXCEPT !.n = n] EXCEPT !.etag = etag] /\ etag \in Nat
      BY UploadAssumption
    <3>2. About(s) \in Reqs /\ About(s).s = s
      BY FieldsOK
    <3> QED
      BY <3>1, <3>2 DEF Reqs
  <2>2. Begin(r, "readConfirm", f)
    BY <1>10 DEF ConfirmPart
  <2> HIDE DEF f
  <2> QED
    BY <2>1, <2>2, BeginIs
<1> QED
  BY <1>1, <1>2, <1>3, <1>4, <1>5, <1>6, <1>7, <1>8, <1>9, <1>10

-----------------------------------------------------------------------------
(* One session *)

\* What a step leaves alone that is no concern of a session.
LEMMA Quiet ==
  ASSUME NEW s \in Sessions, SessionOK(s), session'[s] = session[s], multipart'[s] = multipart[s],
         stopped => stopped', faults' = 0 => faults = 0,
         \A r \in Requests : req'[r] = req[r] \/ {req[r].at, req'[r].at} \cap Watched = {},
         s \in batch' \cup {now'} => s \in batch \cup {now}, now' = s => now = s
  PROVE  SessionOK(s)'
  BY
  DEF SessionOK, CreatedOnce, RowIsKnown, OneCompleter, CompleterStays, AbortReaches,
      AssembledFirst, FoundAgain, In, OthersStay, Watched, Completers, Knowing, HandsOn, Active

\* UPDATE ... WHERE status = from changes one row, if it is in that status.
LEMMA TransitionIs ==
  ASSUME TablesOK, NEW s \in Sessions, NEW from, NEW to, Transition(s, from, to)
  PROVE  /\ \A t \in Sessions :
              session'[t] = IF t = s /\ session[s] = from THEN to ELSE session[t]
         /\ UNCHANGED <<video, part, late>>
  BY DEF TablesOK, Transition, SetSession, rows

\* A request that is between two calls of its session, and what it is about.
LEMMA OfSession ==
  ASSUME RequestsOK, NEW r \in Requests, req[r].at \in SessionSteps
  PROVE  \E t \in Sessions : req[r].s = t
  BY DEF RequestsOK

\* CreateMultipart takes an upload id that S3 has never given out.
LEMMA CreateMultipartStep ==
  ASSUME TypeOK, NEW r \in Requests, NEW t \in Sessions, CreateMultipart(r, t),
         UNCHANGED janitorVars, NEW s \in Sessions, SessionOK(s)
  PROVE  RequestsOK' /\ SessionOK(s)'
<1>1. /\ RequestsOK' /\ OthersStay(r) /\ req[r].at = "createMultipart"
      /\ req'[r].at = "createSession" /\ req'[r].s = t
  BY DEF TypeOK, RequestsOK, CreateMultipart, At, OthersStay, Reqs, Steps, SessionSteps
<1>2. /\ multipart[t] = "none" /\ multipart'[s] = IF s = t THEN "open" ELSE multipart[s]
      /\ UNCHANGED <<session, stopped, faults, batch, now>>
  BY DEF TypeOK, TablesOK, CreateMultipart, rows, history, janitorVars
<1> QED
  BY <1>1, <1>2
  DEF SessionOK, CreatedOnce, RowIsKnown, OneCompleter, CompleterStays, AbortReaches,
      AssembledFirst, FoundAgain, In, OthersStay, Watched, Completers, Knowing, HandsOn, Active

\* CreateSession inserts the row, or its request goes on to drop the upload.
LEMMA CreateSessionStep ==
  ASSUME TypeOK, NEW r \in Requests, CreateSession(r), UNCHANGED janitorVars,
         NEW s \in Sessions, SessionOK(s)
  PROVE  RequestsOK' /\ SessionOK(s)'
<1>1. PICK t \in Sessions : req[r].s = t /\ req[r].at = "createSession"
  BY OfSession DEF TypeOK, CreateSession, At, SessionSteps
<1>2. /\ RequestsOK' /\ OthersStay(r)
      /\ \/ /\ req'[r].at = "idle"
            /\ session'[s] = IF s = t THEN "initiated" ELSE session[s]
         \/ /\ req'[r].at = "dropMultipart" /\ req'[r].s = t
            /\ \/ session'[s] = IF s = t THEN "initiated" ELSE session[s]
               \/ session'[s] = session[s]
  <2>1. CASE SetSession(t, "initiated") /\ Finish(r)
    BY <2>1, FinishIs DEF TypeOK, TablesOK, SetSession
  <2>2. CASE (SetSession(t, "initiated") \/ UNCHANGED rows) /\ Goto(r, "dropMultipart")
    BY <1>1, <2>2, GotoIs DEF TypeOK, TablesOK, SetSession, rows, Steps, SessionSteps
  <2> QED
    BY <1>1, <2>1, <2>2 DEF CreateSession
<1>3. /\ UNCHANGED <<multipart, stopped, batch, now>>
      /\ faults' = 0 => faults = 0
  BY DEF TypeOK, TablesOK, CreateSession, bucket, history, janitorVars, Fault, NoFault
<1> QED
  BY <1>1, <1>2, <1>3
  DEF SessionOK, CreatedOnce, RowIsKnown, OneCompleter, CompleterStays, AbortReaches,
      AssembledFirst, FoundAgain, In, OthersStay, Watched, Completers, Knowing, HandsOn, Active

\* The upload without a row is aborted on S3.
LEMMA DropMultipartStep ==
  ASSUME TypeOK, NEW r \in Requests, DropMultipart(r), UNCHANGED janitorVars,
         NEW s \in Sessions, SessionOK(s)
  PROVE  RequestsOK' /\ SessionOK(s)'
<1>1. PICK t \in Sessions : req[r].s = t /\ req[r].at = "dropMultipart"
  BY OfSession DEF TypeOK, DropMultipart, At, SessionSteps
<1>2. RequestsOK' /\ OthersStay(r) /\ req'[r].at = "idle"
  BY FinishIs DEF TypeOK, DropMultipart
<1>3. /\ multipart'[s] = IF s = t /\ multipart[s] = "open" THEN "aborted" ELSE multipart[s]
      /\ UNCHANGED <<session, stopped, faults, batch, now>>
  BY <1>1 DEF TypeOK, TablesOK, DropMultipart, AbortMultipart, rows, history, janitorVars
<1> QED
  BY <1>1, <1>2, <1>3
  DEF SessionOK, CreatedOnce, RowIsKnown, OneCompleter, CompleterStays, AbortReaches,
      AssembledFirst, FoundAgain, In, OthersStay, Watched, Completers, Knowing, HandsOn, Active

\* StartProgress moves a row nobody completes.
LEMMA StartProgressStep ==
  ASSUME TypeOK, NEW r \in Requests, StartProgress(r), UNCHANGED janitorVars,
         NEW s \in Sessions, SessionOK(s)
  PROVE  RequestsOK' /\ SessionOK(s)'
<1>1. RequestsOK' /\ OthersStay(r) /\ {req[r].at, req'[r].at} \cap Watched = {}
  BY PartRequest DEF TypeOK
<1>2. PICK t \in Sessions : req[r].s = t
  BY OfSession DEF TypeOK, StartProgress, At, SessionSteps
<1>3. /\ \/ session'[s] = session[s]
         \/ session[s] = "initiated" /\ session'[s] = "in_progress"
      /\ UNCHANGED <<multipart, stopped, batch, now>>
      /\ faults' = 0 => faults = 0
  BY <1>2, TransitionIs
  DEF TypeOK, TablesOK, StartProgress, HandURL, rows, history, janitorVars, Fault, NoFault
<1> QED
  BY <1>1, <1>2, <1>3
  DEF SessionOK, CreatedOnce, RowIsKnown, OneCompleter, CompleterStays, AbortReaches,
      AssembledFirst, FoundAgain, In, OthersStay, Watched, Completers, Knowing, HandsOn, Active

\* Lock lets one request in: the row has to be in_progress.
LEMMA LockStep ==
  ASSUME TypeOK, NEW r \in Requests, Lock(r), UNCHANGED janitorVars,
         NEW s \in Sessions, SessionOK(s)
  PROVE  RequestsOK' /\ SessionOK(s)'
<1>1. PICK t \in Sessions : req[r].s = t /\ req[r].at = "lock"
  BY OfSession DEF TypeOK, Lock, At, SessionSteps
<1>2. /\ session'[s] = IF t = s /\ session[s] = "in_progress" THEN "completing" ELSE session[s]
      /\ UNCHANGED <<multipart, stopped, faults, batch, now>>
  BY <1>1, TransitionIs DEF TypeOK, Lock, bucket, history, janitorVars
<1>3. /\ RequestsOK' /\ OthersStay(r)
      /\ \/ session[t] = "in_progress" /\ req'[r].s = t /\ req'[r].at = "assemble"
         \/ session[t] # "in_progress" /\ req'[r].at = "idle"
  BY <1>1, GotoIs, FinishIs DEF TypeOK, Lock, Steps, SessionSteps, Knowing, Completers
<1> QED
  BY <1>1, <1>2, <1>3
  DEF SessionOK, CreatedOnce, RowIsKnown, OneCompleter, CompleterStays, AbortReaches,
      AssembledFirst, FoundAgain, In, OthersStay, Watched, Completers, Knowing, HandsOn, Active

\* CompleteMultipartUpload, whatever it answers.
LEMMA AssembleStep ==
  ASSUME TypeOK, NEW r \in Requests, Assemble(r) \/ AssembleFails(r), UNCHANGED janitorVars,
         NEW s \in Sessions, SessionOK(s)
  PROVE  RequestsOK' /\ SessionOK(s)'
<1>1. PICK t \in Sessions : req[r].s = t /\ req[r].at = "assemble"
  BY OfSession DEF TypeOK, Assemble, AssembleFails, At, SessionSteps, Knowing, Completers
<1>2. /\ \/ multipart'[s] = multipart[s]
         \/ s = t /\ multipart'[s] = "completed"
      /\ UNCHANGED <<session, stopped, batch, now>>
      /\ faults' = 0 => faults = 0
  BY <1>1 DEF TypeOK, TablesOK, Assemble, AssembleFails, rows, history, janitorVars, Fault
<1>3. /\ RequestsOK' /\ OthersStay(r) /\ req'[r].s = t
      /\ \/ req'[r].at = "unlock"
         \/ req'[r].at = "saveVideo" /\ multipart'[t] = "completed"
  <2>1. \/ Goto(r, "unlock")
        \/ Goto(r, "saveVideo") /\ multipart'[t] = "completed"
    BY <1>1 DEF TypeOK, TablesOK, Assemble, AssembleFails
  <2> QED
    BY <1>1, <2>1, GotoIs DEF TypeOK, Steps, SessionSteps, Knowing, Completers
<1> QED
  BY <1>1, <1>2, <1>3
  DEF SessionOK, CreatedOnce, RowIsKnown, OneCompleter, CompleterStays, AbortReaches,
      AssembledFirst, FoundAgain, In, OthersStay, Watched, Completers, Knowing, HandsOn, Active

\* Unlock gives the row back, unless somebody aborted or expired it meanwhile.
LEMMA UnlockStep ==
  ASSUME TypeOK, NEW r \in Requests, Unlock(r), UNCHANGED janitorVars,
         NEW s \in Sessions, SessionOK(s)
  PROVE  RequestsOK' /\ SessionOK(s)'
<1>1. PICK t \in Sessions : req[r].s = t /\ req[r].at = "unlock"
  BY OfSession DEF TypeOK, Unlock, At, SessionSteps, Knowing, Completers
<1>2. /\ session'[s] = IF t = s /\ session[s] = "completing" THEN "in_progress" ELSE session[s]
      /\ UNCHANGED <<multipart, stopped, faults, batch, now>>
  BY <1>1, TransitionIs DEF TypeOK, Unlock, bucket, history, janitorVars
<1>3. RequestsOK' /\ OthersStay(r) /\ req'[r].at = "idle"
  BY FinishIs DEF TypeOK, Unlock
<1>4. session[s] \in {"none", "initiated", "in_progress", "completing", "completed",
                      "aborted", "expired"}
  BY DEF TypeOK, TablesOK
<1>5. multipart[s] \in {"none", "open", "aborted", "completed"}
  BY DEF TypeOK, TablesOK
<1> QED
  BY <1>1, <1>2, <1>3, <1>4, <1>5
  DEF SessionOK, CreatedOnce, RowIsKnown, OneCompleter, CompleterStays, AbortReaches,
      AssembledFirst, FoundAgain, In, OthersStay, Watched, Completers, Knowing, HandsOn, Active

\* The video is saved, then the session.
LEMMA SaveVideoStep ==
  ASSUME TypeOK, NEW r \in Requests, SaveVideo(r), UNCHANGED janitorVars,
         NEW s \in Sessions, SessionOK(s)
  PROVE  RequestsOK' /\ SessionOK(s)'
<1>1. PICK t \in Sessions : req[r].s = t /\ req[r].at = "saveVideo"
  BY OfSession DEF TypeOK, SaveVideo, At, SessionSteps, Knowing, Completers
<1>2. UNCHANGED <<session, multipart, stopped, faults, batch, now>>
  BY DEF SaveVideo, SetVideo, bucket, history, janitorVars
<1>3. RequestsOK' /\ OthersStay(r) /\ req'[r].at = "saveSession" /\ req'[r].s = t
  BY <1>1, GotoIs DEF TypeOK, SaveVideo, Steps, SessionSteps, Knowing, Completers
<1> QED
  BY <1>1, <1>2, <1>3
  DEF SessionOK, CreatedOnce, RowIsKnown, OneCompleter, CompleterStays, AbortReaches,
      AssembledFirst, FoundAgain, In, OthersStay, Watched, Completers, Knowing, HandsOn, Active

\* The session is completed, or stays completing by a fault.
LEMMA SaveSessionStep ==
  ASSUME TypeOK, NEW r \in Requests, SaveSession(r), UNCHANGED janitorVars,
         NEW s \in Sessions, SessionOK(s)
  PROVE  RequestsOK' /\ SessionOK(s)'
<1>1. PICK t \in Sessions : req[r].s = t /\ req[r].at = "saveSession"
  BY OfSession DEF TypeOK, SaveSession, At, SessionSteps, Knowing, Completers
<1>2. /\ UNCHANGED <<multipart, stopped, batch, now>>
      /\ \/ session'[s] = (IF s = t THEN "completed" ELSE session[s]) /\ faults' = faults
         \/ session'[s] = session[s] /\ faults' # 0
  BY <1>1 DEF TypeOK, TablesOK, SaveSession, SetSession, rows, bucket, history, janitorVars,
              Fault, NoFault
<1>3. RequestsOK' /\ OthersStay(r) /\ req'[r].at = "publish"
  BY <1>1, GotoIs DEF TypeOK, SaveSession, Steps, SessionSteps, Knowing, Completers
<1> QED
  BY <1>1, <1>2, <1>3
  DEF SessionOK, CreatedOnce, RowIsKnown, OneCompleter, CompleterStays, AbortReaches,
      AssembledFirst, FoundAgain, In, OthersStay, Watched, Completers, Knowing, HandsOn, Active

\* AbortSession needs a row.
LEMMA AbortSessionStep ==
  ASSUME TypeOK, NEW r \in Requests, NEW t \in Sessions, AbortSession(r, t),
         UNCHANGED janitorVars, NEW s \in Sessions, SessionOK(s)
  PROVE  RequestsOK' /\ SessionOK(s)'
<1>1. /\ RequestsOK' /\ OthersStay(r) /\ req[r].at = "idle"
      /\ req'[r].at = "abortMultipart" /\ req'[r].s = t
      /\ UNCHANGED <<rows, bucket, history, faults>>
  BY FieldsOK, BeginIs DEF TypeOK, AbortSession, Steps, SessionSteps, Knowing
<1>2. session[t] # "none" /\ UNCHANGED <<session, multipart, stopped, faults, batch, now>>
  BY <1>1 DEF AbortSession, rows, bucket, history, janitorVars
<1> QED
  BY <1>1, <1>2
  DEF SessionOK, CreatedOnce, RowIsKnown, OneCompleter, CompleterStays, AbortReaches,
      AssembledFirst, FoundAgain, In, OthersStay, Watched, Completers, Knowing, HandsOn, Active

\* The upload is aborted on S3, or the failure is remembered.
LEMMA AbortMultipartUploadStep ==
  ASSUME TypeOK, NEW r \in Requests, AbortMultipartUpload(r), UNCHANGED janitorVars,
         NEW s \in Sessions, SessionOK(s)
  PROVE  RequestsOK' /\ SessionOK(s)'
<1>1. PICK t \in Sessions : req[r].s = t /\ req[r].at = "abortMultipart"
  BY OfSession DEF TypeOK, AbortMultipartUpload, At, SessionSteps, Knowing
<1>2. /\ UNCHANGED <<session, batch, now>> /\ (faults' = 0 => faults = 0)
      /\ \/ /\ multipart'[s] = IF s = t /\ multipart[s] = "open" THEN "aborted" ELSE multipart[s]
            /\ stopped' = stopped
         \/ multipart'[s] = multipart[s] /\ stopped'
  BY <1>1 DEF TypeOK, TablesOK, AbortMultipartUpload, AbortMultipart, AbortMultipartFails, rows,
              bucket, history, janitorVars, Fault, NoFault
<1>3. RequestsOK' /\ OthersStay(r) /\ req'[r].at = "saveAbort" /\ req'[r].s = t
  BY <1>1, GotoIs DEF TypeOK, AbortMultipartUpload, Steps, SessionSteps, Knowing
<1> QED
  BY <1>1, <1>2, <1>3
  DEF SessionOK, CreatedOnce, RowIsKnown, OneCompleter, CompleterStays, AbortReaches,
      AssembledFirst, FoundAgain, In, OthersStay, Watched, Completers, Knowing, HandsOn, Active

\* The row is aborted after the upload was.
LEMMA SaveAbortStep ==
  ASSUME TypeOK, NEW r \in Requests, SaveAbort(r), UNCHANGED janitorVars,
         NEW s \in Sessions, SessionOK(s)
  PROVE  RequestsOK' /\ SessionOK(s)'
<1>1. PICK t \in Sessions : req[r].s = t /\ req[r].at = "saveAbort"
  BY OfSession DEF TypeOK, SaveAbort, At, SessionSteps, Knowing
<1>2. /\ session'[s] = IF s = t THEN "aborted" ELSE session[s]
      /\ UNCHANGED <<multipart, stopped, faults, batch, now>>
  BY <1>1 DEF TypeOK, TablesOK, SaveAbort, SetSession, bucket, history, janitorVars
<1>3. RequestsOK' /\ OthersStay(r) /\ req'[r].at = "idle"
  BY FinishIs DEF TypeOK, SaveAbort
<1> QED
  BY <1>1, <1>2, <1>3
  DEF SessionOK, CreatedOnce, RowIsKnown, OneCompleter, CompleterStays, AbortReaches,
      AssembledFirst, FoundAgain, In, OthersStay, Watched, Completers, Knowing, HandsOn, Active

\* What dies or gives up is remembered in stopped.
LEMMA RequestsStopStep ==
  ASSUME TypeOK, NEW R \in SUBSET Requests, RequestsStop(R), UNCHANGED janitorVars,
         NEW s \in Sessions, SessionOK(s)
  PROVE  RequestsOK' /\ SessionOK(s)'
<1>1. /\ RequestsOK' /\ UNCHANGED <<session, multipart, batch, now>> /\ stopped' /\ faults' # 0
      /\ \A r \in Requests : req'[r] = req[r] \/ req'[r].at = "idle"
  <2>1. NoRequest \in Reqs /\ NoRequest.at = "idle" /\ "idle" \notin SessionSteps
    BY FieldsOK DEF NoRequest, SessionSteps, Knowing, Completers
  <2>2. RequestsOK' /\ \A r \in Requests : req'[r] = req[r] \/ req'[r].at = "idle"
    BY <2>1 DEF TypeOK, RequestsOK, RequestsStop
  <2> QED
    BY <2>2 DEF TypeOK, TablesOK, RequestsStop, Fault, rows, bucket, janitorVars
<1> QED
  BY <1>1
  DEF SessionOK, CreatedOnce, RowIsKnown, OneCompleter, CompleterStays, AbortReaches,
      AssembledFirst, FoundAgain, In, OthersStay, Watched, Completers, Knowing, HandsOn, Active

-----------------------------------------------------------------------------
(* The janitor *)

\* Overdue sessions are active ones.
LEMMA ListSessionsStep ==
  ASSUME TypeOK, NEW S \in SUBSET Sessions, ListSessions(S),
         NEW s \in Sessions, SessionOK(s)
  PROVE  SessionOK(s)'
<1>1. /\ batch' = S /\ UNCHANGED <<req, session, multipart, stopped, faults, now>>
      /\ s \in S => session[s] \in Active
  BY DEF ListSessions, Overdue, rows, bucket, history
<1> QED
  BY <1>1
  DEF SessionOK, CreatedOnce, RowIsKnown, OneCompleter, CompleterStays, AbortReaches,
      AssembledFirst, FoundAgain, In, OthersStay, Watched, Completers, Knowing, HandsOn, Active

\* The upload of an overdue session is aborted, or the failure remembered.
LEMMA AbortOverdueStep ==
  ASSUME TypeOK, NEW t \in Sessions, AbortOverdue(t),
         NEW s \in Sessions, SessionOK(s)
  PROVE  SessionOK(s)'
<1>1. /\ UNCHANGED <<req, session>> /\ (faults' = 0 => faults = 0)
      /\ t \in batch /\ now' = t /\ batch' \subseteq batch
      /\ \/ /\ multipart'[s] = IF s = t /\ multipart[s] = "open" THEN "aborted" ELSE multipart[s]
            /\ stopped' = stopped
         \/ multipart'[s] = multipart[s] /\ stopped'
  BY DEF TypeOK, TablesOK, AbortOverdue, AbortMultipart, AbortMultipartFails, rows, bucket,
         history, Fault, NoFault
<1> QED
  BY <1>1
  DEF SessionOK, CreatedOnce, RowIsKnown, OneCompleter, CompleterStays, AbortReaches,
      AssembledFirst, FoundAgain, In, OthersStay, Watched, Completers, Knowing, HandsOn, Active

\* The row expires after its upload was aborted.
LEMMA SaveExpiredStep ==
  ASSUME TypeOK, SaveExpired,
         NEW s \in Sessions, SessionOK(s)
  PROVE  SessionOK(s)'
<1>1. /\ now \in Sessions /\ now' = NoSession /\ NoSession \notin Sessions
      /\ \/ session'[s] = IF s = now THEN "expired" ELSE session[s]
         \/ session'[s] = session[s]
      /\ UNCHANGED <<req, multipart, stopped, batch>> /\ (faults' = 0 => faults = 0)
  BY UploadAssumption DEF TypeOK, TablesOK, JanitorOK, SaveExpired, SetSession, rows, bucket,
                          history, Fault, NoFault
<1> QED
  BY <1>1
  DEF SessionOK, CreatedOnce, RowIsKnown, OneCompleter, CompleterStays, AbortReaches,
      AssembledFirst, FoundAgain, In, OthersStay, Watched, Completers, Knowing, HandsOn, Active

\* The janitor's other calls, and its end, are about the video.
LEMMA OtherJanitorStep ==
  ASSUME TypeOK, NEW s \in Sessions, SessionOK(s),
         \/ ListVideos \/ HeadExpired \/ RecoverVideo \/ AnnounceVideo \/ ExpireVideo
         \/ VideoCallFails \/ ListSessionsFails \/ JanitorDies
  PROVE  SessionOK(s)'
<1>1. /\ UNCHANGED <<req, session, multipart>> /\ (stopped => stopped')
      /\ faults' = 0 => faults = 0
      /\ now' = now \/ now' = NoSession
      /\ batch' = batch \/ batch' = {}
  BY DEF TypeOK, TablesOK, ListVideos, HeadExpired, RecoverVideo, AnnounceVideo, ExpireVideo,
         VideoCallFails, ListSessionsFails, JanitorDies, JanitorGoto, SetVideo, Announce, rows,
         bucket, history, Fault, NoFault
<1>2. NoSession \notin Sessions
  BY UploadAssumption
<1> QED
  BY <1>1, <1>2, Quiet

-----------------------------------------------------------------------------
(* All steps *)

\* The requests about the video keep every session as it is.
LEMMA VideoNextStep ==
  ASSUME TypeOK, VideoNext, UNCHANGED janitorVars, NEW s \in Sessions, SessionOK(s)
  PROVE  RequestsOK' /\ SessionOK(s)'
<1>1. CASE InitUpload \/ PutObject
  <2>1. UNCHANGED <<req, session, multipart, stopped, faults, batch, now>>
    BY <1>1 DEF InitUpload, PutObject, SetVideo, rows, bucket, history, janitorVars
  <2> QED
    BY <2>1, Quiet DEF TypeOK, RequestsOK
<1>2. ASSUME NEW r \in Requests, CompleteUpload(r) \/ AbortUpload(r) \/ VideoStep(r)
      PROVE  RequestsOK' /\ SessionOK(s)'
  <2>1. RequestsOK' /\ OthersStay(r) /\ {req[r].at, req'[r].at} \cap Watched = {}
    BY <1>2, VideoRequest DEF TypeOK
  <2>2. /\ UNCHANGED <<session, multipart, stopped, batch, now>>
        /\ faults' = 0 => faults = 0
    BY <1>2 DEF TypeOK, TablesOK, CompleteUpload, AbortUpload, VideoStep, HeadObject,
                SaveUploaded, PublishUploaded, DeleteObject, SaveAborted, SetVideo, Announce, rows,
                bucket, history, janitorVars, Fault, NoFault
  <2>3. \A q \in Requests : req'[q] = req[q] \/ {req[q].at, req'[q].at} \cap Watched = {}
    BY <2>1 DEF OthersStay
  <2> QED
    BY <2>1, <2>2, <2>3, Quiet
<1> QED
  BY <1>1, <1>2 DEF VideoNext

\* The requests about a session keep it, and every other one, in order.
LEMMA SessionNextStep ==
  ASSUME TypeOK, SessionNext, UNCHANGED janitorVars, NEW s \in Sessions, SessionOK(s)
  PROVE  RequestsOK' /\ SessionOK(s)'
<1>1. ASSUME NEW r \in Requests,
             \/ InitChunkedUpload(r) \/ ReadPart(r) \/ SavePart(r)
             \/ ReadConfirm(r) \/ SaveConfirm(r) \/ ReadParts(r)
             \/ \E t \in Sessions :
                  \/ CompleteSession(r, t)
                  \/ \E n \in Parts : \/ GetPartURL(r, t, n)
                                      \/ \E etag \in 1..MaxPuts : ConfirmPart(r, t, n, etag)
      PROVE  RequestsOK' /\ SessionOK(s)'
  <2>1. /\ RequestsOK' /\ OthersStay(r) /\ {req[r].at, req'[r].at} \cap Watched = {}
        /\ UNCHANGED <<multipart, history>> /\ (session' = session \/ StartProgress(r))
    BY <1>1, PartRequest DEF TypeOK
  <2>2. CASE StartProgress(r)
    BY <2>2, StartProgressStep
  <2>3. CASE session' = session
    <3>1. SavePart(r) => (faults' = 0 => faults = 0)
      BY DEF TypeOK, TablesOK, SavePart, Fault, NoFault
    <3>2. SavePart(r) \/ UNCHANGED faults
      BY <1>1 DEF InitChunkedUpload, ReadPart, ReadConfirm, SaveConfirm, ReadParts,
                  CompleteSession, GetPartURL, ConfirmPart, Begin
    <3>3. faults' = 0 => faults = 0
      BY <3>1, <3>2
    <3>4. \A q \in Requests : req'[q] = req[q] \/ {req[q].at, req'[q].at} \cap Watched = {}
      BY <2>1 DEF OthersStay
    <3> QED
      BY <2>1, <2>3, <3>3, <3>4, Quiet DEF history, janitorVars
  <2> QED
    BY <2>1, <2>2, <2>3
<1>2. ASSUME NEW t \in Sessions, NEW n \in Parts, PutPart(t, n)
      PROVE  RequestsOK' /\ SessionOK(s)'
  <2>1. UNCHANGED <<req, session, multipart, stopped, faults, batch, now>>
    BY <1>2 DEF PutPart, rows, history, janitorVars
  <2> QED
    BY <2>1, Quiet DEF TypeOK, RequestsOK
<1>3. ASSUME NEW r \in Requests, SessionStep(r) PROVE RequestsOK' /\ SessionOK(s)'
  BY <1>1, <1>3, CreateMultipartStep, CreateSessionStep, DropMultipartStep, StartProgressStep,
     LockStep, AssembleStep, UnlockStep, SaveVideoStep, SaveSessionStep,
     AbortMultipartUploadStep, SaveAbortStep
  DEF SessionStep
<1> QED
  BY <1>1, <1>2, <1>3, AbortSessionStep DEF SessionNext, SessionRequest

\* Every step of the service, the clients and the janitor keeps every session in order.
LEMMA SessionsStep ==
  ASSUME TypeOK, [Next]_vars, NEW s \in Sessions, SessionOK(s)
  PROVE  RequestsOK' /\ SessionOK(s)'
<1>1. CASE JanitorStep \/ JanitorDies
  <2>1. SessionOK(s)'
    BY <1>1, ListSessionsStep, AbortOverdueStep, SaveExpiredStep, OtherJanitorStep DEF JanitorStep
  <2>2. req' = req
    BY <1>1 DEF JanitorStep, JanitorDies, ListVideos, HeadExpired, RecoverVideo, AnnounceVideo,
                ExpireVideo, VideoCallFails, ListSessions, ListSessionsFails, AbortOverdue,
                SaveExpired, JanitorGoto
  <2> QED
    BY <2>1, <2>2 DEF TypeOK, RequestsOK
<1>2. CASE (\E x \in Sessions \cup {Video} : Expire(x)) /\ UNCHANGED janitorVars
  <2>1. UNCHANGED <<req, session, multipart, stopped, faults, batch, now>>
    BY <1>2 DEF Expire, bucket, history, janitorVars
  <2> QED
    BY <2>1, Quiet DEF TypeOK, RequestsOK
<1>3. CASE UNCHANGED vars
  <2>1. UNCHANGED <<req, session, multipart, stopped, faults, batch, now>>
    BY <1>3 DEF vars, tables, rows, bucket, history, janitorVars
  <2> QED
    BY <2>1, Quiet DEF TypeOK, RequestsOK
<1> QED
  BY <1>1, <1>2, <1>3, VideoNextStep, SessionNextStep, RequestsStopStep DEF Next

-----------------------------------------------------------------------------
(* The types *)

\* Faults are counted.
LEMMA FaultIs ==
  ASSUME TablesOK
  PROVE  Fault \/ NoFault => faults' \in Nat
BY DEF TablesOK, Fault, NoFault

\* The rows, the bucket and the history, after a step about the video.
LEMMA VideoTables ==
  ASSUME TypeOK, VideoNext
  PROVE  TablesOK'
<1> USE DEF TypeOK, TablesOK, SetVideo, rows, bucket, history, Fault, NoFault
<1>1. CASE InitUpload \/ PutObject
  BY <1>1 DEF InitUpload, PutObject
<1>2. ASSUME NEW r \in Requests, CompleteUpload(r) \/ AbortUpload(r) \/ VideoStep(r)
      PROVE  TablesOK'
  <2>1. CASE CompleteUpload(r) \/ AbortUpload(r) \/ HeadObject(r)
    BY <2>1 DEF CompleteUpload, AbortUpload, HeadObject
  <2>2. CASE SaveUploaded(r) \/ SaveAborted(r)
    BY <2>2 DEF SaveUploaded, SaveAborted
  <2>3. CASE PublishUploaded(r)
    BY <2>3 DEF PublishUploaded, Announce
  <2>4. CASE DeleteObject(r)
    <3>1. faults' \in Nat
      BY <2>4, FaultIs DEF DeleteObject
    <3>2. /\ object' \in BOOLEAN /\ deleted' \in BOOLEAN
          /\ UNCHANGED <<video, session, multipart, announced, stopped>>
      BY <2>4 DEF DeleteObject
    <3> QED
      BY <3>1, <3>2
  <2> QED
    BY <1>2, <2>1, <2>2, <2>3, <2>4 DEF VideoStep
<1> QED
  BY <1>1, <1>2 DEF VideoNext

\* ... after a call of a request about a session.
LEMMA SessionTables ==
  ASSUME TypeOK, NEW r \in Requests, SessionStep(r)
  PROVE  TablesOK'
<1> USE DEF TypeOK, TablesOK, SetSession, rows, bucket, history, Fault, NoFault
<1>1. CASE \E s \in Sessions : CreateMultipart(r, s)
  BY <1>1 DEF CreateMultipart
<1>2. CASE CreateSession(r)
  BY <1>2 DEF CreateSession
<1>3. CASE DropMultipart(r)
  BY <1>3 DEF DropMultipart, AbortMultipart
<1>4. CASE ReadPart(r) \/ ReadConfirm(r) \/ ReadParts(r)
  BY <1>4 DEF ReadPart, ReadConfirm, ReadParts
<1>5. CASE SavePart(r)
  BY <1>5 DEF SavePart, SetPart, HandURL
<1>6. CASE SaveConfirm(r)
  BY <1>6 DEF SaveConfirm, SetPart
<1>7. CASE StartProgress(r)
  BY <1>7 DEF StartProgress, Transition, HandURL
<1>8. CASE Lock(r) \/ Unlock(r)
  BY <1>8 DEF Lock, Unlock, Transition
<1>9. CASE Assemble(r)
  BY <1>9 DEF Assemble
<1>10. CASE AssembleFails(r)
  <2>1. faults' \in Nat
    BY <1>10, FaultIs DEF AssembleFails
  <2>2. /\ object' \in BOOLEAN /\ UNCHANGED <<video, session, announced, deleted, stopped>>
        /\ multipart' \in [Sessions -> {"none", "open", "aborted", "completed"}]
    BY <1>10 DEF AssembleFails
  <2> QED
    BY <2>1, <2>2
<1>11. CASE SaveVideo(r)
  BY <1>11 DEF SaveVideo, SetVideo
<1>12. CASE SaveSession(r) \/ SaveAbort(r)
  BY <1>12 DEF SaveSession, SaveAbort
<1>13. CASE AbortMultipartUpload(r)
  <2>1. faults' \in Nat
    BY <1>13, FaultIs DEF AbortMultipartUpload, AbortMultipartFails
  <2>2. /\ stopped' \in BOOLEAN /\ UNCHANGED <<video, session, object, announced, deleted>>
        /\ multipart' \in [Sessions -> {"none", "open", "aborted", "completed"}]
    BY <1>13 DEF AbortMultipartUpload, AbortMultipart, AbortMultipartFails
  <2> QED
    BY <2>1, <2>2
<1> QED
  BY <1>1, <1>2, <1>3, <1>4, <1>5, <1>6, <1>7, <1>8, <1>9, <1>10, <1>11, <1>12, <1>13
  DEF SessionStep

\* ... after a step of the janitor, which keeps its own place too.
LEMMA JanitorTables ==
  ASSUME TypeOK, JanitorStep \/ JanitorDies
  PROVE  TablesOK' /\ JanitorOK'
<1>1. NoSession \notin Sessions
  BY UploadAssumption
<1> USE DEF TypeOK, TablesOK, JanitorOK, JanitorGoto, rows, bucket, history, Fault, NoFault
<1>2. CASE ListVideos \/ HeadExpired \/ VideoCallFails \/ ListSessionsFails
  BY <1>2 DEF ListVideos, HeadExpired, VideoCallFails, ListSessionsFails
<1>3. CASE RecoverVideo \/ ExpireVideo
  BY <1>3 DEF RecoverVideo, ExpireVideo, SetVideo
<1>4. CASE AnnounceVideo
  BY <1>4 DEF AnnounceVideo, Announce
<1>5. ASSUME NEW S \in SUBSET Sessions, ListSessions(S) PROVE TablesOK' /\ JanitorOK'
  BY <1>5 DEF ListSessions
<1>6. ASSUME NEW s \in Sessions, AbortOverdue(s) PROVE TablesOK' /\ JanitorOK'
  <2>1. faults' \in Nat
    BY <1>6, FaultIs DEF AbortOverdue, AbortMultipartFails
  <2>2. /\ stopped' \in BOOLEAN /\ UNCHANGED <<video, session, object, announced, deleted>>
        /\ multipart' \in [Sessions -> {"none", "open", "aborted", "completed"}]
    BY <1>6 DEF AbortOverdue, AbortMultipart, AbortMultipartFails
  <2>3. JanitorOK'
    BY <1>6 DEF AbortOverdue
  <2> QED
    BY <2>1, <2>2, <2>3
<1>7. CASE SaveExpired
  BY <1>1, <1>7 DEF SaveExpired, SetSession
<1>8. CASE JanitorDies
  BY <1>1, <1>8 DEF JanitorDies
<1> QED
  BY <1>2, <1>3, <1>4, <1>5, <1>6, <1>7, <1>8 DEF JanitorStep

\* Every step keeps rows, bucket, history and janitor in their types.
LEMMA TablesStep ==
  ASSUME TypeOK, [Next]_vars
  PROVE  TablesOK' /\ JanitorOK'
<1>1. CASE JanitorStep \/ JanitorDies
  BY <1>1, JanitorTables
<1>2. CASE UNCHANGED janitorVars
  <2>1. JanitorOK'
    BY <1>2 DEF TypeOK, JanitorOK, janitorVars
  <2>2. CASE VideoNext
    BY <2>1, <2>2, VideoTables
  <2>3. CASE SessionNext
    <3>1. ASSUME NEW r \in Requests, SessionStep(r) PROVE TablesOK'
      BY <3>1, SessionTables
    <3>2. ASSUME NEW r \in Requests, NEW s \in Sessions,
                 InitChunkedUpload(r) \/ SessionRequest(r, s)
          PROVE  TablesOK'
      BY <3>2 DEF TypeOK, TablesOK, InitChunkedUpload, SessionRequest, CompleteSession,
                  AbortSession, GetPartURL, ConfirmPart, Begin, rows, bucket, history
    <3>3. ASSUME NEW r \in Requests, InitChunkedUpload(r) PROVE TablesOK'
      BY <3>3 DEF TypeOK, TablesOK, InitChunkedUpload, Begin, rows, bucket, history
    <3>4. ASSUME NEW s \in Sessions, NEW n \in Parts, PutPart(s, n) PROVE TablesOK'
      BY <3>4 DEF TypeOK, TablesOK, PutPart, rows, bucket, history
    <3> QED
      BY <2>1, <2>3, <3>1, <3>2, <3>3, <3>4 DEF SessionNext
  <2>4. ASSUME NEW R \in SUBSET Requests, RequestsStop(R) PROVE TablesOK'
    BY <2>4 DEF TypeOK, TablesOK, RequestsStop, rows, bucket, Fault
  <2>5. ASSUME NEW x \in Sessions \cup {Video}, Expire(x) PROVE TablesOK'
    BY <2>5 DEF TypeOK, TablesOK, Expire, bucket, history
  <2>6. CASE UNCHANGED vars
    BY <2>1, <2>6 DEF TypeOK, TablesOK, vars, tables, rows, bucket, history
  <2>7. VideoNext \/ SessionNext \/ (\E R \in SUBSET Requests : RequestsStop(R))
          \/ (\E x \in Sessions \cup {Video} : Expire(x)) \/ UNCHANGED vars
          \/ JanitorStep \/ JanitorDies
    BY DEF Next
  <2> QED
    BY <1>1, <2>1, <2>2, <2>3, <2>4, <2>5, <2>6, <2>7
<1> QED
  BY <1>1, <1>2 DEF Next, vars

\* A step of one request, as far as parts are concerned: it ends, it goes to a
\* call that is about no part, or it was and stays about its part.
Onwards(r) ==
  \/ Finish(r)
  \/ \E step \in Steps \ PartSteps : Goto(r, step)
  \/ req[r].at \in PartSteps /\ \E step \in PartSteps : Goto(r, step)
  \/ OthersStay(r) /\ req'[r].at \notin PartSteps
  \/ OthersStay(r) /\ req'[r].n \in Parts

PartNamed == \A r \in Requests : req[r].at \in PartSteps => req[r].n \in Parts

\* After such a step every request about a part still names it.
LEMMA OnwardsNamed ==
  ASSUME RequestsOK, PartNamed, NEW r \in Requests, Onwards(r)
  PROVE  PartNamed'
<1> USE DEF RequestsOK, PartNamed, PartSteps, Reqs
<1>1. CASE Finish(r)
  BY <1>1 DEF Finish, NoRequest
<1>2. ASSUME NEW step \in Steps \ PartSteps, Goto(r, step) PROVE PartNamed'
  BY <1>2 DEF Goto
<1>3. ASSUME req[r].at \in PartSteps, NEW step \in PartSteps, Goto(r, step) PROVE PartNamed'
  BY <1>3 DEF Goto
<1>4. CASE OthersStay(r) /\ (req'[r].at \notin PartSteps \/ req'[r].n \in Parts)
  BY <1>4 DEF OthersStay
<1> QED
  BY <1>1, <1>2, <1>3, <1>4 DEF Onwards

\* Parts keep their types after a call of a request.
LEMMA RequestParts ==
  ASSUME TypeOK, NEW r \in Requests,
         \/ CompleteUpload(r) \/ AbortUpload(r) \/ VideoStep(r)
         \/ SessionStep(r) \/ InitChunkedUpload(r)
         \/ \E s \in Sessions : SessionRequest(r, s)
  PROVE  PartsOK'
<1> USE DEF At, Steps, PartSteps, SessionSteps, Knowing, Completers
<1>1. RequestsOK /\ PartNamed /\ PartsOK
  BY DEF TypeOK, PartsOK, PartNamed
<1>2. SUFFICES /\ Onwards(r)
               /\ part' \in [Sessions -> [Parts -> Nat]]
               /\ stored' = stored /\ urls' \subseteq Sessions \X Parts
  BY <1>1, OnwardsNamed DEF PartsOK, PartNamed
<1>3. CASE CompleteUpload(r) \/ AbortUpload(r)
  <2>1. Onwards(r)
    BY <1>3 DEF CompleteUpload, AbortUpload, Onwards
  <2> QED
    BY <1>1, <1>3, <2>1 DEF CompleteUpload, AbortUpload, PartsOK, rows, bucket
<1>4. CASE VideoStep(r)
  <2>1. Onwards(r)
    BY <1>4
    DEF VideoStep, HeadObject, SaveUploaded, PublishUploaded, DeleteObject, SaveAborted, Onwards
  <2> QED
    BY <1>1, <1>4, <2>1
    DEF VideoStep, HeadObject, SaveUploaded, PublishUploaded, DeleteObject, SaveAborted, SetVideo,
        PartsOK, rows, bucket
<1>5. CASE \E s \in Sessions : CreateMultipart(r, s)
  <2>1. OthersStay(r) /\ req'[r].at \notin PartSteps
    BY <1>1, <1>5 DEF CreateMultipart, OthersStay, RequestsOK, Reqs
  <2> QED
    BY <1>1, <1>5, <2>1 DEF CreateMultipart, Onwards, PartsOK, rows
<1>6. CASE CreateSession(r) \/ DropMultipart(r)
  <2>1. Onwards(r)
    BY <1>6 DEF CreateSession, DropMultipart, Onwards
  <2> QED
    BY <1>1, <1>6, <2>1
    DEF CreateSession, DropMultipart, SetSession, AbortMultipart, PartsOK, rows, bucket
<1>7. CASE ReadPart(r) \/ ReadConfirm(r)
  <2>1. Onwards(r)
    BY <1>7 DEF ReadPart, ReadConfirm, Onwards
  <2> QED
    BY <1>1, <1>7, <2>1 DEF ReadPart, ReadConfirm, PartsOK, rows, bucket
<1>8. ASSUME req[r].at \in PartSteps PROVE req[r].s \in Sessions /\ req[r].n \in Parts
  BY <1>1, <1>8 DEF RequestsOK, PartNamed
<1>9. CASE SavePart(r)
  <2>1. Onwards(r)
    BY <1>9 DEF SavePart, Onwards
  <2>2. req[r].s \in Sessions /\ req[r].n \in Parts
    BY <1>8, <1>9 DEF SavePart
  <2>3. part' \in [Sessions -> [Parts -> Nat]]
    <3>1. UNCHANGED part \/ \E s \in Sessions, n \in Parts : part' = [part EXCEPT ![s][n] = 0]
      BY <1>9, <2>2 DEF SavePart, SetPart, rows
    <3>2. ASSUME NEW s \in Sessions, NEW n \in Parts, part' = [part EXCEPT ![s][n] = 0]
          PROVE  part' \in [Sessions -> [Parts -> Nat]]
      <4>1. part \in [Sessions -> [Parts -> Nat]] /\ 0 \in Nat
        BY <1>1 DEF PartsOK
      <4> QED
        BY <3>2, <4>1
    <3> QED
      BY <1>1, <3>1, <3>2 DEF PartsOK
  <2>4. stored' = stored /\ urls' \subseteq Sessions \X Parts
    BY <1>1, <1>9, <2>2 DEF SavePart, HandURL, bucket, PartsOK
  <2> QED
    BY <2>1, <2>3, <2>4
<1>10. CASE StartProgress(r)
  <2>1. Onwards(r)
    BY <1>10 DEF StartProgress, Onwards
  <2>2. req[r].s \in Sessions /\ req[r].n \in Parts
    BY <1>8, <1>10 DEF StartProgress
  <2> QED
    BY <1>1, <1>10, <2>1, <2>2 DEF StartProgress, Transition, SetSession, HandURL, rows, PartsOK
<1>11. CASE SaveConfirm(r)
  <2>1. Onwards(r)
    BY <1>11 DEF SaveConfirm, Onwards
  <2>2. req[r].s \in Sessions /\ req[r].n \in Parts /\ req[r].etag \in Nat
    BY <1>1, <1>8, <1>11 DEF SaveConfirm, RequestsOK, Reqs
  <2> QED
    BY <1>1, <1>11, <2>1, <2>2 DEF SaveConfirm, SetPart, bucket, PartsOK
<1>12. CASE ReadParts(r)
  <2>1. Finish(r) \/ req' = [req EXCEPT ![r].at = "lock", ![r].etags = part[req[r].s]]
    BY <1>12 DEF ReadParts
  <2>2. ASSUME req' = [req EXCEPT ![r].at = "lock", ![r].etags = part[req[r].s]]
        PROVE  Onwards(r)
    <3> DEFINE e == part[req[r].s]
    <3>1. req' = [req EXCEPT ![r].at = "lock", ![r].etags = e]
      BY <2>2
    <3> HIDE DEF e
    <3>2. req' = [req EXCEPT ![r] = [[req[r] EXCEPT !.at = "lock"] EXCEPT !.etags = e]]
      BY <1>1, <3>1 DEF RequestsOK
    <3>3. OthersStay(r) /\ req'[r].at \notin PartSteps
      BY <1>1, <3>2 DEF RequestsOK, Reqs, OthersStay
    <3> QED
      BY <3>3 DEF Onwards
  <2>3. Onwards(r)
    BY <2>1, <2>2 DEF Onwards
  <2> QED
    BY <1>1, <1>12, <2>3 DEF ReadParts, PartsOK, rows, bucket
<1>13. CASE Lock(r) \/ Unlock(r)
  <2>1. Onwards(r)
    BY <1>13 DEF Lock, Unlock, Onwards
  <2> QED
    BY <1>1, <1>13, <2>1 DEF Lock, Unlock, Transition, SetSession, PartsOK, rows, bucket
<1>14. CASE Assemble(r) \/ AssembleFails(r)
  <2>1. Onwards(r)
    BY <1>14 DEF Assemble, AssembleFails, Onwards
  <2> QED
    BY <1>1, <1>14, <2>1 DEF Assemble, AssembleFails, PartsOK, rows
<1>15. CASE SaveVideo(r) \/ SaveSession(r) \/ SaveAbort(r)
  <2>1. Onwards(r)
    BY <1>15 DEF SaveVideo, SaveSession, SaveAbort, Onwards
  <2> QED
    BY <1>1, <1>15, <2>1
    DEF SaveVideo, SaveSession, SaveAbort, SetVideo, SetSession, PartsOK, rows, bucket
<1>16. CASE AbortMultipartUpload(r)
  <2>1. Onwards(r)
    BY <1>16 DEF AbortMultipartUpload, Onwards
  <2> QED
    BY <1>1, <1>16, <2>1
    DEF AbortMultipartUpload, AbortMultipart, AbortMultipartFails, PartsOK, rows, bucket
<1>17. CASE InitChunkedUpload(r)
  <2>1. OthersStay(r) /\ req'[r].at = "createMultipart"
    BY <1>1, <1>17, BeginIs, FieldsOK DEF InitChunkedUpload
  <2> QED
    BY <1>1, <1>17, <2>1 DEF InitChunkedUpload, Begin, Onwards, PartsOK, rows, bucket
<1>18. ASSUME NEW s \in Sessions, SessionRequest(r, s)
       PROVE  /\ Onwards(r)
              /\ part' \in [Sessions -> [Parts -> Nat]]
              /\ stored' = stored /\ urls' \subseteq Sessions \X Parts
  <2>1. CASE CompleteSession(r, s) \/ AbortSession(r, s)
    <3>1. OthersStay(r) /\ req'[r].at \in {"readParts", "abortMultipart"}
      BY <1>1, <2>1, BeginIs, FieldsOK DEF CompleteSession, AbortSession
    <3> QED
      BY <1>1, <2>1, <3>1
      DEF CompleteSession, AbortSession, Begin, Onwards, PartsOK, rows, bucket
  <2>2. ASSUME NEW n \in Parts, GetPartURL(r, s, n)
        PROVE  OthersStay(r) /\ req'[r].n \in Parts
    <3> DEFINE b == (session[s] = "initiated")
    <3>1. req' = [req EXCEPT ![r] =
                    [[About(s) EXCEPT !.n = n, !.fresh = b] EXCEPT !.at = "readPart"]]
      BY <2>2 DEF GetPartURL, Begin
    <3> HIDE DEF b
    <3> QED
      BY <1>1, <3>1 DEF RequestsOK, OthersStay, About, NoRequest
  <2>3. ASSUME NEW n \in Parts, NEW etag \in 1..MaxPuts, ConfirmPart(r, s, n, etag)
        PROVE  OthersStay(r) /\ req'[r].n \in Parts
    BY <1>1, <2>3 DEF ConfirmPart, Begin, RequestsOK, OthersStay, About, NoRequest
  <2>4. CASE \E n \in Parts : \/ GetPartURL(r, s, n)
                             \/ \E etag \in 1..MaxPuts : ConfirmPart(r, s, n, etag)
    <3>1. UNCHANGED <<part, stored, urls>>
      BY <2>4 DEF GetPartURL, ConfirmPart, Begin, rows, bucket
    <3> QED
      BY <1>1, <2>2, <2>3, <2>4, <3>1 DEF Onwards, PartsOK
  <2> QED
    BY <1>18, <2>1, <2>4 DEF SessionRequest
<1> QED
  BY <1>3, <1>4, <1>5, <1>6, <1>7, <1>9, <1>10, <1>11, <1>12, <1>13, <1>14, <1>15, <1>16, <1>17,
     <1>18
  DEF SessionStep

\* Every step keeps the parts in their types.
LEMMA PartsStep ==
  ASSUME TypeOK, [Next]_vars
  PROVE  PartsOK'
<1>1. CASE VideoNext
  <2>1. CASE InitUpload \/ PutObject
    BY <2>1 DEF TypeOK, PartsOK, InitUpload, PutObject, SetVideo, rows, bucket
  <2> QED
    BY <1>1, <2>1, RequestParts DEF VideoNext
<1>2. CASE SessionNext
  <2>1. ASSUME NEW s \in Sessions, NEW n \in Parts, PutPart(s, n) PROVE PartsOK'
    BY <2>1 DEF TypeOK, PartsOK, PutPart, rows
  <2> QED
    BY <1>2, <2>1, RequestParts DEF SessionNext
<1>3. ASSUME NEW R \in SUBSET Requests, RequestsStop(R) PROVE PartsOK'
  BY <1>3 DEF TypeOK, RequestsOK, PartsOK, PartSteps, RequestsStop, NoRequest, rows, bucket
<1>4. ASSUME NEW x \in Sessions \cup {Video}, Expire(x) PROVE PartsOK'
  BY <1>4 DEF TypeOK, PartsOK, Expire, bucket
<1>5. CASE JanitorStep \/ JanitorDies
  BY <1>5
  DEF TypeOK, PartsOK, JanitorStep, JanitorDies, ListVideos, HeadExpired, RecoverVideo,
      AnnounceVideo, ExpireVideo, VideoCallFails, ListSessions, ListSessionsFails, AbortOverdue,
      SaveExpired, JanitorGoto, SetVideo, SetSession, AbortMultipart, AbortMultipartFails, rows,
      bucket
<1>6. CASE UNCHANGED vars
  BY <1>6 DEF TypeOK, PartsOK, vars, tables, rows, bucket
<1> QED
  BY <1>1, <1>2, <1>3, <1>4, <1>5, <1>6 DEF Next

-----------------------------------------------------------------------------
(* The object of the video *)

\* Was the object there, once?
Seen == object \/ deleted
SavesVideo == {"saveUploaded", "saveVideo"}

\* What is said of the object stays true if no request comes to save the video.
LEMMA StillSeen ==
  ASSUME ObjectSeen, Seen => Seen',
         video' = "uploaded" => video = "uploaded" \/ jan = "recover"
                                  \/ \E r \in Requests : req[r].at \in SavesVideo,
         jan' = "recover" => jan = "recover" \/ Seen',
         \A r \in Requests : req'[r].at \in SavesVideo => req[r].at \in SavesVideo \/ Seen'
  PROVE  ObjectSeen'
BY DEF ObjectSeen, Seen, SavesVideo

\* Who saves the video as uploaded has seen the object.
LEMMA ObjectSeenStep ==
  ASSUME TypeOK, ObjectSeen, [Next]_vars
  PROVE  ObjectSeen'
<1> USE DEF Seen, SavesVideo
<1>1. RequestsOK
  BY DEF TypeOK
<1>2. CASE VideoNext /\ UNCHANGED janitorVars
  <2>1. CASE InitUpload \/ PutObject
    <3>1. /\ UNCHANGED <<req, deleted, jan>> /\ (object => object')
          /\ video' = video \/ video' = "pending"
      BY <1>2, <2>1 DEF InitUpload, PutObject, SetVideo, rows, bucket, history, janitorVars
    <3> QED
      BY <3>1, StillSeen
  <2>2. ASSUME NEW r \in Requests, CompleteUpload(r) \/ AbortUpload(r) \/ VideoStep(r)
        PROVE  ObjectSeen'
    <3>1. /\ Seen => Seen'
          /\ video' = "uploaded" => video = "uploaded" \/ req[r].at \in SavesVideo
      BY <2>2
      DEF CompleteUpload, AbortUpload, VideoStep, HeadObject, SaveUploaded, PublishUploaded,
          DeleteObject, SaveAborted, SetVideo, Announce, At, rows, bucket, history
    <3>2. OthersStay(r)
      BY <1>1, <2>2, VideoRequest
    <3>3. req'[r].at \in SavesVideo => Seen'
      BY <1>1, <2>2
      DEF CompleteUpload, AbortUpload, VideoStep, HeadObject, SaveUploaded, PublishUploaded,
          DeleteObject, SaveAborted, Goto, Finish, NoRequest, RequestsOK, Reqs, bucket, history
    <3> QED
      BY <1>2, <3>1, <3>2, <3>3, StillSeen DEF OthersStay, janitorVars
  <2> QED
    BY <1>2, <2>1, <2>2 DEF VideoNext
<1>3. CASE SessionNext /\ UNCHANGED janitorVars
  <2>1. ASSUME NEW s \in Sessions, NEW n \in Parts, PutPart(s, n) PROVE ObjectSeen'
    BY <1>3, <2>1, StillSeen DEF PutPart, rows, history, janitorVars
  <2>2. ASSUME NEW r \in Requests,
               \/ CreateSession(r) \/ DropMultipart(r) \/ Lock(r) \/ AssembleFails(r)
               \/ Unlock(r) \/ SaveVideo(r) \/ SaveSession(r) \/ AbortMultipartUpload(r)
               \/ SaveAbort(r) \/ \E s \in Sessions : AbortSession(r, s)
        PROVE  ObjectSeen'
    <3>1. /\ Seen => Seen'
          /\ video' = "uploaded" => video = "uploaded" \/ req[r].at \in SavesVideo
      BY <2>2
      DEF CreateSession, DropMultipart, Lock, AssembleFails, Unlock, SaveVideo, SaveSession,
          AbortMultipartUpload, SaveAbort, AbortSession, Begin, SetVideo, SetSession, Transition,
          AbortMultipart, AbortMultipartFails, At, rows, bucket, history
    <3>2. \A q \in Requests : req'[q].at \in SavesVideo => q # r /\ req'[q] = req[q]
      <4>1. CASE \E s \in Sessions : AbortSession(r, s)
        <5>1. OthersStay(r) /\ req'[r].at = "abortMultipart"
          BY <1>1, <4>1, BeginIs, FieldsOK
          DEF AbortSession, Steps, SessionSteps, Knowing, Completers
        <5> QED
          BY <5>1 DEF OthersStay
      <4>2. CASE Finish(r)
        BY <1>1, <4>2 DEF Finish, NoRequest, RequestsOK
      <4>3. CASE \E step \in Steps \ SavesVideo : Goto(r, step)
        BY <1>1, <4>3 DEF Goto, RequestsOK, Reqs
      <4> QED
        BY <2>2, <4>1, <4>2, <4>3
        DEF CreateSession, DropMultipart, Lock, AssembleFails, Unlock, SaveVideo, SaveSession,
            AbortMultipartUpload, SaveAbort, Steps, SessionSteps, Knowing, Completers
    <3> QED
      BY <1>3, <3>1, <3>2, StillSeen DEF janitorVars
  <2>3. ASSUME NEW r \in Requests, NEW s \in Sessions, CreateMultipart(r, s) PROVE ObjectSeen'
    <3>1. \A q \in Requests : req'[q].at \in SavesVideo => req'[q] = req[q]
      BY <1>1, <2>3 DEF CreateMultipart, RequestsOK, Reqs
    <3> QED
      BY <1>3, <2>3, <3>1, StillSeen DEF CreateMultipart, rows, history, janitorVars
  <2>4. ASSUME NEW r \in Requests, Assemble(r) PROVE ObjectSeen'
    <3>1. CASE Assembles(r)
      <4>1. object' = TRUE /\ UNCHANGED <<video, jan, deleted>>
        BY <1>3, <2>4, <3>1 DEF Assemble, rows, history, janitorVars
      <4> QED
        BY <4>1, StillSeen
    <3>2. CASE ~Assembles(r)
      <4>1. Goto(r, "unlock") /\ UNCHANGED <<video, jan, object, deleted>>
        BY <1>3, <2>4, <3>2 DEF Assemble, rows, history, janitorVars
      <4>2. \A q \in Requests : req'[q].at \in SavesVideo => req'[q] = req[q]
        BY <1>1, <4>1 DEF Goto, RequestsOK, Reqs
      <4> QED
        BY <4>1, <4>2, StillSeen
    <3> QED
      BY <3>1, <3>2
  <2>5. ASSUME NEW r \in Requests,
               \/ InitChunkedUpload(r) \/ ReadPart(r) \/ SavePart(r) \/ StartProgress(r)
               \/ ReadConfirm(r) \/ SaveConfirm(r) \/ ReadParts(r)
               \/ \E s \in Sessions :
                    \/ CompleteSession(r, s)
                    \/ \E n \in Parts : \/ GetPartURL(r, s, n)
                                        \/ \E etag \in 1..MaxPuts : ConfirmPart(r, s, n, etag)
        PROVE  ObjectSeen'
    <3>1. /\ OthersStay(r) /\ {req[r].at, req'[r].at} \cap Watched = {}
          /\ UNCHANGED <<video, object, multipart, history>>
      BY <2>5, PartRequest DEF TypeOK
    <3>2. req'[r].at # "saveVideo"
      BY <3>1 DEF Watched, Knowing, Completers
    <3>3. req'[r].at # "saveUploaded"
      <4>1. CASE Finish(r)
        BY <1>1, <4>1 DEF Finish, NoRequest, RequestsOK
      <4>2. CASE \E step \in {"savePart", "start", "saveConfirm"} : Goto(r, step)
        BY <1>1, <4>2 DEF Goto, RequestsOK, Reqs
      <4>3. CASE \E step \in {"createMultipart", "readParts", "readPart", "readConfirm"} :
                   req'[r].at = step
        BY <4>3
      <4>4. ASSUME req' = [req EXCEPT ![r].at = "lock", ![r].etags = part[req[r].s]]
            PROVE  req'[r].at # "saveUploaded"
        <5> DEFINE e == part[req[r].s]
        <5>1. req' = [req EXCEPT ![r].at = "lock", ![r].etags = e]
          BY <4>4
        <5> HIDE DEF e
        <5> QED
          BY <1>1, <5>1 DEF RequestsOK, Reqs
      <4>5. ASSUME InitChunkedUpload(r) \/ \E s \in Sessions : CompleteSession(r, s)
            PROVE  req'[r].at \in {"createMultipart", "readParts"}
        BY <1>1, <4>5, BeginIs, FieldsOK
        DEF InitChunkedUpload, CompleteSession, Steps, SessionSteps, Knowing, Completers
      <4>6. ASSUME NEW s \in Sessions, NEW n \in Parts,
                   GetPartURL(r, s, n) \/ \E etag \in 1..MaxPuts : ConfirmPart(r, s, n, etag)
            PROVE  req'[r].at \in {"readPart", "readConfirm"}
        BY <1>1, <4>6 DEF GetPartURL, ConfirmPart, Begin, RequestsOK, About, NoRequest
      <4> QED
        BY <2>5, <4>1, <4>2, <4>3, <4>4, <4>5, <4>6
        DEF ReadPart, SavePart, StartProgress, ReadConfirm, SaveConfirm, ReadParts
    <3> QED
      BY <1>3, <3>1, <3>2, <3>3, StillSeen DEF OthersStay, history, janitorVars
  <2> QED
    BY <1>3, <2>1, <2>2, <2>3, <2>4, <2>5 DEF SessionNext, SessionStep, SessionRequest
<1>4. ASSUME NEW R \in SUBSET Requests, RequestsStop(R), UNCHANGED janitorVars PROVE ObjectSeen'
  <2>1. \A q \in Requests : req'[q].at \in SavesVideo => req'[q] = req[q]
    BY <1>4 DEF RequestsStop, NoRequest
  <2> QED
    BY <1>4, <2>1, StillSeen DEF RequestsStop, rows, bucket, janitorVars
<1>5. ASSUME NEW x \in Sessions \cup {Video}, Expire(x), UNCHANGED janitorVars PROVE ObjectSeen'
  BY <1>5, StillSeen DEF Expire, bucket, history, janitorVars
<1>6. CASE JanitorStep \/ JanitorDies
  <2>1. /\ UNCHANGED <<req, object, deleted>>
        /\ jan' = "recover" => object
        /\ video' = "uploaded" => video = "uploaded" \/ jan = "recover"
    BY <1>6
    DEF JanitorStep, JanitorDies, ListVideos, HeadExpired, RecoverVideo, AnnounceVideo,
        ExpireVideo, VideoCallFails, ListSessions, ListSessionsFails, AbortOverdue, SaveExpired,
        JanitorGoto, SetVideo, SetSession, AbortMultipart, AbortMultipartFails, Announce, rows,
        bucket, history
  <2> QED
    BY <2>1, StillSeen
<1>7. CASE UNCHANGED vars
  BY <1>7, StillSeen DEF vars, tables, rows, bucket, history, janitorVars
<1> QED
  BY <1>2, <1>3, <1>4, <1>5, <1>6, <1>7 DEF Next

-----------------------------------------------------------------------------
(* The invariant, and what follows from it *)

\* With no rows, no uploads and no requests everything is in order.
LEMMA InitEstablishes == Init => IInv
<1> SUFFICES ASSUME Init PROVE IInv
  OBVIOUS
<1> USE DEF Init, InitTables, InitJanitor
<1>1. RequestsOK
  BY FieldsOK DEF RequestsOK, NoRequest, SessionSteps, Knowing, Completers
<1>2. TablesOK /\ JanitorOK
  <2>1. TablesOK
    BY DEF TablesOK
  <2>2. NoSession \notin Sessions /\ jan # "save" /\ now = NoSession /\ batch = {}
    BY UploadAssumption
  <2>3. JanitorOK
    BY <2>2 DEF JanitorOK
  <2> QED
    BY <2>1, <2>3
<1>3. PartsOK
  BY DEF PartsOK, PartSteps, NoRequest
<1>4. ASSUME NEW s \in Sessions PROVE SessionOK(s)
  <2>1. NoSession \notin Sessions
    BY UploadAssumption
  <2> QED
    BY <2>1
    DEF SessionOK, CreatedOnce, RowIsKnown, OneCompleter, CompleterStays, AbortReaches,
        AssembledFirst, FoundAgain, In, NoRequest, Knowing, Completers
<1>5. ObjectSeen
  BY DEF ObjectSeen, NoRequest
<1> QED
  BY <1>1, <1>2, <1>3, <1>4, <1>5 DEF IInv, TypeOK

\* Without sessions only the video is served.
LEMMA NoSessions ==
  ASSUME TypeOK, [Next]_vars, Sessions = {}
  PROVE  RequestsOK'
<1>1. RequestsOK /\ \A r \in Requests : req[r].at \notin SessionSteps
  BY DEF TypeOK, RequestsOK
<1>2. ASSUME NEW r \in Requests PROVE ~SessionStep(r)
  BY <1>1
  DEF SessionStep, CreateSession, DropMultipart, ReadPart, SavePart, StartProgress, ReadConfirm,
      SaveConfirm, ReadParts, Lock, Assemble, AssembleFails, Unlock, SaveVideo, SaveSession,
      AbortMultipartUpload, SaveAbort, At, SessionSteps, Knowing, Completers
<1>3. CASE VideoNext
  BY <1>1, <1>3, VideoRequest DEF VideoNext, InitUpload, PutObject, RequestsOK
<1>4. CASE SessionNext
  <2>1. PICK r \in Requests : InitChunkedUpload(r)
    BY <1>2, <1>4 DEF SessionNext
  <2> QED
    BY <1>1, <2>1, PartRequest DEF TypeOK
<1>5. ASSUME NEW R \in SUBSET Requests, RequestsStop(R) PROVE RequestsOK'
  BY <1>1, <1>5, FieldsOK
  DEF RequestsOK, RequestsStop, NoRequest, SessionSteps, Knowing, Completers
<1>6. CASE \/ JanitorStep \/ JanitorDies
           \/ (\E x \in Sessions \cup {Video} : Expire(x)) \/ UNCHANGED vars
  <2>1. req' = req
    BY <1>6 DEF JanitorStep, JanitorDies, ListVideos, HeadExpired, RecoverVideo, AnnounceVideo,
                ExpireVideo, VideoCallFails, ListSessions, ListSessionsFails, AbortOverdue,
                SaveExpired, JanitorGoto, Expire, vars, tables
  <2> QED
    BY <1>1, <2>1 DEF RequestsOK
<1> QED
  BY <1>3, <1>4, <1>5, <1>6 DEF Next

\* Every step keeps everything in order.
LEMMA StepKeeps == IInv /\ [Next]_vars => IInv'
<1> SUFFICES ASSUME IInv, [Next]_vars PROVE IInv'
  OBVIOUS
<1>1. TypeOK /\ ObjectSeen /\ \A s \in Sessions : SessionOK(s)
  BY DEF IInv
<1>2. TablesOK' /\ JanitorOK' /\ PartsOK'
  BY <1>1, TablesStep, PartsStep
<1>3. \A s \in Sessions : SessionOK(s)'
  BY <1>1, SessionsStep
<1>4. RequestsOK'
  <2>1. CASE Sessions # {}
    BY <1>1, <2>1, SessionsStep
  <2>2. CASE Sessions = {}
    BY <1>1, <2>2, NoSessions
  <2> QED
    BY <2>1, <2>2
<1>5. ObjectSeen'
  BY <1>1, ObjectSeenStep
<1> QED
  BY <1>2, <1>3, <1>4, <1>5 DEF IInv, TypeOK

\* Everything is always in order.
LEMMA UploadInvariant == Spec => []IInv
BY InitEstablishes, StepKeeps, PTL DEF Spec

\* Rows, parts, bucket, requests and janitor keep their types: a request about a
\* session names one, and one about a part names that.
THEOREM UploadTypeCorrect == Spec => []TypeOK
<1>1. IInv => TypeOK
  BY DEF IInv
<1> QED
  BY <1>1, UploadInvariant, PTL

\* At most one request is completing a session (OneCompleter), and as long as
\* nothing fails a session that says completing has one (CompleterStays): only the
\* transaction that changed in_progress to completing gets past Lock, and only
\* that request changes the row again.
THEOREM UploadLockHeldByOne == Spec => []LockIsHeldByOne
<1>1. IInv => LockIsHeldByOne
  <2> SUFFICES ASSUME IInv, NEW s \in Sessions
               PROVE  /\ Cardinality(Completing(s)) <= 1
                      /\ session[s] = "completing" /\ faults = 0 => Completing(s) # {}
    BY DEF LockIsHeldByOne
  <2>1. OneCompleter(s) /\ CompleterStays(s)
    BY DEF IInv, SessionOK
  <2>2. \A r, q \in Completing(s) : r = q
    BY <2>1 DEF OneCompleter, Completing, In, Completers
  <2>3. Completing(s) = {} \/ \E r \in Requests : Completing(s) = {r}
    BY <2>2 DEF Completing
  <2>4. Cardinality(Completing(s)) <= 1
    BY <2>3, FS_EmptySet, FS_Singleton
  <2>5. session[s] = "completing" /\ faults = 0 => Completing(s) # {}
    BY <2>1 DEF CompleterStays, Completing, In, Completers
  <2> QED
    BY <2>4, <2>5
<1> QED
  BY <1>1, UploadInvariant, PTL

\* While no process dies and no abort fails on S3, whoever opened an upload, or
\* took it from the janitor by leaving its row active, is still about to end it
\* (FoundAgain, with AbortReaches for the rows that were aborted or expired and
\* AssembledFirst for those that were completed).
THEOREM UploadNoOrphans == Spec => []NoOrphanUploads
<1>1. IInv => NoOrphanUploads
  BY DEF IInv, SessionOK, FoundAgain, NoOrphanUploads, In
<1> QED
  BY <1>1, UploadInvariant, PTL

\* A video is saved as uploaded only by who saw its object (ObjectSeen), a session
\* as completed only after S3 assembled it (AssembledFirst), and no fault changes that.
THEOREM UploadClaimsStored == Spec => []ClaimsAreStored
<1>1. IInv => ClaimsAreStored
  BY DEF IInv, SessionOK, ObjectSeen, AssembledFirst, ClaimsAreStored
<1> QED
  BY <1>1, UploadInvariant, PTL
=============================================================================
