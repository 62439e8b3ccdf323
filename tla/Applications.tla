---------------------------- MODULE Applications ----------------------------
(***************************************************************************)
(* What a registered applicant does: asks for an upload URL, stores the     *)
(* resume, reports how the upload ended, drafts, submits and edits an       *)
(* application, pauses it; and the identity service's PUT                   *)
(* /applicants/:auth0Id.  A request carries the id its JWT or its session   *)
(* gave it when it began, however long ago that was.                        *)
(***************************************************************************)
EXTENDS CommonAppState

ResumeOf(i, n) == {u \in upload : u.id = n /\ u.applicantId = i}

-----------------------------------------------------------------------------
(* Uploads *)

StartCreateUpload(r, p) ==
  /\ p \in Principals
  /\ Issue(r, "createUpload", [NoRequest EXCEPT !.op = "createUpload",
             !.pc = "insertUpload", !.id = p.id, !.who = p.email])

\* Faulty variant: the table has no foreign key to Applicant.
InsertUploadUnchecked(r) ==
  /\ At(r, "insertUpload")
  /\ \E n \in UploadIds :
       /\ n > lastUploadId
       /\ upload' = upload \cup {[id |-> n, applicantId |-> req[r].id,
                                  status |-> "REQUESTED"]}
       /\ lastUploadId' = n
       /\ req' = [req EXCEPT ![r] = [@ EXCEPT !.pc = "respond", !.up = n]]
  /\ UNCHANGED <<applicant, lastApplicantId, draft, submission, deletionRequests,
                 session, services>>

\* createResumeUploadRecord; the foreign key refuses an applicant who has gone
\* (Fail stands for the 500).
InsertUpload(r) ==
  /\ At(r, "insertUpload")
  /\ Registered(req[r].id)
  /\ \E n \in UploadIds :
       /\ n > lastUploadId
       /\ upload' = upload \cup {[id |-> n, applicantId |-> req[r].id,
                                  status |-> "REQUESTED"]}
       /\ lastUploadId' = n
       /\ req' = [req EXCEPT ![r] = [@ EXCEPT !.pc = "respond", !.up = n]]
  /\ UNCHANGED <<applicant, lastApplicantId, draft, submission, deletionRequests,
                 session, services>>

\* The keys clients hold a presigned URL for.
PresignedKeys ==
  {[applicantId |-> req[r].id, uploadId |-> req[r].up] :
      r \in {q \in Requests : req[q].op = "createUpload" /\ req[q].status = 200}}
  \cup {[applicantId |-> u.applicantId, uploadId |-> u.id] : u \in InitialUploads}

\* A deletion that has listed its applicant's objects, and has not failed.
HasListed(q) ==
  \/ q.op = "deleteMe" /\ q.pc \in {"deleteObjects", "notify", "respond"}
  \/ q.op = "deleteForce" /\ q.pc \in {"deleteObjects", "deleteById", "listByEmail",
                                      "deleteListed", "respond"}
  \/ q.op \in DeleteOps /\ q.status = 200

\* The client (external) posts the file to the URL it was answered: any time
\* later, and more than once, whether or not the applicant is still there.
PutObject(k) ==
  /\ k \in PresignedKeys
  /\ bucket' = bucket \cup {k}
  /\ missed' = missed \cup {<<r, k>> : r \in {q \in Requests : HasListed(req[q])
                                                         /\ req[q].id = k.applicantId}}
  /\ UNCHANGED <<tables, auth0, jwt, mail, req>>

\* POST /me/uploads/:id/complete: the client reports what it likes.
StartCompleteUpload(r, p, n, st) ==
  /\ p \in Principals
  /\ Issue(r, "completeUpload", [NoRequest EXCEPT !.op = "completeUpload",
             !.pc = "setStatus", !.id = p.id, !.who = p.email, !.up = n,
             !.upStatus = st])

\* Faulty variant: without NOT SUCCESS, a resume in use can turn into a failure.
CompletableAnyTime(r) == ResumeOf(req[r].id, req[r].up)

\* where: { id, applicantId, NOT: { status: 'SUCCESS' } }
Completable(r) == {u \in ResumeOf(req[r].id, req[r].up) : u.status # "SUCCESS"}

SetUploadStatus(r) ==
  /\ At(r, "setStatus")
  /\ IF Completable(r) = {}
     THEN Reject(r, 400) /\ UNCHANGED upload
     ELSE /\ upload' = (upload \ Completable(r)) \cup
                         {[u EXCEPT !.status = req[r].upStatus] : u \in Completable(r)}
          /\ Goto(r, "respond")
  /\ UNCHANGED <<applicant, lastApplicantId, lastUploadId, draft, submission,
                 deletionRequests, session, services>>

-----------------------------------------------------------------------------
(* Draft and final submissions *)

\* n = 0: a draft without a resume.
StartApplication(r, op, p, n) ==
  /\ p \in (IF op = "updateSubmission" THEN JwtPrincipals ELSE Principals)
  /\ op = "draft" \/ n # 0
  /\ Issue(r, op, [NoRequest EXCEPT !.op = op, !.pc = "validate", !.id = p.id,
             !.who = p.email, !.up = n])

\* Faulty variant: any SUCCESS upload will do, whoever made it.
ValidResumeOfAnyone(i, n) ==
  n = 0 \/ \E u \in upload : u.id = n /\ u.status = "SUCCESS"

\* validResume: the upload is this applicant's and has succeeded.
ValidResume(i, n) == n = 0 \/ \E u \in ResumeOf(i, n) : u.status = "SUCCESS"

\* validateApplicantSubmission awaits its own query: what it has seen may be
\* stale when the submission is written.
ValidateApplication(r) ==
  /\ At(r, "validate")
  /\ IF ValidResume(req[r].id, req[r].up) THEN Goto(r, "write") ELSE Reject(r, 400)
  /\ UNCHANGED <<tables, services>>

\* Faulty variant: an upsert instead of a create, so a second submission of the
\* same applicant is accepted and answered by a second e-mail.
CreateSubmissionTwice(r) ==
  /\ At(r, "write") /\ req[r].op = "createSubmission"
  /\ Registered(req[r].id)
  /\ \E u \in upload : u.id = req[r].up
  /\ submission' = {s \in submission : s.applicantId # req[r].id} \cup
                     {[applicantId |-> req[r].id, resume |-> req[r].up]}
  /\ Goto(r, "notifySubmit")
  /\ UNCHANGED <<applicant, lastApplicantId, upload, lastUploadId, draft,
                 deletionRequests, session, services>>

\* One transaction with the skills and causes; applicantId is unique, and both
\* rows it connects to must be there.
CreateSubmission(r) ==
  /\ At(r, "write") /\ req[r].op = "createSubmission"
  /\ Registered(req[r].id)
  /\ \E u \in upload : u.id = req[r].up
  /\ \A s \in submission : s.applicantId # req[r].id
  /\ submission' = submission \cup {[applicantId |-> req[r].id, resume |-> req[r].up]}
  /\ Goto(r, "notifySubmit")
  /\ UNCHANGED <<applicant, lastApplicantId, upload, lastUploadId, draft,
                 deletionRequests, session, services>>

\* The address is read again; a failure of either call is logged and swallowed.
NotifySubmission(r) ==
  /\ At(r, "notifySubmit")
  /\ \/ UNCHANGED mail
     \/ \E a \in Rows(req[r].id) :
          mail' = mail \cup {[kind |-> "submitted", to |-> a.email,
                              id |-> req[r].id, by |-> r]}
  /\ Goto(r, "respond")
  /\ UNCHANGED <<tables, auth0, jwt, bucket, missed>>

UpdateSubmission(r) ==
  /\ At(r, "write") /\ req[r].op = "updateSubmission"
  /\ \E s \in submission : s.applicantId = req[r].id
  /\ \E u \in upload : u.id = req[r].up
  /\ submission' = {s \in submission : s.applicantId # req[r].id} \cup
                     {[applicantId |-> req[r].id, resume |-> req[r].up]}
  /\ Goto(r, "respond")
  /\ UNCHANGED <<applicant, lastApplicantId, upload, lastUploadId, draft,
                 deletionRequests, session, services>>

\* Upsert: creates the draft of a present applicant or updates it, and without
\* a resume disconnects the one it had.
UpsertDraft(r) ==
  /\ At(r, "write") /\ req[r].op = "draft"
  /\ Registered(req[r].id)
  /\ req[r].up = 0 \/ \E u \in upload : u.id = req[r].up
  /\ draft' = {d \in draft : d.applicantId # req[r].id} \cup
                {[applicantId |-> req[r].id, resume |-> req[r].up]}
  /\ Goto(r, "respond")
  /\ UNCHANGED <<applicant, lastApplicantId, upload, lastUploadId, submission,
                 deletionRequests, session, services>>

-----------------------------------------------------------------------------
(* The applicant's row *)

StartPause(r, p) ==
  /\ p \in JwtPrincipals
  /\ Issue(r, "pause", [NoRequest EXCEPT !.op = "pause", !.pc = "setState",
             !.id = p.id, !.who = p.email])

\* pauseApplicant: sets or clears the flag, 404 when the row has gone.
PauseApplicant(r) ==
  /\ At(r, "setState")
  /\ IF Registered(req[r].id)
     THEN /\ \E b \in BOOLEAN :
               applicant' = {IF a.id = req[r].id THEN [a EXCEPT !.isPaused = b] ELSE a :
                               a \in applicant}
          /\ Goto(r, "respond")
     ELSE Reject(r, 404) /\ UNCHANGED applicant
  /\ UNCHANGED <<lastApplicantId, upload, lastUploadId, draft, submission,
                 deletionRequests, session, services>>

\* The identity service names the old id.
StartRelink(r, u) ==
  Issue(r, "relink", [NoRequest EXCEPT !.op = "relink", !.pc = "setAuth0Id", !.sub = u])

\* updateApplicantAuth0Id: auth0Id is unique (Fail stands for the 500).
UpdateAuth0Id(r) ==
  /\ At(r, "setAuth0Id")
  /\ IF \E a \in applicant : a.auth0Id = req[r].sub
     THEN /\ \E u \in Auth0Ids :
               /\ \A a \in applicant : a.auth0Id = u => u = req[r].sub
               /\ applicant' = {IF a.auth0Id = req[r].sub THEN [a EXCEPT !.auth0Id = u]
                                ELSE a : a \in applicant}
          /\ Goto(r, "respond")
     ELSE Reject(r, 404) /\ UNCHANGED applicant
  /\ UNCHANGED <<lastApplicantId, upload, lastUploadId, draft, submission,
                 deletionRequests, session, services>>

Applying(r) ==
  \/ \E p \in Principals : StartCreateUpload(r, p)
  \/ InsertUpload(r)
  \/ \E p \in Principals, n \in UploadIds, st \in UploadStatus :
       StartCompleteUpload(r, p, n, st)
  \/ SetUploadStatus(r)
  \/ \E op \in {"draft", "createSubmission", "updateSubmission"},
        p \in Principals, n \in UploadIds \cup {0} : StartApplication(r, op, p, n)
  \/ ValidateApplication(r)
  \/ CreateSubmission(r)
  \/ NotifySubmission(r)
  \/ UpdateSubmission(r)
  \/ UpsertDraft(r)
  \/ \E p \in JwtPrincipals : StartPause(r, p)
  \/ PauseApplicant(r)
  \/ \E u \in Auth0Ids : StartRelink(r, u)
  \/ UpdateAuth0Id(r)
=============================================================================
