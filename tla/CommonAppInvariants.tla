------------------------ MODULE CommonAppInvariants ------------------------
(***************************************************************************)
(* Why the safety properties of CommonAppApi hold: the facts every step of *)
(* every handler keeps, strong enough that each follows from the others    *)
(* one step earlier.                                                       *)
(***************************************************************************)
EXTENDS CommonAppApi

\* Ids are drawn from sequences that never go back.
ApplicantsNumbered ==
  /\ \A a \in applicant : a.id <= lastApplicantId
  /\ \A a, b \in applicant : a.id = b.id => a = b
  /\ \A d \in deletionRequests : d.applicantId <= lastApplicantId
UploadsNumbered ==
  /\ \A u \in upload : u.id <= lastUploadId
  /\ \A u, v \in upload : u.id = v.id => u = v

\* A recorded deletion is of somebody who is no longer there.
RecordedIsGone ==
  \A d \in deletionRequests : d.applicantId # 0 => ~Registered(d.applicantId)

\* What a request saw when it validated its resume still holds when it writes:
\* the upload may have gone, but it is not another applicant's and has not failed.
ValidatedResume ==
  \A r \in Requests : At(r, "write") /\ req[r].up # 0 =>
    /\ req[r].up <= lastUploadId
    /\ \A u \in upload : u.id = req[r].up =>
          u.applicantId = req[r].id /\ u.status = "SUCCESS"

\* The part about the applicants' rows and what hangs on them.
ErasureInv ==
  /\ ApplicantsNumbered
  /\ NoOrphanRows
  /\ RecordedIsGone
  /\ OneDeletionRecord

\* The part about resumes.
ResumeInv ==
  /\ UploadsNumbered
  /\ ValidatedResume
  /\ AttachedResumeComplete

\* A token was issued for this e-mail to this user.
HasToken(u, e) == \E t \in jwt : t.user_id = u /\ t.email = e

\* Auth0 issues no user id twice.
UserIdsKept == auth0 \subseteq jwt /\ \A t, v \in jwt : t.user_id = v.user_id => t = v

\* A deletion or a registration goes on with the e-mail of whoever asked for it.
EmailIsOwn(q) ==
  /\ q.pc = "getUser" => HasToken(q.sub, q.who)
  /\ q.pc \in {"deleteTx", "recordRequest"} => q.who \in {q.email, None}
  /\ q.op \in RegisterOps /\ q.pc # "done" => q.email = q.who

\* No id is ever given to a second person: whoever was authenticated, by a token
\* or by a session, as holder of an id has the e-mail of the row of that id.
IdentityInv ==
  /\ AuthorityIsCurrent
  /\ \A r \in Requests : req[r].who # None => req[r].id <= lastApplicantId
  /\ \A s \in session : s.id <= lastApplicantId
  /\ \A r \in Requests : req[r].pc \in {"getUser", "recordRequest"} => req[r].id = 0
  /\ UserIdsKept
  /\ \A r \in Requests : EmailIsOwn(req[r])
  /\ \A d \in deletionRequests : ~At(d.by, "idle")

SafetyInv == TypeOK /\ ErasureInv /\ ResumeInv /\ IdentityInv

-----------------------------------------------------------------------------
(* What each request has done by the time it stands at a label *)

\* A handler awaits its own calls only, and answers once.
OnPath(q) ==
  /\ q.pc = "idle" => q = NoRequest
  /\ q.pc \in {"createUser", "welcome"} => q.op = "register"
  /\ q.pc = "insert" => q.op \in RegisterOps
  /\ q.pc \in {"deleteTx", "getUser", "recordRequest", "notify"} => q.op = "deleteMe"
  /\ q.pc = "deleteRow" => q.op = "deleteForce"
  /\ q.pc \in {"findApplicant", "deleteById", "listByEmail", "deleteListed", "listResumes",
               "deleteObjects"} => q.op \in DeleteOps
  /\ q.pc = "findApplicant" => q.email = None
  /\ q.pc = "recordRequest" => q.id = 0
  /\ q.pc \in {"listResumes", "deleteObjects"} => q.id # 0
  /\ q.pc = "insertUpload" => q.op = "createUpload"
  /\ q.pc = "setStatus" => q.op = "completeUpload"
  /\ q.pc \in {"validate", "write"} => q.op \in SubmissionOps
  /\ q.pc = "notifySubmit" => q.op = "createSubmission"
  /\ q.pc = "setState" => q.op = "pause"
  /\ q.pc = "setAuth0Id" => q.op = "relink" /\ "relink" \in Ops
  /\ q.status # 0 => q.pc = "done"
  /\ q.keys # {} => q.pc = "deleteObjects"
  /\ q.victims # {} => q.pc \in {"deleteListed", "done"} /\ q.op \in DeleteOps

PathInv == \A r \in Requests : OnPath(req[r])

\* The id was given to somebody who is no longer there.
Gone(i) == ~Registered(i) /\ i <= lastApplicantId

\* The request has done what it is about to acknowledge, or has acknowledged.
AcksRow(q) == q.op \in RegisterOps /\ (q.pc \in {"welcome", "respond"} \/ q.status = 200)
AcksSubmission(q) ==
  \/ q.op = "createSubmission" /\ q.pc \in {"notifySubmit", "respond"}
  \/ q.op = "updateSubmission" /\ q.pc = "respond"
  \/ q.op \in {"createSubmission", "updateSubmission"} /\ q.status = 200

HasSubmission(i) == \E s \in submission : s.applicantId = i

AcknowledgedInv ==
  \A r \in Requests :
    /\ AcksRow(req[r]) => Registered(req[r].id) \/ Deleted(req[r].id)
    /\ AcksSubmission(req[r]) => HasSubmission(req[r].id) \/ Deleted(req[r].id)

\* The request whose create succeeded, and who may send the e-mail.
Submitted(r) ==
  /\ req[r].op = "createSubmission"
  /\ req[r].pc = "notifySubmit" \/ \E m \in mail : m.kind = "submitted" /\ m.by = r

\* One create succeeds per applicant, and its request sends at most one e-mail.
SubmissionMailInv ==
  /\ \A r \in Requests : Submitted(r) => HasSubmission(req[r].id) \/ Gone(req[r].id)
  /\ \A q, r \in Requests : Submitted(q) /\ Submitted(r) /\ req[q].id = req[r].id => q = r
  /\ \A m \in mail : m.kind = "submitted" =>
       req[m.by].op = "createSubmission" /\ req[m.by].pc \in {"respond", "done"} /\ m.id = req[m.by].id
  /\ \A m, n \in mail : m.kind = "submitted" /\ n.kind = "submitted" /\ m.by = n.by => m = n

\* The labels after the applicant's row has gone.
RowDeleted == {"deleteById", "listByEmail", "deleteListed", "listResumes", "deleteObjects",
               "notify", "respond"}

\* Every deletion e-mail is of the one request whose transaction made the record.
DeletionMailInv ==
  /\ \A r \in Requests : req[r].op = "deleteMe" /\ req[r].pc \in RowDeleted =>
       [applicantId |-> req[r].id, email |-> req[r].email, by |-> r] \in deletionRequests
  /\ \A m \in mail : m.kind = "deletion" =>
       /\ req[m.by].pc \in {"respond", "done"}
       /\ m.id # 0 /\ m.id = req[m.by].id /\ m.to = req[m.by].email
       /\ [applicantId |-> m.id, email |-> m.to, by |-> m.by] \in deletionRequests

\* Handlers stay on their paths, and what a request has acknowledged, submitted or
\* announced by e-mail is in the database, or its applicant has been deleted.
PromisesInv == PathInv /\ AcknowledgedInv /\ SubmissionMailInv /\ DeletionMailInv

-----------------------------------------------------------------------------
(* Objects in the bucket *)

\* A deletion is past the point where its applicant's row goes.
PastRow(q) ==
  q.op \in DeleteOps /\ q.id # 0 /\ (q.pc \in RowDeleted \/ q.status = 200)

RowsGoFirst == \A r \in Requests : PastRow(req[r]) => Gone(req[r].id)

\* From its listing on, what is stored of a deletion's applicant is on its list, or it
\* could not know of it; the list is empty once the objects on it have gone.
ObjectsGo ==
  \A r \in Requests : HasListed(req[r]) =>
    \A k \in ObjectsOf(req[r].id) : k \in req[r].keys \/ <<r, k>> \in missed

\* A list holds objects of the applicant deleted or of one whose id has the same prefix.
KeysMatch == \A r \in Requests : \A k \in req[r].keys : DecimalPrefix(req[r].id, k.applicantId)

\* A deletion past the row is of somebody who is gone, and lists and takes what is
\* stored under that applicant's prefix.
ObjectsInv == RowsGoFirst /\ KeysMatch /\ ObjectsGo

-----------------------------------------------------------------------------
(* Logins *)

\* Somebody has asked for the deletion of this e-mail.
Requested(e) ==
  /\ e \in Emails
  /\ \/ \E d \in deletionRequests : d.email = e
     \/ \E r \in Requests : req[r].op = "deleteForce" /\ req[r].email = e

\* No user id ever has two e-mails, so a deletion that knows one finds the other.
LoginInv ==
  /\ UserIdsKept
  /\ \A t \in jwt : (\E u \in auth0 : u.user_id = t.user_id) \/ Requested(t.email)
  /\ \A a \in applicant : HasToken(a.auth0Id, a.email)
  /\ \A r \in Requests :
       /\ At(r, "insert") => HasToken(req[r].sub, req[r].email)
       /\ req[r].op \in DeleteOps /\ req[r].email \in Emails =>
            /\ req[r].pc \in {"deleteTx", "deleteRow", "recordRequest"} \cup RowDeleted =>
                 HasToken(req[r].sub, req[r].email)
            /\ req[r].pc \in RowDeleted => Requested(req[r].email)
       /\ \A u \in req[r].victims : HasToken(u, req[r].email) /\ Requested(req[r].email)
=============================================================================
