--------------------------- MODULE CommonAppState ---------------------------
(***************************************************************************)
(* The state shared by the request handlers of the Common App API: the     *)
(* Postgres tables, the users Auth0 holds, the objects in the resume       *)
(* bucket, the e-mails handed to the queue, and the requests in flight.    *)
(*                                                                         *)
(* A table is the set of its rows.  A request is one run of an Express     *)
(* handler: its pc names the call it awaits next, so every interleaving    *)
(* of the awaits of concurrent requests, in one API process or in several, *)
(* is a behaviour.  The handlers share nothing but what is declared here.  *)
(***************************************************************************)
EXTENDS Naturals, FiniteSets

CONSTANTS
  Requests,           \* request slots, each used once
  Ops,                \* the kinds of request the clients of a run issue
  Emails,             \* e-mail addresses, in the lower case the schemas give them
  Auth0Ids,           \* Auth0 user ids
  ApplicantIds,       \* values the SERIAL column Applicant.id may take
  UploadIds,          \* values the SERIAL column Upload.id may take
  None,               \* "undefined"
  SessionsExpire,     \* FALSE: every session outlives the run
  PageSize,           \* how many keys ListObjectsV2 answers: 1000
  InitialApplicants,  \* applicants registered before the run
  InitialUploads,     \* uploads made before the run
  StartApplicantId,   \* where the sequences behind the ids stand
  StartUploadId       \* when the run begins

UploadStatus == {"REQUESTED", "SUCCESS", "FAILURE"}

ApplicantRow == [id : ApplicantIds, email : Emails, auth0Id : Auth0Ids,
                 isPaused : BOOLEAN]
UploadRow == [id : UploadIds, applicantId : ApplicantIds, status : UploadStatus]
DraftRow == [applicantId : ApplicantIds, resume : UploadIds \cup {0}]
SubmissionRow == [applicantId : ApplicantIds, resume : UploadIds]
\* A row of ApplicantDeletionRequests, which names an Auth0 user without an e-mail
\* by the user id; "by" tells equal rows apart.
DeletionRequestRow == [applicantId : ApplicantIds \cup {0}, email : Emails \cup Auth0Ids,
                       by : Requests]
\* The session store keeps the id; "email" is whose registration set the cookie.
SessionRow == [id : ApplicantIds, email : Emails]
\* A token carries the user's id and e-mail; a user may have no e-mail, and then
\* the tokens lack the claim.
Auth0User == [user_id : Auth0Ids, email : Emails \cup {None},
              connection : {"password", "social"}]
Key == [applicantId : ApplicantIds, uploadId : UploadIds]
Mail == [kind : {"welcome", "submitted", "deletion", "deletionComplete"},
         to : Emails, id : ApplicantIds \cup {0}, by : Requests]

RegisterOps == {"register", "registerWithJwt"}
DeleteOps == {"deleteMe", "deleteForce"}
SubmissionOps == {"draft", "createSubmission", "updateSubmission"}
Kinds == RegisterOps \cup DeleteOps \cup SubmissionOps \cup
           {"createUpload", "completeUpload", "pause", "relink"}

\* The ids a run may draw, the database it starts from, and no clash with
\* the sentinels 0 (no applicant, no resume) and None.
ASSUME IdAssumption == /\ ApplicantIds \subseteq Nat \ {0}
                       /\ UploadIds \subseteq Nat \ {0}
                       /\ Ops \subseteq Kinds
                       /\ None \notin Emails \cup Auth0Ids \cup Kinds
                       /\ Emails \cap Auth0Ids = {}
                       /\ SessionsExpire \in BOOLEAN
                       /\ PageSize \in Nat \ {0}

ASSUME InitialAssumption ==
  /\ InitialApplicants \subseteq ApplicantRow
  /\ InitialUploads \subseteq UploadRow /\ IsFiniteSet(InitialUploads)
  /\ \A a, b \in InitialApplicants :
        a.id = b.id \/ a.email = b.email \/ a.auth0Id = b.auth0Id => a = b
  /\ \A u, v \in InitialUploads : u.id = v.id => u = v
  /\ \A u \in InitialUploads : \E a \in InitialApplicants : a.id = u.applicantId
  /\ StartApplicantId \in ApplicantIds \cup {0}
  /\ StartUploadId \in UploadIds \cup {0}
  /\ \A a \in InitialApplicants : a.id <= StartApplicantId
  /\ \A u \in InitialUploads : u.id <= StartUploadId

VARIABLES
  applicant,         \* table Applicant
  lastApplicantId,   \* the sequence behind Applicant.id
  upload,            \* table Upload
  lastUploadId,      \* the sequence behind Upload.id
  draft,             \* table ApplicantDraftSubmission
  submission,        \* table ApplicantSubmission
  deletionRequests,  \* table ApplicantDeletionRequests
  session,           \* table Session: the cookies that authenticate
  auth0,             \* the users Auth0 holds
  jwt,               \* every user a token was ever issued to: tokens outlive users
  bucket,            \* the object keys in the resume bucket
  mail,              \* the e-mails enqueued so far
  req,               \* the requests
  missed             \* history: objects a deletion could not know of

tables == <<applicant, lastApplicantId, upload, lastUploadId, draft,
            submission, deletionRequests, session>>
services == <<auth0, jwt, bucket, mail, missed>>
vars == <<applicant, lastApplicantId, upload, lastUploadId, draft, submission,
          deletionRequests, session, auth0, jwt, bucket, mail, req, missed>>

Labels == {"idle", "createUser", "insert", "welcome", "findApplicant",
           "deleteTx", "deleteRow", "getUser", "recordRequest", "deleteById",
           "listByEmail", "deleteListed", "listResumes", "deleteObjects",
           "notify", "insertUpload", "setStatus", "validate", "write",
           "notifySubmit", "setState", "setAuth0Id", "respond", "done"}

\* The HTTP status a request was answered with, 0 before.
Statuses == {0, 200, 400, 404, 409, 500}

\* "who" is the e-mail of the token or the session that authenticated the request,
\* or of the registration it is; no handler reads it again.
Request == [op : Ops \cup {None}, pc : Labels, status : Statuses,
            who : Emails \cup {None},
            email : Emails \cup Auth0Ids \cup {None}, sub : Auth0Ids \cup {None},
            id : ApplicantIds \cup {0}, up : UploadIds \cup {0},
            upStatus : UploadStatus, victims : SUBSET Auth0Ids, keys : SUBSET Key]

NoRequest == [op |-> None, pc |-> "idle", status |-> 0, who |-> None,
              email |-> None, sub |-> None, id |-> 0, up |-> 0, upStatus |-> "REQUESTED",
              victims |-> {}, keys |-> {}]

RegisterLabels == {"createUser", "insert", "welcome"}
DeletionLabels == {"deleteTx", "deleteRow", "recordRequest", "deleteById",
                   "listByEmail", "deleteListed", "listResumes",
                   "deleteObjects", "notify"}
IdLabels == {"welcome", "findApplicant", "deleteTx", "deleteRow", "insertUpload",
             "setStatus", "validate", "write", "notifySubmit", "setState"}

\* No handler awaits a call with an argument it has not got yet, on any path:
\* registered or Auth0-only, user or administrator.
LocalsAssigned(q) ==
  /\ q.pc \in RegisterLabels \cup (DeletionLabels \ {"recordRequest"}) => q.email \in Emails
  /\ q.pc = "recordRequest" => q.email # None
  /\ q.pc \in {"insert", "welcome", "getUser", "setAuth0Id"} \cup DeletionLabels => q.sub # None
  /\ q.pc \in IdLabels => q.id # 0
  /\ q.pc \in RegisterLabels => q.op \in RegisterOps
  /\ q.op \in RegisterOps => q.pc \in RegisterLabels \cup {"respond", "done"}
  /\ q.op \in RegisterOps /\ q.pc = "respond" => q.email \in Emails /\ q.id # 0

(***************************************************************************)
(* Type correctness of the whole state: what the Prisma schema types and   *)
(* the handlers' local variables hold, and that a handler's calls find     *)
(* their arguments assigned (a row, a token's subject, an address).        *)
(***************************************************************************)
TypeOK ==
  /\ applicant \subseteq ApplicantRow
  /\ lastApplicantId \in ApplicantIds \cup {0}
  /\ upload \subseteq UploadRow
  /\ lastUploadId \in UploadIds \cup {0}
  /\ draft \subseteq DraftRow
  /\ submission \subseteq SubmissionRow
  /\ deletionRequests \subseteq DeletionRequestRow
  /\ session \subseteq SessionRow
  /\ auth0 \subseteq Auth0User
  /\ jwt \subseteq Auth0User
  /\ bucket \subseteq Key
  /\ mail \subseteq Mail
  /\ missed \subseteq Requests \X Key
  /\ req \in [Requests -> Request]
  /\ \A r \in Requests : LocalsAssigned(req[r])

\* A deployment that already has applicants, their Auth0 users and their
\* uploads.
Init ==
  /\ applicant = InitialApplicants
  /\ lastApplicantId = StartApplicantId
  /\ upload = InitialUploads
  /\ lastUploadId = StartUploadId
  /\ draft = {}
  /\ submission = {}
  /\ deletionRequests = {}
  /\ session = {[id |-> a.id, email |-> a.email] : a \in InitialApplicants}
  /\ auth0 = {[user_id |-> a.auth0Id, email |-> a.email, connection |-> "password"] :
                 a \in InitialApplicants}
  /\ jwt = auth0
  /\ bucket = {[applicantId |-> u.applicantId, uploadId |-> u.id] :
                 u \in {v \in InitialUploads : v.status = "SUCCESS"}}
  /\ mail = {}
  /\ missed = {}
  /\ req = [r \in Requests |-> NoRequest]

-----------------------------------------------------------------------------
(* Requests *)

At(r, pc) == req[r].pc = pc
Goto(r, pc) == req' = [req EXCEPT ![r] = [@ EXCEPT !.pc = pc]]
Reject(r, status) ==
  req' = [req EXCEPT ![r] = [@ EXCEPT !.pc = "done", !.status = status, !.keys = {}]]

Rows(i) == {a \in applicant : a.id = i}
Registered(i) == \E a \in applicant : a.id = i

\* What setApplicantID's findFirstOrThrow may find: the row with the token's e-mail,
\* or any row when the token has none, for Prisma drops a condition that is undefined.
FoundBy(t) == {a \in applicant : t.email \in {a.email, None}}

\* A token gives a request the id of the row found; verifyCookie gives it the id its
\* session holds, whether or not the row still exists.
JwtPrincipals == UNION {{[id |-> a.id, email |-> t.email] : a \in FoundBy(t)} : t \in jwt}
Principals == JwtPrincipals \cup session

\* ON DELETE CASCADE: what goes with a row of Applicant.
DeleteCascade(i) ==
  /\ applicant' = {a \in applicant : a.id # i}
  /\ upload' = {u \in upload : u.applicantId # i}
  /\ draft' = {d \in draft : d.applicantId # i}
  /\ submission' = {s \in submission : s.applicantId # i}

\* Any awaited call may fail, and the process may be killed at any await:
\* the handler stops where it is and keeps what it has done so far.
Fail(r) ==
  /\ req[r].pc \notin {"idle", "done"}
  /\ Reject(r, 500)
  /\ UNCHANGED <<tables, services>>

\* A client issues a request of kind op; its local variables start as given.
Issue(r, op, first) ==
  /\ op \in Ops
  /\ At(r, "idle")
  /\ req' = [req EXCEPT ![r] = first]
  /\ UNCHANGED <<tables, services>>

\* res.status(200).json(...): registrations also set the session cookie.
Respond(r) ==
  /\ At(r, "respond")
  /\ req' = [req EXCEPT ![r] = [@ EXCEPT !.pc = "done", !.status = 200]]
  /\ session' = IF req[r].op \in RegisterOps
                THEN session \cup {[id |-> req[r].id, email |-> req[r].email]}
                ELSE session
  /\ UNCHANGED <<applicant, lastApplicantId, upload, lastUploadId, draft,
                 submission, deletionRequests, services>>

\* The session store drops a session twelve hours after its last use; a request
\* it has authenticated goes on.
SessionExpires(s) ==
  /\ SessionsExpire
  /\ session' = session \ {s}
  /\ UNCHANGED <<applicant, lastApplicantId, upload, lastUploadId, draft,
                 submission, deletionRequests, services, req>>
=============================================================================
