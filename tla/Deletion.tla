------------------------------ MODULE Deletion ------------------------------
(***************************************************************************)
(* DELETE /applicants/me, of a registered applicant (deleteApplicant) or of *)
(* somebody who only has an Auth0 user (deleteAuth0OnlyApplicant), and the  *)
(* administrators' DELETE /applicants/:id (deleteApplicantForce).  The row  *)
(* and its deletion request are one transaction; Auth0 users, resumes and   *)
(* the e-mail follow one await at a time, with no retry and no compensation.*)
(***************************************************************************)
EXTENDS CommonAppState

\* The lookup of validateJwtOfUnregisteredUser: setApplicantID turns every
\* error into 404, and 404 means "not registered": the request goes on without
\* an id, down the Auth0-only path.
StartDeleteMe(r, t) ==
  /\ t \in jwt
  /\ \/ \E a \in FoundBy(t) :
          Issue(r, "deleteMe", [NoRequest EXCEPT !.op = "deleteMe",
                  !.pc = "findApplicant", !.who = t.email, !.id = a.id])
     \/ Issue(r, "deleteMe", [NoRequest EXCEPT !.op = "deleteMe",
                !.pc = "getUser", !.who = t.email, !.sub = t.user_id])

\* The administrator names any id.
StartDeleteForce(r, i) ==
  Issue(r, "deleteForce", [NoRequest EXCEPT !.op = "deleteForce",
          !.pc = "findApplicant", !.id = i])

\* Faulty variant: an administrator's deletion takes the resumes before the row.
FindApplicantResumesFirst(r) ==
  /\ At(r, "findApplicant")
  /\ \/ \E a \in Rows(req[r].id) :
          req' = [req EXCEPT ![r] = [@ EXCEPT
                    !.pc = IF req[r].op = "deleteMe" THEN "deleteTx" ELSE "listResumes",
                    !.email = a.email, !.sub = a.auth0Id]]
     \/ ~Registered(req[r].id) /\ Reject(r, 500)
  /\ UNCHANGED <<tables, services>>

\* findUniqueOrThrow
FindApplicant(r) ==
  /\ At(r, "findApplicant")
  /\ \/ \E a \in Rows(req[r].id) :
          req' = [req EXCEPT ![r] = [@ EXCEPT
                    !.pc = IF req[r].op = "deleteMe" THEN "deleteTx" ELSE "deleteRow",
                    !.email = a.email, !.sub = a.auth0Id]]
     \/ ~Registered(req[r].id) /\ Reject(r, 500)
  /\ UNCHANGED <<tables, services>>

\* Faulty variant: deleteMany does not fail when the row is already gone, so
\* the transaction commits its deletion request all the same.
CommitDeletionUnchecked(r) ==
  /\ At(r, "deleteTx")
  /\ deletionRequests' = deletionRequests \cup
       {[applicantId |-> req[r].id, email |-> req[r].email, by |-> r]}
  /\ DeleteCascade(req[r].id)
  /\ Goto(r, "deleteById")
  /\ UNCHANGED <<lastApplicantId, lastUploadId, session, services>>

\* Faulty variant: the row goes, no deletion request is left.
CommitDeletionUnrecorded(r) ==
  /\ At(r, "deleteTx")
  /\ Registered(req[r].id)
  /\ DeleteCascade(req[r].id)
  /\ Goto(r, "deleteById")
  /\ UNCHANGED <<lastApplicantId, lastUploadId, session, deletionRequests, services>>

\* The transaction: the deletion request and the row go in together.
CommitDeletion(r) ==
  /\ At(r, "deleteTx")
  /\ Registered(req[r].id)
  /\ deletionRequests' = deletionRequests \cup
       {[applicantId |-> req[r].id, email |-> req[r].email, by |-> r]}
  /\ DeleteCascade(req[r].id)
  /\ Goto(r, "deleteById")
  /\ UNCHANGED <<lastApplicantId, lastUploadId, session, services>>

\* deleteApplicantForce: the row alone, then its resumes.
DeleteRow(r) ==
  /\ At(r, "deleteRow")
  /\ Registered(req[r].id)
  /\ DeleteCascade(req[r].id)
  /\ Goto(r, "listResumes")
  /\ UNCHANGED <<lastApplicantId, lastUploadId, session, deletionRequests, services>>

\* P2025: the row has gone since it was found; the transaction rolls back.
RowAlreadyGone(r) ==
  /\ req[r].pc \in {"deleteTx", "deleteRow"}
  /\ ~Registered(req[r].id)
  /\ Reject(r, 500)
  /\ UNCHANGED <<tables, services>>

-----------------------------------------------------------------------------
(* deleteAuth0OnlyApplicant *)

\* Faulty variant: the address is read from the token's e-mail claim, which an
\* Auth0-only request never stored.
GetUserForgetsEmail(r) ==
  /\ At(r, "getUser")
  /\ \/ (\E u \in auth0 : u.user_id = req[r].sub) /\ Goto(r, "recordRequest")
     \/ (\A u \in auth0 : u.user_id # req[r].sub) /\ Reject(r, 500)
  /\ UNCHANGED <<tables, services>>

\* What is recorded is the user's e-mail or, for want of one, the user id.
GetUser(r) ==
  /\ At(r, "getUser")
  /\ \/ \E u \in auth0 :
          /\ u.user_id = req[r].sub
          /\ req' = [req EXCEPT ![r] = [@ EXCEPT !.pc = "recordRequest",
                       !.email = IF u.email = None THEN u.user_id ELSE u.email]]
     \/ (\A u \in auth0 : u.user_id # req[r].sub) /\ Reject(r, 500)
  /\ UNCHANGED <<tables, services>>

\* The deletion request of somebody with no row has applicantId 0.  A user without
\* an e-mail is not deleted, and nobody is told.
RecordRequest(r) ==
  /\ At(r, "recordRequest")
  /\ deletionRequests' = deletionRequests \cup
       {[applicantId |-> 0, email |-> req[r].email, by |-> r]}
  /\ Goto(r, IF req[r].email \in Emails THEN "deleteById" ELSE "respond")
  /\ UNCHANGED <<applicant, lastApplicantId, upload, lastUploadId, draft,
                 submission, session, services>>

-----------------------------------------------------------------------------
(* AuthService.deleteUsers: by id, then every user the e-mail finds *)

DeleteById(r) ==
  /\ At(r, "deleteById")
  /\ auth0' = {u \in auth0 : u.user_id # req[r].sub}
  /\ Goto(r, "listByEmail")
  /\ UNCHANGED <<tables, jwt, bucket, mail, missed>>

ListByEmail(r) ==
  /\ At(r, "listByEmail")
  /\ req' = [req EXCEPT ![r] = [@ EXCEPT !.pc = "deleteListed",
       !.victims = {u.user_id : u \in {v \in auth0 : v.email = req[r].email}}]]
  /\ UNCHANGED <<tables, services>>

\* The deletions run concurrently under one Promise.all.  When one fails the
\* request is answered 500 (Fail) and the others still run.
DeleteListed(r, u) ==
  /\ req[r].pc \in {"deleteListed", "done"}
  /\ u \in req[r].victims
  /\ auth0' = {v \in auth0 : v.user_id # u}
  /\ req' = [req EXCEPT ![r].victims = @ \ {u}]
  /\ UNCHANGED <<tables, jwt, bucket, mail, missed>>

\* deleteApplicant goes on with the resumes, deleteAuth0OnlyApplicant with the
\* e-mail; deleteApplicantForce has done its resumes and sends none.
UsersDeleted(r) ==
  /\ At(r, "deleteListed")
  /\ req[r].victims = {}
  /\ Goto(r, IF req[r].op = "deleteForce" THEN "respond"
             ELSE IF req[r].id = 0 THEN "notify" ELSE "listResumes")
  /\ UNCHANGED <<tables, services>>

-----------------------------------------------------------------------------
(* S3Service.deleteUploads *)

\* "resumes/<i>" is a string prefix of "resumes/<j>/...": i is j without its
\* last k digits (ids have 10 digits at most).
DecimalPrefix(i, j) == \E k \in 0..9 : j \div (10 ^ k) = i

\* The keys ListObjectsV2 answers for the prefix deleteApplicantResumes gives.
ResumeKeys(i) == {k \in bucket : DecimalPrefix(i, k.applicantId)}

\* The applicant's own objects.
ObjectsOf(i) == {k \in bucket : k.applicantId = i}

\* Faulty variant: a page in no order, so that another applicant's resumes may take
\* the place of the applicant's own.
AnyPage(i) == {K \in SUBSET ResumeKeys(i) :
                 /\ K = ResumeKeys(i) \/ Cardinality(K) = PageSize
                 /\ Cardinality(K) <= PageSize}

\* One page of them, in the order of the keys: "/" sorts before any digit, so
\* the applicant's own come first.
FirstPages(i) ==
  {K \in SUBSET ResumeKeys(i) :
     /\ K = ResumeKeys(i) \/ Cardinality(K) = PageSize
     /\ Cardinality(K) <= PageSize
     /\ K \subseteq ObjectsOf(i) \/ ObjectsOf(i) \subseteq K}

\* The rest is not asked for: what an applicant with more than a page of resumes has
\* beyond it is missed.
ListResumes(r) ==
  /\ At(r, "listResumes")
  /\ \E K \in FirstPages(req[r].id) :
       /\ req' = [req EXCEPT ![r] = [@ EXCEPT !.pc = "deleteObjects", !.keys = K]]
       /\ missed' = IF Cardinality(ObjectsOf(req[r].id)) <= PageSize THEN missed
                    ELSE missed \cup ({r} \X (ObjectsOf(req[r].id) \ K))
  /\ UNCHANGED <<tables, auth0, jwt, bucket, mail>>

\* Faulty variant: the errors in the answer are logged, and that is all.
DeleteObjectsUnchecked(r) ==
  /\ At(r, "deleteObjects")
  /\ \E K \in SUBSET req[r].keys :
       /\ bucket' = bucket \ K
       /\ req' = [req EXCEPT ![r] = [@ EXCEPT
                    !.pc = IF req[r].op = "deleteMe" THEN "notify" ELSE "deleteById",
                    !.keys = {}]]
  /\ UNCHANGED <<tables, auth0, jwt, mail, missed>>

\* DeleteObjects may delete only some of the keys and answers with the errors:
\* the request stops with 400.
DeleteObjects(r) ==
  /\ At(r, "deleteObjects")
  /\ \/ /\ bucket' = bucket \ req[r].keys
        /\ req' = [req EXCEPT ![r] = [@ EXCEPT
                     !.pc = IF req[r].op = "deleteMe" THEN "notify" ELSE "deleteById",
                     !.keys = {}]]
     \/ \E k \in SUBSET req[r].keys :
          /\ k # req[r].keys
          /\ bucket' = bucket \ k
          /\ Reject(r, 400)
  /\ UNCHANGED <<tables, auth0, jwt, mail, missed>>

\* "Confirming your data deletion request", or "deletion complete" when there
\* was no row; a failure of the queue fails the request.
NotifyDeletion(r) ==
  /\ At(r, "notify")
  /\ mail' = mail \cup {[kind |-> IF req[r].id = 0 THEN "deletionComplete" ELSE "deletion",
                         to |-> req[r].email, id |-> req[r].id, by |-> r]}
  /\ Goto(r, "respond")
  /\ UNCHANGED <<tables, auth0, jwt, bucket, missed>>

Deleting(r) ==
  \/ \E t \in jwt : StartDeleteMe(r, t)
  \/ \E i \in ApplicantIds : StartDeleteForce(r, i)
  \/ FindApplicant(r)
  \/ CommitDeletion(r)
  \/ DeleteRow(r)
  \/ RowAlreadyGone(r)
  \/ GetUser(r)
  \/ RecordRequest(r)
  \/ DeleteById(r)
  \/ ListByEmail(r)
  \/ \E u \in Auth0Ids : DeleteListed(r, u)
  \/ UsersDeleted(r)
  \/ ListResumes(r)
  \/ DeleteObjects(r)
  \/ NotifyDeletion(r)
=============================================================================
