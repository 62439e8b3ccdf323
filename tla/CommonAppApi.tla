---------------------------- MODULE CommonAppApi ----------------------------
(***************************************************************************)
(* The API: the handlers of Registration, Deletion and Applications over   *)
(* one shared state, and what must be true of them together.               *)
(***************************************************************************)
EXTENDS Registration, Deletion, Applications

Next ==
  \/ \E r \in Requests : Registering(r)
  \/ \E r \in Requests : Deleting(r)
  \/ \E r \in Requests : Applying(r)
  \/ \E r \in Requests : Respond(r)
  \/ \E r \in Requests : Fail(r)
  \/ \E u \in Auth0Ids, e \in Emails \cup {None} : SocialSignUp(u, e)
  \/ \E k \in Key : PutObject(k)
  \/ \E s \in session : SessionExpires(s)

Spec == Init /\ [][Next]_vars

-----------------------------------------------------------------------------
(* Resumes *)

\* The resume of a final submission or of a draft is an upload of the same
\* applicant that has succeeded, although it is checked in one query and
\* connected in a later one (validResume, createSubmission, updateSubmission,
\* createOrUpdateDraftSubmission): no completion report, deletion or second
\* request of the applicant between the two may leave another upload there.
AttachedResumeComplete ==
  /\ \A s \in submission : \E u \in ResumeOf(s.applicantId, s.resume) : u.status = "SUCCESS"
  /\ \A d \in draft : d.resume # 0 =>
        \E u \in ResumeOf(d.applicantId, d.resume) : u.status = "SUCCESS"

\* A deletion of another applicant whose id has a resume prefix that i's resumes share.
PrefixDeleted(i) ==
  \E r \in Requests : req[r].op \in DeleteOps /\ req[r].id # i /\ DecimalPrefix(req[r].id, i)

\* A registered applicant's resumes stay in the bucket whatever deletions run beside
\* them: an object goes only once its applicant's row has gone (in both deletions the
\* rows go before the objects, and no deletion that has listed an applicant's objects
\* finds that applicant registered), or because deleteUploads was called for an
\* applicant whose id is a decimal prefix of this one's, and for no other.
ResumesKept ==
  [][\A k \in bucket \ bucket' : ~Registered(k.applicantId) \/ PrefixDeleted(k.applicantId)]_vars

\* A deletion of resumes takes objects of the applicant it deletes and of nobody
\* else (the unit test "Should delete applicant resumes from s3").
DeleteOnlyOwnResumes ==
  \A r \in Requests : \A k \in req[r].keys : k.applicantId = req[r].id

\* A deletion answered 200 has taken every object of its applicant but those it could
\* not know of: stored, with a URL that outlived the applicant, after it had listed,
\* or beyond the page it listed when the applicant alone had more than a page.  What
\* was stored late but before the listing must go, S3's refusals must not be answered
\* 200, and another applicant's resumes must not take the room of a page.
DeletionLeavesNoObjects ==
  \A r \in Requests :
    req[r].op \in DeleteOps /\ req[r].status = 200 =>
      \A k \in ObjectsOf(req[r].id) : <<r, k>> \in missed

-----------------------------------------------------------------------------
(* Erasure *)

Erased(i) ==
  /\ ~Registered(i)
  /\ \A u \in upload : u.applicantId # i
  /\ \A d \in draft : d.applicantId # i
  /\ \A s \in submission : s.applicantId # i

\* Once a deletion request is recorded for an applicant, the database holds
\* nothing of that id and never will again, however many requests that carry it
\* (a session cookie, a handler between two awaits) are still running.
RecordedMeansErased ==
  \A d \in deletionRequests : d.applicantId # 0 => Erased(d.applicantId)

\* Nothing belongs to an applicant that is not there: deleting the row takes the
\* rest, and no late insert of another request brings any of it back.
NoOrphanRows ==
  /\ \A u \in upload : Registered(u.applicantId)
  /\ \A d \in draft : Registered(d.applicantId)
  /\ \A s \in submission : Registered(s.applicantId)

\* Two deletions of one applicant, both past findUniqueOrThrow, leave one
\* deletion request: the table no longer has a unique index to say so.
OneDeletionRecord ==
  \A c, d \in deletionRequests : c.applicantId = d.applicantId /\ c.applicantId # 0 => c = d

\* Whoever is told that the deletion was received has left a deletion request
\* of that id, and at most one such e-mail goes out per applicant.
DeletionMailMeansErased ==
  \A m \in mail : m.kind = "deletion" =>
    /\ \E d \in deletionRequests : d.applicantId = m.id /\ d.email = m.to
    /\ Erased(m.id)
    /\ \A n \in mail : n.kind = "deletion" /\ n.id = m.id => n = m

Deleted(i) ==
  \/ \E d \in deletionRequests : d.applicantId = i
  \/ \E r \in Requests : req[r].op = "deleteForce" /\ req[r].id = i

\* What the API has acknowledged stays: a registration or a submission answered
\* 200 is in the database until its applicant is deleted, by a recorded request
\* or by an administrator.
AcknowledgedIsKept ==
  \A r \in Requests : req[r].status = 200 =>
    /\ req[r].op \in RegisterOps =>
         Registered(req[r].id) \/ Deleted(req[r].id)
    /\ req[r].op \in {"createSubmission", "updateSubmission"} =>
         (\E s \in submission : s.applicantId = req[r].id) \/ Deleted(req[r].id)

\* "deletion complete" goes only to people of whom the database holds nothing
\* (comments above deleteAuth0OnlyApplicant and
\* generateApplicantDeletionCompleteEmail).
CompleteMailMeansNoData ==
  [][\A m \in mail' \ mail : m.kind = "deletionComplete" =>
        \A a \in applicant : a.email # m.to]_vars

\* What the database holds of each applicant id.
Held(i) ==
  {kind \in {"upload", "draft", "submission"} :
     CASE kind = "upload" -> \E u \in upload : u.applicantId = i
       [] kind = "draft" -> \E d \in draft : d.applicantId = i
       [] kind = "submission" -> \E s \in submission : s.applicantId = i}

Lifecycle == INSTANCE ApplicantLifecycle WITH
  Ids <- ApplicantIds,
  Kinds <- {"upload", "draft", "submission"},
  life <- [i \in ApplicantIds |-> IF Registered(i) THEN "registered"
                                  ELSE IF i <= lastApplicantId THEN "gone" ELSE "ahead"],
  holdings <- [i \in ApplicantIds |-> Held(i)],
  recorded <- {d.applicantId : d \in deletionRequests} \ {0}

\* All handlers together, step by step, implement the life of an applicant id:
\* data is left only by a registered applicant, goes in one step with the row,
\* and a record of the deletion is made in that step or never.
LifecycleKept == Lifecycle!Spec

-----------------------------------------------------------------------------
(* Identity *)

\* An applicant's login disappears from Auth0 only after somebody asked for the
\* deletion of that e-mail, which is on record, or an administrator deleted an
\* applicant: no registration that fails, and no deletion of another e-mail,
\* may take it.  (Auth0 ids are not relinked in the runs that check this.)
LoginLossIsRequested ==
  \A a \in applicant :
    \/ \E u \in auth0 : u.user_id = a.auth0Id
    \/ \E d \in deletionRequests : d.email = a.email
    \/ \E r \in Requests : req[r].op = "deleteForce" /\ req[r].email = a.email

\* A request acts for the person who was authenticated when it began: the row of the
\* id that a token's lookup or a session gave it has the e-mail of that token or
\* session, even when the person's own row was deleted, and somebody registered,
\* while the request ran or before the cookie expired; and a deletion on record is of
\* the person who asked for it, registered or not.  (A token without the e-mail claim
\* proves nobody's e-mail, and such a request acts for whoever the lookup finds.)
AuthorityIsCurrent ==
  /\ \A r \in Requests, a \in applicant :
        req[r].who # None /\ req[r].id = a.id => req[r].who = a.email
  /\ \A s \in session, a \in applicant : s.id = a.id => s.email = a.email
  /\ \A d \in deletionRequests : req[d.by].who # None => d.email = req[d.by].who

\* Two submissions of one applicant, both past validation, send one
\* post-submission e-mail.
OneSubmissionMail ==
  \A m, n \in mail : m.kind = "submitted" /\ n.kind = "submitted" /\ m.id = n.id => m = n

\* "If DB creation fails, we want to remove user from Auth0": a registration
\* that was refused or failed leaves no Auth0 user of its own behind.
RegistrationFailureLeavesNoUser ==
  \A r \in Requests :
    req[r].op = "register" /\ req[r].pc = "done" /\ req[r].status # 200 =>
      \A u \in auth0 : u.user_id # req[r].sub
=============================================================================
