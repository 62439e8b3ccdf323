-------------------------- MODULE CommonAppSafety --------------------------
(***************************************************************************)
(* The safety properties of the API hold for any number of requests,       *)
(* applicants and uploads: SafetyInv is inductive and implies them.        *)
(***************************************************************************)
EXTENDS CommonAppInvariants, CommonAppTypes

-----------------------------------------------------------------------------
(* What a step can do to the database *)

Unchanged == UNCHANGED <<applicant, lastApplicantId, upload, lastUploadId, draft,
                         submission, deletionRequests>>

\* Every step leaves the tables that hold applicants' data alone, or is one of
\* the few calls that write them.
LEMMA DatabaseSteps ==
  ASSUME [Next]_vars
  PROVE  \/ Unchanged
         \/ \E r \in Requests :
              \/ InsertApplicant(r)
              \/ CommitDeletion(r)
              \/ DeleteRow(r)
              \/ RecordRequest(r)
              \/ InsertUpload(r)
              \/ SetUploadStatus(r)
              \/ CreateSubmission(r)
              \/ UpdateSubmission(r)
              \/ UpsertDraft(r)
              \/ PauseApplicant(r)
              \/ UpdateAuth0Id(r)
<1> USE DEF Unchanged, tables
<1>1. CASE UNCHANGED vars
  BY <1>1 DEF vars
<1>2. ASSUME NEW r \in Requests, Registering(r) PROVE Unchanged \/ InsertApplicant(r)
  <2>1. CASE \E e \in Emails :
               StartRegister(r, e) \/ \E t \in jwt : StartRegisterWithJwt(r, t, e)
    BY <2>1 DEF StartRegister, StartRegisterWithJwt, Issue
  <2>2. CASE CreateUser(r) \/ InsertConflict(r) \/ SendWelcome(r)
    BY <2>2 DEF CreateUser, InsertConflict, SendWelcome
  <2>3. QED
    BY <1>2, <2>1, <2>2 DEF Registering
<1>3. ASSUME NEW r \in Requests, Deleting(r)
      PROVE  Unchanged \/ CommitDeletion(r) \/ DeleteRow(r) \/ RecordRequest(r)
  <2>1. CASE \/ \E t \in jwt : StartDeleteMe(r, t)
             \/ \E i \in ApplicantIds : StartDeleteForce(r, i)
    BY <2>1 DEF StartDeleteMe, StartDeleteForce, Issue
  <2>2. CASE FindApplicant(r)
    BY <2>2 DEF FindApplicant
  <2>3. CASE GetUser(r) \/ RowAlreadyGone(r)
    BY <2>3, ZenonT(30) DEF GetUser, RowAlreadyGone
  <2>4. CASE UsersDeleted(r)
    BY <2>4 DEF UsersDeleted
  <2>5. CASE \/ DeleteById(r) \/ ListByEmail(r) \/ ListResumes(r) \/ DeleteObjects(r)
             \/ NotifyDeletion(r) \/ \E u \in Auth0Ids : DeleteListed(r, u)
    BY <2>5 DEF DeleteById, ListByEmail, ListResumes, DeleteObjects, NotifyDeletion, DeleteListed
  <2>6. QED
    BY <1>3, <2>1, <2>2, <2>3, <2>4, <2>5 DEF Deleting
<1>4. ASSUME NEW r \in Requests, Applying(r)
      PROVE  \/ Unchanged \/ InsertUpload(r) \/ SetUploadStatus(r) \/ CreateSubmission(r)
             \/ UpdateSubmission(r) \/ UpsertDraft(r) \/ PauseApplicant(r) \/ UpdateAuth0Id(r)
  BY <1>4 DEF Applying, StartCreateUpload, StartCompleteUpload, StartApplication, StartPause,
              StartRelink, Issue, ValidateApplication, NotifySubmission
<1>5. ASSUME \/ \E r \in Requests : Respond(r) \/ Fail(r)
             \/ \E u \in Auth0Ids, e \in Emails \cup {None} : SocialSignUp(u, e)
             \/ \E k \in Key : PutObject(k)
             \/ \E s \in session : SessionExpires(s)
      PROVE  Unchanged
  BY <1>5 DEF Respond, Fail, SocialSignUp, PutObject, SessionExpires
<1>6. QED
  BY <1>1, <1>2, <1>3, <1>4, <1>5 DEF Next

-----------------------------------------------------------------------------
(* Erasure *)

\* A database in which every upload has its applicant satisfies the erasure part.
LEMMA ErasureInit == Init => ErasureInv
BY InitialAssumption, IdAssumption
   DEF Init, ErasureInv, ApplicantsNumbered, NoOrphanRows, RecordedIsGone, OneDeletionRecord,
       Registered

\* A new applicant has an id beyond every id ever recorded.
LEMMA InsertApplicantErasure ==
  ASSUME TypeOK, ErasureInv, NEW r \in Requests, InsertApplicant(r)
  PROVE  ErasureInv'
<1>1. PICK i \in FreshApplicantIds :
        /\ applicant' = applicant \cup {[id |-> i, email |-> req[r].email,
                                         auth0Id |-> req[r].sub, isPaused |-> FALSE]}
        /\ lastApplicantId' = i
  BY DEF InsertApplicant
<1>2. /\ i \in Nat /\ i > lastApplicantId /\ lastApplicantId \in Nat
      /\ \A a \in applicant : a.id \in Nat
      /\ \A d \in deletionRequests : d.applicantId \in Nat
  <2>1. ApplicantIds \cup {0} \subseteq Nat
    BY IdAssumption
  <2>2. \A a \in applicant : a.id \in ApplicantIds
    BY DEF TypeOK, ApplicantRow
  <2>3. \A d \in deletionRequests : d.applicantId \in ApplicantIds \cup {0}
    BY DEF TypeOK, DeletionRequestRow
  <2>4. QED
    BY <2>1, <2>2, <2>3 DEF FreshApplicantIds, TypeOK
<1>3. UNCHANGED <<upload, draft, submission, deletionRequests>>
  BY DEF InsertApplicant
<1>4. ApplicantsNumbered'
  <2>1. \A a \in applicant : a.id <= lastApplicantId /\ a.id < i
    BY <1>2 DEF ErasureInv, ApplicantsNumbered
  <2>2. \A d \in deletionRequests : d.applicantId < i
    BY <1>2 DEF ErasureInv, ApplicantsNumbered
  <2>3. (\A a \in applicant : a.id <= lastApplicantId)'
    BY <1>1, <1>2, <2>1
  <2>4. (\A a, b \in applicant : a.id = b.id => a = b)'
    <3>1. \A a \in applicant : a.id # i
      BY <1>2, <2>1
    <3>2. \A a, b \in applicant : a.id = b.id => a = b
      BY DEF ErasureInv, ApplicantsNumbered
    <3> DEFINE row == [id |-> i, email |-> req[r].email, auth0Id |-> req[r].sub, isPaused |-> FALSE]
    <3>3. row.id = i /\ applicant' = applicant \cup {row}
      BY <1>1
    <3> HIDE DEF row
    <3>4. QED
      BY <3>1, <3>2, <3>3
  <2>5. (\A d \in deletionRequests : d.applicantId <= lastApplicantId)'
    BY <1>1, <1>2, <1>3, <2>2
  <2>6. QED
    BY <2>3, <2>4, <2>5 DEF ApplicantsNumbered
<1>5. NoOrphanRows'
  BY <1>1, <1>3 DEF ErasureInv, NoOrphanRows, Registered
<1>6. RecordedIsGone'
  BY <1>1, <1>2, <1>3 DEF ErasureInv, ApplicantsNumbered, RecordedIsGone, Registered
<1>7. OneDeletionRecord'
  BY <1>3 DEF ErasureInv, OneDeletionRecord
<1>8. QED
  BY <1>4, <1>5, <1>6, <1>7 DEF ErasureInv

\* Deleting a row takes all that belongs to it, and records at most the id that went.
LEMMA DeleteErasure ==
  ASSUME TypeOK, ErasureInv, NEW r \in Requests, CommitDeletion(r) \/ DeleteRow(r)
  PROVE  ErasureInv'
<1> DEFINE i == req[r].id
           d0 == [applicantId |-> i, email |-> req[r].email, by |-> r]
<1>1. /\ Registered(i)
      /\ applicant' = {a \in applicant : a.id # i}
      /\ upload' = {u \in upload : u.applicantId # i}
      /\ draft' = {d \in draft : d.applicantId # i}
      /\ submission' = {s \in submission : s.applicantId # i}
      /\ deletionRequests' = deletionRequests \/ deletionRequests' = deletionRequests \cup {d0}
      /\ lastApplicantId' = lastApplicantId
  BY DEF CommitDeletion, DeleteRow, DeleteCascade
<1>2. d0.applicantId = i
  OBVIOUS
<1> HIDE DEF i, d0
<1>3. i <= lastApplicantId
  BY <1>1 DEF ErasureInv, ApplicantsNumbered, Registered
<1>4. \A d \in deletionRequests : d.applicantId # 0 => d.applicantId # i
  BY <1>1 DEF ErasureInv, RecordedIsGone
<1>5. ApplicantsNumbered'
  BY <1>1, <1>2, <1>3 DEF ErasureInv, ApplicantsNumbered
<1>6. NoOrphanRows'
  BY <1>1 DEF ErasureInv, NoOrphanRows, Registered
<1>7. RecordedIsGone'
  BY <1>1, <1>2 DEF ErasureInv, RecordedIsGone, Registered
<1>8. OneDeletionRecord'
  BY <1>1, <1>2, <1>4 DEF ErasureInv, OneDeletionRecord
<1>9. QED
  BY <1>5, <1>6, <1>7, <1>8 DEF ErasureInv

\* Pausing and relinking rewrite one row and keep its id.
LEMMA UpdateKeepsIds ==
  ASSUME TypeOK, ErasureInv, NEW r \in Requests, PauseApplicant(r) \/ UpdateAuth0Id(r)
  PROVE  /\ \A a \in applicant' : \E b \in applicant : a.id = b.id /\ a.email = b.email
         /\ \A a \in applicant : \E b \in applicant' : a.id = b.id
         /\ \A a, b \in applicant' : a.id = b.id => a = b
<1>1. \A a \in applicant : a \in ApplicantRow
  BY DEF TypeOK
<1>2. PICK f \in [applicant -> ApplicantRow] :
        /\ applicant' = {f[a] : a \in applicant}
        /\ \A a \in applicant : f[a].id = a.id /\ f[a].email = a.email
  <2>1. ASSUME applicant' = applicant PROVE \E f \in [applicant -> ApplicantRow] :
           /\ applicant' = {f[a] : a \in applicant}
           /\ \A a \in applicant : f[a].id = a.id /\ f[a].email = a.email
    <3> DEFINE f == [a \in applicant |-> a]
    <3>1. QED
      BY <2>1, <1>1, f \in [applicant -> ApplicantRow]
  <2>2. ASSUME NEW b \in BOOLEAN, NEW i,
               applicant' = {IF a.id = i THEN [a EXCEPT !.isPaused = b] ELSE a : a \in applicant}
        PROVE  \E f \in [applicant -> ApplicantRow] :
           /\ applicant' = {f[a] : a \in applicant}
           /\ \A a \in applicant : f[a].id = a.id /\ f[a].email = a.email
    <3> DEFINE f == [a \in applicant |-> IF a.id = i THEN [a EXCEPT !.isPaused = b] ELSE a]
    <3>1. f \in [applicant -> ApplicantRow]
      BY <1>1 DEF ApplicantRow
    <3>2. \A a \in applicant : f[a].id = a.id /\ f[a].email = a.email
      BY <1>1 DEF ApplicantRow
    <3>3. applicant' = {f[a] : a \in applicant}
      BY <2>2
    <3>4. QED
      BY <3>1, <3>2, <3>3
  <2>3. ASSUME NEW u \in Auth0Ids, NEW v,
               applicant' = {IF a.auth0Id = v THEN [a EXCEPT !.auth0Id = u] ELSE a : a \in applicant}
        PROVE  \E f \in [applicant -> ApplicantRow] :
           /\ applicant' = {f[a] : a \in applicant}
           /\ \A a \in applicant : f[a].id = a.id /\ f[a].email = a.email
    <3> DEFINE f == [a \in applicant |-> IF a.auth0Id = v THEN [a EXCEPT !.auth0Id = u] ELSE a]
    <3>1. f \in [applicant -> ApplicantRow]
      BY <1>1 DEF ApplicantRow
    <3>2. \A a \in applicant : f[a].id = a.id /\ f[a].email = a.email
      BY <1>1 DEF ApplicantRow
    <3>3. applicant' = {f[a] : a \in applicant}
      BY <2>3
    <3>4. QED
      BY <3>1, <3>2, <3>3
  <2>4. CASE PauseApplicant(r)
    BY <2>1, <2>2, <2>4, SMTT(20) DEF PauseApplicant
  <2>5. CASE UpdateAuth0Id(r)
    BY <2>1, <2>3, <2>5 DEF UpdateAuth0Id
  <2>6. QED
    BY <2>4, <2>5
<1>3. QED
  BY <1>2 DEF ErasureInv, ApplicantsNumbered

\* Nothing is written for an applicant who is not there.
LEMMA ErasureStep ==
  ASSUME TypeOK, ErasureInv, [Next]_vars
  PROVE  ErasureInv'
<1> USE DEF ErasureInv, ApplicantsNumbered, NoOrphanRows, RecordedIsGone, OneDeletionRecord,
            Registered
<1>1. CASE Unchanged
  BY <1>1 DEF Unchanged
<1>2. ASSUME NEW r \in Requests, InsertApplicant(r) PROVE ErasureInv'
  BY <1>2, InsertApplicantErasure
<1>3. ASSUME NEW r \in Requests, CommitDeletion(r) \/ DeleteRow(r) PROVE ErasureInv'
  BY <1>3, DeleteErasure
<1>4. ASSUME NEW r \in Requests, RecordRequest(r) PROVE ErasureInv'
  BY <1>4, IdAssumption DEF RecordRequest, TypeOK
<1>5. ASSUME NEW r \in Requests, InsertUpload(r) PROVE ErasureInv'
  BY <1>5 DEF InsertUpload
<1>6. ASSUME NEW r \in Requests, SetUploadStatus(r) PROVE ErasureInv'
  <2>1. \A u \in upload' : \E v \in upload : v.applicantId = u.applicantId
    BY <1>6 DEF SetUploadStatus, Completable, ResumeOf, TypeOK, UploadRow
  <2>2. QED
    BY <2>1, <1>6 DEF SetUploadStatus
<1>7. ASSUME NEW r \in Requests, CreateSubmission(r) \/ UpdateSubmission(r) PROVE ErasureInv'
  BY <1>7 DEF CreateSubmission, UpdateSubmission
<1>8. ASSUME NEW r \in Requests, UpsertDraft(r) PROVE ErasureInv'
  BY <1>8 DEF UpsertDraft
<1>9. ASSUME NEW r \in Requests, PauseApplicant(r) \/ UpdateAuth0Id(r) PROVE ErasureInv'
  <2>1. /\ \A a \in applicant' : \E b \in applicant : a.id = b.id
        /\ \A a \in applicant : \E b \in applicant' : a.id = b.id
        /\ \A a, b \in applicant' : a.id = b.id => a = b
    BY <1>9, UpdateKeepsIds
  <2>2. UNCHANGED <<lastApplicantId, upload, draft, submission, deletionRequests>>
    BY <1>9 DEF PauseApplicant, UpdateAuth0Id
  <2>3. QED
    BY <2>1, <2>2
<1>10. QED
  BY <1>1, <1>2, <1>3, <1>4, <1>5, <1>6, <1>7, <1>8, <1>9, DatabaseSteps

\* The invariant of erasure, and what it says.
LEMMA ErasureCorrect == Spec => []ErasureInv
<1>1. TypeOK /\ ErasureInv /\ [Next]_vars => ErasureInv'
  BY ErasureStep
<1>2. QED
  BY <1>1, ErasureInit, TypeCorrect, PTL DEF Spec

\* Whatever is interleaved with a deletion, an upload record, a draft or a
\* submission never outlives its applicant.
THEOREM OrphansCorrect == Spec => []NoOrphanRows
<1>1. ErasureInv => NoOrphanRows
  BY DEF ErasureInv
<1>2. QED
  BY <1>1, ErasureCorrect, PTL

\* A recorded deletion request means that nothing of that applicant is, or ever
\* will be again, in the database.
THEOREM RecordedErasureCorrect == Spec => []RecordedMeansErased
<1>1. ErasureInv => RecordedMeansErased
  BY DEF ErasureInv, NoOrphanRows, RecordedIsGone, RecordedMeansErased, Erased
<1>2. QED
  BY <1>1, ErasureCorrect, PTL

\* However many deletions of one applicant run at once, one is recorded.
THEOREM OneRecordCorrect == Spec => []OneDeletionRecord
<1>1. ErasureInv => OneDeletionRecord
  BY DEF ErasureInv
<1>2. QED
  BY <1>1, ErasureCorrect, PTL

-----------------------------------------------------------------------------
(* What a step can do to a request *)

\* The labels that only a call of their own leads to.
Entered == {"idle", "write", "getUser", "deleteTx", "recordRequest"}

\* The request keeps whom it acts for and comes to none of these labels; an answer is
\* the end.
Quiet(q, p) == /\ q.op = p.op /\ q.id = p.id /\ q.who = p.who /\ q.email = p.email
               /\ q.pc \notin Entered /\ (p.pc = "done" => q.pc = "done")

\* The locals a request starts with: an id is given by a principal, a user by a token.
Starts(q) ==
  /\ q.pc \notin Entered \ {"getUser"}
  /\ q.pc = "getUser" => q.id = 0 /\ HasToken(q.sub, q.who)
  /\ q.who = None \/ q.id = 0 \/ \E p \in Principals : q.id = p.id /\ q.who = p.email
  /\ q.op \in RegisterOps /\ q.pc # "done" => q.email = q.who

\* A request starts, stays, or moves; only ValidateApplication moves it to the
\* write, and only three calls change who it acts for.
RequestStep(x) ==
  \/ req'[x] = req[x]
  \/ Quiet(req'[x], req[x])
  \/ At(x, "idle") /\ Starts(req'[x])
  \/ ValidateApplication(x)
  \/ InsertApplicant(x)
  \/ FindApplicant(x)
  \/ GetUser(x)

\* Replacing one request's record is a move of that request alone.
LEMMA UpdateStep ==
  ASSUME req \in [Requests -> Request], NEW r \in Requests, NEW x \in Requests, NEW q,
         req' = [req EXCEPT ![r] = q],
         x = r => \/ Quiet(q, req[r])
                  \/ At(r, "idle") /\ Starts(q)
                  \/ RequestStep(r)
  PROVE  RequestStep(x)
<1>1. CASE x # r
  <2>1. req'[x] = req[x]
    BY <1>1
  <2>2. QED
    BY <2>1 DEF RequestStep
<1>2. CASE x = r
  <2>1. req'[x] = q
    BY <1>2
  <2>2. QED
    BY <2>1, <1>2 DEF RequestStep
<1>3. QED
  BY <1>1, <1>2

\* Goto is such a replacement.
LEMMA GotoStep ==
  ASSUME req \in [Requests -> Request], NEW r \in Requests, NEW x \in Requests, NEW pc,
         pc \notin Entered, ~At(r, "done"), Goto(r, pc)
  PROVE  RequestStep(x)
<1> DEFINE q == [req[r] EXCEPT !.pc = pc]
<1>1. Quiet(q, req[r])
  BY DEF Quiet, Request, Entered, At
<1>2. req' = [req EXCEPT ![r] = q]
  BY DEF Goto
<1> HIDE DEF q
<1>3. QED
  BY <1>1, <1>2, UpdateStep

\* So is Reject, which ends the request.
LEMMA RejectStep ==
  ASSUME req \in [Requests -> Request], NEW r \in Requests, NEW x \in Requests, NEW s,
         Reject(r, s)
  PROVE  RequestStep(x)
<1> DEFINE q == [req[r] EXCEPT !.pc = "done", !.status = s, !.keys = {}]
<1>1. Quiet(q, req[r])
  BY DEF Quiet, Request, Entered, At
<1>2. req' = [req EXCEPT ![r] = q]
  BY DEF Reject
<1> HIDE DEF q
<1>3. QED
  BY <1>1, <1>2, UpdateStep

\* A request that starts.
LEMMA StartStep ==
  ASSUME req \in [Requests -> Request], NEW r \in Requests, NEW x \in Requests, NEW op,
         NEW first, Issue(r, op, first), Starts(first)
  PROVE  RequestStep(x)
BY UpdateStep DEF Issue

\* How a registration changes the requests.
LEMMA RegisteringStep ==
  ASSUME TypeOK, NEW r \in Requests, NEW x \in Requests, Registering(r)
  PROVE  RequestStep(x)
<1>0. req \in [Requests -> Request] /\ req[r] \in Request
  BY DEF TypeOK
<1>1. ASSUME NEW e \in Emails, StartRegister(r, e) PROVE RequestStep(x)
  <2> DEFINE first == [NoRequest EXCEPT !.op = "register", !.pc = "createUser", !.who = e,
                                        !.email = e]
             refused == [NoRequest EXCEPT !.op = "register", !.pc = "done", !.email = e,
                                          !.status = 409]
  <2>1. Starts(first) /\ Starts(refused)
    BY DEF Starts, NoRequest, Entered
  <2>2. Issue(r, "register", first) \/ Issue(r, "register", refused)
    BY <1>1 DEF StartRegister
  <2> HIDE DEF first, refused
  <2>3. QED
    BY <1>0, <2>1, <2>2, StartStep
<1>2. ASSUME NEW t \in jwt, NEW e \in Emails, StartRegisterWithJwt(r, t, e) PROVE RequestStep(x)
  <2> DEFINE first == [NoRequest EXCEPT !.op = "registerWithJwt", !.pc = "insert",
                                        !.who = e, !.email = e, !.sub = t.user_id]
             refused == [NoRequest EXCEPT !.op = "registerWithJwt", !.pc = "done",
                                          !.email = e, !.status = 400]
  <2>1. Starts(first) /\ Starts(refused)
    BY DEF Starts, NoRequest, Entered
  <2>2. Issue(r, "registerWithJwt", first) \/ Issue(r, "registerWithJwt", refused)
    BY <1>2 DEF StartRegisterWithJwt
  <2> HIDE DEF first, refused
  <2>3. QED
    BY <1>0, <2>1, <2>2, StartStep
<1>3. ASSUME CreateUser(r) PROVE RequestStep(x)
  <2> DEFINE q(u) == [req[r] EXCEPT !.pc = "insert", !.sub = u]
  <2>1. Reject(r, 409) \/ \E u \in Auth0Ids : req' = [req EXCEPT ![r] = q(u)]
    BY <1>3 DEF CreateUser
  <2>2. \A u \in Auth0Ids : Quiet(q(u), req[r])
    BY <1>0, <1>3 DEF CreateUser, Quiet, Request, Entered, At
  <2> HIDE DEF q
  <2>3. QED
    BY <1>0, <2>1, <2>2, UpdateStep, RejectStep
<1>4. ASSUME InsertApplicant(r) PROVE RequestStep(x)
  <2>1. x = r => RequestStep(r)
    BY <1>4 DEF RequestStep
  <2>2. PICK q : req' = [req EXCEPT ![r] = q]
    BY <1>4 DEF InsertApplicant
  <2>3. QED
    BY <1>0, <2>1, <2>2, UpdateStep
<1>5. ASSUME InsertConflict(r) PROVE RequestStep(x)
  BY <1>0, <1>5, RejectStep DEF InsertConflict
<1>6. ASSUME SendWelcome(r) PROVE RequestStep(x)
  BY <1>0, <1>6, GotoStep DEF SendWelcome, Entered, At
<1>7. QED
  BY <1>1, <1>2, <1>3, <1>4, <1>5, <1>6 DEF Registering

\* How a deletion changes the requests.
LEMMA DeletingStep ==
  ASSUME TypeOK, NEW r \in Requests, NEW x \in Requests, Deleting(r)
  PROVE  RequestStep(x)
<1>0. req \in [Requests -> Request] /\ req[r] \in Request
  BY DEF TypeOK
<1>1. ASSUME NEW t \in jwt, StartDeleteMe(r, t) PROVE RequestStep(x)
  <2> DEFINE row(i) == [NoRequest EXCEPT !.op = "deleteMe", !.pc = "findApplicant",
                                         !.who = t.email, !.id = i]
             only == [NoRequest EXCEPT !.op = "deleteMe", !.pc = "getUser",
                                       !.who = t.email, !.sub = t.user_id]
             held(a) == [id |-> a.id, email |-> t.email]
  <2>1. Starts(only)
    BY DEF Starts, NoRequest, Entered, HasToken, RegisterOps
  <2>2. ASSUME NEW a \in FoundBy(t) PROVE Starts(row(a.id))
    <3>1. held(a) \in Principals /\ held(a).id = a.id /\ held(a).email = t.email
      BY DEF Principals, JwtPrincipals
    <3> HIDE DEF held
    <3>2. QED
      BY <3>1 DEF Starts, NoRequest, Entered, RegisterOps
  <2>3. \/ \E a \in FoundBy(t) : Issue(r, "deleteMe", row(a.id))
        \/ Issue(r, "deleteMe", only)
    BY <1>1 DEF StartDeleteMe
  <2> HIDE DEF row, only
  <2>4. QED
    BY <1>0, <2>1, <2>2, <2>3, StartStep
<1>2. ASSUME NEW i \in ApplicantIds, StartDeleteForce(r, i) PROVE RequestStep(x)
  BY <1>0, <1>2, StartStep DEF StartDeleteForce, Starts, NoRequest, Entered, RegisterOps
<1>3. ASSUME FindApplicant(r) PROVE RequestStep(x)
  <2>1. x = r => RequestStep(r)
    BY <1>3 DEF RequestStep
  <2>2. PICK q : req' = [req EXCEPT ![r] = q]
    BY <1>3, ZenonT(30) DEF FindApplicant, Reject
  <2>3. QED
    BY <1>0, <2>1, <2>2, UpdateStep
<1>4. ASSUME GetUser(r) PROVE RequestStep(x)
  <2>1. x = r => RequestStep(r)
    BY <1>4 DEF RequestStep
  <2>2. PICK q : req' = [req EXCEPT ![r] = q]
    BY <1>4, ZenonT(30) DEF GetUser, Reject
  <2>3. QED
    BY <1>0, <2>1, <2>2, UpdateStep
<1>5. ASSUME \/ CommitDeletion(r) \/ DeleteRow(r) \/ RecordRequest(r)
             \/ DeleteById(r) \/ NotifyDeletion(r)
      PROVE  RequestStep(x)
  BY <1>0, <1>5, GotoStep
     DEF CommitDeletion, DeleteRow, RecordRequest, DeleteById, NotifyDeletion, Entered, At
<1>6. ASSUME RowAlreadyGone(r) PROVE RequestStep(x)
  BY <1>0, <1>6, RejectStep DEF RowAlreadyGone
<1>7. ASSUME ListByEmail(r) PROVE RequestStep(x)
  <2> DEFINE v == {u.user_id : u \in {w \in auth0 : w.email = req[r].email}}
             q == [req[r] EXCEPT !.pc = "deleteListed", !.victims = v]
  <2>1. req' = [req EXCEPT ![r] = q]
    BY <1>7 DEF ListByEmail
  <2> HIDE DEF v
  <2>2. Quiet(q, req[r])
    BY <1>0, <1>7 DEF ListByEmail, Quiet, Request, Entered, At
  <2> HIDE DEF q
  <2>3. QED
    BY <1>0, <2>1, <2>2, UpdateStep
<1>8. ASSUME NEW u \in Auth0Ids, DeleteListed(r, u) PROVE RequestStep(x)
  <2> DEFINE q == [req[r] EXCEPT !.victims = req[r].victims \ {u}]
  <2>1. Quiet(q, req[r])
    BY <1>0, <1>8 DEF DeleteListed, Quiet, Request, Entered
  <2>2. req' = [req EXCEPT ![r] = q]
    BY <1>8 DEF DeleteListed
  <2> HIDE DEF q
  <2>3. QED
    BY <1>0, <2>1, <2>2, UpdateStep
<1>9. ASSUME UsersDeleted(r) PROVE RequestStep(x)
  <2> DEFINE label == IF req[r].op = "deleteForce" THEN "respond"
                      ELSE IF req[r].id = 0 THEN "notify" ELSE "listResumes"
  <2>1. Goto(r, label)
    BY <1>9 DEF UsersDeleted
  <2>2. label \notin Entered
    BY DEF Entered
  <2> HIDE DEF label
  <2>3. QED
    BY <1>0, <1>9, <2>1, <2>2, GotoStep DEF UsersDeleted, At
<1>10. ASSUME ListResumes(r) PROVE RequestStep(x)
  <2>0. PICK k \in FirstPages(req[r].id) :
          req' = [req EXCEPT ![r] = [@ EXCEPT !.pc = "deleteObjects", !.keys = k]]
    BY <1>10 DEF ListResumes
  <2> DEFINE q == [req[r] EXCEPT !.pc = "deleteObjects", !.keys = k]
  <2>1. req' = [req EXCEPT ![r] = q]
    BY <2>0
  <2>2. Quiet(q, req[r])
    BY <1>0, <1>10 DEF ListResumes, Quiet, Request, Entered, At
  <2> HIDE DEF q
  <2>3. QED
    BY <1>0, <2>1, <2>2, UpdateStep
<1>11. ASSUME DeleteObjects(r) PROVE RequestStep(x)
  <2> DEFINE label == IF req[r].op = "deleteMe" THEN "notify" ELSE "deleteById"
             q == [req[r] EXCEPT !.pc = label, !.keys = {}]
  <2>1. req' = [req EXCEPT ![r] = q] \/ Reject(r, 400)
    BY <1>11 DEF DeleteObjects
  <2>2. label \notin Entered
    BY DEF Entered
  <2> HIDE DEF label
  <2>3. Quiet(q, req[r])
    BY <1>0, <1>11, <2>2 DEF DeleteObjects, Quiet, Request, Entered, At
  <2> HIDE DEF q
  <2>4. QED
    BY <1>0, <2>1, <2>3, UpdateStep, RejectStep
<1>12. QED
  BY <1>1, <1>2, <1>3, <1>4, <1>5, <1>6, <1>7, <1>8, <1>9, <1>10, <1>11 DEF Deleting

\* How the requests of a registered applicant change the requests.
LEMMA ApplyingStep ==
  ASSUME TypeOK, NEW r \in Requests, NEW x \in Requests, Applying(r)
  PROVE  RequestStep(x)
<1>0. req \in [Requests -> Request] /\ req[r] \in Request /\ JwtPrincipals \subseteq Principals
  BY DEF TypeOK, Principals
<1>1. ASSUME NEW p \in Principals, StartCreateUpload(r, p) PROVE RequestStep(x)
  BY <1>0, <1>1, StartStep DEF StartCreateUpload, Starts, NoRequest, Entered, RegisterOps
<1>2. ASSUME NEW p \in Principals, NEW n \in UploadIds, NEW st \in UploadStatus,
             StartCompleteUpload(r, p, n, st)
      PROVE  RequestStep(x)
  BY <1>0, <1>2, StartStep DEF StartCompleteUpload, Starts, NoRequest, Entered, RegisterOps
<1>3. ASSUME NEW op \in {"draft", "createSubmission", "updateSubmission"},
             NEW p \in Principals, NEW n \in UploadIds \cup {0}, StartApplication(r, op, p, n)
      PROVE  RequestStep(x)
  BY <1>0, <1>3, StartStep DEF StartApplication, Starts, NoRequest, Entered, RegisterOps
<1>4. ASSUME NEW p \in Principals, StartPause(r, p) PROVE RequestStep(x)
  BY <1>0, <1>4, StartStep DEF StartPause, Starts, NoRequest, Entered, RegisterOps
<1>5. ASSUME NEW u \in Auth0Ids, StartRelink(r, u) PROVE RequestStep(x)
  BY <1>0, <1>5, StartStep DEF StartRelink, Starts, NoRequest, Entered, RegisterOps
<1>6. ASSUME InsertUpload(r) PROVE RequestStep(x)
  <2>1. PICK n \in UploadIds : req' = [req EXCEPT ![r] = [@ EXCEPT !.pc = "respond", !.up = n]]
    BY <1>6 DEF InsertUpload
  <2> DEFINE q == [req[r] EXCEPT !.pc = "respond", !.up = n]
  <2>2. Quiet(q, req[r])
    BY <1>0, <1>6 DEF InsertUpload, Quiet, Request, Entered, At
  <2>3. req' = [req EXCEPT ![r] = q]
    BY <2>1
  <2> HIDE DEF q
  <2>4. QED
    BY <1>0, <2>2, <2>3, UpdateStep
<1>7. ASSUME ValidateApplication(r) PROVE RequestStep(x)
  <2>1. x = r => RequestStep(r)
    BY <1>7 DEF RequestStep
  <2>2. PICK q : req' = [req EXCEPT ![r] = q]
    BY <1>7, ZenonT(30) DEF ValidateApplication, Reject, Goto
  <2>3. QED
    BY <1>0, <2>1, <2>2, UpdateStep
<1>8. ASSUME SetUploadStatus(r) PROVE RequestStep(x)
  BY <1>0, <1>8, GotoStep, RejectStep DEF SetUploadStatus, Entered, At
<1>9. ASSUME CreateSubmission(r) \/ NotifySubmission(r) \/ UpdateSubmission(r) \/ UpsertDraft(r)
      PROVE  RequestStep(x)
  BY <1>0, <1>9, GotoStep
     DEF CreateSubmission, NotifySubmission, UpdateSubmission, UpsertDraft, Entered, At
<1>10. ASSUME PauseApplicant(r) \/ UpdateAuth0Id(r) PROVE RequestStep(x)
  BY <1>0, <1>10, GotoStep, RejectStep DEF PauseApplicant, UpdateAuth0Id, Entered, At
<1>11. QED
  BY <1>0, <1>1, <1>2, <1>3, <1>4, <1>5, <1>6, <1>7, <1>8, <1>9, <1>10 DEF Applying

\* How any step of the API changes the requests.
LEMMA RequestSteps ==
  ASSUME TypeOK, [Next]_vars, NEW x \in Requests
  PROVE  RequestStep(x)
<1>0. req \in [Requests -> Request]
  BY DEF TypeOK
<1>1. CASE \/ UNCHANGED vars
           \/ \E u \in Auth0Ids, e \in Emails \cup {None} : SocialSignUp(u, e)
           \/ \E k \in Key : PutObject(k)
           \/ \E s \in session : SessionExpires(s)
  BY <1>1 DEF vars, SocialSignUp, PutObject, SessionExpires, RequestStep
<1>2. ASSUME NEW r \in Requests, Respond(r) PROVE RequestStep(x)
  <2> DEFINE q == [req[r] EXCEPT !.pc = "done", !.status = 200]
  <2>1. Quiet(q, req[r])
    BY <1>0 DEF Quiet, Request, Entered, At
  <2>2. req' = [req EXCEPT ![r] = q]
    BY <1>2 DEF Respond
  <2> HIDE DEF q
  <2>3. QED
    BY <1>0, <2>1, <2>2, UpdateStep
<1>3. ASSUME NEW r \in Requests, Fail(r) PROVE RequestStep(x)
  BY <1>0, <1>3, RejectStep DEF Fail
<1>4. QED
  BY <1>1, <1>2, <1>3, RegisteringStep, DeletingStep, ApplyingStep DEF Next

-----------------------------------------------------------------------------
(* Resumes *)

\* No request has validated anything, and nothing is attached, at the start.
LEMMA ResumeInit == Init => ResumeInv
BY InitialAssumption
   DEF Init, ResumeInv, UploadsNumbered, ValidatedResume, AttachedResumeComplete, At, NoRequest

\* An upload record keeps its owner and, once it has succeeded, its status; a new
\* one has an id beyond every id drawn before.
LEMMA UploadSteps ==
  ASSUME TypeOK, UploadsNumbered, [Next]_vars
  PROVE  /\ lastUploadId <= lastUploadId'
         /\ \A u \in upload' :
              \/ u.id > lastUploadId
              \/ \E v \in upload : /\ v.id = u.id /\ v.applicantId = u.applicantId
                                   /\ v.status = "SUCCESS" => u.status = "SUCCESS"
         /\ UploadsNumbered'
<1>0. /\ lastUploadId \in Nat
      /\ \A u \in upload : u.id \in Nat /\ u.id <= lastUploadId
      /\ \A u, v \in upload : u.id = v.id => u = v
  <2>1. UploadIds \cup {0} \subseteq Nat
    BY IdAssumption
  <2>2. lastUploadId \in UploadIds \cup {0} /\ \A u \in upload : u.id \in UploadIds
    BY DEF TypeOK, UploadRow
  <2>3. QED
    BY <2>1, <2>2 DEF UploadsNumbered
<1>1. CASE upload' \subseteq upload /\ lastUploadId' = lastUploadId
  BY <1>0, <1>1 DEF UploadsNumbered
<1>2. ASSUME NEW r \in Requests, InsertUpload(r)
      PROVE  /\ lastUploadId <= lastUploadId'
             /\ \A u \in upload' : u.id > lastUploadId \/ u \in upload
             /\ UploadsNumbered'
  <2>1. PICK n \in UploadIds :
          /\ n > lastUploadId
          /\ upload' = upload \cup {[id |-> n, applicantId |-> req[r].id, status |-> "REQUESTED"]}
          /\ lastUploadId' = n
    BY <1>2 DEF InsertUpload
  <2> DEFINE row == [id |-> n, applicantId |-> req[r].id, status |-> "REQUESTED"]
  <2>2. row.id = n /\ n \in Nat /\ upload' = upload \cup {row}
    BY <2>1, IdAssumption
  <2> HIDE DEF row
  <2>3. \A u \in upload : u.id < n
    BY <1>0, <2>1, <2>2
  <2>4. \A u \in upload : u.id # n
    BY <1>0, <2>2, <2>3
  <2>5. \A u, v \in upload' : u.id = v.id => u = v
    BY <1>0, <2>2, <2>4
  <2>6. \A u \in upload' : u.id <= n
    BY <1>0, <2>2, <2>3
  <2>7. QED
    BY <1>0, <2>1, <2>2, <2>5, <2>6 DEF UploadsNumbered
<1>3. ASSUME NEW r \in Requests, SetUploadStatus(r)
      PROVE  /\ lastUploadId' = lastUploadId
             /\ \A u \in upload' :
                  \E v \in upload : /\ v.id = u.id /\ v.applicantId = u.applicantId
                                    /\ v.status = "SUCCESS" => u.status = "SUCCESS"
             /\ UploadsNumbered'
  <2> DEFINE st == req[r].upStatus
             C == Completable(r)
             new(u) == [u EXCEPT !.status = st]
  <2>0. /\ lastUploadId' = lastUploadId
        /\ upload' = upload \/ upload' = (upload \ C) \cup {new(u) : u \in C}
    BY <1>3 DEF SetUploadStatus
  <2> SUFFICES ASSUME upload' = (upload \ C) \cup {new(u) : u \in C}
               PROVE  /\ \A u \in upload' :
                           \E v \in upload :
                             /\ v.id = u.id /\ v.applicantId = u.applicantId
                             /\ v.status = "SUCCESS" => u.status = "SUCCESS"
                      /\ UploadsNumbered'
    BY <1>0, <2>0 DEF UploadsNumbered
  <2>1. lastUploadId' = lastUploadId /\ upload' = (upload \ C) \cup {new(u) : u \in C}
    BY <2>0
  <2>2. C \subseteq upload /\ (\A u \in C : u.status # "SUCCESS")
        /\ \A u, v \in C : u.id = v.id => u = v
    BY <1>0 DEF Completable, ResumeOf
  <2>3. \A u \in upload : new(u).id = u.id /\ new(u).applicantId = u.applicantId
    BY DEF TypeOK, UploadRow
  <2> HIDE DEF new, C
  <2>4. \A u \in upload' : \E v \in upload : (u = v /\ v \notin C) \/ (u = new(v) /\ v \in C)
    <3> SUFFICES ASSUME NEW u \in upload'
                 PROVE  \E v \in upload : (u = v /\ v \notin C) \/ (u = new(v) /\ v \in C)
      OBVIOUS
    <3>1. CASE u \in upload \ C
      BY <3>1
    <3>2. CASE \E v \in C : u = new(v)
      BY <3>2, <2>2
    <3>3. QED
      BY <2>1, <3>1, <3>2
  <2>5. QED
    BY <2>1, <2>2, <2>3, <2>4, <1>0 DEF UploadsNumbered
<1>4. QED
  <2>1. \/ upload' \subseteq upload /\ lastUploadId' = lastUploadId
        \/ \E r \in Requests : InsertUpload(r) \/ SetUploadStatus(r)
    BY DatabaseSteps, ZenonT(30) DEF Unchanged, InsertApplicant, CommitDeletion, DeleteRow, DeleteCascade,
         RecordRequest, CreateSubmission, UpdateSubmission, UpsertDraft, PauseApplicant,
         UpdateAuth0Id
  <2>2. QED
    BY <1>0, <1>1, <1>2, <1>3, <2>1

\* What a request has validated stays true until it writes.
LEMMA ValidatedStep ==
  ASSUME TypeOK, ResumeInv, [Next]_vars
  PROVE  ValidatedResume'
<1> SUFFICES ASSUME NEW x \in Requests, At(x, "write")', req'[x].up # 0
             PROVE  /\ req'[x].up <= lastUploadId'
                    /\ \A u \in upload' : u.id = req'[x].up =>
                         u.applicantId = req'[x].id /\ u.status = "SUCCESS"
  BY DEF ValidatedResume, At
<1>1. /\ req \in [Requests -> Request] /\ req[x] \in Request
      /\ lastUploadId \in Nat /\ lastUploadId' \in Nat /\ req[x].up \in Nat
      /\ \A u \in upload' : u.id \in Nat
  <2>1. UploadIds \cup {0} \subseteq Nat
    BY IdAssumption
  <2>2. /\ lastUploadId \in UploadIds \cup {0} /\ lastUploadId' \in UploadIds \cup {0}
        /\ \A u \in upload' : u.id \in UploadIds
    BY NextType DEF TypeOK, UploadRow
  <2>3. req \in [Requests -> Request] /\ req[x] \in Request /\ req[x].up \in UploadIds \cup {0}
    BY DEF TypeOK, Request
  <2>4. QED
    BY <2>1, <2>2, <2>3
<1>w. req'[x].pc = "write"
  BY DEF At
<1>r. \A s : ~Reject(x, s)
  <2> SUFFICES ASSUME NEW s, Reject(x, s) PROVE FALSE
    OBVIOUS
  <2>1. req'[x].pc = "done"
    BY <1>1 DEF Reject, Request
  <2>2. QED
    BY <2>1, <1>w
<1>2. ~InsertApplicant(x) /\ ~FindApplicant(x) /\ ~GetUser(x)
  <2>1. ASSUME InsertApplicant(x) PROVE FALSE
    <3> DEFINE label == IF req[x].op = "register" THEN "welcome" ELSE "respond"
    <3>1. PICK i \in FreshApplicantIds :
            req' = [req EXCEPT ![x] = [@ EXCEPT !.pc = label, !.id = i]]
      BY <2>1 DEF InsertApplicant
    <3>2. req'[x].pc = label
      <4> HIDE DEF label
      <4> QED BY <1>1, <3>1 DEF Request
    <3>3. QED
      BY <3>2, <1>w
  <2>2. ASSUME FindApplicant(x) PROVE FALSE
    <3> DEFINE label == IF req[x].op = "deleteMe" THEN "deleteTx" ELSE "deleteRow"
    <3>1. PICK a \in Rows(req[x].id) :
            req' = [req EXCEPT ![x] = [@ EXCEPT !.pc = label, !.email = a.email, !.sub = a.auth0Id]]
      BY <1>r, <2>2 DEF FindApplicant
    <3>2. req'[x].pc = label
      <4> HIDE DEF label
      <4> QED BY <1>1, <3>1 DEF Request
    <3>3. QED
      BY <3>2, <1>w
  <2>3. ASSUME GetUser(x) PROVE FALSE
    <3>1. PICK e : req' = [req EXCEPT ![x] = [@ EXCEPT !.pc = "recordRequest", !.email = e]]
      BY <1>r, <2>3 DEF GetUser
    <3>2. req'[x].pc = "recordRequest"
      BY <1>1, <3>1 DEF Request
    <3>3. QED
      BY <3>2, <1>w
  <2>4. QED
    BY <2>1, <2>2, <2>3
<1>3. /\ req'[x].id = req[x].id /\ req'[x].up = req[x].up
      /\ req[x].pc = "write" \/ ValidateApplication(x)
  <2>1. RequestStep(x)
    BY RequestSteps
  <2>2. ~Quiet(req'[x], req[x]) /\ ~Starts(req'[x])
    BY <1>w DEF Quiet, Starts, Entered
  <2>3. ASSUME ValidateApplication(x) PROVE req'[x].id = req[x].id /\ req'[x].up = req[x].up
    <3>1. Goto(x, "write")
      BY <1>r, <2>3 DEF ValidateApplication
    <3>2. QED
      BY <1>1, <3>1 DEF Goto, Request
  <2>4. QED
    BY <1>2, <1>w, <2>1, <2>2, <2>3 DEF RequestStep
<1>4. /\ req[x].up <= lastUploadId
      /\ \A u \in upload : u.id = req[x].up => u.applicantId = req[x].id /\ u.status = "SUCCESS"
  <2>1. CASE req[x].pc = "write"
    BY <1>3, <2>1 DEF ResumeInv, ValidatedResume, At
  <2>2. CASE ValidateApplication(x)
    <3>1. ValidResume(req[x].id, req[x].up)
      BY <1>r, <2>2 DEF ValidateApplication
    <3>2. QED
      BY <1>3, <3>1 DEF ValidResume, ResumeOf, ResumeInv, UploadsNumbered
  <2>3. QED
    BY <1>3, <2>1, <2>2
<1>5. /\ lastUploadId <= lastUploadId'
      /\ \A u \in upload' :
            \/ u.id > lastUploadId
            \/ \E v \in upload : /\ v.id = u.id /\ v.applicantId = u.applicantId
                                 /\ v.status = "SUCCESS" => u.status = "SUCCESS"
  BY UploadSteps DEF ResumeInv
<1>6. QED
  BY <1>1, <1>3, <1>4, <1>5

\* The resume of a submission is still the one that was validated.
LEMMA AttachedStep ==
  ASSUME TypeOK, ResumeInv, [Next]_vars
  PROVE  AttachedResumeComplete'
<1> USE DEF ResumeOf
<1>1. AttachedResumeComplete
  BY DEF ResumeInv
<1>2. CASE upload \subseteq upload' /\ UNCHANGED <<submission, draft>>
  BY <1>1, <1>2 DEF AttachedResumeComplete
<1>3. ASSUME NEW r \in Requests, CommitDeletion(r) \/ DeleteRow(r)
      PROVE  AttachedResumeComplete'
  <2>1. /\ upload' = {u \in upload : u.applicantId # req[r].id}
        /\ draft' = {d \in draft : d.applicantId # req[r].id}
        /\ submission' = {s \in submission : s.applicantId # req[r].id}
    BY <1>3 DEF CommitDeletion, DeleteRow, DeleteCascade
  <2>2. QED
    BY <1>1, <2>1 DEF AttachedResumeComplete
<1>4. ASSUME NEW r \in Requests, SetUploadStatus(r) PROVE AttachedResumeComplete'
  <2>1. UNCHANGED <<submission, draft>>
    BY <1>4 DEF SetUploadStatus
  <2>2. \A u \in upload : u.status = "SUCCESS" => u \in upload'
    BY <1>4 DEF SetUploadStatus, Completable
  <2>3. QED
    BY <1>1, <2>1, <2>2 DEF AttachedResumeComplete
<1>5. ASSUME NEW r \in Requests,
             CreateSubmission(r) \/ UpdateSubmission(r) \/ UpsertDraft(r)
      PROVE  AttachedResumeComplete'
  <2> DEFINE row == [applicantId |-> req[r].id, resume |-> req[r].up]
  <2>1. /\ upload' = upload
        /\ submission' \subseteq submission \cup {row}
        /\ draft' \subseteq draft \cup {row}
        /\ submission' # submission => \E u \in upload : u.id = req[r].up
        /\ req[r].up # 0 => \E u \in upload : u.id = req[r].up
    BY <1>5 DEF CreateSubmission, UpdateSubmission, UpsertDraft
  <2>2. At(r, "write")
    BY <1>5 DEF CreateSubmission, UpdateSubmission, UpsertDraft
  <2>3. \A u \in upload : u.id # 0
    BY IdAssumption DEF TypeOK, UploadRow
  <2>4. row.applicantId = req[r].id /\ row.resume = req[r].up
    OBVIOUS
  <2> HIDE DEF row
  <2>5. req[r].up # 0 => \E u \in ResumeOf(row.applicantId, row.resume) : u.status = "SUCCESS"
    BY <2>1, <2>2, <2>4 DEF ResumeInv, ValidatedResume
  <2>6. submission' # submission => req[r].up # 0
    BY <2>1, <2>3
  <2>7. QED
    BY <1>1, <2>1, <2>4, <2>5, <2>6 DEF AttachedResumeComplete
<1>6. QED
  <2>1. \/ upload \subseteq upload' /\ UNCHANGED <<submission, draft>>
        \/ \E r \in Requests : \/ CommitDeletion(r) \/ DeleteRow(r) \/ SetUploadStatus(r)
                               \/ CreateSubmission(r) \/ UpdateSubmission(r) \/ UpsertDraft(r)
    BY DatabaseSteps, ZenonT(30) DEF Unchanged, InsertApplicant, RecordRequest, InsertUpload, PauseApplicant,
         UpdateAuth0Id
  <2>2. QED
    BY <1>2, <1>3, <1>4, <1>5, <2>1

\* The resume of a submission or of a draft is an upload of the same applicant that
\* has succeeded, whatever happens between its validation and the write.
THEOREM AttachedResumeCorrect == Spec => []AttachedResumeComplete
<1>1. TypeOK /\ ResumeInv /\ [Next]_vars => ResumeInv'
  BY UploadSteps, ValidatedStep, AttachedStep DEF ResumeInv
<1>2. ResumeInv => AttachedResumeComplete
  BY DEF ResumeInv
<1>3. QED
  BY <1>1, <1>2, ResumeInit, TypeCorrect, PTL DEF Spec

-----------------------------------------------------------------------------
(* Identity *)

\* At the start every session is that of the row it names.
LEMMA IdentityInit == Init => IdentityInv
<1> SUFFICES ASSUME Init PROVE IdentityInv
  OBVIOUS
<1>1. \A r \in Requests : req[r] = NoRequest
  BY DEF Init
<1>2. NoRequest.who = None /\ NoRequest.pc = "idle" /\ NoRequest.op = None
  BY DEF NoRequest
<1>3. \A s \in session : \E a \in InitialApplicants : s.id = a.id /\ s.email = a.email
  BY DEF Init
<1>4. AuthorityIsCurrent
  BY <1>1, <1>2, <1>3, InitialAssumption DEF Init, AuthorityIsCurrent
<1>5. \A r \in Requests : EmailIsOwn(req[r])
  <2>1. None \notin RegisterOps
    BY IdAssumption DEF Kinds
  <2>2. QED
    BY <1>1, <1>2, <2>1 DEF EmailIsOwn
<1>6. UserIdsKept
  <2>1. \A t \in jwt : \E a \in InitialApplicants :
          t = [user_id |-> a.auth0Id, email |-> a.email, connection |-> "password"]
    BY DEF Init
  <2>2. QED
    BY <2>1, InitialAssumption DEF Init, UserIdsKept
<1>7. deletionRequests = {} /\ \A s \in session : s.id <= lastApplicantId
  BY <1>3, InitialAssumption DEF Init
<1>8. QED
  BY <1>1, <1>2, <1>4, <1>5, <1>6, <1>7 DEF IdentityInv

\* Of a registration only the creation of its user touches Auth0 ...
LEMMA RegisteringUsers ==
  ASSUME NEW r \in Requests, Registering(r)
  PROVE  (auth0' = auth0 /\ jwt' = jwt) \/ CreateUser(r)
BY DEF Registering, StartRegister, StartRegisterWithJwt, Issue, InsertConflict,
       InsertApplicant, SendWelcome, services

\* ... and of a deletion, deleteUsers.
LEMMA DeletingUsers ==
  ASSUME NEW r \in Requests, Deleting(r)
  PROVE  \/ auth0' = auth0 /\ jwt' = jwt
         \/ DeleteById(r) \/ \E u \in Auth0Ids : DeleteListed(r, u)
<1>1. CASE \/ \E t \in jwt : StartDeleteMe(r, t)
           \/ \E i \in ApplicantIds : StartDeleteForce(r, i)
  BY <1>1 DEF StartDeleteMe, StartDeleteForce, Issue, services
<1>2. CASE FindApplicant(r) \/ RowAlreadyGone(r) \/ GetUser(r) \/ UsersDeleted(r)
  BY <1>2 DEF FindApplicant, RowAlreadyGone, GetUser, UsersDeleted, services
<1>3. CASE ListByEmail(r) \/ ListResumes(r) \/ DeleteObjects(r) \/ NotifyDeletion(r)
  BY <1>3 DEF ListByEmail, ListResumes, DeleteObjects, NotifyDeletion, services
<1>4. CASE CommitDeletion(r) \/ DeleteRow(r) \/ RecordRequest(r)
  BY <1>4 DEF CommitDeletion, DeleteRow, RecordRequest, services
<1>5. QED
  BY <1>1, <1>2, <1>3, <1>4 DEF Deleting

\* Users are added with a token of their own, and removed one id at a time.
LEMMA LoginSteps ==
  ASSUME [Next]_vars
  PROVE  \/ auth0' = auth0 /\ jwt' = jwt
         \/ \E t : /\ auth0' = auth0 \cup {t} /\ jwt' = jwt \cup {t}
                   /\ t \in jwt \/ \A v \in jwt : v.user_id # t.user_id
         \/ /\ jwt' = jwt
            /\ \E r \in Requests : \E u :
                 /\ auth0' = {v \in auth0 : v.user_id # u}
                 /\ \/ At(r, "deleteById") /\ u = req[r].sub
                    \/ u \in req[r].victims
<1> DEFINE Added == \E t : /\ auth0' = auth0 \cup {t} /\ jwt' = jwt \cup {t}
                           /\ t \in jwt \/ \A v \in jwt : v.user_id # t.user_id
<1>1. ASSUME NEW r \in Requests, CreateUser(r) PROVE (auth0' = auth0 /\ jwt' = jwt) \/ Added
  <2> DEFINE t(u) == [user_id |-> u, email |-> req[r].email, connection |-> "password"]
  <2>1. \A u : t(u).user_id = u
    OBVIOUS
  <2>2. \/ auth0' = auth0 /\ jwt' = jwt
        \/ \E u : /\ \A v \in jwt : v.user_id # u
                  /\ auth0' = auth0 \cup {t(u)} /\ jwt' = jwt \cup {t(u)}
    BY <1>1 DEF CreateUser, services
  <2> HIDE DEF t
  <2>3. QED
    BY <2>1, <2>2
<1>2. ASSUME NEW u, NEW e, SocialSignUp(u, e) PROVE Added
  <2> DEFINE t == [user_id |-> u, email |-> e, connection |-> "social"]
  <2>1. /\ t.user_id = u /\ auth0' = auth0 \cup {t} /\ jwt' = jwt \cup {t}
        /\ t \in jwt \/ \A v \in jwt : v.user_id # u
    BY <1>2 DEF SocialSignUp
  <2> HIDE DEF t
  <2>2. QED
    BY <2>1
<1> HIDE DEF Added
<1>3. ASSUME NEW r \in Requests, Registering(r)
      PROVE  (auth0' = auth0 /\ jwt' = jwt) \/ CreateUser(r)
  BY <1>3, RegisteringUsers
<1>4. ASSUME NEW r \in Requests, Deleting(r)
      PROVE  \/ auth0' = auth0 /\ jwt' = jwt
             \/ DeleteById(r) \/ \E u \in Auth0Ids : DeleteListed(r, u)
  BY <1>4, DeletingUsers
<1>5. ASSUME NEW r \in Requests, Applying(r) PROVE auth0' = auth0 /\ jwt' = jwt
  BY <1>5 DEF Applying, StartCreateUpload, StartCompleteUpload, StartApplication, StartPause,
              StartRelink, Issue, ValidateApplication, NotifySubmission, InsertUpload,
              SetUploadStatus, CreateSubmission, UpdateSubmission, UpsertDraft, PauseApplicant,
              UpdateAuth0Id, services
<1>6. ASSUME \/ UNCHANGED vars
             \/ \E r \in Requests : Respond(r) \/ Fail(r)
             \/ \E k \in Key : PutObject(k)
             \/ \E s \in session : SessionExpires(s)
      PROVE  auth0' = auth0 /\ jwt' = jwt
  BY <1>6 DEF vars, Respond, Fail, PutObject, SessionExpires, services
<1>7. ASSUME NEW r \in Requests, DeleteById(r) \/ \E u \in Auth0Ids : DeleteListed(r, u)
      PROVE  /\ jwt' = jwt
             /\ \E u : /\ auth0' = {v \in auth0 : v.user_id # u}
                       /\ \/ At(r, "deleteById") /\ u = req[r].sub
                          \/ u \in req[r].victims
  BY <1>7 DEF DeleteById, DeleteListed
<1>8. \/ auth0' = auth0 /\ jwt' = jwt
      \/ Added
      \/ \E r \in Requests : DeleteById(r) \/ \E u \in Auth0Ids : DeleteListed(r, u)
  BY <1>1, <1>2, <1>3, <1>4, <1>5, <1>6 DEF Next
<1>9. QED
  BY <1>7, <1>8 DEF Added

\* A token outlives its user.
LEMMA TokensStay ==
  ASSUME [Next]_vars, NEW u, NEW e, HasToken(u, e)
  PROVE  HasToken(u, e)'
<1>1. jwt \subseteq jwt'
  BY LoginSteps
<1>2. QED
  BY <1>1 DEF HasToken

\* A row has the id and the address it always had, or is new and its id was never given.
LEMMA RowSteps ==
  ASSUME TypeOK, ErasureInv, [Next]_vars
  PROVE  /\ lastApplicantId \in Nat /\ lastApplicantId' \in Nat
         /\ lastApplicantId <= lastApplicantId'
         /\ \A a \in applicant' :
              \/ \E b \in applicant : b.id = a.id /\ b.email = a.email
              \/ \E r \in Requests :
                   /\ InsertApplicant(r)
                   /\ a.id = lastApplicantId' /\ a.id > lastApplicantId
                   /\ a.id = req'[r].id /\ a.email = req'[r].email
<1>1. ApplicantIds \cup {0} \subseteq Nat /\ lastApplicantId \in Nat /\ lastApplicantId' \in Nat
  <2>1. ApplicantIds \cup {0} \subseteq Nat
    BY IdAssumption
  <2>2. TypeOK'
    BY NextType
  <2>3. lastApplicantId \in ApplicantIds \cup {0} /\ lastApplicantId' \in ApplicantIds \cup {0}
    BY <2>2 DEF TypeOK
  <2>4. QED
    BY <2>1, <2>3
<1>2. CASE applicant' \subseteq applicant /\ lastApplicantId' = lastApplicantId
  BY <1>1, <1>2
<1>3. ASSUME NEW r \in Requests, PauseApplicant(r) \/ UpdateAuth0Id(r)
      PROVE  /\ lastApplicantId' = lastApplicantId
             /\ \A a \in applicant' : \E b \in applicant : b.id = a.id /\ b.email = a.email
  BY <1>3, UpdateKeepsIds DEF PauseApplicant, UpdateAuth0Id
<1>4. ASSUME NEW r \in Requests, InsertApplicant(r)
      PROVE  /\ lastApplicantId < lastApplicantId'
             /\ \A a \in applicant' :
                  \/ a \in applicant
                  \/ /\ a.id = lastApplicantId' /\ a.id > lastApplicantId
                     /\ a.id = req'[r].id /\ a.email = req'[r].email
  <2> DEFINE label == IF req[r].op = "register" THEN "welcome" ELSE "respond"
             row(i) == [id |-> i, email |-> req[r].email, auth0Id |-> req[r].sub, isPaused |-> FALSE]
  <2>1. PICK i \in FreshApplicantIds :
          /\ applicant' = applicant \cup {row(i)}
          /\ lastApplicantId' = i
          /\ req' = [req EXCEPT ![r] = [@ EXCEPT !.pc = label, !.id = i]]
    BY <1>4 DEF InsertApplicant
  <2>2. i > lastApplicantId
    BY DEF FreshApplicantIds
  <2>3. req'[r].id = i /\ req'[r].email = req[r].email
    <3> HIDE DEF label
    <3> QED BY <2>1 DEF TypeOK, Request
  <2>4. row(i).id = i /\ row(i).email = req[r].email
    OBVIOUS
  <2> HIDE DEF row
  <2>5. QED
    BY <1>1, <2>1, <2>2, <2>3, <2>4
<1>5. \/ applicant' \subseteq applicant /\ lastApplicantId' = lastApplicantId
      \/ \E r \in Requests : PauseApplicant(r) \/ UpdateAuth0Id(r) \/ InsertApplicant(r)
  BY DatabaseSteps, ZenonT(30) DEF Unchanged, CommitDeletion, DeleteRow, DeleteCascade, RecordRequest,
       InsertUpload, SetUploadStatus, CreateSubmission, UpdateSubmission, UpsertDraft
<1>6. QED
  BY <1>1, <1>2, <1>3, <1>4, <1>5

\* Whom a request acts for: nobody, or a holder of an id no other person has.
Known(i, e) == i <= lastApplicantId /\ \A a \in applicant : a.id = i => a.email = e

\* Whoever authenticates, by a token with an e-mail or by a session, brings a known id.
LEMMA PrincipalKnown ==
  ASSUME ErasureInv, IdentityInv, NEW p \in Principals, p.email # None
  PROVE  Known(p.id, p.email)
<1>1. CASE p \in session
  BY <1>1 DEF IdentityInv, AuthorityIsCurrent, Known
<1>2. CASE p \in JwtPrincipals
  <2>1. PICK t \in jwt : \E a \in FoundBy(t) : p = [id |-> a.id, email |-> t.email]
    BY <1>2 DEF JwtPrincipals
  <2>2. PICK a \in applicant : p.id = a.id /\ p.email = a.email
    BY <2>1 DEF FoundBy
  <2>3. QED
    BY <2>2 DEF ErasureInv, ApplicantsNumbered, Known
<1>3. QED
  BY <1>1, <1>2 DEF Principals

\* Auth0 gives every new user an id of its own.
LEMMA UserIdsStep == ASSUME UserIdsKept, [Next]_vars PROVE UserIdsKept' /\ jwt \subseteq jwt'
BY LoginSteps DEF UserIdsKept

\* What a request has after the three calls that identify somebody.
LEMMA IdentifyingMoves ==
  ASSUME TypeOK, ErasureInv, IdentityInv, NEW x \in Requests
  PROVE  /\ InsertApplicant(x) =>
              /\ req'[x].who = req[x].who /\ req'[x].email = req[x].email
              /\ req'[x].who = req'[x].email
              /\ req'[x].pc \in {"welcome", "respond"}
         /\ FindApplicant(x) =>
              /\ req'[x].op = req[x].op /\ req'[x].op \notin RegisterOps
              /\ req'[x].who = req[x].who /\ req'[x].id = req[x].id
              /\ req'[x].pc \in {"deleteTx", "deleteRow", "done"}
              /\ req'[x].pc = "deleteTx" => req'[x].who \in {req'[x].email, None}
         /\ GetUser(x) =>
              /\ req'[x].op = req[x].op /\ req'[x].op \notin RegisterOps
              /\ req'[x].who = req[x].who /\ req'[x].id = req[x].id
              /\ req'[x].pc \in {"recordRequest", "done"}
              /\ req'[x].pc = "recordRequest" => req'[x].who \in {req'[x].email, None}
         /\ ValidateApplication(x) =>
              /\ req'[x].op = req[x].op /\ req'[x].op \notin RegisterOps
              /\ req'[x].who = req[x].who /\ req'[x].id = req[x].id
              /\ req'[x].pc \in {"write", "done"}
<1>0. req \in [Requests -> Request] /\ req[x] \in Request /\ LocalsAssigned(req[x])
  BY DEF TypeOK
<1>r. ASSUME NEW s, Reject(x, s)
      PROVE  /\ req'[x].op = req[x].op /\ req'[x].who = req[x].who /\ req'[x].id = req[x].id
             /\ req'[x].pc = "done"
  BY <1>0, <1>r DEF Reject, Request
<1>1. ASSUME InsertApplicant(x)
      PROVE  /\ req'[x].who = req[x].who /\ req'[x].email = req[x].email
             /\ req'[x].who = req'[x].email
             /\ req'[x].pc \in {"welcome", "respond"}
  <2> DEFINE label == IF req[x].op = "register" THEN "welcome" ELSE "respond"
  <2>1. PICK i \in FreshApplicantIds :
          req' = [req EXCEPT ![x] = [@ EXCEPT !.pc = label, !.id = i]]
    BY <1>1 DEF InsertApplicant
  <2>2. label \in {"welcome", "respond"}
    OBVIOUS
  <2>3. req'[x].who = req[x].who /\ req'[x].email = req[x].email /\ req'[x].pc = label
    <3> HIDE DEF label
    <3> QED BY <1>0, <2>1 DEF Request
  <2>4. req[x].op \in RegisterOps /\ req[x].pc = "insert"
    BY <1>0, <1>1 DEF InsertApplicant, At, LocalsAssigned, RegisterLabels
  <2>5. req[x].email = req[x].who
    BY <2>4 DEF IdentityInv, EmailIsOwn
  <2> HIDE DEF label
  <2>6. QED
    BY <2>2, <2>3, <2>5
<1>2. ASSUME req[x].pc \in {"findApplicant", "getUser", "validate"} PROVE req[x].op \notin RegisterOps
  BY <1>0, <1>2 DEF LocalsAssigned, RegisterLabels
<1>3. ASSUME FindApplicant(x), ~Reject(x, 500)
      PROVE  /\ req'[x].op = req[x].op /\ req'[x].who = req[x].who /\ req'[x].id = req[x].id
             /\ req'[x].pc \in {"deleteTx", "deleteRow"}
             /\ req'[x].who \in {req'[x].email, None}
  <2> DEFINE label == IF req[x].op = "deleteMe" THEN "deleteTx" ELSE "deleteRow"
  <2>1. PICK a \in Rows(req[x].id) :
          req' = [req EXCEPT ![x] = [@ EXCEPT !.pc = label, !.email = a.email, !.sub = a.auth0Id]]
    BY <1>3 DEF FindApplicant
  <2>2. label \in {"deleteTx", "deleteRow"}
    OBVIOUS
  <2>3. /\ req'[x].op = req[x].op /\ req'[x].who = req[x].who /\ req'[x].id = req[x].id
        /\ req'[x].pc = label /\ req'[x].email = a.email
    <3> HIDE DEF label
    <3> QED BY <1>0, <2>1 DEF Request
  <2>4. req[x].who \in {a.email, None}
    BY DEF Rows, IdentityInv, AuthorityIsCurrent
  <2> HIDE DEF label
  <2>5. QED
    BY <2>2, <2>3, <2>4
<1>4. ASSUME GetUser(x), ~Reject(x, 500)
      PROVE  /\ req'[x].op = req[x].op /\ req'[x].who = req[x].who /\ req'[x].id = req[x].id
             /\ req'[x].pc = "recordRequest"
             /\ req'[x].who \in {req'[x].email, None}
  <2> DEFINE name(u) == IF u.email = None THEN u.user_id ELSE u.email
  <2>1. PICK u \in auth0 :
          /\ u.user_id = req[x].sub
          /\ req' = [req EXCEPT ![x] = [@ EXCEPT !.pc = "recordRequest", !.email = name(u)]]
    BY <1>4 DEF GetUser
  <2>2. /\ req'[x].op = req[x].op /\ req'[x].who = req[x].who /\ req'[x].id = req[x].id
        /\ req'[x].pc = "recordRequest" /\ req'[x].email = name(u)
    <3> HIDE DEF name
    <3> QED BY <1>0, <2>1 DEF Request
  <2>3. HasToken(req[x].sub, req[x].who)
    BY <1>4 DEF GetUser, At, IdentityInv, EmailIsOwn
  <2>4. u.email = req[x].who
    BY <2>1, <2>3 DEF HasToken, IdentityInv, UserIdsKept
  <2>5. req[x].who \in {name(u), None}
    BY <2>4
  <2> HIDE DEF name
  <2>6. QED
    BY <2>2, <2>5
<1>5. ASSUME ValidateApplication(x), ~Reject(x, 400)
      PROVE  /\ req'[x].op = req[x].op /\ req'[x].who = req[x].who /\ req'[x].id = req[x].id
             /\ req'[x].pc = "write"
  <2>1. Goto(x, "write")
    BY <1>5 DEF ValidateApplication
  <2>2. QED
    BY <1>0, <2>1 DEF Goto, Request
<1>6. ASSUME FindApplicant(x) \/ GetUser(x) \/ ValidateApplication(x)
      PROVE  req[x].op \notin RegisterOps
  BY <1>2, <1>6 DEF FindApplicant, GetUser, ValidateApplication, At
<1>7. FindApplicant(x) =>
        /\ req'[x].op = req[x].op /\ req'[x].op \notin RegisterOps
        /\ req'[x].who = req[x].who /\ req'[x].id = req[x].id
        /\ req'[x].pc \in {"deleteTx", "deleteRow", "done"}
        /\ req'[x].pc = "deleteTx" => req'[x].who \in {req'[x].email, None}
  BY <1>r, <1>3, <1>6
<1>8. GetUser(x) =>
        /\ req'[x].op = req[x].op /\ req'[x].op \notin RegisterOps
        /\ req'[x].who = req[x].who /\ req'[x].id = req[x].id
        /\ req'[x].pc \in {"recordRequest", "done"}
        /\ req'[x].pc = "recordRequest" => req'[x].who \in {req'[x].email, None}
  BY <1>r, <1>4, <1>6
<1>9. ValidateApplication(x) =>
        /\ req'[x].op = req[x].op /\ req'[x].op \notin RegisterOps
        /\ req'[x].who = req[x].who /\ req'[x].id = req[x].id
        /\ req'[x].pc \in {"write", "done"}
  BY <1>r, <1>5, <1>6
<1>10. QED
  BY <1>1, <1>7, <1>8, <1>9

\* A request that moves keeps its identity, or gets that of a row or of a principal.
LEMMA IdentityOfRequest ==
  ASSUME TypeOK, ErasureInv, IdentityInv, [Next]_vars, NEW x \in Requests
  PROVE  /\ \/ req'[x].who = None
            \/ req'[x].id = 0
            \/ Known(req'[x].id, req'[x].who)
            \/ InsertApplicant(x)
         /\ req'[x].pc \in {"getUser", "recordRequest"} => req'[x].id = 0
         /\ EmailIsOwn(req[x])'
         /\ ~At(x, "idle") => req'[x].who = req[x].who /\ ~At(x, "idle")'
<1>0. /\ req[x].who # None => Known(req[x].id, req[x].who)
      /\ req[x].pc \in {"getUser", "recordRequest"} => req[x].id = 0
      /\ EmailIsOwn(req[x])
      /\ \A u, e : HasToken(u, e) => HasToken(u, e)'
  BY TokensStay DEF IdentityInv, AuthorityIsCurrent, Known
<1>1. CASE req'[x] = req[x]
  BY <1>0, <1>1 DEF EmailIsOwn, At
<1>2. CASE Quiet(req'[x], req[x])
  <2>1. EmailIsOwn(req[x])'
    <3>1. req'[x].pc \notin {"idle", "getUser", "deleteTx", "recordRequest"}
      BY <1>2 DEF Quiet, Entered
    <3>2. QED
      BY <1>0, <1>2, <3>1 DEF Quiet, EmailIsOwn
  <2>2. QED
    BY <1>0, <1>2, <2>1 DEF Quiet, Entered, At
<1>3. CASE At(x, "idle") /\ Starts(req'[x])
  <2>1. EmailIsOwn(req[x])'
    BY <1>0, <1>3 DEF Starts, EmailIsOwn, Entered
  <2>2. req'[x].who = None \/ req'[x].id = 0 \/ Known(req'[x].id, req'[x].who)
    BY <1>3, PrincipalKnown DEF Starts
  <2>3. QED
    BY <1>3, <2>1, <2>2 DEF Starts, Entered, At
<1>4. CASE InsertApplicant(x)
  BY <1>4, IdentifyingMoves DEF EmailIsOwn, At
<1>5. CASE FindApplicant(x) \/ GetUser(x) \/ ValidateApplication(x)
  <2>1. FindApplicant(x) => req[x].pc = "findApplicant"
    BY DEF FindApplicant, At
  <2>2. GetUser(x) => req[x].pc = "getUser"
    BY DEF GetUser, At
  <2>3. EmailIsOwn(req[x])'
    BY <1>5, IdentifyingMoves DEF EmailIsOwn
  <2>4. QED
    BY <1>0, <1>5, <2>2, <2>3, IdentifyingMoves DEF At
<1>6. QED
  BY <1>1, <1>2, <1>3, <1>4, <1>5, RequestSteps DEF RequestStep

\* A session is the one a registration has just been answered with, or an old one.
LEMMA SessionSteps ==
  ASSUME TypeOK, ErasureInv, IdentityInv, [Next]_vars
  PROVE  \A s \in session' : Known(s.id, s.email)
<1>1. \A s \in session : Known(s.id, s.email)
  BY DEF IdentityInv, AuthorityIsCurrent, Known
<1>2. ASSUME NEW r \in Requests, Respond(r) PROVE \A s \in session' : Known(s.id, s.email)
  <2> DEFINE row == [id |-> req[r].id, email |-> req[r].email]
  <2>1. session' = session \/ (session' = session \cup {row} /\ req[r].op \in RegisterOps)
    BY <1>2 DEF Respond
  <2>2. ASSUME req[r].op \in RegisterOps PROVE req[r].who # None /\ req[r].who = row.email
    <3>1. req[r].email \in Emails /\ req[r].email = req[r].who
      BY <1>2, <2>2 DEF Respond, At, TypeOK, LocalsAssigned, IdentityInv, EmailIsOwn
    <3>2. QED
      BY <3>1, IdAssumption
  <2>3. req[r].who # None /\ req[r].who = row.email => Known(row.id, row.email)
    BY DEF IdentityInv, AuthorityIsCurrent, Known
  <2> HIDE DEF row
  <2>4. QED
    BY <1>1, <2>1, <2>2, <2>3
<1>3. session' \subseteq session \/ \E r \in Requests : Respond(r)
  <2>1. ASSUME NEW r \in Requests, Registering(r) PROVE session' = session
    BY <2>1 DEF Registering, StartRegister, StartRegisterWithJwt, Issue, CreateUser,
                InsertConflict, SendWelcome, InsertApplicant, tables
  <2>2. ASSUME NEW r \in Requests, Deleting(r) PROVE session' = session
    <3>1. CASE \/ \E t \in jwt : StartDeleteMe(r, t)
               \/ \E i \in ApplicantIds : StartDeleteForce(r, i)
      BY <3>1 DEF StartDeleteMe, StartDeleteForce, Issue, tables
    <3>2. CASE FindApplicant(r) \/ RowAlreadyGone(r) \/ GetUser(r) \/ UsersDeleted(r)
      BY <3>2 DEF FindApplicant, RowAlreadyGone, GetUser, UsersDeleted, tables
    <3>3. CASE \/ DeleteById(r) \/ ListByEmail(r) \/ ListResumes(r) \/ DeleteObjects(r)
               \/ NotifyDeletion(r) \/ \E u \in Auth0Ids : DeleteListed(r, u)
      BY <3>3 DEF DeleteById, ListByEmail, ListResumes, DeleteObjects, NotifyDeletion,
                  DeleteListed, tables
    <3>4. CASE CommitDeletion(r) \/ DeleteRow(r) \/ RecordRequest(r)
      BY <3>4 DEF CommitDeletion, DeleteRow, RecordRequest
    <3>5. QED
      BY <2>2, <3>1, <3>2, <3>3, <3>4 DEF Deleting
  <2>3. ASSUME NEW r \in Requests, Applying(r) PROVE session' = session
    BY <2>3 DEF Applying, StartCreateUpload, StartCompleteUpload, StartApplication, StartPause,
                StartRelink, Issue, ValidateApplication, NotifySubmission, InsertUpload,
                SetUploadStatus, CreateSubmission, UpdateSubmission, UpsertDraft, PauseApplicant,
                UpdateAuth0Id, tables
  <2>4. CASE \/ UNCHANGED vars
             \/ \E r \in Requests : Fail(r)
             \/ \E u \in Auth0Ids, e \in Emails \cup {None} : SocialSignUp(u, e)
             \/ \E k \in Key : PutObject(k)
    BY <2>4 DEF vars, Fail, SocialSignUp, PutObject, tables
  <2>5. ASSUME NEW s \in session, SessionExpires(s) PROVE session' \subseteq session
    BY <2>5 DEF SessionExpires
  <2>6. QED
    BY <2>1, <2>2, <2>3, <2>4, <2>5 DEF Next
<1>4. QED
  BY <1>1, <1>2, <1>3

\* A deletion is recorded under the e-mail of the request that asks for it.
LEMMA RecordSteps ==
  ASSUME TypeOK, ErasureInv, IdentityInv, [Next]_vars
  PROVE  \A d \in deletionRequests' :
           /\ ~At(d.by, "idle")'
           /\ req'[d.by].who # None => d.email = req'[d.by].who
<1>0. /\ \A d \in deletionRequests : /\ d.by \in Requests /\ ~At(d.by, "idle")
                                     /\ req[d.by].who # None => d.email = req[d.by].who
      /\ \A x \in Requests : ~At(x, "idle") => req'[x].who = req[x].who /\ ~At(x, "idle")'
  BY IdentityOfRequest DEF TypeOK, DeletionRequestRow, IdentityInv, AuthorityIsCurrent
<1>1. ASSUME NEW r \in Requests, CommitDeletion(r) \/ RecordRequest(r)
      PROVE  \A d \in deletionRequests' : \/ d \in deletionRequests
                                          \/ d.by = r /\ req[r].who \in {d.email, None}
  <2> DEFINE row(i) == [applicantId |-> i, email |-> req[r].email, by |-> r]
  <2>1. \E i : deletionRequests' = deletionRequests \cup {row(i)}
    BY <1>1 DEF CommitDeletion, RecordRequest
  <2>2. req[r].who \in {req[r].email, None}
    BY <1>1 DEF CommitDeletion, RecordRequest, At, IdentityInv, EmailIsOwn
  <2>3. \A i : row(i).by = r /\ row(i).email = req[r].email
    OBVIOUS
  <2> HIDE DEF row
  <2>4. QED
    BY <2>1, <2>2, <2>3
<1>2. ASSUME NEW r \in Requests, CommitDeletion(r) \/ RecordRequest(r) PROVE ~At(r, "idle")
  BY <1>2 DEF CommitDeletion, RecordRequest, At
<1>3. deletionRequests' = deletionRequests
        \/ \E r \in Requests : CommitDeletion(r) \/ RecordRequest(r)
  BY DatabaseSteps, ZenonT(30) DEF Unchanged, InsertApplicant, DeleteRow, InsertUpload,
       SetUploadStatus, CreateSubmission, UpdateSubmission, UpsertDraft, PauseApplicant,
       UpdateAuth0Id
<1>4. QED
  BY <1>0, <1>1, <1>2, <1>3

\* No step of the API gives an id to a second person.
LEMMA IdentityStep ==
  ASSUME TypeOK, ErasureInv, IdentityInv, [Next]_vars
  PROVE  IdentityInv'
<1>0. /\ \A a \in applicant' : a.id \in Nat /\ a.id # 0
      /\ \A r \in Requests : req'[r].id \in Nat
      /\ \A s \in session' : s.id \in Nat
  <2>0. TypeOK'
    BY NextType
  <2>1. ApplicantIds \cup {0} \subseteq Nat /\ 0 \notin ApplicantIds
    BY IdAssumption
  <2>2. \A a \in applicant' : a.id \in ApplicantIds
    BY <2>0 DEF TypeOK, ApplicantRow
  <2>3. \A s \in session' : s.id \in ApplicantIds
    BY <2>0 DEF TypeOK, SessionRow
  <2>4. \A r \in Requests : req'[r].id \in ApplicantIds \cup {0}
    BY <2>0 DEF TypeOK, Request
  <2>5. QED
    BY <2>1, <2>2, <2>3, <2>4
<1>1. ASSUME NEW i \in Nat, NEW e, Known(i, e)
      PROVE  i <= lastApplicantId' /\ \A a \in applicant' : a.id = i => a.email = e
  BY <1>0, <1>1, RowSteps DEF Known
<1>2. ASSUME NEW x \in Requests, InsertApplicant(x)
      PROVE  req'[x].id <= lastApplicantId' /\
             \A a \in applicant' : a.id = req'[x].id => a.email = req'[x].who
  <2> DEFINE label == IF req[x].op = "register" THEN "welcome" ELSE "respond"
             row(i) == [id |-> i, email |-> req[x].email, auth0Id |-> req[x].sub, isPaused |-> FALSE]
  <2>1. PICK i \in FreshApplicantIds :
          /\ applicant' = applicant \cup {row(i)}
          /\ lastApplicantId' = i
          /\ req' = [req EXCEPT ![x] = [@ EXCEPT !.pc = label, !.id = i]]
    BY <1>2 DEF InsertApplicant
  <2>2. req'[x].id = i /\ req'[x].email = req[x].email
    <3> HIDE DEF label
    <3> QED BY <2>1 DEF TypeOK, Request
  <2>3. row(i).id = i /\ row(i).email = req[x].email
    OBVIOUS
  <2>4. \A a \in applicant : a.id <= lastApplicantId /\ a.id \in Nat
    BY <1>0, <2>1 DEF ErasureInv, ApplicantsNumbered
  <2>5. i > lastApplicantId /\ lastApplicantId \in Nat /\ i \in Nat
    BY <2>1, RowSteps DEF FreshApplicantIds
  <2>6. \A a \in applicant : a.id # i
    BY <2>4, <2>5
  <2>7. req'[x].who = req'[x].email
    BY <1>2, IdentifyingMoves
  <2> HIDE DEF row
  <2>8. QED
    BY <2>1, <2>2, <2>3, <2>5, <2>6, <2>7
<1>3. \A x \in Requests, a \in applicant' :
        req'[x].who # None /\ req'[x].id = a.id => req'[x].who = a.email
  BY <1>0, <1>1, <1>2, IdentityOfRequest
<1>4. \A x \in Requests : req'[x].who # None => req'[x].id <= lastApplicantId'
  BY <1>0, <1>1, <1>2, IdentityOfRequest, RowSteps
<1>5. \A s \in session' : /\ s.id <= lastApplicantId'
                          /\ \A a \in applicant' : s.id = a.id => s.email = a.email
  BY <1>0, <1>1, SessionSteps
<1>6. \A x \in Requests : /\ req'[x].pc \in {"getUser", "recordRequest"} => req'[x].id = 0
                          /\ EmailIsOwn(req[x])'
  BY IdentityOfRequest
<1>7. \A d \in deletionRequests' :
        /\ ~At(d.by, "idle")'
        /\ req'[d.by].who # None => d.email = req'[d.by].who
  BY RecordSteps
<1>8. UserIdsKept'
  BY UserIdsStep DEF IdentityInv
<1>9. QED
  BY <1>3, <1>4, <1>5, <1>6, <1>7, <1>8 DEF IdentityInv, AuthorityIsCurrent

\* A request acts for the person whose token or session authenticated it: the id it
\* carries is never another person's, however long ago it was given and whatever has
\* been deleted since, and the deletion it records is of that person.
THEOREM AuthorityCorrect == Spec => []AuthorityIsCurrent
<1>1. TypeOK /\ ErasureInv /\ IdentityInv /\ [Next]_vars => IdentityInv'
  BY IdentityStep
<1>2. IdentityInv => AuthorityIsCurrent
  BY DEF IdentityInv
<1>3. QED
  BY <1>1, <1>2, IdentityInit, ErasureCorrect, TypeCorrect, PTL DEF Spec

\* The database a deployment starts with is safe.
LEMMA SafetyInit == Init => SafetyInv
BY InitType, ErasureInit, ResumeInit, IdentityInit DEF SafetyInv

\* One step of the API keeps the whole of it.
LEMMA SafetyStep == SafetyInv /\ [Next]_vars => SafetyInv'
BY NextType, ErasureStep, UploadSteps, ValidatedStep, AttachedStep, IdentityStep
   DEF SafetyInv, ResumeInv

\* The whole invariant: what TLC evaluates in every state of a small instance holds
\* in every reachable state of any.
THEOREM SafetyCorrect == Spec => []SafetyInv
BY SafetyInit, SafetyStep, PTL DEF Spec
=============================================================================
