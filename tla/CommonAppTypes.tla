--------------------------- MODULE CommonAppTypes ---------------------------
(***************************************************************************)
(* Type correctness of the API: every step of every handler keeps TypeOK.  *)
(***************************************************************************)
EXTENDS CommonAppApi, TLAPS

-----------------------------------------------------------------------------
(* How requests change *)

\* Type correctness of the requests alone: the part of TypeOK a handler's
\* local variables are responsible for.
RequestsOK == /\ req \in [Requests -> Request]
              /\ \A r \in Requests : LocalsAssigned(req[r])

\* Every label in use is one of Labels.
LEMMA LabelType ==
  /\ RegisterLabels \cup DeletionLabels \cup IdLabels \subseteq Labels
  /\ {"idle", "getUser", "setAuth0Id", "respond", "done"} \subseteq Labels
BY DEF RegisterLabels, DeletionLabels, IdLabels, Labels

\* The literals the handlers answer with are statuses.
LEMMA StatusType == {0, 200, 400, 404, 409, 500} \subseteq Statuses /\ "REQUESTED" \in UploadStatus
BY DEF Statuses, UploadStatus

\* Each update a step makes to a well-typed request, with values of the right
\* types, leaves it well typed.
LEMMA MoveType ==
  ASSUME NEW q \in Request, NEW pc \in Labels
  PROVE  /\ [q EXCEPT !.pc = pc] \in Request
         /\ \A e \in Emails \cup Auth0Ids : [q EXCEPT !.pc = pc, !.email = e] \in Request
         /\ \A u \in Auth0Ids : [q EXCEPT !.pc = pc, !.sub = u] \in Request
         /\ \A i \in ApplicantIds : [q EXCEPT !.pc = pc, !.id = i] \in Request
         /\ \A n \in UploadIds : [q EXCEPT !.pc = pc, !.up = n] \in Request
         /\ \A v \in SUBSET Auth0Ids : [q EXCEPT !.pc = pc, !.victims = v] \in Request
         /\ \A k \in SUBSET Key : [q EXCEPT !.pc = pc, !.keys = k] \in Request
<1> DEFINE p == [q EXCEPT !.pc = pc]
<1>1. p \in Request
  BY DEF Request
<1>2. /\ \A e \in Emails \cup Auth0Ids : [p EXCEPT !.email = e] \in Request
      /\ \A u \in Auth0Ids : [p EXCEPT !.sub = u] \in Request
      /\ \A i \in ApplicantIds : [p EXCEPT !.id = i] \in Request
  <2> HIDE DEF p
  <2> QED BY <1>1 DEF Request
<1>3. /\ \A n \in UploadIds : [p EXCEPT !.up = n] \in Request
      /\ \A v \in SUBSET Auth0Ids : [p EXCEPT !.victims = v] \in Request
      /\ \A k \in SUBSET Key : [p EXCEPT !.keys = k] \in Request
  <2> HIDE DEF p
  <2> QED BY <1>1 DEF Request
<1>4. QED
  BY <1>1, <1>2, <1>3

\* The row found by findUniqueOrThrow fills two locals at once.
LEMMA FoundType ==
  ASSUME NEW q \in Request, NEW pc \in Labels, NEW e \in Emails, NEW u \in Auth0Ids
  PROVE  [q EXCEPT !.pc = pc, !.email = e, !.sub = u] \in Request
<1> DEFINE p == [q EXCEPT !.pc = pc, !.email = e]
<1>1. p \in Request
  BY MoveType
<1>2. [p EXCEPT !.sub = u] \in Request
  <2> HIDE DEF p
  <2> QED BY <1>1 DEF Request
<1>3. QED
  BY <1>2

\* A refused or failed request is well typed (Reject, Fail).
LEMMA RejectType ==
  ASSUME NEW q \in Request, NEW s \in Statuses
  PROVE  /\ [q EXCEPT !.pc = "done", !.status = s] \in Request
         /\ [q EXCEPT !.pc = "done", !.status = s, !.keys = {}] \in Request
<1> DEFINE p == [q EXCEPT !.pc = "done"]
           p2 == [p EXCEPT !.status = s]
<1>1. p \in Request
  BY LabelType, MoveType
<1>2. p2 \in Request
  <2> HIDE DEF p
  <2> QED BY <1>1 DEF Request
<1>3. [p2 EXCEPT !.keys = {}] \in Request
  <2> HIDE DEF p2
  <2> QED BY <1>2 DEF Request
<1>4. QED
  BY <1>2, <1>3

\* Answering with an error keeps the requests well typed.
LEMMA RejectOK ==
  ASSUME RequestsOK, NEW r \in Requests, NEW s \in Statuses, Reject(r, s)
  PROVE  RequestsOK'
<1>1. [req[r] EXCEPT !.pc = "done", !.status = s, !.keys = {}] \in Request
  <2>1. req[r] \in Request 
    BY DEF RequestsOK
  <2>2. QED
    BY <2>1, RejectType
<1>2. req' \in [Requests -> Request]
  BY <1>1 DEF Reject, RequestsOK
<1>3. \A x \in Requests : LocalsAssigned(req'[x])
  BY DEF Reject, RequestsOK, LocalsAssigned, RegisterLabels, DeletionLabels, IdLabels
<1>4. QED
  BY <1>2, <1>3 DEF RequestsOK

\* Issuing a request with well-typed locals keeps the types.
LEMMA IssueOK ==
  ASSUME TypeOK, NEW r \in Requests, NEW op, NEW first \in Request,
         Issue(r, op, first), LocalsAssigned(first)
  PROVE  TypeOK'
<1>1. req' = [req EXCEPT ![r] = first]
  BY DEF Issue
<1>2. req' \in [Requests -> Request] /\ \A x \in Requests : LocalsAssigned(req'[x])
  BY <1>1 DEF TypeOK
<1>3. QED
  BY <1>2 DEF Issue, TypeOK, tables, services

\* The blank request is well typed.
LEMMA NoRequestType == NoRequest \in Request
BY LabelType, StatusType DEF NoRequest, Request

\* The locals each kind of request starts with are well typed.
LEMMA StartType ==
  ASSUME NEW op \in Ops, NEW pc \in Labels
  PROVE  /\ \A e \in Emails, s \in Statuses :
              [NoRequest EXCEPT !.op = op, !.pc = pc, !.email = e, !.status = s] \in Request
         /\ \A e \in Emails :
              [NoRequest EXCEPT !.op = op, !.pc = pc, !.who = e, !.email = e] \in Request
         /\ \A e \in Emails, u \in Auth0Ids :
              [NoRequest EXCEPT !.op = op, !.pc = pc, !.who = e, !.email = e,
                                !.sub = u] \in Request
         /\ \A w \in Emails \cup {None}, u \in Auth0Ids :
              [NoRequest EXCEPT !.op = op, !.pc = pc, !.who = w, !.sub = u] \in Request
         /\ \A w \in Emails \cup {None}, i \in ApplicantIds :
              [NoRequest EXCEPT !.op = op, !.pc = pc, !.who = w, !.id = i] \in Request
         /\ \A u \in Auth0Ids :
              [NoRequest EXCEPT !.op = op, !.pc = pc, !.sub = u] \in Request
         /\ \A i \in ApplicantIds :
              [NoRequest EXCEPT !.op = op, !.pc = pc, !.id = i] \in Request
         /\ \A i \in ApplicantIds, w \in Emails \cup {None} :
              [NoRequest EXCEPT !.op = op, !.pc = pc, !.id = i, !.who = w] \in Request
         /\ \A i \in ApplicantIds, w \in Emails \cup {None}, n \in UploadIds \cup {0} :
              [NoRequest EXCEPT !.op = op, !.pc = pc, !.id = i, !.who = w,
                                !.up = n] \in Request
         /\ \A i \in ApplicantIds, w \in Emails \cup {None}, n \in UploadIds,
               st \in UploadStatus :
              [NoRequest EXCEPT !.op = op, !.pc = pc, !.id = i, !.who = w,
                                !.up = n, !.upStatus = st] \in Request
<1> DEFINE p1 == [NoRequest EXCEPT !.op = op]
           p2 == [p1 EXCEPT !.pc = pc]
<1>1. p1 \in Request
  BY NoRequestType DEF Request
<1>2. p2 \in Request
  <2> HIDE DEF p1
  <2> QED BY <1>1 DEF Request
<1>3. ASSUME NEW e \in Emails, NEW s \in Statuses
      PROVE  [p2 EXCEPT !.email = e, !.status = s] \in Request
  <2> DEFINE p3 == [p2 EXCEPT !.email = e]
  <2>1. p3 \in Request
    <3> HIDE DEF p2
    <3> QED BY <1>2 DEF Request
  <2>2. [p3 EXCEPT !.status = s] \in Request
    <3> HIDE DEF p3
    <3> QED BY <2>1 DEF Request
  <2>3. QED
    BY <2>2
<1>4. ASSUME NEW w \in Emails \cup {None}
      PROVE  /\ \A u \in Auth0Ids : [p2 EXCEPT !.who = w, !.sub = u] \in Request
             /\ \A i \in ApplicantIds : [p2 EXCEPT !.who = w, !.id = i] \in Request
             /\ \A e \in Emails : [p2 EXCEPT !.who = w, !.email = e] \in Request
             /\ \A e \in Emails, u \in Auth0Ids :
                  [p2 EXCEPT !.who = w, !.email = e, !.sub = u] \in Request
  <2> DEFINE p3 == [p2 EXCEPT !.who = w]
             p4(e) == [p3 EXCEPT !.email = e]
  <2>1. p3 \in Request
    <3> HIDE DEF p2
    <3> QED BY <1>2 DEF Request
  <2>2. /\ \A u \in Auth0Ids : [p3 EXCEPT !.sub = u] \in Request
        /\ \A i \in ApplicantIds : [p3 EXCEPT !.id = i] \in Request
        /\ \A e \in Emails : p4(e) \in Request
    <3> HIDE DEF p3
    <3> QED BY <2>1 DEF Request
  <2>3. \A e \in Emails, u \in Auth0Ids : [p4(e) EXCEPT !.sub = u] \in Request
    <3> HIDE DEF p4
    <3> QED BY <2>2 DEF Request
  <2>4. QED
    BY <2>2, <2>3
<1>5. ASSUME NEW u \in Auth0Ids PROVE [p2 EXCEPT !.sub = u] \in Request
  <2> HIDE DEF p2
  <2> QED BY <1>2 DEF Request
<1>6. ASSUME NEW i \in ApplicantIds
      PROVE  /\ [p2 EXCEPT !.id = i] \in Request
             /\ \A w \in Emails \cup {None} : [p2 EXCEPT !.id = i, !.who = w] \in Request
             /\ \A w \in Emails \cup {None}, n \in UploadIds \cup {0} :
                  [p2 EXCEPT !.id = i, !.who = w, !.up = n] \in Request
             /\ \A w \in Emails \cup {None}, n \in UploadIds, st \in UploadStatus :
                  [p2 EXCEPT !.id = i, !.who = w, !.up = n, !.upStatus = st] \in Request
  <2> DEFINE p3 == [p2 EXCEPT !.id = i]
             p4(w) == [p3 EXCEPT !.who = w]
             p5(w, n) == [p4(w) EXCEPT !.up = n]
             p6(w, n, st) == [p5(w, n) EXCEPT !.upStatus = st]
  <2>1. p3 \in Request
    <3> HIDE DEF p2
    <3> QED BY <1>2 DEF Request
  <2>2. \A w \in Emails \cup {None} : p4(w) \in Request
    <3> HIDE DEF p3
    <3> QED BY <2>1 DEF Request
  <2>3. \A w \in Emails \cup {None}, n \in UploadIds \cup {0} : p5(w, n) \in Request
    <3> HIDE DEF p4
    <3> QED BY <2>2 DEF Request
  <2>4. \A w \in Emails \cup {None}, n \in UploadIds, st \in UploadStatus :
          p6(w, n, st) \in Request
    <3> HIDE DEF p5
    <3> QED BY <2>3 DEF Request
  <2>5. QED
    BY <2>1, <2>2, <2>3, <2>4
<1>7. QED
  BY <1>3, <1>4, <1>5, <1>6

-----------------------------------------------------------------------------
(* The handlers *)

\* A step that moves one request to well-typed locals keeps the requests well typed.
LEMMA StepOK ==
  ASSUME RequestsOK, NEW r \in Requests, NEW q \in Request, LocalsAssigned(q),
         req' = [req EXCEPT ![r] = q]
  PROVE  RequestsOK'
BY DEF RequestsOK

\* The same for a step that only moves the pc.
LEMMA GotoOK ==
  ASSUME RequestsOK, NEW r \in Requests, NEW pc \in Labels, Goto(r, pc),
         LocalsAssigned([req[r] EXCEPT !.pc = pc])
  PROVE  RequestsOK'
<1>1. req[r] \in Request
  BY DEF RequestsOK
<1>2. [req[r] EXCEPT !.pc = pc] \in Request
  BY <1>1, MoveType
<1>3. QED
  BY <1>2, StepOK DEF Goto

\* Every step of a registration keeps the types.
LEMMA RegisteringType ==
  ASSUME TypeOK, NEW r \in Requests, Registering(r)
  PROVE  TypeOK'
<1> USE DEF RegisterLabels, DeletionLabels, IdLabels, RegisterOps
<1>0. RequestsOK /\ req[r] \in Request /\ LocalsAssigned(req[r])
  BY DEF TypeOK, RequestsOK
<1>l. {"insert", "createUser", "welcome", "respond", "done"} \subseteq Labels /\ {400, 409} \subseteq Statuses
  BY DEF Labels, Statuses
<1>1. ASSUME NEW e \in Emails, StartRegister(r, e) PROVE TypeOK'
  <2> DEFINE op == "register"
             done == "done"
             next == "createUser"
             st == 409
             refused == [NoRequest EXCEPT !.op = op, !.pc = done, !.email = e, !.status = st]
             first == [NoRequest EXCEPT !.op = op, !.pc = next, !.who = e, !.email = e]
  <2>1. op \in Ops /\ done \in Labels /\ next \in Labels /\ st \in Statuses
    BY <1>1, <1>l DEF StartRegister, Issue
  <2>2. LocalsAssigned(refused) /\ LocalsAssigned(first)
    BY NoRequestType, IdAssumption DEF LocalsAssigned, NoRequest
  <2>3. refused \in Request /\ first \in Request
    <3> HIDE DEF op, done, next, st
    <3> QED BY <2>1, StartType
  <2> HIDE DEF first, refused
  <2>4. QED
    BY <1>1, <2>2, <2>3, IssueOK DEF StartRegister, first, refused
<1>2. ASSUME NEW t \in jwt, NEW e \in Emails, StartRegisterWithJwt(r, t, e) PROVE TypeOK'
  <2> DEFINE op == "registerWithJwt"
             done == "done"
             next == "insert"
             st == 400
             u == t.user_id
             refused == [NoRequest EXCEPT !.op = op, !.pc = done, !.email = e, !.status = st]
             first == [NoRequest EXCEPT !.op = op, !.pc = next, !.who = e, !.email = e,
                                        !.sub = u]
  <2>1. op \in Ops /\ done \in Labels /\ next \in Labels /\ st \in Statuses /\ u \in Auth0Ids
    BY <1>2, <1>l DEF StartRegisterWithJwt, Issue, TypeOK, Auth0User
  <2>2. LocalsAssigned(refused) /\ LocalsAssigned(first)
    <3> HIDE DEF u
    <3> QED BY <2>1, NoRequestType, IdAssumption DEF LocalsAssigned, NoRequest
  <2>3. refused \in Request /\ first \in Request
    <3> HIDE DEF op, done, next, st, u
    <3> QED BY <2>1, StartType
  <2> HIDE DEF first, refused
  <2>4. QED
    BY <1>2, <2>2, <2>3, IssueOK DEF StartRegisterWithJwt, first, refused
<1>3. ASSUME CreateUser(r) PROVE TypeOK'
  <2>1. CASE Reject(r, 409) /\ UNCHANGED services
    <3>1. RequestsOK'
      BY <2>1, <1>0, <1>l, RejectOK
    <3>2. QED
      BY <3>1, <2>1, <1>3 DEF CreateUser, TypeOK, RequestsOK, tables, services
  <2>2. ASSUME NEW u \in Auth0Ids,
               auth0' = auth0 \cup {[user_id |-> u, email |-> req[r].email, connection |-> "password"]},
               jwt' = jwt \cup {[user_id |-> u, email |-> req[r].email, connection |-> "password"]},
               req' = [req EXCEPT ![r] = [@ EXCEPT !.pc = "insert", !.sub = u]],
               UNCHANGED <<bucket, mail, missed>>
        PROVE  TypeOK'
    <3> DEFINE q == [req[r] EXCEPT !.pc = "insert", !.sub = u]
    <3>1. q \in Request
      BY <1>0, <1>l, MoveType
    <3>2. LocalsAssigned(q) /\ req[r].email \in Emails
      BY <1>0, <1>3, IdAssumption DEF LocalsAssigned, CreateUser, At, Request
    <3>3. RequestsOK'
      <4> HIDE DEF q
      <4> QED BY <1>0, <3>1, <3>2, <2>2, StepOK DEF q
    <3>4. [user_id |-> u, email |-> req[r].email, connection |-> "password"] \in Auth0User
      BY <3>2 DEF Auth0User
    <3>5. QED
      BY <3>3, <3>4, <2>2, <1>3 DEF CreateUser, TypeOK, RequestsOK, tables
  <2>3. QED
    BY <1>3, <2>1, <2>2 DEF CreateUser
<1>4. ASSUME InsertApplicant(r) PROVE TypeOK'
  <2> DEFINE label == IF req[r].op = "register" THEN "welcome" ELSE "respond"
             row(i) == [id |-> i, email |-> req[r].email, auth0Id |-> req[r].sub, isPaused |-> FALSE]
  <2>1. PICK i \in ApplicantIds : /\ applicant' = applicant \cup {row(i)}
                                  /\ lastApplicantId' = i
                                  /\ req' = [req EXCEPT ![r] = [@ EXCEPT !.pc = label, !.id = i]]
    BY <1>4 DEF InsertApplicant, FreshApplicantIds
  <2> DEFINE q == [req[r] EXCEPT !.pc = label, !.id = i]
  <2>2. label \in Labels
    BY <1>l
  <2>3. q \in Request
    <3> HIDE DEF label
    <3> QED BY <2>2, <1>0, MoveType
  <2>4. req[r].email \in Emails /\ req[r].sub \in Auth0Ids /\ i # 0
    BY <1>0, <1>4, IdAssumption DEF LocalsAssigned, InsertApplicant, At, Request
  <2>5. LocalsAssigned(q)
    BY <1>0, <1>4, <2>4 DEF LocalsAssigned, InsertApplicant, At, Request
  <2>6. RequestsOK'
    <3> HIDE DEF q
    <3> QED BY <1>0, <2>3, <2>5, <2>1, StepOK DEF q
  <2>7. row(i) \in ApplicantRow
    BY <2>4 DEF ApplicantRow
  <2>8. QED
    BY <2>6, <2>7, <2>1, <1>4 DEF InsertApplicant, TypeOK, RequestsOK, services
<1>5. ASSUME InsertConflict(r) PROVE TypeOK'
  <2>1. RequestsOK'
    BY <1>5, <1>0, <1>l, RejectOK DEF InsertConflict
  <2>2. QED
    BY <2>1, <1>5 DEF InsertConflict, TypeOK, RequestsOK, tables, services
<1>6. ASSUME SendWelcome(r) PROVE TypeOK'
  <2> DEFINE m == [kind |-> "welcome", to |-> req[r].email, id |-> req[r].id, by |-> r]
  <2>1. m \in Mail
    BY <1>0, <1>6 DEF LocalsAssigned, SendWelcome, At, Request, Mail
  <2>2. LocalsAssigned([req[r] EXCEPT !.pc = "respond"])
    BY <1>0, <1>6 DEF LocalsAssigned, SendWelcome, At, Request
  <2>3. RequestsOK'
    BY <1>0, <1>6, <1>l, <2>2, GotoOK DEF SendWelcome
  <2>4. QED
    BY <2>1, <2>3, <1>6 DEF SendWelcome, TypeOK, RequestsOK, tables
<1>7. QED
  BY <1>1, <1>2, <1>3, <1>4, <1>5, <1>6 DEF Registering

\* Every step of a deletion keeps the types.
LEMMA DeletingType ==
  ASSUME TypeOK, NEW r \in Requests, Deleting(r)
  PROVE  TypeOK'
<1> USE DEF RegisterLabels, DeletionLabels, IdLabels, RegisterOps
<1>0. RequestsOK /\ req[r] \in Request /\ LocalsAssigned(req[r])
  BY DEF TypeOK, RequestsOK
<1>l. {"findApplicant", "deleteTx", "deleteRow", "getUser", "recordRequest", "deleteById",
       "listByEmail", "deleteListed", "listResumes", "deleteObjects", "notify", "respond",
       "done"} \subseteq Labels
  BY DEF Labels
<1>s. 400 \in Statuses /\ 500 \in Statuses
  BY DEF Statuses
<1>1. ASSUME NEW t \in jwt, StartDeleteMe(r, t) PROVE TypeOK'
  <2> DEFINE op == "deleteMe"
             find == "findApplicant"
             get == "getUser"
             u == t.user_id
             w == t.email
             row(i) == [NoRequest EXCEPT !.op = op, !.pc = find, !.who = w, !.id = i]
             only == [NoRequest EXCEPT !.op = op, !.pc = get, !.who = w, !.sub = u]
  <2>1. /\ op \in Ops /\ find \in Labels /\ get \in Labels
        /\ u \in Auth0Ids /\ w \in Emails \cup {None}
    BY <1>1, <1>l DEF StartDeleteMe, Issue, TypeOK, Auth0User
  <2>2. LocalsAssigned(only) /\ \A i \in ApplicantIds : LocalsAssigned(row(i))
    <3> HIDE DEF u, w
    <3> QED BY <2>1, NoRequestType, IdAssumption DEF LocalsAssigned, NoRequest
  <2>3. only \in Request /\ \A i \in ApplicantIds : row(i) \in Request
    <3> HIDE DEF op, find, get, u, w
    <3> QED BY <2>1, StartType
  <2>4. \/ \E i \in ApplicantIds : Issue(r, "deleteMe", row(i))
        \/ Issue(r, "deleteMe", only)
    BY <1>1 DEF StartDeleteMe, FoundBy, TypeOK, ApplicantRow
  <2> HIDE DEF row, only
  <2>5. QED
    BY <2>2, <2>3, <2>4, IssueOK
<1>2. ASSUME NEW i \in ApplicantIds, StartDeleteForce(r, i) PROVE TypeOK'
  <2> DEFINE op == "deleteForce"
             find == "findApplicant"
             first == [NoRequest EXCEPT !.op = op, !.pc = find, !.id = i]
  <2>1. op \in Ops /\ find \in Labels
    BY <1>2, <1>l DEF StartDeleteForce, Issue
  <2>2. LocalsAssigned(first)
    BY NoRequestType, IdAssumption DEF LocalsAssigned, NoRequest
  <2>3. first \in Request
    <3> HIDE DEF op, find
    <3> QED BY <2>1, StartType
  <2>4. Issue(r, op, first)
    BY <1>2 DEF StartDeleteForce
  <2> HIDE DEF first, op
  <2>5. QED
    BY <2>2, <2>3, <2>4, IssueOK
<1>3. ASSUME FindApplicant(r) PROVE TypeOK'
  <2> DEFINE label == IF req[r].op = "deleteMe" THEN "deleteTx" ELSE "deleteRow"
             q(a) == [req[r] EXCEPT !.pc = label, !.email = a.email, !.sub = a.auth0Id]
  <2>0. \/ \E a \in Rows(req[r].id) : req' = [req EXCEPT ![r] = q(a)]
        \/ Reject(r, 500)
    BY <1>3 DEF FindApplicant
  <2>1. ASSUME NEW a \in Rows(req[r].id), req' = [req EXCEPT ![r] = q(a)]
        PROVE  RequestsOK'
    <3>1. a.email \in Emails /\ a.auth0Id \in Auth0Ids /\ label \in Labels
      BY <1>l DEF Rows, TypeOK, ApplicantRow
    <3>2. q(a) \in Request
      <4> HIDE DEF label
      <4> QED BY <3>1, <1>0, FoundType
    <3>3. LocalsAssigned(q(a))
      BY <3>1, <1>0, <1>3, IdAssumption DEF LocalsAssigned, FindApplicant, At, Request
    <3> HIDE DEF q
    <3>4. QED
      BY <1>0, <3>2, <3>3, <2>1, StepOK
  <2>2. ASSUME Reject(r, 500) PROVE RequestsOK'
    BY <2>2, <1>0, <1>s, RejectOK
  <2> HIDE DEF q
  <2>3. RequestsOK'
    BY <2>0, <2>1, <2>2
  <2>4. QED
    BY <2>3, <1>3 DEF FindApplicant, TypeOK, RequestsOK, tables, services
<1>4. ASSUME CommitDeletion(r) PROVE TypeOK'
  <2>1. LocalsAssigned([req[r] EXCEPT !.pc = "deleteById"])
    BY <1>0, <1>4 DEF LocalsAssigned, CommitDeletion, At, Request
  <2>2. RequestsOK'
    BY <1>0, <1>4, <1>l, <2>1, GotoOK DEF CommitDeletion
  <2>3. [applicantId |-> req[r].id, email |-> req[r].email, by |-> r] \in DeletionRequestRow
    BY <1>0, <1>4 DEF LocalsAssigned, CommitDeletion, At, Request, DeletionRequestRow
  <2>4. QED
    BY <2>2, <2>3, <1>4 DEF CommitDeletion, DeleteCascade, TypeOK, RequestsOK, services
<1>5. ASSUME DeleteRow(r) PROVE TypeOK'
  <2>1. LocalsAssigned([req[r] EXCEPT !.pc = "listResumes"])
    BY <1>0, <1>5 DEF LocalsAssigned, DeleteRow, At, Request
  <2>2. RequestsOK'
    BY <1>0, <1>5, <1>l, <2>1, GotoOK DEF DeleteRow
  <2>3. QED
    BY <2>2, <1>5 DEF DeleteRow, DeleteCascade, TypeOK, RequestsOK, services
<1>6. ASSUME RowAlreadyGone(r) PROVE TypeOK'
  <2>1. RequestsOK'
    BY <1>6, <1>0, <1>s, RejectOK DEF RowAlreadyGone
  <2>2. QED
    BY <2>1, <1>6 DEF RowAlreadyGone, TypeOK, RequestsOK, tables, services
<1>7. ASSUME GetUser(r) PROVE TypeOK'
  <2> DEFINE q(e) == [req[r] EXCEPT !.pc = "recordRequest", !.email = e]
             name(u) == IF u.email = None THEN u.user_id ELSE u.email
  <2>0. \/ \E u \in auth0 : req' = [req EXCEPT ![r] = q(name(u))]
        \/ Reject(r, 500)
    BY <1>7 DEF GetUser
  <2>1. ASSUME NEW u \in auth0, req' = [req EXCEPT ![r] = q(name(u))]
        PROVE  RequestsOK'
    <3> DEFINE e == name(u)
    <3>1. e \in Emails \cup Auth0Ids
      BY DEF TypeOK, Auth0User
    <3>2. q(e) \in Request
      <4> HIDE DEF e
      <4> QED BY <3>1, <1>0, <1>l, MoveType
    <3>3. LocalsAssigned(q(e))
      <4> HIDE DEF e
      <4> QED BY <3>1, <1>0, <1>7, IdAssumption DEF LocalsAssigned, GetUser, At, Request
    <3> HIDE DEF q
    <3>4. QED
      BY <1>0, <3>2, <3>3, <2>1, StepOK
  <2>2. ASSUME Reject(r, 500) PROVE RequestsOK'
    BY <2>2, <1>0, <1>s, RejectOK
  <2> HIDE DEF q
  <2>3. RequestsOK'
    BY <2>0, <2>1, <2>2
  <2>4. QED
    BY <2>3, <1>7 DEF GetUser, TypeOK, RequestsOK, tables, services
<1>8. ASSUME RecordRequest(r) PROVE TypeOK'
  <2> DEFINE label == IF req[r].email \in Emails THEN "deleteById" ELSE "respond"
  <2>1. LocalsAssigned([req[r] EXCEPT !.pc = label])
    BY <1>0, <1>8 DEF LocalsAssigned, RecordRequest, At, Request
  <2>2. RequestsOK'
    <3>1. Goto(r, label) /\ label \in Labels
      BY <1>8, <1>l DEF RecordRequest
    <3> HIDE DEF label
    <3>2. QED
      BY <3>1, <1>0, <2>1, GotoOK
  <2>3. [applicantId |-> 0, email |-> req[r].email, by |-> r] \in DeletionRequestRow
    BY <1>0, <1>8 DEF LocalsAssigned, RecordRequest, At, Request, DeletionRequestRow
  <2>4. QED
    BY <2>2, <2>3, <1>8 DEF RecordRequest, TypeOK, RequestsOK, services
<1>9. ASSUME DeleteById(r) PROVE TypeOK'
  <2>1. LocalsAssigned([req[r] EXCEPT !.pc = "listByEmail"])
    BY <1>0, <1>9 DEF LocalsAssigned, DeleteById, At, Request
  <2>2. RequestsOK'
    BY <1>0, <1>9, <1>l, <2>1, GotoOK DEF DeleteById
  <2>3. QED
    BY <2>2, <1>9 DEF DeleteById, TypeOK, RequestsOK, tables
<1>10. ASSUME ListByEmail(r) PROVE TypeOK'
  <2> DEFINE v == {u.user_id : u \in {w \in auth0 : w.email = req[r].email}}
             q == [req[r] EXCEPT !.pc = "deleteListed", !.victims = v]
  <2>1. v \in SUBSET Auth0Ids
    BY DEF TypeOK, Auth0User
  <2>2. q \in Request /\ LocalsAssigned(q)
    <3> HIDE DEF v
    <3>1. q \in Request
      BY <2>1, <1>0, <1>l, MoveType
    <3>2. LocalsAssigned(q)
      BY <1>0, <1>10 DEF LocalsAssigned, ListByEmail, At, Request
    <3> QED BY <3>1, <3>2
  <2>3. req' = [req EXCEPT ![r] = q]
    BY <1>10 DEF ListByEmail
  <2>4. RequestsOK'
    <3> HIDE DEF q
    <3> QED BY <1>0, <2>2, <2>3, StepOK
  <2>5. QED
    BY <2>4, <1>10 DEF ListByEmail, TypeOK, RequestsOK, tables, services
<1>11. ASSUME NEW u \in Auth0Ids, DeleteListed(r, u) PROVE TypeOK'
  <2> DEFINE q == [req[r] EXCEPT !.victims = req[r].victims \ {u}]
  <2>1. q \in Request
    BY <1>0 DEF Request
  <2>2. LocalsAssigned(q)
    BY <1>0 DEF LocalsAssigned, Request
  <2>3. req' = [req EXCEPT ![r] = q]
    BY <1>11 DEF DeleteListed
  <2>4. RequestsOK'
    <3> HIDE DEF q
    <3> QED BY <1>0, <2>1, <2>2, <2>3, StepOK
  <2>5. QED
    BY <2>4, <1>11 DEF DeleteListed, TypeOK, RequestsOK, tables
<1>12. ASSUME UsersDeleted(r) PROVE TypeOK'
  <2> DEFINE label == IF req[r].op = "deleteForce" THEN "respond"
                      ELSE IF req[r].id = 0 THEN "notify" ELSE "listResumes"
  <2>1. label \in Labels /\ label \in {"respond", "notify", "listResumes"}
    BY <1>l
  <2>2. LocalsAssigned([req[r] EXCEPT !.pc = label])
    <3> HIDE DEF label
    <3> QED BY <1>0, <1>12, <2>1 DEF LocalsAssigned, UsersDeleted, At, Request
  <2>3. Goto(r, label)
    BY <1>12 DEF UsersDeleted
  <2>4. RequestsOK'
    <3> HIDE DEF label
    <3> QED BY <1>0, <2>1, <2>2, <2>3, GotoOK
  <2>5. QED
    BY <2>4, <1>12 DEF UsersDeleted, TypeOK, RequestsOK, tables, services
<1>13. ASSUME ListResumes(r) PROVE TypeOK'
  <2>0. PICK k \in FirstPages(req[r].id) :
          req' = [req EXCEPT ![r] = [@ EXCEPT !.pc = "deleteObjects", !.keys = k]]
    BY <1>13 DEF ListResumes
  <2> DEFINE q == [req[r] EXCEPT !.pc = "deleteObjects", !.keys = k]
  <2>1. k \in SUBSET Key
    BY DEF TypeOK, FirstPages, ResumeKeys
  <2>2. q \in Request /\ LocalsAssigned(q)
    <3>1. q \in Request
      BY <2>1, <1>0, <1>l, MoveType
    <3>2. LocalsAssigned(q)
      BY <1>0, <1>13 DEF LocalsAssigned, ListResumes, At, Request
    <3> QED BY <3>1, <3>2
  <2>3. req' = [req EXCEPT ![r] = q]
    BY <2>0
  <2>4. RequestsOK'
    <3> HIDE DEF q
    <3> QED BY <1>0, <2>2, <2>3, StepOK
  <2>5. missed' \subseteq Requests \X Key
    <3> DEFINE own == ObjectsOf(req[r].id)
    <3>1. PICK K : missed' = missed \/ missed' = missed \cup ({r} \X (own \ K))
      BY <1>13 DEF ListResumes
    <3>2. own \subseteq Key /\ missed \subseteq Requests \X Key
      BY DEF ObjectsOf, TypeOK
    <3> HIDE DEF own
    <3>3. QED
      BY <3>1, <3>2
  <2>6. QED
    BY <2>4, <2>5, <1>13 DEF ListResumes, TypeOK, RequestsOK, tables
<1>14. ASSUME DeleteObjects(r) PROVE TypeOK'
  <2> DEFINE label == IF req[r].op = "deleteMe" THEN "notify" ELSE "deleteById"
             q == [req[r] EXCEPT !.pc = label, !.keys = {}]
  <2>0. req' = [req EXCEPT ![r] = q] \/ Reject(r, 400)
    BY <1>14 DEF DeleteObjects
  <2>1. ASSUME req' = [req EXCEPT ![r] = q]
        PROVE  RequestsOK'
    <3>1. label \in Labels /\ label \in {"notify", "deleteById"}
      BY <1>l
    <3>2. q \in Request /\ LocalsAssigned(q)
      <4> HIDE DEF label
      <4>1. q \in Request
        BY <3>1, <1>0, MoveType
      <4>2. LocalsAssigned(q)
        BY <3>1, <1>0, <1>14 DEF LocalsAssigned, DeleteObjects, At, Request
      <4> QED BY <4>1, <4>2
    <3> HIDE DEF q
    <3>3. QED
      BY <1>0, <3>2, <2>1, StepOK
  <2>2. ASSUME Reject(r, 400) PROVE RequestsOK'
    BY <2>2, <1>0, <1>s, RejectOK
  <2> HIDE DEF q
  <2>3. RequestsOK'
    BY <2>0, <2>1, <2>2
  <2>4. QED
    BY <2>3, <1>14 DEF DeleteObjects, TypeOK, RequestsOK, tables
<1>15. ASSUME NotifyDeletion(r) PROVE TypeOK'
  <2> DEFINE m == [kind |-> IF req[r].id = 0 THEN "deletionComplete" ELSE "deletion",
                   to |-> req[r].email, id |-> req[r].id, by |-> r]
  <2>1. m \in Mail
    BY <1>0, <1>15 DEF LocalsAssigned, NotifyDeletion, At, Request, Mail
  <2>2. LocalsAssigned([req[r] EXCEPT !.pc = "respond"])
    BY <1>0, <1>15 DEF LocalsAssigned, NotifyDeletion, At, Request
  <2>3. RequestsOK'
    BY <1>0, <1>15, <1>l, <2>2, GotoOK DEF NotifyDeletion
  <2>4. QED
    BY <2>1, <2>3, <1>15 DEF NotifyDeletion, TypeOK, RequestsOK, tables
<1>16. QED
  BY <1>1, <1>2, <1>3, <1>4, <1>5, <1>6, <1>7, <1>8, <1>9, <1>10, <1>11, <1>12,
     <1>13, <1>14, <1>15 DEF Deleting

\* The ids and addresses a request is authenticated with are well typed.
LEMMA PrincipalType ==
  ASSUME TypeOK
  PROVE  /\ JwtPrincipals \subseteq Principals
         /\ \A p \in Principals : p.id \in ApplicantIds /\ p.email \in Emails \cup {None}
BY DEF Principals, JwtPrincipals, FoundBy, TypeOK, ApplicantRow, Auth0User, SessionRow

\* Every step of a registered applicant's requests keeps the types.
LEMMA ApplyingType ==
  ASSUME TypeOK, NEW r \in Requests, Applying(r)
  PROVE  TypeOK'
<1> USE DEF RegisterLabels, DeletionLabels, IdLabels, RegisterOps
<1>0. RequestsOK /\ req[r] \in Request /\ LocalsAssigned(req[r])
  BY DEF TypeOK, RequestsOK
<1>l. {"insertUpload", "setStatus", "validate", "write", "notifySubmit", "setState",
       "setAuth0Id", "respond", "done"} \subseteq Labels
  BY DEF Labels
<1>s. 400 \in Statuses /\ 404 \in Statuses
  BY DEF Statuses
<1>1. ASSUME NEW p \in Principals, StartCreateUpload(r, p) PROVE TypeOK'
  <2> DEFINE op == "createUpload"
             pc == "insertUpload"
             i == p.id
             w == p.email
             first == [NoRequest EXCEPT !.op = op, !.pc = pc, !.id = i, !.who = w]
  <2>1. op \in Ops /\ pc \in Labels /\ i \in ApplicantIds /\ w \in Emails \cup {None}
    BY <1>1, <1>l, PrincipalType DEF StartCreateUpload, Issue
  <2>2. LocalsAssigned(first)
    <3> HIDE DEF i, w
    <3> QED BY <2>1, NoRequestType, IdAssumption DEF LocalsAssigned, NoRequest
  <2>3. first \in Request
    <3> HIDE DEF op, pc, i, w
    <3> QED BY <2>1, StartType
  <2>4. Issue(r, op, first)
    BY <1>1 DEF StartCreateUpload
  <2> HIDE DEF first, op
  <2>5. QED
    BY <2>2, <2>3, <2>4, IssueOK
<1>2. ASSUME InsertUpload(r) PROVE TypeOK'
  <2> DEFINE row(n) == [id |-> n, applicantId |-> req[r].id, status |-> "REQUESTED"]
  <2>1. PICK n \in UploadIds : /\ upload' = upload \cup {row(n)}
                               /\ lastUploadId' = n
                               /\ req' = [req EXCEPT ![r] = [@ EXCEPT !.pc = "respond", !.up = n]]
    BY <1>2 DEF InsertUpload
  <2> DEFINE q == [req[r] EXCEPT !.pc = "respond", !.up = n]
  <2>2. q \in Request
    BY <1>0, <1>l, MoveType
  <2>3. LocalsAssigned(q)
    BY <1>0, <1>2 DEF LocalsAssigned, InsertUpload, At, Request
  <2>4. RequestsOK'
    <3> HIDE DEF q
    <3> QED BY <1>0, <2>2, <2>3, <2>1, StepOK DEF q
  <2>5. row(n) \in UploadRow
    BY <1>0, <1>2 DEF LocalsAssigned, InsertUpload, At, Request, UploadRow, UploadStatus
  <2>6. QED
    BY <2>1, <2>4, <2>5, <1>2 DEF InsertUpload, TypeOK, RequestsOK, services
<1>3. ASSUME NEW p \in Principals, NEW n \in UploadIds, NEW st \in UploadStatus,
             StartCompleteUpload(r, p, n, st)
      PROVE  TypeOK'
  <2> DEFINE op == "completeUpload"
             pc == "setStatus"
             i == p.id
             w == p.email
             first == [NoRequest EXCEPT !.op = op, !.pc = pc, !.id = i, !.who = w,
                                        !.up = n, !.upStatus = st]
  <2>1. op \in Ops /\ pc \in Labels /\ i \in ApplicantIds /\ w \in Emails \cup {None}
    BY <1>3, <1>l, PrincipalType DEF StartCompleteUpload, Issue
  <2>2. LocalsAssigned(first)
    <3> HIDE DEF i, w
    <3> QED BY <2>1, NoRequestType, IdAssumption DEF LocalsAssigned, NoRequest
  <2>3. first \in Request
    <3> HIDE DEF op, pc, i, w
    <3> QED BY <2>1, StartType
  <2>4. Issue(r, op, first)
    BY <1>3 DEF StartCompleteUpload
  <2> HIDE DEF first, op
  <2>5. QED
    BY <2>2, <2>3, <2>4, IssueOK
<1>4. ASSUME SetUploadStatus(r) PROVE TypeOK'
  <2>1. RequestsOK'
    <3>1. CASE Goto(r, "respond")
      <4>1. LocalsAssigned([req[r] EXCEPT !.pc = "respond"])
        BY <1>0, <1>4 DEF LocalsAssigned, SetUploadStatus, At, Request
      <4>2. QED
        BY <3>1, <4>1, <1>0, <1>l, GotoOK
    <3>2. CASE Reject(r, 400)
      BY <3>2, <1>0, <1>s, RejectOK
    <3>3. QED
      BY <3>1, <3>2, <1>4 DEF SetUploadStatus
  <2>2. upload' \subseteq UploadRow
    <3> DEFINE st == req[r].upStatus
    <3>1. Completable(r) \subseteq upload /\ upload \subseteq UploadRow /\ st \in UploadStatus
      BY <1>0 DEF Completable, ResumeOf, TypeOK, Request
    <3>2. \A u \in UploadRow : [u EXCEPT !.status = st] \in UploadRow
      <4> HIDE DEF st
      <4> QED BY <3>1 DEF UploadRow
    <3>3. \/ upload' = upload
          \/ upload' = (upload \ Completable(r)) \cup {[u EXCEPT !.status = st] : u \in Completable(r)}
      BY <1>4 DEF SetUploadStatus
    <3> HIDE DEF st
    <3>4. QED
      BY <3>1, <3>2, <3>3
  <2>3. QED
    BY <2>1, <2>2, <1>4 DEF SetUploadStatus, TypeOK, RequestsOK, services
<1>5. ASSUME NEW op \in {"draft", "createSubmission", "updateSubmission"},
             NEW p \in Principals, NEW n \in UploadIds \cup {0}, StartApplication(r, op, p, n)
      PROVE  TypeOK'
  <2> DEFINE pc == "validate"
             i == p.id
             w == p.email
             first == [NoRequest EXCEPT !.op = op, !.pc = pc, !.id = i, !.who = w, !.up = n]
  <2>1. op \in Ops /\ pc \in Labels /\ i \in ApplicantIds /\ w \in Emails \cup {None}
    BY <1>5, <1>l, PrincipalType DEF StartApplication, Issue
  <2>2. LocalsAssigned(first)
    <3> HIDE DEF i, w
    <3> QED BY <2>1, NoRequestType, IdAssumption DEF LocalsAssigned, NoRequest
  <2>3. first \in Request
    <3> HIDE DEF pc, i, w
    <3> QED BY <2>1, StartType
  <2>4. Issue(r, op, first)
    BY <1>5 DEF StartApplication
  <2> HIDE DEF first
  <2>5. QED
    BY <2>2, <2>3, <2>4, IssueOK
<1>6. ASSUME ValidateApplication(r) PROVE TypeOK'
  <2>1. RequestsOK'
    <3>1. CASE Goto(r, "write")
      <4>1. LocalsAssigned([req[r] EXCEPT !.pc = "write"])
        BY <1>0, <1>6 DEF LocalsAssigned, ValidateApplication, At, Request
      <4>2. QED
        BY <3>1, <4>1, <1>0, <1>l, GotoOK
    <3>2. CASE Reject(r, 400)
      BY <3>2, <1>0, <1>s, RejectOK
    <3>3. QED
      BY <3>1, <3>2, <1>6 DEF ValidateApplication
  <2>2. QED
    BY <2>1, <1>6 DEF ValidateApplication, TypeOK, RequestsOK, tables, services
<1>7. ASSUME CreateSubmission(r) PROVE TypeOK'
  <2>1. LocalsAssigned([req[r] EXCEPT !.pc = "notifySubmit"])
    BY <1>0, <1>7 DEF LocalsAssigned, CreateSubmission, At, Request
  <2>2. RequestsOK'
    BY <1>0, <1>7, <1>l, <2>1, GotoOK DEF CreateSubmission
  <2>3. [applicantId |-> req[r].id, resume |-> req[r].up] \in SubmissionRow
    BY <1>0, <1>7 DEF LocalsAssigned, CreateSubmission, At, Request, SubmissionRow, TypeOK, UploadRow
  <2>4. QED
    BY <2>2, <2>3, <1>7 DEF CreateSubmission, TypeOK, RequestsOK, services
<1>8. ASSUME NotifySubmission(r) PROVE TypeOK'
  <2> DEFINE m(a) == [kind |-> "submitted", to |-> a.email, id |-> req[r].id, by |-> r]
  <2>1. \A a \in Rows(req[r].id) : m(a) \in Mail
    BY <1>0 DEF Request, Mail, Rows, TypeOK, ApplicantRow
  <2>2. LocalsAssigned([req[r] EXCEPT !.pc = "respond"])
    BY <1>0, <1>8 DEF LocalsAssigned, NotifySubmission, At, Request
  <2>3. RequestsOK'
    BY <1>0, <1>8, <1>l, <2>2, GotoOK DEF NotifySubmission
  <2>4. mail' = mail \/ \E a \in Rows(req[r].id) : mail' = mail \cup {m(a)}
    BY <1>8 DEF NotifySubmission
  <2>5. mail' \subseteq Mail
    <3> HIDE DEF m
    <3> QED BY <2>1, <2>4 DEF TypeOK
  <2>6. QED
    BY <2>3, <2>5, <1>8 DEF NotifySubmission, TypeOK, RequestsOK, tables
<1>9. ASSUME UpdateSubmission(r) PROVE TypeOK'
  <2>1. LocalsAssigned([req[r] EXCEPT !.pc = "respond"])
    BY <1>0, <1>9 DEF LocalsAssigned, UpdateSubmission, At, Request
  <2>2. RequestsOK'
    BY <1>0, <1>9, <1>l, <2>1, GotoOK DEF UpdateSubmission
  <2>3. [applicantId |-> req[r].id, resume |-> req[r].up] \in SubmissionRow
    BY <1>0, <1>9 DEF LocalsAssigned, UpdateSubmission, At, Request, SubmissionRow, TypeOK, UploadRow
  <2>4. QED
    BY <2>2, <2>3, <1>9 DEF UpdateSubmission, TypeOK, RequestsOK, services
<1>10. ASSUME UpsertDraft(r) PROVE TypeOK'
  <2>1. LocalsAssigned([req[r] EXCEPT !.pc = "respond"])
    BY <1>0, <1>10 DEF LocalsAssigned, UpsertDraft, At, Request
  <2>2. RequestsOK'
    BY <1>0, <1>10, <1>l, <2>1, GotoOK DEF UpsertDraft
  <2>3. [applicantId |-> req[r].id, resume |-> req[r].up] \in DraftRow
    BY <1>0, <1>10 DEF LocalsAssigned, UpsertDraft, At, Request, DraftRow
  <2>4. QED
    BY <2>2, <2>3, <1>10 DEF UpsertDraft, TypeOK, RequestsOK, services
<1>11. ASSUME NEW p \in JwtPrincipals, StartPause(r, p) PROVE TypeOK'
  <2> DEFINE op == "pause"
             pc == "setState"
             i == p.id
             w == p.email
             first == [NoRequest EXCEPT !.op = op, !.pc = pc, !.id = i, !.who = w]
  <2>1. op \in Ops /\ pc \in Labels /\ i \in ApplicantIds /\ w \in Emails \cup {None}
    BY <1>11, <1>l, PrincipalType DEF StartPause, Issue
  <2>2. LocalsAssigned(first)
    <3> HIDE DEF i, w
    <3> QED BY <2>1, NoRequestType, IdAssumption DEF LocalsAssigned, NoRequest
  <2>3. first \in Request
    <3> HIDE DEF op, pc, i, w
    <3> QED BY <2>1, StartType
  <2>4. Issue(r, op, first)
    BY <1>11 DEF StartPause
  <2> HIDE DEF first, op
  <2>5. QED
    BY <2>2, <2>3, <2>4, IssueOK
<1>12. ASSUME PauseApplicant(r) PROVE TypeOK'
  <2>1. RequestsOK'
    <3>1. CASE Goto(r, "respond")
      <4>1. LocalsAssigned([req[r] EXCEPT !.pc = "respond"])
        BY <1>0, <1>12 DEF LocalsAssigned, PauseApplicant, At, Request
      <4>2. QED
        BY <3>1, <4>1, <1>0, <1>l, GotoOK
    <3>2. CASE Reject(r, 404)
      BY <3>2, <1>0, <1>s, RejectOK
    <3>3. QED
      BY <3>1, <3>2, <1>12 DEF PauseApplicant
  <2>2. applicant' \subseteq ApplicantRow
    <3>1. \A a \in ApplicantRow, b \in BOOLEAN : [a EXCEPT !.isPaused = b] \in ApplicantRow
      BY DEF ApplicantRow
    <3>2. QED
      BY <3>1, <1>12 DEF PauseApplicant, TypeOK
  <2>3. QED
    BY <2>1, <2>2, <1>12 DEF PauseApplicant, TypeOK, RequestsOK, services
<1>13. ASSUME NEW u \in Auth0Ids, StartRelink(r, u) PROVE TypeOK'
  <2> DEFINE op == "relink"
             pc == "setAuth0Id"
             first == [NoRequest EXCEPT !.op = op, !.pc = pc, !.sub = u]
  <2>1. op \in Ops /\ pc \in Labels
    BY <1>13, <1>l DEF StartRelink, Issue
  <2>2. LocalsAssigned(first)
    BY NoRequestType, IdAssumption DEF LocalsAssigned, NoRequest
  <2>3. first \in Request
    <3> HIDE DEF op, pc
    <3> QED BY <2>1, StartType
  <2>4. Issue(r, op, first)
    BY <1>13 DEF StartRelink
  <2> HIDE DEF first, op
  <2>5. QED
    BY <2>2, <2>3, <2>4, IssueOK
<1>14. ASSUME UpdateAuth0Id(r) PROVE TypeOK'
  <2>1. RequestsOK'
    <3>1. CASE Goto(r, "respond")
      <4>1. LocalsAssigned([req[r] EXCEPT !.pc = "respond"])
        BY <1>0, <1>14 DEF LocalsAssigned, UpdateAuth0Id, At, Request
      <4>2. QED
        BY <3>1, <4>1, <1>0, <1>l, GotoOK
    <3>2. CASE Reject(r, 404)
      BY <3>2, <1>0, <1>s, RejectOK
    <3>3. QED
      BY <3>1, <3>2, <1>14 DEF UpdateAuth0Id
  <2>2. applicant' \subseteq ApplicantRow
    <3>1. \A a \in ApplicantRow, u \in Auth0Ids : [a EXCEPT !.auth0Id = u] \in ApplicantRow
      BY DEF ApplicantRow
    <3>2. QED
      BY <3>1, <1>14 DEF UpdateAuth0Id, TypeOK
  <2>3. QED
    BY <2>1, <2>2, <1>14 DEF UpdateAuth0Id, TypeOK, RequestsOK, services
<1>15. QED
  BY <1>1, <1>2, <1>3, <1>4, <1>5, <1>6, <1>7, <1>8, <1>9, <1>10, <1>11, <1>12,
     <1>13, <1>14, PrincipalType DEF Applying

\* Answers, failures and the world outside keep the types.
LEMMA OtherType ==
  ASSUME TypeOK
  PROVE  /\ \A r \in Requests : Respond(r) => TypeOK'
         /\ \A r \in Requests : Fail(r) => TypeOK'
         /\ \A u \in Auth0Ids, e \in Emails \cup {None} : SocialSignUp(u, e) => TypeOK'
         /\ \A k \in Key : PutObject(k) => TypeOK'
         /\ \A s \in session : SessionExpires(s) => TypeOK'
<1>1. ASSUME NEW r \in Requests, Respond(r) PROVE TypeOK'
  <2> DEFINE st == 200
             q == [req[r] EXCEPT !.pc = "done", !.status = st]
  <2>1. RequestsOK /\ req[r] \in Request /\ LocalsAssigned(req[r]) /\ st \in Statuses
    BY DEF TypeOK, RequestsOK, Statuses
  <2>2. q \in Request
    <3> HIDE DEF st
    <3> QED BY <2>1, RejectType
  <2>3. LocalsAssigned(q)
    BY <2>1, <1>1 DEF LocalsAssigned, Respond, At, Request, RegisterLabels, DeletionLabels, IdLabels
  <2>4. RequestsOK'
    <3>1. req' = [req EXCEPT ![r] = q]
      BY <1>1 DEF Respond
    <3> HIDE DEF q
    <3>2. QED
      BY <2>1, <2>2, <2>3, <3>1, StepOK
  <2>5. req[r].op \in RegisterOps => [id |-> req[r].id, email |-> req[r].email] \in SessionRow
    BY <2>1, <1>1 DEF LocalsAssigned, Respond, At, Request, SessionRow, RegisterOps
  <2>6. QED
    BY <2>4, <2>5, <1>1 DEF Respond, TypeOK, RequestsOK, services
<1>2. ASSUME NEW r \in Requests, Fail(r) PROVE TypeOK'
  <2>1. RequestsOK /\ 500 \in Statuses
    BY DEF TypeOK, RequestsOK, Statuses
  <2>2. RequestsOK'
    BY <2>1, <1>2, RejectOK DEF Fail
  <2>3. QED
    BY <2>2, <1>2 DEF Fail, TypeOK, RequestsOK, tables, services
<1>3. ASSUME NEW u \in Auth0Ids, NEW e \in Emails \cup {None}, SocialSignUp(u, e) PROVE TypeOK'
  <2>1. [user_id |-> u, email |-> e, connection |-> "social"] \in Auth0User
    BY DEF Auth0User
  <2>2. QED
    BY <2>1, <1>3 DEF SocialSignUp, TypeOK, tables
<1>4. ASSUME NEW k \in Key, PutObject(k) PROVE TypeOK'
  BY <1>4 DEF PutObject, TypeOK, tables
<1>5. ASSUME NEW s \in session, SessionExpires(s) PROVE TypeOK'
  BY <1>5 DEF SessionExpires, TypeOK, services
<1>6. QED
  BY <1>1, <1>2, <1>3, <1>4, <1>5

\* The database and the services the system starts with are well typed.
LEMMA InitType == Init => TypeOK
<1> SUFFICES ASSUME Init PROVE TypeOK
  OBVIOUS
<1> USE InitialAssumption, IdAssumption
<1>1. RequestsOK
  <2>1. LocalsAssigned(NoRequest)
    BY NoRequestType DEF LocalsAssigned, NoRequest, RegisterOps, Kinds, RegisterLabels,
                         DeletionLabels, IdLabels
  <2>2. QED
    BY <2>1, NoRequestType DEF Init, RequestsOK
<1>2. session \subseteq SessionRow
  BY DEF Init, SessionRow, ApplicantRow
<1>3. auth0 \subseteq Auth0User /\ jwt = auth0
  BY DEF Init, Auth0User, ApplicantRow
<1>4. bucket \subseteq Key
  <2>1. \A u \in InitialUploads : u.applicantId \in ApplicantIds /\ u.id \in UploadIds
    BY DEF UploadRow
  <2>2. QED
    BY <2>1 DEF Init, Key
<1>5. QED
  BY <1>1, <1>2, <1>3, <1>4 DEF Init, TypeOK, RequestsOK

\* One step of the API keeps the types.
LEMMA NextType == TypeOK /\ [Next]_vars => TypeOK'
<1> SUFFICES ASSUME TypeOK, [Next]_vars PROVE TypeOK'
  OBVIOUS
<1>1. CASE UNCHANGED vars
  BY <1>1 DEF vars, TypeOK
<1>2. CASE Next
  BY <1>2, RegisteringType, DeletingType, ApplyingType, OtherType DEF Next
<1>3. QED
  BY <1>1, <1>2

\* Every reachable state of the API is well typed: the tables hold rows of the
\* schema's types, and every call a handler awaits finds the address, the subject
\* or the id it needs assigned, on the registered and on the Auth0-only path.
THEOREM TypeCorrect == Spec => []TypeOK
<1>1. Init => TypeOK
  BY InitType
<1>2. TypeOK /\ [Next]_vars => TypeOK'
  BY NextType
<1>3. QED
  BY <1>1, <1>2, PTL DEF Spec
=============================================================================
