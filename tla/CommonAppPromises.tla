-------------------------- MODULE CommonAppPromises --------------------------
(***************************************************************************)
(* What the API has promised once it has answered or sent an e-mail: each  *)
(* promise follows a request along its labels, so the proofs start from a  *)
(* list of what one step can do to one request.                            *)
(***************************************************************************)
EXTENDS CommonAppSafety, FiniteSetTheorems

-----------------------------------------------------------------------------
(* One step of one request *)

Others(r) == \A x \in Requests \ {r} : req'[x] = req[x]

SameKind(r) == req'[r].op = req[r].op /\ req'[r].upStatus = req[r].upStatus
SamePerson(r) == /\ req'[r].email = req[r].email /\ req'[r].sub = req[r].sub
                 /\ req'[r].id = req[r].id
SameLists(r) == req'[r].victims = req[r].victims /\ req'[r].keys = req[r].keys
SameAnswer(r) == req'[r].status = req[r].status /\ req'[r].up = req[r].up

Keeps(r) == SameKind(r) /\ SamePerson(r) /\ SameLists(r) /\ SameAnswer(r)
Goes(r, from, to) == req[r].pc = from /\ req'[r].pc = to /\ Keeps(r)

\* How each kind of request begins.
Opening(q) ==
  \/ q.op = "register" /\ q.pc = "createUser"
  \/ q.op = "registerWithJwt" /\ q.pc = "insert" /\ HasToken(q.sub, q.email)
  \/ q.op = "deleteMe" /\ q.pc = "findApplicant" /\ q.email = None
  \/ q.op = "deleteMe" /\ q.pc = "getUser" /\ q.email = None /\ q.id = 0
  \/ q.op = "deleteForce" /\ q.pc = "findApplicant" /\ q.email = None
  \/ q.op = "createUpload" /\ q.pc = "insertUpload"
  \/ q.op = "completeUpload" /\ q.pc = "setStatus"
  \/ q.op \in {"draft", "createSubmission", "updateSubmission"} /\ q.pc = "validate"
  \/ q.op = "pause" /\ q.pc = "setState"
  \/ q.op = "relink" /\ q.pc = "setAuth0Id" /\ "relink" \in Ops

Begins(r) ==
  /\ req[r].pc = "idle"
  /\ req'[r].victims = {} /\ req'[r].keys = {}
  /\ \/ req'[r].status = 0 /\ Opening(req'[r])
     \/ req'[r].status \in {400, 409} /\ req'[r].pc = "done" /\ req'[r].op \in RegisterOps
  /\ UNCHANGED <<tables, services>>

\* Refused or failed: of the objects to delete some may be gone.
Ends(r) ==
  /\ req[r].pc \notin {"idle", "done"}
  /\ req'[r].pc = "done" /\ req'[r].status \in {400, 404, 409, 500}
  /\ SameKind(r) /\ SamePerson(r) /\ req'[r].up = req[r].up
  /\ req'[r].victims = req[r].victims /\ req'[r].keys = {}
  /\ UNCHANGED <<tables, auth0, jwt, mail, missed>>
  /\ bucket' = bucket \/ (req[r].pc = "deleteObjects" /\ \E K \in SUBSET req[r].keys : bucket' = bucket \ K)

RegisterMoves(r) ==
  \/ /\ CreateUser(r) /\ req[r].pc = "createUser" /\ req'[r].pc = "insert"
     /\ SameKind(r) /\ SameLists(r) /\ SameAnswer(r)
     /\ req'[r].id = req[r].id /\ req'[r].email = req[r].email
     /\ HasToken(req[r].sub, req[r].email)'
  \/ /\ InsertApplicant(r) /\ req[r].pc = "insert"
     /\ req'[r].pc = IF req[r].op = "register" THEN "welcome" ELSE "respond"
     /\ SameKind(r) /\ SameLists(r) /\ SameAnswer(r)
     /\ req'[r].sub = req[r].sub /\ req'[r].email = req[r].email
     /\ req'[r].id = lastApplicantId'
  \/ SendWelcome(r) /\ Goes(r, "welcome", "respond")

DeletionMoves(r) ==
  \/ /\ FindApplicant(r) /\ req[r].pc = "findApplicant"
     /\ req'[r].pc = IF req[r].op = "deleteMe" THEN "deleteTx" ELSE "deleteRow"
     /\ SameKind(r) /\ SameLists(r) /\ SameAnswer(r) /\ req'[r].id = req[r].id
     /\ \E a \in Rows(req[r].id) : req'[r].email = a.email /\ req'[r].sub = a.auth0Id
  \/ CommitDeletion(r) /\ Goes(r, "deleteTx", "deleteById")
  \/ DeleteRow(r) /\ Goes(r, "deleteRow", "listResumes")
  \/ /\ GetUser(r) /\ req[r].pc = "getUser" /\ req'[r].pc = "recordRequest"
     /\ SameKind(r) /\ SameLists(r) /\ SameAnswer(r)
     /\ req'[r].id = req[r].id /\ req'[r].sub = req[r].sub
     /\ \E u \in auth0 : /\ u.user_id = req[r].sub
                         /\ req'[r].email = IF u.email = None THEN u.user_id ELSE u.email
  \/ /\ RecordRequest(r)
     /\ Goes(r, "recordRequest", IF req[r].email \in Emails THEN "deleteById" ELSE "respond")
  \/ DeleteById(r) /\ Goes(r, "deleteById", "listByEmail")
  \/ /\ ListByEmail(r) /\ req[r].pc = "listByEmail" /\ req'[r].pc = "deleteListed"
     /\ SameKind(r) /\ SamePerson(r) /\ SameAnswer(r) /\ req'[r].keys = req[r].keys
     /\ req'[r].victims = {u.user_id : u \in {v \in auth0 : v.email = req[r].email}}
  \/ /\ req[r].pc \in {"deleteListed", "done"} /\ req'[r].pc = req[r].pc
     /\ SameKind(r) /\ SamePerson(r) /\ SameAnswer(r) /\ req'[r].keys = req[r].keys
     /\ \E u \in req[r].victims : DeleteListed(r, u) /\ req'[r].victims = req[r].victims \ {u}
  \/ /\ UsersDeleted(r)
     /\ \/ req[r].op = "deleteForce" /\ Goes(r, "deleteListed", "respond")
        \/ req[r].op # "deleteForce" /\ req[r].id = 0 /\ Goes(r, "deleteListed", "notify")
        \/ req[r].op # "deleteForce" /\ req[r].id # 0 /\ Goes(r, "deleteListed", "listResumes")
  \/ /\ ListResumes(r) /\ req[r].pc = "listResumes" /\ req'[r].pc = "deleteObjects"
     /\ SameKind(r) /\ SamePerson(r) /\ SameAnswer(r) /\ req'[r].victims = req[r].victims
     /\ req'[r].keys \in FirstPages(req[r].id)
  \/ /\ DeleteObjects(r) /\ req[r].pc = "deleteObjects"
     /\ req'[r].pc = IF req[r].op = "deleteMe" THEN "notify" ELSE "deleteById"
     /\ SameKind(r) /\ SamePerson(r) /\ SameAnswer(r) /\ req'[r].victims = req[r].victims
     /\ req'[r].keys = {} /\ bucket' = bucket \ req[r].keys
  \/ NotifyDeletion(r) /\ Goes(r, "notify", "respond")

ApplyMoves(r) ==
  \/ /\ InsertUpload(r) /\ req[r].pc = "insertUpload" /\ req'[r].pc = "respond"
     /\ SameKind(r) /\ SamePerson(r) /\ SameLists(r) /\ req'[r].status = req[r].status
  \/ SetUploadStatus(r) /\ Goes(r, "setStatus", "respond")
  \/ ValidateApplication(r) /\ Goes(r, "validate", "write")
  \/ CreateSubmission(r) /\ req[r].op = "createSubmission" /\ Goes(r, "write", "notifySubmit")
  \/ NotifySubmission(r) /\ Goes(r, "notifySubmit", "respond")
  \/ UpdateSubmission(r) /\ req[r].op = "updateSubmission" /\ Goes(r, "write", "respond")
  \/ UpsertDraft(r) /\ req[r].op = "draft" /\ Goes(r, "write", "respond")
  \/ PauseApplicant(r) /\ Goes(r, "setState", "respond")
  \/ UpdateAuth0Id(r) /\ Goes(r, "setAuth0Id", "respond")

Answers(r) ==
  /\ Respond(r) /\ req[r].pc = "respond" /\ req'[r].pc = "done" /\ req'[r].status = 200
  /\ SameKind(r) /\ SamePerson(r) /\ SameLists(r) /\ req'[r].up = req[r].up

Moves(r) ==
  /\ Others(r)
  /\ \/ Begins(r) \/ Ends(r) \/ Answers(r)
     \/ RegisterMoves(r) \/ DeletionMoves(r) \/ ApplyMoves(r)

\* The clients of Auth0 and S3, the session store, and steps of nobody.
Elsewhere ==
  /\ req' = req
  /\ \/ UNCHANGED vars
     \/ \E u \in Auth0Ids, e \in Emails \cup {None} : SocialSignUp(u, e)
     \/ \E k \in Key : PutObject(k)
     \/ \E s \in session : SessionExpires(s)

\* An update of one request is seen there, and leaves the others.
LEMMA Updated ==
  ASSUME TypeOK, NEW r \in Requests, NEW q, req' = [req EXCEPT ![r] = q]
  PROVE  req'[r] = q /\ Others(r)
BY DEF TypeOK, Others

\* Going on to the next await changes the label only.
LEMMA GotoKeeps ==
  ASSUME TypeOK, NEW r \in Requests, NEW pc, Goto(r, pc)
  PROVE  Goes(r, req[r].pc, pc) /\ Others(r)
<1> DEFINE q == [req[r] EXCEPT !.pc = pc]
<1>1. req[r] \in Request
  BY DEF TypeOK
<1>2. /\ q.pc = pc /\ q.op = req[r].op /\ q.upStatus = req[r].upStatus /\ q.email = req[r].email
      /\ q.sub = req[r].sub /\ q.id = req[r].id /\ q.victims = req[r].victims
      /\ q.keys = req[r].keys /\ q.status = req[r].status /\ q.up = req[r].up
  BY <1>1 DEF Request
<1>3. req' = [req EXCEPT ![r] = q]
  BY DEF Goto
<1> HIDE DEF q
<1>4. QED
  BY <1>2, <1>3, Updated DEF Goes, Keeps, SameKind, SamePerson, SameLists, SameAnswer

\* An exception ends the request with its status; it keeps what it knew, but no
\* keys.
LEMMA RejectEnds ==
  ASSUME TypeOK, NEW r \in Requests, NEW s, Reject(r, s)
  PROVE  /\ Others(r) /\ req'[r].pc = "done" /\ req'[r].status = s
         /\ SameKind(r) /\ SamePerson(r) /\ req'[r].up = req[r].up
         /\ req'[r].victims = req[r].victims /\ req'[r].keys = {}
<1> DEFINE q == [req[r] EXCEPT !.pc = "done", !.status = s, !.keys = {}]
<1>1. req[r] \in Request
  BY DEF TypeOK
<1>2. /\ q.pc = "done" /\ q.op = req[r].op /\ q.upStatus = req[r].upStatus /\ q.email = req[r].email
      /\ q.sub = req[r].sub /\ q.id = req[r].id /\ q.victims = req[r].victims
      /\ q.keys = {} /\ q.status = s /\ q.up = req[r].up
  BY <1>1 DEF Request
<1>3. req' = [req EXCEPT ![r] = q]
  BY DEF Reject
<1> HIDE DEF q
<1>4. QED
  BY <1>2, <1>3, Updated DEF SameKind, SamePerson

\* What a client issues, in the fields that matter later.
LEMMA IssueBegins ==
  ASSUME TypeOK, NEW r \in Requests, NEW op, NEW q, Issue(r, op, q),
         q.victims = {}, q.keys = {},
         \/ q.status = 0 /\ Opening(q)
         \/ q.status \in {400, 409} /\ q.pc = "done" /\ q.op \in RegisterOps
  PROVE  Begins(r) /\ Others(r)
<1>1. req' = [req EXCEPT ![r] = q] /\ req[r].pc = "idle" /\ UNCHANGED <<tables, services>>
  BY DEF Issue, At
<1>2. req'[r] = q /\ Others(r)
  BY <1>1, Updated
<1>3. QED
  BY <1>1, <1>2 DEF Begins

\* Each step of a registration is one of those listed ...
LEMMA RegisteringMoves == ASSUME TypeOK, NEW r \in Requests, Registering(r) PROVE Moves(r)
<1>0. req[r] \in Request
  BY DEF TypeOK
<1>1. ASSUME NEW e \in Emails, StartRegister(r, e) PROVE Moves(r)
  <2> DEFINE taken == [NoRequest EXCEPT !.op = "register", !.pc = "done", !.email = e, !.status = 409]
             free == [NoRequest EXCEPT !.op = "register", !.pc = "createUser", !.who = e,
                                       !.email = e]
  <2>1. /\ taken.victims = {} /\ taken.keys = {} /\ taken.op = "register" /\ taken.pc = "done"
        /\ taken.status = 409
        /\ free.victims = {} /\ free.keys = {} /\ free.op = "register" /\ free.pc = "createUser"
        /\ free.status = 0
    BY DEF NoRequest
  <2>2. Issue(r, "register", taken) \/ Issue(r, "register", free)
    BY <1>1 DEF StartRegister
  <2> HIDE DEF taken, free
  <2>3. taken.op \in RegisterOps /\ Opening(free)
    BY <2>1 DEF Opening, RegisterOps
  <2>4. CASE Issue(r, "register", taken)
    BY <2>1, <2>3, <2>4, IssueBegins DEF Moves
  <2>5. CASE Issue(r, "register", free)
    BY <2>1, <2>3, <2>5, IssueBegins DEF Moves
  <2>6. QED
    BY <2>2, <2>4, <2>5
<1>2. ASSUME NEW t \in jwt, NEW e \in Emails, StartRegisterWithJwt(r, t, e) PROVE Moves(r)
  <2> DEFINE other == [NoRequest EXCEPT !.op = "registerWithJwt", !.pc = "done", !.email = e, !.status = 400]
             own == [NoRequest EXCEPT !.op = "registerWithJwt", !.pc = "insert", !.who = e,
                                      !.email = e, !.sub = t.user_id]
  <2>1. /\ other.victims = {} /\ other.keys = {} /\ other.op = "registerWithJwt"
        /\ other.pc = "done" /\ other.status = 400
        /\ own.victims = {} /\ own.keys = {} /\ own.op = "registerWithJwt" /\ own.pc = "insert"
        /\ own.status = 0 /\ own.sub = t.user_id /\ own.email = e
    BY DEF NoRequest
  <2>2. \/ Issue(r, "registerWithJwt", other)
        \/ Issue(r, "registerWithJwt", own) /\ t.email = e
    BY <1>2 DEF StartRegisterWithJwt
  <2> HIDE DEF other, own
  <2>3. CASE Issue(r, "registerWithJwt", other)
    BY <2>1, <2>3, IssueBegins DEF RegisterOps, Moves
  <2>4. CASE Issue(r, "registerWithJwt", own) /\ t.email = e
    <3>1. Opening(own)
      BY <2>1, <2>4 DEF Opening, HasToken
    <3>2. QED
      BY <2>1, <2>4, <3>1, IssueBegins DEF Moves
  <2>5. QED
    BY <2>2, <2>3, <2>4
<1>3. ASSUME CreateUser(r) PROVE Moves(r)
  <2>1. req[r].pc = "createUser" /\ UNCHANGED <<tables, bucket, mail, missed>>
    BY <1>3 DEF CreateUser, At, services
  <2>2. CASE Reject(r, 409) /\ UNCHANGED services
    BY <2>1, <2>2, RejectEnds DEF Ends, services, Moves
  <2>3. ASSUME NEW u \in Auth0Ids,
               jwt' = jwt \cup {[user_id |-> u, email |-> req[r].email, connection |-> "password"]},
               req' = [req EXCEPT ![r] = [@ EXCEPT !.pc = "insert", !.sub = u]]
        PROVE  Moves(r)
    <3> DEFINE q == [req[r] EXCEPT !.pc = "insert", !.sub = u]
    <3>1. /\ q.pc = "insert" /\ q.sub = u /\ q.op = req[r].op /\ q.upStatus = req[r].upStatus
          /\ q.email = req[r].email /\ q.id = req[r].id /\ q.victims = req[r].victims
          /\ q.keys = req[r].keys /\ q.status = req[r].status /\ q.up = req[r].up
      BY <1>0 DEF Request
    <3>2. req' = [req EXCEPT ![r] = q]
      BY <2>3
    <3> HIDE DEF q
    <3>3. req'[r] = q /\ Others(r)
      BY <3>2, Updated
    <3> DEFINE t == [user_id |-> u, email |-> req[r].email, connection |-> "password"]
    <3>4. t \in jwt' /\ t.user_id = u /\ t.email = req[r].email
      BY <2>3
    <3> HIDE DEF t
    <3>5. HasToken(req[r].sub, req[r].email)'
      BY <3>1, <3>3, <3>4 DEF HasToken
    <3>6. QED
      BY <1>3, <2>1, <3>1, <3>3, <3>5 DEF Moves, RegisterMoves, SameKind, SameLists, SameAnswer
  <2>4. QED
    BY <1>3, <2>2, <2>3 DEF CreateUser
<1>4. ASSUME InsertApplicant(r) PROVE Moves(r)
  <2> DEFINE label == IF req[r].op = "register" THEN "welcome" ELSE "respond"
  <2>1. PICK i : req' = [req EXCEPT ![r] = [@ EXCEPT !.pc = label, !.id = i]] /\ lastApplicantId' = i
    BY <1>4 DEF InsertApplicant
  <2> DEFINE q == [req[r] EXCEPT !.pc = label, !.id = i]
  <2>2. /\ q.pc = label /\ q.id = i /\ q.op = req[r].op /\ q.upStatus = req[r].upStatus
        /\ q.email = req[r].email /\ q.sub = req[r].sub /\ q.victims = req[r].victims
        /\ q.keys = req[r].keys /\ q.status = req[r].status /\ q.up = req[r].up
    BY <1>0 DEF Request
  <2>3. req' = [req EXCEPT ![r] = q]
    BY <2>1
  <2> HIDE DEF q, label
  <2>4. req'[r] = q /\ Others(r) /\ req[r].pc = "insert"
    BY <1>4, <2>3, Updated DEF InsertApplicant, At
  <2>5. QED
    BY <1>4, <2>1, <2>2, <2>4 DEF Moves, RegisterMoves, SameKind, SameLists, SameAnswer, label
<1>5. ASSUME InsertConflict(r) PROVE Moves(r)
  BY <1>5, RejectEnds DEF InsertConflict, Ends, At, services, Moves
<1>6. ASSUME SendWelcome(r) PROVE Moves(r)
  BY <1>6, GotoKeeps DEF SendWelcome, At, RegisterMoves, Moves
<1>7. QED
  BY <1>1, <1>2, <1>3, <1>4, <1>5, <1>6 DEF Registering

\* ... each step of a deletion ...
LEMMA DeletingMoves == ASSUME TypeOK, NEW r \in Requests, Deleting(r) PROVE Moves(r)
<1>0. req[r] \in Request
  BY DEF TypeOK
<1>1. ASSUME NEW t \in jwt, StartDeleteMe(r, t) PROVE Moves(r)
  <2> DEFINE found(i) == [NoRequest EXCEPT !.op = "deleteMe", !.pc = "findApplicant",
                                           !.who = t.email, !.id = i]
             only == [NoRequest EXCEPT !.op = "deleteMe", !.pc = "getUser",
                                       !.who = t.email, !.sub = t.user_id]
  <2>1. /\ only.victims = {} /\ only.keys = {} /\ only.op = "deleteMe" /\ only.pc = "getUser"
        /\ only.status = 0 /\ only.email = None /\ only.id = 0
        /\ \A i : /\ found(i).victims = {} /\ found(i).keys = {} /\ found(i).op = "deleteMe"
                  /\ found(i).pc = "findApplicant" /\ found(i).status = 0 /\ found(i).email = None
    BY DEF NoRequest
  <2>2. Issue(r, "deleteMe", only) \/ \E i : Issue(r, "deleteMe", found(i))
    BY <1>1 DEF StartDeleteMe
  <2> HIDE DEF found, only
  <2>3. Begins(r) /\ Others(r)
    BY <2>1, <2>2, IssueBegins DEF Opening
  <2>4. QED
    BY <2>3 DEF Moves
<1>2. ASSUME NEW i \in ApplicantIds, StartDeleteForce(r, i) PROVE Moves(r)
  <2> DEFINE q == [NoRequest EXCEPT !.op = "deleteForce", !.pc = "findApplicant", !.id = i]
  <2>1. /\ q.victims = {} /\ q.keys = {} /\ q.op = "deleteForce" /\ q.pc = "findApplicant"
        /\ q.status = 0 /\ q.email = None
    BY DEF NoRequest
  <2>2. Issue(r, "deleteForce", q)
    BY <1>2 DEF StartDeleteForce
  <2> HIDE DEF q
  <2>3. Begins(r) /\ Others(r)
    BY <2>1, <2>2, IssueBegins DEF Opening
  <2>4. QED
    BY <2>3 DEF Moves
<1>3. ASSUME FindApplicant(r) PROVE Moves(r)
  <2>1. req[r].pc = "findApplicant" /\ UNCHANGED <<tables, services>>
    BY <1>3 DEF FindApplicant, At
  <2>2. CASE Reject(r, 500)
    BY <2>1, <2>2, RejectEnds DEF Ends, services, Moves
  <2> DEFINE label == IF req[r].op = "deleteMe" THEN "deleteTx" ELSE "deleteRow"
  <2>3. ASSUME NEW a \in Rows(req[r].id),
               req' = [req EXCEPT ![r] = [@ EXCEPT !.pc = label, !.email = a.email, !.sub = a.auth0Id]]
        PROVE  Moves(r)
    <3> DEFINE q == [req[r] EXCEPT !.pc = label, !.email = a.email, !.sub = a.auth0Id]
    <3>1. /\ q.pc = label /\ q.email = a.email /\ q.sub = a.auth0Id /\ q.op = req[r].op
          /\ q.upStatus = req[r].upStatus /\ q.id = req[r].id /\ q.victims = req[r].victims
          /\ q.keys = req[r].keys /\ q.status = req[r].status /\ q.up = req[r].up
      BY <1>0 DEF Request
    <3>2. req' = [req EXCEPT ![r] = q]
      BY <2>3
    <3> HIDE DEF q, label
    <3>3. req'[r] = q /\ Others(r)
      BY <3>2, Updated
    <3>4. QED
      BY <1>3, <2>1, <3>1, <3>3 DEF Moves, DeletionMoves, SameKind, SameLists, SameAnswer, label
  <2>4. QED
    BY <1>3, <2>2, <2>3 DEF FindApplicant
<1>4. ASSUME CommitDeletion(r) PROVE Moves(r)
  BY <1>4, GotoKeeps DEF CommitDeletion, At, DeletionMoves, Moves
<1>5. ASSUME DeleteRow(r) PROVE Moves(r)
  BY <1>5, GotoKeeps DEF DeleteRow, At, DeletionMoves, Moves
<1>6. ASSUME RowAlreadyGone(r) PROVE Moves(r)
  BY <1>6, RejectEnds DEF RowAlreadyGone, Ends, services, Moves
<1>7. ASSUME GetUser(r) PROVE Moves(r)
  <2>1. req[r].pc = "getUser" /\ UNCHANGED <<tables, services>>
    BY <1>7 DEF GetUser, At
  <2>2. CASE Reject(r, 500)
    BY <2>1, <2>2, RejectEnds DEF Ends, services, Moves
  <2>3. ASSUME NEW u \in auth0, u.user_id = req[r].sub,
               NEW name, name = IF u.email = None THEN u.user_id ELSE u.email,
               req' = [req EXCEPT ![r] = [@ EXCEPT !.pc = "recordRequest", !.email = name]]
        PROVE  Moves(r)
    <3> DEFINE q == [req[r] EXCEPT !.pc = "recordRequest", !.email = name]
    <3>1. /\ q.pc = "recordRequest" /\ q.email = name /\ q.sub = req[r].sub /\ q.op = req[r].op
          /\ q.upStatus = req[r].upStatus /\ q.id = req[r].id /\ q.victims = req[r].victims
          /\ q.keys = req[r].keys /\ q.status = req[r].status /\ q.up = req[r].up
      BY <1>0 DEF Request
    <3>2. req' = [req EXCEPT ![r] = q]
      BY <2>3
    <3> HIDE DEF q
    <3>3. req'[r] = q /\ Others(r)
      BY <3>2, Updated
    <3>4. QED
      BY <1>7, <2>1, <2>3, <3>1, <3>3 DEF Moves, DeletionMoves, SameKind, SameLists, SameAnswer
  <2>4. QED
    BY <1>7, <2>2, <2>3 DEF GetUser
<1>8. ASSUME RecordRequest(r) PROVE Moves(r)
  <2> DEFINE label == IF req[r].email \in Emails THEN "deleteById" ELSE "respond"
  <2>1. req[r].pc = "recordRequest" /\ Goto(r, label)
    BY <1>8 DEF RecordRequest, At
  <2>2. Goes(r, "recordRequest", label) /\ Others(r)
    <3> HIDE DEF label
    <3> QED BY <2>1, GotoKeeps
  <2>3. QED
    BY <1>8, <2>2 DEF DeletionMoves, Moves
<1>9. ASSUME DeleteById(r) PROVE Moves(r)
  BY <1>9, GotoKeeps DEF DeleteById, At, DeletionMoves, Moves
<1>10. ASSUME ListByEmail(r) PROVE Moves(r)
  <2> DEFINE found == {u.user_id : u \in {v \in auth0 : v.email = req[r].email}}
             q == [req[r] EXCEPT !.pc = "deleteListed", !.victims = found]
  <2>1. /\ q.pc = "deleteListed" /\ q.victims = found /\ q.op = req[r].op
        /\ q.upStatus = req[r].upStatus /\ q.id = req[r].id /\ q.email = req[r].email
        /\ q.sub = req[r].sub
        /\ q.keys = req[r].keys /\ q.status = req[r].status /\ q.up = req[r].up
    BY <1>0 DEF Request
  <2>2. req' = [req EXCEPT ![r] = q] /\ req[r].pc = "listByEmail"
    BY <1>10 DEF ListByEmail, At
  <2> HIDE DEF q
  <2>3. req'[r] = q /\ Others(r)
    BY <2>2, Updated
  <2>4. QED
    BY <1>10, <2>1, <2>2, <2>3 DEF Moves, DeletionMoves, SameKind, SamePerson, SameAnswer
<1>11. ASSUME NEW u \in Auth0Ids, DeleteListed(r, u) PROVE Moves(r)
  <2> DEFINE q == [req[r] EXCEPT !.victims = @ \ {u}]
  <2>1. /\ q.pc = req[r].pc /\ q.victims = req[r].victims \ {u} /\ q.op = req[r].op
        /\ q.upStatus = req[r].upStatus /\ q.id = req[r].id /\ q.email = req[r].email
        /\ q.sub = req[r].sub
        /\ q.keys = req[r].keys /\ q.status = req[r].status /\ q.up = req[r].up
    BY <1>0 DEF Request
  <2>2. /\ req' = [req EXCEPT ![r] = q] /\ req[r].pc \in {"deleteListed", "done"}
        /\ u \in req[r].victims
    BY <1>11 DEF DeleteListed
  <2> HIDE DEF q
  <2>3. req'[r] = q /\ Others(r)
    BY <2>2, Updated
  <2>4. QED
    BY <1>11, <2>1, <2>2, <2>3 DEF Moves, DeletionMoves, SameKind, SamePerson, SameAnswer
<1>12. ASSUME UsersDeleted(r) PROVE Moves(r)
  <2> DEFINE label == IF req[r].op = "deleteForce" THEN "respond"
                      ELSE IF req[r].id = 0 THEN "notify" ELSE "listResumes"
  <2>1. req[r].pc = "deleteListed" /\ Goto(r, label)
    BY <1>12 DEF UsersDeleted, At
  <2>2. \/ req[r].op = "deleteForce" /\ Goto(r, "respond")
        \/ req[r].op # "deleteForce" /\ req[r].id = 0 /\ Goto(r, "notify")
        \/ req[r].op # "deleteForce" /\ req[r].id # 0 /\ Goto(r, "listResumes")
    BY <2>1
  <2>3. QED
    BY <1>12, <2>1, <2>2, GotoKeeps DEF DeletionMoves, Moves
<1>13. ASSUME ListResumes(r) PROVE Moves(r)
  <2>1. PICK K \in FirstPages(req[r].id) :
          req' = [req EXCEPT ![r] = [@ EXCEPT !.pc = "deleteObjects", !.keys = K]]
    BY <1>13 DEF ListResumes
  <2> DEFINE q == [req[r] EXCEPT !.pc = "deleteObjects", !.keys = K]
  <2>2. /\ q.pc = "deleteObjects" /\ q.keys = K /\ q.op = req[r].op
        /\ q.upStatus = req[r].upStatus /\ q.id = req[r].id /\ q.email = req[r].email
        /\ q.sub = req[r].sub
        /\ q.victims = req[r].victims /\ q.status = req[r].status /\ q.up = req[r].up
    BY <1>0 DEF Request
  <2>3. req' = [req EXCEPT ![r] = q] /\ req[r].pc = "listResumes"
    BY <1>13, <2>1 DEF ListResumes, At
  <2> HIDE DEF q
  <2>4. req'[r] = q /\ Others(r)
    BY <2>3, Updated
  <2>5. QED
    BY <1>13, <2>2, <2>3, <2>4 DEF Moves, DeletionMoves, SameKind, SamePerson, SameAnswer
<1>14. ASSUME DeleteObjects(r) PROVE Moves(r)
  <2>1. req[r].pc = "deleteObjects" /\ UNCHANGED <<tables, auth0, jwt, mail, missed>>
    BY <1>14 DEF DeleteObjects, At
  <2>2. ASSUME NEW K \in SUBSET req[r].keys, bucket' = bucket \ K, Reject(r, 400) PROVE Moves(r)
    BY <2>1, <2>2, RejectEnds DEF Ends, Moves
  <2> DEFINE label == IF req[r].op = "deleteMe" THEN "notify" ELSE "deleteById"
             q == [req[r] EXCEPT !.pc = label, !.keys = {}]
  <2>3. ASSUME bucket' = bucket \ req[r].keys, req' = [req EXCEPT ![r] = q] PROVE Moves(r)
    <3>1. /\ q.pc = label /\ q.keys = {} /\ q.op = req[r].op
          /\ q.upStatus = req[r].upStatus /\ q.id = req[r].id /\ q.email = req[r].email
          /\ q.sub = req[r].sub
          /\ q.victims = req[r].victims /\ q.status = req[r].status /\ q.up = req[r].up
      BY <1>0 DEF Request
    <3> HIDE DEF q
    <3>2. req'[r] = q /\ Others(r)
      BY <2>3, Updated
    <3>3. QED
      BY <1>14, <2>1, <2>3, <3>1, <3>2 DEF Moves, DeletionMoves, SameKind, SamePerson, SameAnswer
  <2>4. QED
    BY <1>14, <2>2, <2>3 DEF DeleteObjects
<1>15. ASSUME NotifyDeletion(r) PROVE Moves(r)
  BY <1>15, GotoKeeps DEF NotifyDeletion, At, DeletionMoves, Moves
<1>16. QED
  BY <1>1, <1>2, <1>3, <1>4, <1>5, <1>6, <1>7, <1>8, <1>9, <1>10, <1>11, <1>12, <1>13, <1>14, <1>15
     DEF Deleting

\* ... and each step of a registered applicant's request.
LEMMA ApplyingMoves == ASSUME TypeOK, NEW r \in Requests, Applying(r) PROVE Moves(r)
<1>0. req[r] \in Request
  BY DEF TypeOK
<1>1. ASSUME NEW p \in Principals, StartCreateUpload(r, p) PROVE Moves(r)
  <2> DEFINE q == [NoRequest EXCEPT !.op = "createUpload", !.pc = "insertUpload", !.id = p.id,
                                    !.who = p.email]
  <2>1. /\ q.victims = {} /\ q.keys = {} /\ q.op = "createUpload" /\ q.pc = "insertUpload"
        /\ q.status = 0
    BY DEF NoRequest
  <2>2. Issue(r, "createUpload", q)
    BY <1>1 DEF StartCreateUpload
  <2> HIDE DEF q
  <2>3. QED
    BY <2>1, <2>2, IssueBegins DEF Opening, Moves
<1>2. ASSUME NEW p \in Principals, NEW n \in UploadIds, NEW st \in UploadStatus,
             StartCompleteUpload(r, p, n, st)
      PROVE  Moves(r)
  <2> DEFINE q == [NoRequest EXCEPT !.op = "completeUpload", !.pc = "setStatus", !.id = p.id,
                                    !.who = p.email, !.up = n, !.upStatus = st]
  <2>1. /\ q.victims = {} /\ q.keys = {} /\ q.op = "completeUpload" /\ q.pc = "setStatus"
        /\ q.status = 0 /\ q.upStatus = st /\ q.id = p.id /\ q.up = n
    BY DEF NoRequest
  <2>2. Issue(r, "completeUpload", q)
    BY <1>2 DEF StartCompleteUpload
  <2> HIDE DEF q
  <2>3. Opening(q)
    BY <1>2, <2>1 DEF Opening, StartCompleteUpload
  <2>4. QED
    BY <2>1, <2>2, <2>3, IssueBegins DEF Moves
<1>3. ASSUME NEW op \in {"draft", "createSubmission", "updateSubmission"}, NEW p \in Principals,
             NEW n \in UploadIds \cup {0}, StartApplication(r, op, p, n)
      PROVE  Moves(r)
  <2> DEFINE q == [NoRequest EXCEPT !.op = op, !.pc = "validate", !.id = p.id,
                                    !.who = p.email, !.up = n]
  <2>1. q.victims = {} /\ q.keys = {} /\ q.op = op /\ q.pc = "validate" /\ q.status = 0
    BY DEF NoRequest
  <2>2. Issue(r, op, q)
    BY <1>3 DEF StartApplication
  <2> HIDE DEF q
  <2>3. Opening(q)
    BY <2>1 DEF Opening
  <2>4. QED
    BY <2>1, <2>2, <2>3, IssueBegins DEF Moves
<1>4. ASSUME NEW p \in JwtPrincipals, StartPause(r, p) PROVE Moves(r)
  <2> DEFINE q == [NoRequest EXCEPT !.op = "pause", !.pc = "setState", !.id = p.id,
                                    !.who = p.email]
  <2>1. q.victims = {} /\ q.keys = {} /\ q.op = "pause" /\ q.pc = "setState" /\ q.status = 0
    BY DEF NoRequest
  <2>2. Issue(r, "pause", q)
    BY <1>4 DEF StartPause
  <2> HIDE DEF q
  <2>3. QED
    BY <2>1, <2>2, IssueBegins DEF Opening, Moves
<1>5. ASSUME NEW u \in Auth0Ids, StartRelink(r, u) PROVE Moves(r)
  <2> DEFINE q == [NoRequest EXCEPT !.op = "relink", !.pc = "setAuth0Id", !.sub = u]
  <2>1. q.victims = {} /\ q.keys = {} /\ q.op = "relink" /\ q.pc = "setAuth0Id" /\ q.status = 0
    BY DEF NoRequest
  <2>2. Issue(r, "relink", q) /\ "relink" \in Ops
    BY <1>5 DEF StartRelink, Issue
  <2> HIDE DEF q
  <2>3. QED
    BY <2>1, <2>2, IssueBegins DEF Opening, Moves
<1>6. ASSUME InsertUpload(r) PROVE Moves(r)
  <2>1. PICK n : req' = [req EXCEPT ![r] = [@ EXCEPT !.pc = "respond", !.up = n]]
    BY <1>6 DEF InsertUpload
  <2> DEFINE q == [req[r] EXCEPT !.pc = "respond", !.up = n]
  <2>2. /\ q.pc = "respond" /\ q.op = req[r].op /\ q.upStatus = req[r].upStatus /\ q.id = req[r].id
        /\ q.email = req[r].email /\ q.sub = req[r].sub /\ q.victims = req[r].victims
        /\ q.keys = req[r].keys /\ q.status = req[r].status
    BY <1>0 DEF Request
  <2>3. req' = [req EXCEPT ![r] = q] /\ req[r].pc = "insertUpload"
    BY <1>6, <2>1 DEF InsertUpload, At
  <2> HIDE DEF q
  <2>4. req'[r] = q /\ Others(r)
    BY <2>3, Updated
  <2>5. QED
    BY <1>6, <2>2, <2>3, <2>4 DEF Moves, ApplyMoves, SameKind, SamePerson, SameLists
<1>7. ASSUME SetUploadStatus(r) PROVE Moves(r)
  <2>1. CASE Goto(r, "respond")
    BY <1>7, <2>1, GotoKeeps DEF SetUploadStatus, At, ApplyMoves, Moves
  <2>2. CASE Reject(r, 400) /\ UNCHANGED upload
    BY <1>7, <2>2, RejectEnds DEF SetUploadStatus, At, Ends, tables, services, Moves
  <2>3. QED
    BY <1>7, <2>1, <2>2 DEF SetUploadStatus
<1>8. ASSUME ValidateApplication(r) PROVE Moves(r)
  <2>1. CASE Goto(r, "write")
    BY <1>8, <2>1, GotoKeeps DEF ValidateApplication, At, ApplyMoves, Moves
  <2>2. CASE Reject(r, 400)
    BY <1>8, <2>2, RejectEnds DEF ValidateApplication, At, Ends, services, Moves
  <2>3. QED
    BY <1>8, <2>1, <2>2 DEF ValidateApplication
<1>9. ASSUME CreateSubmission(r) PROVE Moves(r)
  BY <1>9, GotoKeeps DEF CreateSubmission, At, ApplyMoves, Moves
<1>10. ASSUME NotifySubmission(r) PROVE Moves(r)
  BY <1>10, GotoKeeps DEF NotifySubmission, At, ApplyMoves, Moves
<1>11. ASSUME UpdateSubmission(r) PROVE Moves(r)
  BY <1>11, GotoKeeps DEF UpdateSubmission, At, ApplyMoves, Moves
<1>12. ASSUME UpsertDraft(r) PROVE Moves(r)
  BY <1>12, GotoKeeps DEF UpsertDraft, At, ApplyMoves, Moves
<1>13. ASSUME PauseApplicant(r) PROVE Moves(r)
  <2>1. CASE Goto(r, "respond")
    BY <1>13, <2>1, GotoKeeps DEF PauseApplicant, At, ApplyMoves, Moves
  <2>2. CASE Reject(r, 404) /\ UNCHANGED applicant
    BY <1>13, <2>2, RejectEnds DEF PauseApplicant, At, Ends, tables, services, Moves
  <2>3. QED
    BY <1>13, <2>1, <2>2 DEF PauseApplicant
<1>14. ASSUME UpdateAuth0Id(r) PROVE Moves(r)
  <2>1. CASE Goto(r, "respond")
    BY <1>14, <2>1, GotoKeeps DEF UpdateAuth0Id, At, ApplyMoves, Moves
  <2>2. CASE Reject(r, 404) /\ UNCHANGED applicant
    BY <1>14, <2>2, RejectEnds DEF UpdateAuth0Id, At, Ends, tables, services, Moves
  <2>3. QED
    BY <1>14, <2>1, <2>2 DEF UpdateAuth0Id
<1>15. QED
  BY <1>1, <1>2, <1>3, <1>4, <1>5, <1>6, <1>7, <1>8, <1>9, <1>10, <1>11, <1>12, <1>13, <1>14
     DEF Applying, Principals

\* One step is one request's, the outside world's, or nobody's.
LEMMA OneMoves ==
  ASSUME TypeOK, [Next]_vars
  PROVE  Elsewhere \/ \E r \in Requests : Moves(r)
<1>1. CASE UNCHANGED vars
  BY <1>1 DEF Elsewhere, vars
<1>2. ASSUME NEW r \in Requests, Respond(r) PROVE Moves(r)
  <2>0. req[r] \in Request
    BY DEF TypeOK
  <2> DEFINE q == [req[r] EXCEPT !.pc = "done", !.status = 200]
  <2>1. /\ q.pc = "done" /\ q.status = 200 /\ q.op = req[r].op /\ q.upStatus = req[r].upStatus
        /\ q.email = req[r].email /\ q.sub = req[r].sub /\ q.id = req[r].id
        /\ q.victims = req[r].victims /\ q.keys = req[r].keys /\ q.up = req[r].up
    BY <2>0 DEF Request
  <2>2. req' = [req EXCEPT ![r] = q] /\ req[r].pc = "respond"
    BY <1>2 DEF Respond, At
  <2> HIDE DEF q
  <2>3. req'[r] = q /\ Others(r)
    BY <2>2, Updated
  <2>4. QED
    BY <1>2, <2>1, <2>2, <2>3 DEF Moves, Answers, SameKind, SamePerson, SameLists
<1>3. ASSUME NEW r \in Requests, Fail(r) PROVE Moves(r)
  BY <1>3, RejectEnds DEF Fail, Ends, services, Moves
<1>4. ASSUME \/ \E u \in Auth0Ids, e \in Emails \cup {None} : SocialSignUp(u, e)
             \/ \E k \in Key : PutObject(k)
             \/ \E s \in session : SessionExpires(s)
      PROVE  Elsewhere
  BY <1>4 DEF Elsewhere, SocialSignUp, PutObject, SessionExpires
<1>5. QED
  BY <1>1, <1>2, <1>3, <1>4, RegisteringMoves, DeletingMoves, ApplyingMoves DEF Next

\* Ids are numbers, and 0 is none of an object in the bucket.
LEMMA IdsAreNumbers ==
  ASSUME TypeOK
  PROVE  /\ \A r \in Requests : req[r].id \in Nat
         /\ \A k \in bucket : k.applicantId \in Nat \ {0}
<1>1. ApplicantIds \cup {0} \subseteq Nat /\ 0 \notin ApplicantIds
  BY IdAssumption
<1>2. \A r \in Requests : req[r].id \in ApplicantIds \cup {0}
  BY DEF TypeOK, Request
<1>3. \A k \in bucket : k.applicantId \in ApplicantIds
  BY DEF TypeOK, Key
<1>4. QED
  BY <1>1, <1>2, <1>3

-----------------------------------------------------------------------------
(* The labels of each kind of request *)

\* No request has begun.
LEMMA PathInit == Init => PathInv
<1> SUFFICES ASSUME Init, NEW r \in Requests PROVE OnPath(req[r])
  BY DEF PathInv
<1>1. req[r] = NoRequest
  BY DEF Init
<1>2. /\ NoRequest.pc = "idle" /\ NoRequest.status = 0 /\ NoRequest.keys = {}
      /\ NoRequest.victims = {}
  BY DEF NoRequest
<1>3. QED
  BY <1>1, <1>2 DEF OnPath

\* The label a request goes to is one its kind has.
LEMMA PathMove ==
  ASSUME TypeOK, IdentityInv, NEW r \in Requests, OnPath(req[r]), Moves(r)
  PROVE  OnPath(req'[r])
<1> USE DEF RegisterOps, DeleteOps, SubmissionOps
<1>0. LocalsAssigned(req[r]) /\ req[r] \in Request
  BY DEF TypeOK
<1>1. CASE Begins(r)
  BY <1>1 DEF OnPath, Begins, Opening
<1>2. CASE Ends(r)
  BY <1>2 DEF OnPath, Ends, SameKind
<1>3. CASE Answers(r)
  BY <1>3 DEF OnPath, Answers, SameKind, SameLists
<1>4. CASE RegisterMoves(r)
  BY <1>4, <1>0 DEF OnPath, RegisterMoves, Goes, Keeps, SameKind, SamePerson, SameLists, SameAnswer
<1>5. CASE ApplyMoves(r)
  BY <1>5, <1>0 DEF OnPath, ApplyMoves, Goes, Keeps, SameKind, SamePerson, SameLists, SameAnswer
<1>6. CASE DeletionMoves(r)
  <2>0. OnPath(req[r]) /\ (req[r].pc \in {"deleteTx", "deleteRow"} => req[r].id # 0)
    BY <1>0 DEF LocalsAssigned, IdLabels
  <2> USE DEF Goes, Keeps, SameKind, SamePerson, SameLists, SameAnswer
  <2>1. CASE req[r].pc \in {"findApplicant", "getUser", "listByEmail"}
    <3>1. /\ req'[r].op = req[r].op /\ req'[r].id = req[r].id
          /\ req'[r].status = req[r].status /\ req'[r].keys = req[r].keys
          /\ req[r].pc # "listByEmail" => req'[r].victims = req[r].victims
          /\ req[r].pc = "listByEmail" => req'[r].pc = "deleteListed"
          /\ req[r].pc = "getUser" => req'[r].pc = "recordRequest"
          /\ req[r].pc = "findApplicant" =>
               req'[r].pc = IF req[r].op = "deleteMe" THEN "deleteTx" ELSE "deleteRow"
      BY <1>6, <2>1 DEF DeletionMoves
    <3>2. req[r].pc = "getUser" => req[r].id = 0
      BY DEF IdentityInv
    <3>3. QED
      BY <2>0, <2>1, <3>1, <3>2 DEF OnPath
  <2>2. CASE req[r].pc \in {"deleteTx", "deleteRow", "recordRequest", "deleteById"}
    BY <1>6, <2>0, <2>2 DEF OnPath, DeletionMoves
  <2>3. CASE req[r].pc \in {"deleteListed", "done"}
    <3>1. /\ req'[r].op = req[r].op /\ req'[r].id = req[r].id
          /\ req'[r].status = req[r].status /\ req'[r].keys = req[r].keys
          /\ \/ req'[r].pc = req[r].pc /\ req'[r].victims \subseteq req[r].victims
             \/ /\ UsersDeleted(r) /\ req[r].pc = "deleteListed" /\ req'[r].victims = req[r].victims
                /\ \/ req'[r].pc = "respond"
                   \/ req'[r].pc = "notify" /\ req[r].op # "deleteForce"
                   \/ req'[r].pc = "listResumes" /\ req[r].id # 0
      BY <1>6, <2>3 DEF DeletionMoves
    <3>2. UsersDeleted(r) => req[r].victims = {}
      BY DEF UsersDeleted
    <3>3. QED
      BY <2>0, <2>3, <3>1, <3>2 DEF OnPath
  <2>4. CASE req[r].pc \in {"listResumes", "deleteObjects", "notify"}
    BY <1>6, <2>0, <2>4 DEF OnPath, DeletionMoves
  <2>5. QED
    BY <1>6, <2>1, <2>2, <2>3, <2>4 DEF DeletionMoves
<1>7. QED
  BY <1>1, <1>2, <1>3, <1>4, <1>5, <1>6 DEF Moves

\* Each step of a request leads from its label to one of the next.
LEMMA PathStep == TypeOK /\ IdentityInv /\ PathInv /\ [Next]_vars => PathInv'
<1> SUFFICES ASSUME TypeOK, IdentityInv, PathInv, [Next]_vars, NEW x \in Requests PROVE OnPath(req[x])'
  BY DEF PathInv
<1>1. CASE Elsewhere
  BY <1>1 DEF Elsewhere, PathInv, OnPath
<1>2. ASSUME NEW r \in Requests, Moves(r) PROVE OnPath(req'[x])
  <2>1. CASE x = r
    BY <1>2, <2>1, PathMove DEF PathInv
  <2>2. CASE x # r
    BY <1>2, <2>2 DEF PathInv, Moves, Others
  <2>3. QED
    BY <2>1, <2>2
<1>3. QED
  BY <1>1, <1>2, OneMoves DEF OnPath

\* No handler ever awaits a call of another kind of request, or answers twice.
LEMMA PathCorrect == Spec => []PathInv
<1>1. SafetyInv => IdentityInv
  BY DEF SafetyInv
<1>2. QED
  BY <1>1, PathInit, PathStep, TypeCorrect, SafetyCorrect, PTL DEF Spec

-----------------------------------------------------------------------------
(* What a step can take away *)

\* A deletion request is never deleted.
LEMMA RecordsStay == [Next]_vars => deletionRequests \subseteq deletionRequests'
BY DatabaseSteps, ZenonT(30) DEF Unchanged, InsertApplicant, CommitDeletion, DeleteRow, RecordRequest,
     InsertUpload, SetUploadStatus, CreateSubmission, UpdateSubmission, UpsertDraft,
     PauseApplicant, UpdateAuth0Id

\* Rows go by a deletion of their id.
LEMMA RowsLost ==
  ASSUME TypeOK, ErasureInv, [Next]_vars, NEW i, Registered(i), ~Registered(i)'
  PROVE  \E r \in Requests : req[r].id = i /\ (CommitDeletion(r) \/ DeleteRow(r))
<1>1. ASSUME NEW r \in Requests, PauseApplicant(r) \/ UpdateAuth0Id(r) PROVE FALSE
  BY <1>1, UpdateKeepsIds DEF Registered
<1>2. ASSUME NEW r \in Requests, InsertApplicant(r) PROVE FALSE
  BY <1>2 DEF InsertApplicant, Registered
<1>3. CASE applicant' = applicant
  BY <1>3 DEF Registered
<1>4. ASSUME NEW r \in Requests, CommitDeletion(r) \/ DeleteRow(r) PROVE req[r].id = i
  BY <1>4 DEF CommitDeletion, DeleteRow, DeleteCascade, Registered
<1>5. QED
  BY <1>1, <1>2, <1>3, <1>4, DatabaseSteps
     DEF Unchanged, RecordRequest, InsertUpload, SetUploadStatus, CreateSubmission,
         UpdateSubmission, UpsertDraft

\* So do submissions.
LEMMA SubmissionsLost ==
  ASSUME [Next]_vars, NEW i, HasSubmission(i), ~HasSubmission(i)'
  PROVE  \E r \in Requests : req[r].id = i /\ (CommitDeletion(r) \/ DeleteRow(r))
<1>1. ASSUME NEW r \in Requests, CreateSubmission(r) \/ UpdateSubmission(r) PROVE FALSE
  <2> DEFINE row == [applicantId |-> req[r].id, resume |-> req[r].up]
  <2>1. /\ row.applicantId = req[r].id
        /\ \/ submission' = submission \cup {row}
           \/ submission' = {s \in submission : s.applicantId # req[r].id} \cup {row}
    BY <1>1 DEF CreateSubmission, UpdateSubmission
  <2> HIDE DEF row
  <2>2. QED
    BY <2>1 DEF HasSubmission
<1>2. CASE submission' = submission
  BY <1>2 DEF HasSubmission
<1>3. ASSUME NEW r \in Requests, CommitDeletion(r) \/ DeleteRow(r) PROVE req[r].id = i
  BY <1>3 DEF CommitDeletion, DeleteRow, DeleteCascade, HasSubmission
<1>4. QED
  BY <1>1, <1>2, <1>3, DatabaseSteps
     DEF Unchanged, InsertApplicant, RecordRequest, InsertUpload, SetUploadStatus, UpsertDraft,
         PauseApplicant, UpdateAuth0Id

\* Whoever is gone stays gone, and a row that goes leaves its id gone.
LEMMA GoneStays ==
  ASSUME TypeOK, ErasureInv, [Next]_vars, NEW i \in Nat
  PROVE  /\ Gone(i) => Gone(i)'
         /\ Registered(i) /\ ~Registered(i)' => Gone(i)'
<1>1. /\ lastApplicantId \in Nat /\ lastApplicantId' \in Nat /\ lastApplicantId <= lastApplicantId'
      /\ \A a \in applicant' : (\E b \in applicant : b.id = a.id) \/ a.id > lastApplicantId
  BY RowSteps
<1>2. Registered(i) => i <= lastApplicantId
  BY DEF Registered, ErasureInv, ApplicantsNumbered
<1>3. QED
  BY <1>1, <1>2 DEF Gone, Registered

\* A deletion step of an id is of a recorded deletion or an administrator's.
LEMMA DeletionShows ==
  ASSUME TypeOK, PathInv, NEW r \in Requests, CommitDeletion(r) \/ DeleteRow(r),
         NEW i, req[r].id = i
  PROVE  Deleted(i)'
<1>1. CASE CommitDeletion(r)
  <2> DEFINE d == [applicantId |-> req[r].id, email |-> req[r].email, by |-> r]
  <2>1. d.applicantId = i /\ d \in deletionRequests'
    BY <1>1 DEF CommitDeletion
  <2> HIDE DEF d
  <2>2. QED
    BY <2>1 DEF Deleted
<1>2. CASE DeleteRow(r)
  <2>1. req[r].op = "deleteForce" /\ Goto(r, "listResumes")
    BY <1>2 DEF DeleteRow, PathInv, OnPath, At
  <2>2. req'[r].op = "deleteForce" /\ req'[r].id = i
    BY <2>1, GotoKeeps DEF Goes, Keeps, SameKind, SamePerson
  <2>3. QED
    BY <2>2 DEF Deleted
<1>3. QED
  BY <1>1, <1>2

\* A deletion keeps its kind, its id and its answer.
LEMMA DeletionKeeps ==
  ASSUME PathInv, NEW r \in Requests, DeletionMoves(r)
  PROVE  /\ req'[r].op = req[r].op /\ req[r].op \in DeleteOps
         /\ req'[r].id = req[r].id /\ req'[r].status = req[r].status /\ req'[r].up = req[r].up
         /\ req'[r].upStatus = req[r].upStatus
         /\ req[r].pc # "findApplicant" /\ req[r].pc # "getUser" =>
              req'[r].email = req[r].email /\ req'[r].sub = req[r].sub
<1>1. OnPath(req[r])
  BY DEF PathInv
<1>2. /\ req[r].pc \in {"findApplicant", "deleteTx", "deleteRow", "getUser", "recordRequest",
                        "deleteById", "listByEmail", "deleteListed", "listResumes",
                        "deleteObjects", "notify", "done"}
      /\ req[r].pc = "done" => req[r].victims # {}
  BY DEF DeletionMoves, Goes
<1>3. req[r].op \in DeleteOps
  BY <1>1, <1>2 DEF OnPath, DeleteOps
<1>4. QED
  BY <1>3 DEF DeletionMoves, Goes, Keeps, SameKind, SamePerson, SameAnswer

\* A deletion stays one, of the same kind and id, and its answer stays given.
LEMMA DeletionStays ==
  ASSUME TypeOK, PathInv, [Next]_vars, NEW x \in Requests, req[x].op \in DeleteOps
  PROVE  /\ req[x].pc # "idle" /\ req'[x].pc # "idle"
         /\ req'[x].op = req[x].op /\ req'[x].id = req[x].id
         /\ req[x].status = 200 => req'[x].status = 200 /\ req'[x].sub = req[x].sub
<1> DEFINE Kept == /\ req'[x].op = req[x].op /\ req'[x].id = req[x].id /\ req'[x].pc # "idle"
                   /\ req[x].status = 200 => req'[x].status = 200 /\ req'[x].sub = req[x].sub
<1>0. OnPath(req[x]) /\ LocalsAssigned(req[x])
  BY DEF PathInv, TypeOK
<1>1. req[x].pc \notin {"idle", "createUser", "insert", "welcome"}
  BY <1>0, IdAssumption DEF OnPath, RegisterOps, DeleteOps, Kinds, NoRequest
<1>2. req[x].status = 200 => req[x].pc = "done"
  BY <1>0 DEF OnPath
<1>3. ASSUME Moves(x) PROVE Kept
  <2>1. CASE Begins(x) \/ RegisterMoves(x)
    BY <1>1, <2>1 DEF Begins, RegisterMoves, Goes
  <2>2. CASE Ends(x) \/ Answers(x) \/ ApplyMoves(x)
    BY <1>2, <2>2 DEF Ends, Answers, ApplyMoves, Goes, Keeps, SameKind, SamePerson
  <2>3. CASE DeletionMoves(x)
    <3>1. req'[x].op = req[x].op /\ req'[x].id = req[x].id
      BY <2>3, DeletionKeeps
    <3>2. req[x].pc = "done" => /\ req'[x].status = req[x].status /\ req'[x].sub = req[x].sub
                                /\ req'[x].pc = "done"
      BY <2>3 DEF DeletionMoves, Goes, SameAnswer, SamePerson
    <3>3. req'[x].pc # "idle"
      BY <2>3, <1>1 DEF DeletionMoves, Goes
    <3>4. QED
      BY <1>2, <3>1, <3>2, <3>3
  <2>4. QED
    BY <1>3, <2>1, <2>2, <2>3 DEF Moves
<1>4. Kept
  BY <1>1, <1>3, OneMoves DEF Elsewhere, Moves, Others
<1>5. QED
  BY <1>1, <1>4

\* What was deleted is deleted.
LEMMA DeletedStays ==
  ASSUME TypeOK, PathInv, [Next]_vars, NEW i, Deleted(i)
  PROVE  Deleted(i)'
<1>1. CASE \E d \in deletionRequests : d.applicantId = i
  BY <1>1, RecordsStay DEF Deleted
<1>2. ASSUME NEW x \in Requests, req[x].op = "deleteForce", req[x].id = i
      PROVE  req'[x].op = "deleteForce" /\ req'[x].id = i
  BY <1>2, DeletionStays DEF DeleteOps
<1>3. QED
  BY <1>1, <1>2 DEF Deleted

-----------------------------------------------------------------------------
(* What was acknowledged is kept *)

\* Nothing is acknowledged yet.
LEMMA AcknowledgedInit == Init => AcknowledgedInv
<1> SUFFICES ASSUME Init, NEW r \in Requests PROVE ~AcksRow(req[r]) /\ ~AcksSubmission(req[r])
  BY DEF AcknowledgedInv
<1>1. req[r] = NoRequest
  BY DEF Init
<1>2. NoRequest.pc = "idle" /\ NoRequest.status = 0
  BY DEF NoRequest
<1>3. QED
  BY <1>1, <1>2 DEF AcksRow, AcksSubmission

\* Only an insert, a create or an update gives a request something to acknowledge.
LEMMA AcksMove ==
  ASSUME TypeOK, PathInv, NEW r \in Requests, Moves(r)
  PROVE  /\ AcksRow(req'[r]) =>
              \/ AcksRow(req[r]) /\ req'[r].id = req[r].id
              \/ InsertApplicant(r)
         /\ AcksSubmission(req'[r]) =>
              /\ req'[r].id = req[r].id
              /\ AcksSubmission(req[r]) \/ CreateSubmission(r) \/ UpdateSubmission(r)
<1> USE DEF AcksRow, AcksSubmission
<1>0. OnPath(req[r]) /\ LocalsAssigned(req[r])
  BY DEF PathInv, TypeOK
<1>1. CASE Begins(r)
  BY <1>1 DEF Begins, Opening
<1>2. CASE Ends(r)
  BY <1>2 DEF Ends
<1>3. CASE Answers(r)
  BY <1>3 DEF Answers, SameKind, SamePerson
<1>4. CASE RegisterMoves(r)
  BY <1>0, <1>4 DEF RegisterMoves, Goes, Keeps, SameKind, SamePerson, SameAnswer, LocalsAssigned,
                    RegisterLabels, RegisterOps, OnPath
<1>5. CASE ApplyMoves(r)
  BY <1>0, <1>5 DEF ApplyMoves, Goes, Keeps, SameKind, SamePerson, SameAnswer, OnPath,
                    SubmissionOps, RegisterOps
<1>6. CASE DeletionMoves(r)
  BY <1>6, DeletionKeeps DEF DeleteOps, RegisterOps
<1>7. QED
  BY <1>1, <1>2, <1>3, <1>4, <1>5, <1>6 DEF Moves

\* The write that a request acknowledges puts its row there.
LEMMA WritesShow ==
  ASSUME TypeOK, NEW r \in Requests
  PROVE  /\ InsertApplicant(r) => \A i : req'[r].id = i => Registered(i)'
         /\ CreateSubmission(r) \/ UpdateSubmission(r) =>
              \A i : req[r].id = i => HasSubmission(i)'
<1>1. ASSUME InsertApplicant(r), NEW j, req'[r].id = j PROVE Registered(j)'
  <2> DEFINE row(i) == [id |-> i, email |-> req[r].email, auth0Id |-> req[r].sub, isPaused |-> FALSE]
             label == IF req[r].op = "register" THEN "welcome" ELSE "respond"
  <2>1. PICK i : /\ applicant' = applicant \cup {row(i)}
                 /\ req' = [req EXCEPT ![r] = [@ EXCEPT !.pc = label, !.id = i]]
    BY <1>1 DEF InsertApplicant
  <2>2. row(i).id = i
    OBVIOUS
  <2>3. req'[r].id = i
    <3> HIDE DEF label
    <3> QED BY <2>1 DEF TypeOK, Request
  <2> HIDE DEF row, label
  <2>4. QED
    BY <1>1, <2>1, <2>2, <2>3 DEF Registered
<1>2. ASSUME CreateSubmission(r) \/ UpdateSubmission(r), NEW i, req[r].id = i
      PROVE  HasSubmission(i)'
  <2> DEFINE row == [applicantId |-> i, resume |-> req[r].up]
  <2>1. row \in submission' /\ row.applicantId = i
    BY <1>2 DEF CreateSubmission, UpdateSubmission
  <2> HIDE DEF row
  <2>2. QED
    BY <2>1 DEF HasSubmission
<1>3. QED
  BY <1>1, <1>2

\* What is written before an acknowledgement stays or is deleted on record.
LEMMA AcknowledgedStep ==
  ASSUME TypeOK, ErasureInv, PathInv, AcknowledgedInv, [Next]_vars
  PROVE  AcknowledgedInv'
<1>1. ASSUME NEW i, Registered(i) \/ Deleted(i) PROVE Registered(i)' \/ Deleted(i)'
  BY <1>1, DeletedStays, RowsLost, DeletionShows
<1>2. ASSUME NEW i, HasSubmission(i) \/ Deleted(i) PROVE HasSubmission(i)' \/ Deleted(i)'
  BY <1>2, DeletedStays, SubmissionsLost, DeletionShows
<1> SUFFICES ASSUME NEW x \in Requests
             PROVE  /\ AcksRow(req'[x]) => \A i : req'[x].id = i => Registered(i)' \/ Deleted(i)'
                    /\ AcksSubmission(req'[x]) =>
                         \A i : req'[x].id = i => HasSubmission(i)' \/ Deleted(i)'
  BY DEF AcknowledgedInv, AcksRow, AcksSubmission, Registered, Deleted, HasSubmission
<1>3. CASE req'[x] = req[x]
  BY <1>1, <1>2, <1>3 DEF AcknowledgedInv
<1>4. CASE Moves(x)
  BY <1>1, <1>2, <1>4, AcksMove, WritesShow DEF AcknowledgedInv
<1>5. QED
  BY <1>3, <1>4, OneMoves DEF Elsewhere, Moves, Others

\* Whoever is about to acknowledge has written what it acknowledges.
LEMMA AcknowledgedKept == Spec => []AcknowledgedInv
<1>1. TypeOK /\ SafetyInv /\ PathInv /\ AcknowledgedInv /\ [Next]_vars => AcknowledgedInv'
  BY AcknowledgedStep DEF SafetyInv
<1>2. QED
  BY <1>1, AcknowledgedInit, PathCorrect, TypeCorrect, SafetyCorrect, PTL DEF Spec

\* A registration, a submission or an edit that was answered 200 stays in the
\* database until its applicant is deleted on the record or by an administrator.
THEOREM AcknowledgedCorrect == Spec => []AcknowledgedIsKept
<1>1. AcknowledgedInv => AcknowledgedIsKept
  BY DEF AcknowledgedInv, AcknowledgedIsKept, AcksRow, AcksSubmission, HasSubmission
<1>2. QED
  BY <1>1, AcknowledgedKept, PTL

-----------------------------------------------------------------------------
(* One post-submission e-mail *)

\* The request sends one e-mail.
Sends(r) ==
  \E m : /\ mail' = mail \cup {m}
         /\ m.by = r /\ m.id = req[r].id
         /\ \/ SendWelcome(r) /\ m.kind = "welcome"
            \/ NotifySubmission(r) /\ m.kind = "submitted"
            \/ /\ NotifyDeletion(r) /\ m.to = req[r].email
               /\ m.kind = IF req[r].id = 0 THEN "deletionComplete" ELSE "deletion"

\* An e-mail is never taken back, and tells whose request sent it.
LEMMA MailSteps == [Next]_vars => mail' = mail \/ \E r \in Requests : Sends(r)
<1> SUFFICES ASSUME [Next]_vars PROVE mail' = mail \/ \E r \in Requests : Sends(r)
  OBVIOUS
<1>1. ASSUME NEW r \in Requests, SendWelcome(r) PROVE mail' = mail \/ Sends(r)
  <2> DEFINE m == [kind |-> "welcome", to |-> req[r].email, id |-> req[r].id, by |-> r]
  <2>1. m.by = r /\ m.id = req[r].id /\ m.kind = "welcome"
    OBVIOUS
  <2>2. mail' = mail \/ mail' = mail \cup {m}
    BY <1>1 DEF SendWelcome
  <2> HIDE DEF m
  <2>3. QED
    BY <1>1, <2>1, <2>2 DEF Sends
<1>2. ASSUME NEW r \in Requests, NotifySubmission(r) PROVE mail' = mail \/ Sends(r)
  <2> DEFINE m(e) == [kind |-> "submitted", to |-> e, id |-> req[r].id, by |-> r]
  <2>1. \A e : m(e).by = r /\ m(e).id = req[r].id /\ m(e).kind = "submitted"
    OBVIOUS
  <2>2. mail' = mail \/ \E e : mail' = mail \cup {m(e)}
    BY <1>2 DEF NotifySubmission
  <2> HIDE DEF m
  <2>3. QED
    BY <1>2, <2>1, <2>2 DEF Sends
<1>3. ASSUME NEW r \in Requests, NotifyDeletion(r) PROVE Sends(r)
  <2> DEFINE kind == IF req[r].id = 0 THEN "deletionComplete" ELSE "deletion"
             m == [kind |-> kind, to |-> req[r].email, id |-> req[r].id, by |-> r]
  <2>1. m.by = r /\ m.id = req[r].id /\ m.kind = kind /\ m.to = req[r].email
    OBVIOUS
  <2>2. mail' = mail \cup {m}
    BY <1>3 DEF NotifyDeletion
  <2> HIDE DEF m
  <2>3. QED
    BY <1>3, <2>1, <2>2 DEF Sends
<1>4. ASSUME NEW r \in Requests, Registering(r) PROVE mail' = mail \/ SendWelcome(r)
  BY <1>4 DEF Registering, StartRegister, StartRegisterWithJwt, Issue, CreateUser,
              InsertConflict, InsertApplicant, services
<1>5. ASSUME NEW r \in Requests, Deleting(r) PROVE mail' = mail \/ NotifyDeletion(r)
  <2>1. CASE \/ \E t \in jwt : StartDeleteMe(r, t)
             \/ \E i \in ApplicantIds : StartDeleteForce(r, i)
    BY <2>1 DEF StartDeleteMe, StartDeleteForce, Issue, services
  <2>2. CASE FindApplicant(r) \/ RowAlreadyGone(r) \/ GetUser(r) \/ UsersDeleted(r)
    BY <2>2 DEF FindApplicant, RowAlreadyGone, GetUser, UsersDeleted, services
  <2>3. CASE \/ DeleteById(r) \/ ListByEmail(r) \/ ListResumes(r) \/ DeleteObjects(r)
             \/ \E u \in Auth0Ids : DeleteListed(r, u)
    BY <2>3 DEF DeleteById, ListByEmail, ListResumes, DeleteObjects, DeleteListed, services
  <2>4. CASE CommitDeletion(r) \/ DeleteRow(r) \/ RecordRequest(r)
    BY <2>4 DEF CommitDeletion, DeleteRow, RecordRequest, services
  <2>5. QED
    BY <1>5, <2>1, <2>2, <2>3, <2>4 DEF Deleting
<1>6. ASSUME NEW r \in Requests, Applying(r) PROVE mail' = mail \/ NotifySubmission(r)
  BY <1>6 DEF Applying, StartCreateUpload, StartCompleteUpload, StartApplication, StartPause,
              StartRelink, Issue, ValidateApplication, InsertUpload,
              SetUploadStatus, CreateSubmission, UpdateSubmission, UpsertDraft, PauseApplicant,
              UpdateAuth0Id, services
<1>7. ASSUME \/ UNCHANGED vars
             \/ \E r \in Requests : Respond(r) \/ Fail(r)
             \/ \E u \in Auth0Ids, e \in Emails \cup {None} : SocialSignUp(u, e)
             \/ \E k \in Key : PutObject(k)
             \/ \E s \in session : SessionExpires(s)
      PROVE  mail' = mail
  BY <1>7 DEF vars, Respond, Fail, SocialSignUp, PutObject, SessionExpires, services
<1>8. QED
  BY <1>1, <1>2, <1>3, <1>4, <1>5, <1>6, <1>7 DEF Next

\* No submission e-mail is sent yet.
LEMMA SubmissionMailInit == Init => SubmissionMailInv
<1> SUFFICES ASSUME Init PROVE SubmissionMailInv
  OBVIOUS
<1>1. mail = {} /\ \A r \in Requests : req[r].pc = "idle"
  BY DEF Init, NoRequest
<1>2. QED
  BY <1>1 DEF SubmissionMailInv, Submitted

\* A request that has answered, or is about to, keeps its kind, its id and its address.
LEMMA AnsweredStays ==
  ASSUME TypeOK, PathInv, [Next]_vars, NEW x \in Requests, req[x].pc \in {"respond", "done"}
  PROVE  /\ req'[x].pc \in {"respond", "done"} /\ req'[x].op = req[x].op
         /\ req'[x].id = req[x].id /\ req'[x].email = req[x].email
<1>1. CASE req'[x] = req[x]
  BY <1>1
<1>2. ASSUME Moves(x)
      PROVE  /\ req'[x].pc \in {"respond", "done"} /\ req'[x].op = req[x].op
             /\ req'[x].id = req[x].id /\ req'[x].email = req[x].email
  <2>1. CASE DeletionMoves(x)
    <3>1. req'[x].pc = req[x].pc
      BY <2>1 DEF DeletionMoves, Goes
    <3>2. QED
      BY <2>1, <3>1, DeletionKeeps
  <2>2. CASE ~DeletionMoves(x)
    BY <1>2, <2>2 DEF Moves, Begins, Ends, Answers, RegisterMoves, ApplyMoves, Goes, SameKind, SamePerson
  <2>3. QED
    BY <2>1, <2>2
<1>3. QED
  BY <1>1, <1>2, OneMoves DEF Elsewhere, Moves, Others

\* Only a create makes a request one that may send the e-mail.
LEMMA SubmittedMove ==
  ASSUME TypeOK, PathInv, SubmissionMailInv, [Next]_vars, NEW x \in Requests, Submitted(x)'
  PROVE  req'[x].id = req[x].id /\ (Submitted(x) \/ CreateSubmission(x))
<1>0. OnPath(req[x])
  BY DEF PathInv
<1>1. CASE req[x].pc \in {"respond", "done"}
  <2>1. req'[x].pc # "notifySubmit" /\ req'[x].op = req[x].op /\ req'[x].id = req[x].id
    BY <1>1, AnsweredStays
  <2>2. PICK m \in mail' : m.kind = "submitted" /\ m.by = x
    BY <2>1 DEF Submitted
  <2>3. m \in mail
    <3>1. ~NotifySubmission(x)
      BY <1>1 DEF NotifySubmission, At
    <3>2. QED
      BY <2>2, <3>1, MailSteps DEF Sends
  <2>4. QED
    BY <2>1, <2>2, <2>3 DEF Submitted
<1>2. CASE req[x].pc = "notifySubmit"
  <2>1. req[x].op = "createSubmission"
    BY <1>0, <1>2 DEF OnPath
  <2>2. req'[x].id = req[x].id
    <3>1. CASE Moves(x)
      BY <1>2, <3>1 DEF Moves, Begins, Ends, Answers, RegisterMoves, DeletionMoves, ApplyMoves,
                        Goes, Keeps, SamePerson
    <3>2. QED
      BY <3>1, OneMoves DEF Elsewhere, Moves, Others
  <2>3. QED
    BY <1>2, <2>1, <2>2 DEF Submitted
<1>3. CASE req[x].pc \notin {"respond", "done", "notifySubmit"}
  <2>1. \A m \in mail' : m.kind = "submitted" => m.by # x
    <3>1. \A m \in mail : m.kind = "submitted" => m.by # x
      BY <1>3 DEF SubmissionMailInv
    <3>2. ~NotifySubmission(x)
      BY <1>3 DEF NotifySubmission, At
    <3>3. QED
      BY <3>1, <3>2, MailSteps DEF Sends
  <2>2. req'[x].pc = "notifySubmit"
    BY <2>1 DEF Submitted
  <2>3. Moves(x)
    BY <1>3, <2>2, OneMoves DEF Elsewhere, Moves, Others
  <2>4. QED
    BY <2>2, <2>3 DEF Moves, Begins, Opening, Ends, Answers, RegisterMoves, DeletionMoves,
                      ApplyMoves, Goes, Keeps, SamePerson
<1>4. QED
  BY <1>1, <1>2, <1>3

\* Every post-submission e-mail is of a request that has created a submission, and
\* is the only one of that request.
LEMMA SubmissionMailSent ==
  ASSUME TypeOK, PathInv, SubmissionMailInv, [Next]_vars
  PROVE  /\ \A m \in mail' : m.kind = "submitted" =>
              /\ req'[m.by].op = "createSubmission" /\ req'[m.by].pc \in {"respond", "done"}
              /\ m.id = req'[m.by].id
         /\ \A m, n \in mail' : m.kind = "submitted" /\ n.kind = "submitted" /\ m.by = n.by => m = n
<1>1. \A m \in mail : m.by \in Requests
  BY DEF TypeOK, Mail
<1>2. ASSUME NEW m \in mail, m.kind = "submitted"
      PROVE  /\ req'[m.by].op = "createSubmission" /\ req'[m.by].pc \in {"respond", "done"}
             /\ m.id = req'[m.by].id
  BY <1>1, <1>2, AnsweredStays DEF SubmissionMailInv
<1>3. ASSUME NEW r \in Requests, NotifySubmission(r)
      PROVE  /\ req'[r].op = "createSubmission" /\ req'[r].pc = "respond" /\ req'[r].id = req[r].id
             /\ \A n \in mail : n.kind = "submitted" => n.by # r
  <2>1. req[r].pc = "notifySubmit" /\ req[r].op = "createSubmission" /\ Goto(r, "respond")
    BY <1>3 DEF NotifySubmission, At, PathInv, OnPath
  <2>2. QED
    BY <2>1, GotoKeeps DEF Goes, Keeps, SameKind, SamePerson, SubmissionMailInv
<1>4. \A m, n \in mail : m.kind = "submitted" /\ n.kind = "submitted" /\ m.by = n.by => m = n
  BY DEF SubmissionMailInv
<1>5. \A m \in mail' \ mail : /\ mail' = mail \cup {m}
                              /\ m.kind = "submitted" =>
                                   \E r \in Requests : /\ NotifySubmission(r)
                                                       /\ m.by = r /\ m.id = req[r].id
  BY MailSteps DEF Sends
<1>6. QED
  BY <1>2, <1>3, <1>4, <1>5

\* A second create of an applicant finds the first one's row and sends nothing.
LEMMA SubmissionMailStep ==
  ASSUME TypeOK, ErasureInv, PathInv, SubmissionMailInv, [Next]_vars
  PROVE  SubmissionMailInv'
<1>0. \A x \in Requests : req[x].id \in Nat
  BY IdsAreNumbers
<1>1. ASSUME NEW x \in Requests, Submitted(x)', NEW i, req'[x].id = i
      PROVE  HasSubmission(i)' \/ Gone(i)'
  <2>1. req[x].id = i /\ i \in Nat /\ (Submitted(x) \/ CreateSubmission(x))
    BY <1>0, <1>1, SubmittedMove
  <2>2. CASE CreateSubmission(x)
    BY <2>1, <2>2, WritesShow
  <2>3. CASE Submitted(x) /\ Gone(i)
    BY <2>1, <2>3, GoneStays
  <2>4. CASE HasSubmission(i) /\ ~HasSubmission(i)'
    <3>1. PICK r \in Requests : req[r].id = i /\ (CommitDeletion(r) \/ DeleteRow(r))
      BY <2>4, SubmissionsLost
    <3>2. Registered(i) /\ ~Registered(i)'
      BY <3>1 DEF CommitDeletion, DeleteRow, DeleteCascade, Registered
    <3>3. QED
      BY <2>1, <3>2, GoneStays
  <2>5. QED
    BY <2>1, <2>2, <2>3, <2>4 DEF SubmissionMailInv
<1>2. ASSUME NEW x \in Requests, NEW y \in Requests, Submitted(x)', Submitted(y)',
             req'[x].id = req'[y].id
      PROVE  x = y
  <2>1. /\ req[x].id = req[y].id /\ req[x].id \in Nat
        /\ Submitted(x) \/ CreateSubmission(x)
        /\ Submitted(y) \/ CreateSubmission(y)
    BY <1>0, <1>2, SubmittedMove
  <2>2. ASSUME NEW z \in Requests, CreateSubmission(z), NEW w \in Requests, Submitted(w),
               req[w].id = req[z].id
        PROVE  FALSE
    BY <2>2 DEF CreateSubmission, SubmissionMailInv, HasSubmission, Gone
  <2>3. CASE CreateSubmission(x) /\ CreateSubmission(y) /\ x # y
    <3>1. Goto(x, "notifySubmit") /\ Goto(y, "notifySubmit") /\ req[y].pc = "write"
      BY <2>3 DEF CreateSubmission, At
    <3>2. QED
      BY <2>3, <3>1, GotoKeeps DEF Goes, Others
  <2>4. CASE Submitted(x) /\ Submitted(y)
    BY <2>1, <2>4 DEF SubmissionMailInv
  <2>5. QED
    BY <2>1, <2>2, <2>3, <2>4
<1>3. /\ \A m \in mail' : m.kind = "submitted" =>
           /\ req'[m.by].op = "createSubmission" /\ req'[m.by].pc \in {"respond", "done"}
           /\ m.id = req'[m.by].id
      /\ \A m, n \in mail' : m.kind = "submitted" /\ n.kind = "submitted" /\ m.by = n.by => m = n
  BY SubmissionMailSent
<1>4. QED
  BY <1>1, <1>2, <1>3 DEF SubmissionMailInv

\* Every submission e-mail is of the one request that created the submission.
LEMMA SubmissionMailKept == Spec => []SubmissionMailInv
<1>1. TypeOK /\ SafetyInv /\ PathInv /\ SubmissionMailInv /\ [Next]_vars => SubmissionMailInv'
  BY SubmissionMailStep DEF SafetyInv
<1>2. QED
  BY <1>1, SubmissionMailInit, PathCorrect, TypeCorrect, SafetyCorrect, PTL DEF Spec

\* However many submissions of one applicant run at once, one post-submission
\* e-mail goes out.
THEOREM OneMailCorrect == Spec => []OneSubmissionMail
<1>1. TypeOK /\ SubmissionMailInv => OneSubmissionMail
  <2> SUFFICES ASSUME TypeOK, SubmissionMailInv, NEW m \in mail, NEW n \in mail,
                      m.kind = "submitted", n.kind = "submitted", m.id = n.id
               PROVE  m = n
    BY DEF OneSubmissionMail
  <2>1. m.by \in Requests /\ n.by \in Requests
    BY DEF TypeOK, Mail
  <2>2. Submitted(m.by) /\ Submitted(n.by) /\ req[m.by].id = req[n.by].id
    BY <2>1 DEF SubmissionMailInv, Submitted
  <2>3. QED
    BY <2>1, <2>2 DEF SubmissionMailInv
<1>2. QED
  BY <1>1, SubmissionMailKept, TypeCorrect, PTL

-----------------------------------------------------------------------------
(* The deletion e-mail *)

\* No deletion e-mail is sent yet.
LEMMA DeletionMailInit == Init => DeletionMailInv
<1> SUFFICES ASSUME Init PROVE DeletionMailInv
  OBVIOUS
<1>1. mail = {} /\ \A r \in Requests : req[r].pc = "idle"
  BY DEF Init, NoRequest
<1>2. QED
  BY <1>1 DEF DeletionMailInv, RowDeleted

\* A deletion passes the label where it is recorded before any of those after it.
LEMMA DeletionRecorded ==
  ASSUME TypeOK, IdentityInv, PathInv, DeletionMailInv, [Next]_vars, NEW x \in Requests,
         req'[x].op = "deleteMe", req'[x].pc \in RowDeleted
  PROVE  [applicantId |-> req'[x].id, email |-> req'[x].email, by |-> x] \in deletionRequests'
<1>0. OnPath(req[x]) /\ LocalsAssigned(req[x])
  BY DEF PathInv, TypeOK
<1>1. ASSUME req'[x].op = req[x].op, req[x].pc \in RowDeleted, req'[x].id = req[x].id,
             req'[x].email = req[x].email
      PROVE  [applicantId |-> req'[x].id, email |-> req'[x].email, by |-> x] \in deletionRequests'
  BY <1>1, RecordsStay DEF DeletionMailInv
<1>2. CASE DeletionMoves(x)
  <2>1. CASE CommitDeletion(x)
    <3>1. req'[x].id = req[x].id /\ req'[x].email = req[x].email
      BY <2>1, GotoKeeps DEF CommitDeletion, Goes, Keeps, SamePerson
    <3>2. QED
      BY <2>1, <3>1 DEF CommitDeletion
  <2>2. CASE RecordRequest(x)
    <3>1. req'[x].id = req[x].id /\ req'[x].email = req[x].email /\ req[x].id = 0
      BY <2>2, GotoKeeps DEF RecordRequest, At, IdentityInv, Goes, Keeps, SamePerson
    <3>2. QED
      BY <2>2, <3>1 DEF RecordRequest
  <2>3. CASE req[x].pc \in RowDeleted
    BY <1>1, <1>2, <2>3, DeletionKeeps DEF RowDeleted
  <2>4. CASE req[x].pc \notin RowDeleted /\ ~CommitDeletion(x) /\ ~RecordRequest(x)
    <3>1. req[x].op = "deleteMe"
      BY <1>2, DeletionKeeps
    <3>2. req[x].pc # "deleteRow"
      BY <1>0, <3>1 DEF OnPath
    <3>3. QED
      BY <1>2, <2>4, <3>1, <3>2 DEF DeletionMoves, RowDeleted, Goes
  <2>5. QED
    BY <2>1, <2>2, <2>3, <2>4
<1>3. ASSUME Moves(x), ~DeletionMoves(x) PROVE FALSE
  <2>1. CASE RegisterMoves(x)
    BY <1>0, <2>1 DEF RegisterMoves, Goes, Keeps, SameKind, OnPath, RegisterOps
  <2>2. CASE ApplyMoves(x)
    BY <1>0, <2>2 DEF ApplyMoves, Goes, Keeps, SameKind, OnPath, SubmissionOps
  <2>3. CASE Begins(x) \/ Ends(x) \/ Answers(x)
    BY <2>3 DEF Begins, Opening, Ends, Answers, RowDeleted
  <2>4. QED
    BY <1>3, <2>1, <2>2, <2>3 DEF Moves
<1>4. CASE req'[x] = req[x]
  BY <1>1, <1>4
<1>5. QED
  BY <1>2, <1>3, <1>4, OneMoves DEF Elsewhere, Moves, Others

\* A deletion e-mail is sent only behind the transaction that made the
\* record.
LEMMA DeletionMailStep ==
  ASSUME TypeOK, IdentityInv, PathInv, DeletionMailInv, [Next]_vars
  PROVE  DeletionMailInv'
<1>1. ASSUME NEW m \in mail, m.kind = "deletion"
      PROVE  /\ req'[m.by].pc \in {"respond", "done"}
             /\ m.id # 0 /\ m.id = req'[m.by].id /\ m.to = req'[m.by].email
             /\ [applicantId |-> m.id, email |-> m.to, by |-> m.by] \in deletionRequests'
  <2>1. m.by \in Requests
    BY DEF TypeOK, Mail
  <2>2. QED
    BY <1>1, <2>1, AnsweredStays, RecordsStay DEF DeletionMailInv
<1>2. ASSUME NEW r \in Requests, NotifyDeletion(r), NEW m, m.by = r, m.id = req[r].id,
             m.to = req[r].email, m.kind = IF req[r].id = 0 THEN "deletionComplete" ELSE "deletion",
             m.kind = "deletion"
      PROVE  /\ req'[m.by].pc \in {"respond", "done"}
             /\ m.id # 0 /\ m.id = req'[m.by].id /\ m.to = req'[m.by].email
             /\ [applicantId |-> m.id, email |-> m.to, by |-> m.by] \in deletionRequests'
  <2>1. req[r].pc = "notify" /\ req[r].op = "deleteMe" /\ Goto(r, "respond")
    BY <1>2 DEF NotifyDeletion, At, PathInv, OnPath
  <2>2. /\ req'[r].pc = "respond" /\ req'[r].id = req[r].id /\ req'[r].email = req[r].email
        /\ req'[r].op = "deleteMe"
    BY <2>1, GotoKeeps DEF Goes, Keeps, SamePerson, SameKind
  <2>3. [applicantId |-> req'[r].id, email |-> req'[r].email, by |-> r] \in deletionRequests'
    BY <2>2, DeletionRecorded DEF RowDeleted
  <2>4. QED
    BY <1>2, <2>2, <2>3
<1>3. \A m \in mail' : m \in mail \/ m.kind # "deletion" \/
        \E r \in Requests : /\ NotifyDeletion(r) /\ m.by = r /\ m.id = req[r].id /\ m.to = req[r].email
                            /\ m.kind = IF req[r].id = 0 THEN "deletionComplete" ELSE "deletion"
  BY MailSteps DEF Sends
<1>4. \A m \in mail' : m.kind = "deletion" =>
        /\ req'[m.by].pc \in {"respond", "done"}
        /\ m.id # 0 /\ m.id = req'[m.by].id /\ m.to = req'[m.by].email
        /\ [applicantId |-> m.id, email |-> m.to, by |-> m.by] \in deletionRequests'
  BY <1>1, <1>2, <1>3
<1>5. QED
  BY <1>4, DeletionRecorded DEF DeletionMailInv

\* Every deletion e-mail has the record of the request that sent it.
LEMMA DeletionMailKept == Spec => []DeletionMailInv
<1>1. TypeOK /\ SafetyInv /\ PathInv /\ DeletionMailInv /\ [Next]_vars => DeletionMailInv'
  BY DeletionMailStep DEF SafetyInv
<1>2. QED
  BY <1>1, DeletionMailInit, PathCorrect, TypeCorrect, SafetyCorrect, PTL DEF Spec

\* Whoever is told that the deletion was received has a deletion request on record
\* and nothing left in the database, and is told once.
THEOREM DeletionMailCorrect == Spec => []DeletionMailMeansErased
<1>1. TypeOK /\ DeletionMailInv /\ OneDeletionRecord /\ RecordedMeansErased => DeletionMailMeansErased
  <2> SUFFICES ASSUME TypeOK, DeletionMailInv, OneDeletionRecord, RecordedMeansErased,
                      NEW m \in mail, m.kind = "deletion"
               PROVE  /\ \E d \in deletionRequests : d.applicantId = m.id /\ d.email = m.to
                      /\ Erased(m.id)
                      /\ \A n \in mail : n.kind = "deletion" /\ n.id = m.id => n = m
    BY DEF DeletionMailMeansErased
  <2> DEFINE record(l) == [applicantId |-> l.id, email |-> l.to, by |-> l.by]
  <2>1. \A l : record(l).applicantId = l.id /\ record(l).email = l.to /\ record(l).by = l.by
    OBVIOUS
  <2>2. \A l \in mail : l.kind = "deletion" => record(l) \in deletionRequests /\ l.id # 0
    BY DEF DeletionMailInv
  <2> HIDE DEF record
  <2>3. Erased(m.id)
    BY <2>1, <2>2 DEF RecordedMeansErased
  <2>4. ASSUME NEW n \in mail, n.kind = "deletion", n.id = m.id PROVE n = m
    <3>1. record(n) = record(m)
      BY <2>1, <2>2, <2>4 DEF OneDeletionRecord
    <3>2. n.to = m.to /\ n.by = m.by
      BY <2>1, <3>1
    <3>3. QED
      BY <2>4, <3>2 DEF TypeOK, Mail
  <2>5. QED
    BY <2>1, <2>2, <2>3, <2>4
<1>2. QED
  BY <1>1, DeletionMailKept, TypeCorrect, OneRecordCorrect, RecordedErasureCorrect, PTL

\* The four arguments about requests, acknowledgements and e-mails together: what TLC
\* evaluates in every state of a small instance.
THEOREM PromisesCorrect == Spec => []PromisesInv
<1>1. PathInv /\ AcknowledgedInv /\ SubmissionMailInv /\ DeletionMailInv => PromisesInv
  BY DEF PromisesInv
<1>2. QED
  BY <1>1, PathCorrect, AcknowledgedKept, SubmissionMailKept, DeletionMailKept, PTL

-----------------------------------------------------------------------------
(* Logins *)

\* Everybody has the one token issued with their Auth0 user.
LEMMA LoginInit == Init => LoginInv
<1> SUFFICES ASSUME Init PROVE LoginInv
  OBVIOUS
<1>1. \A r \in Requests : req[r].pc = "idle" /\ req[r].victims = {}
  BY DEF Init, NoRequest
<1> DEFINE user(a) == [user_id |-> a.auth0Id, email |-> a.email, connection |-> "password"]
<1>2. /\ auth0 = {user(a) : a \in InitialApplicants} /\ jwt = auth0 /\ applicant = InitialApplicants
      /\ \A a : user(a).user_id = a.auth0Id /\ user(a).email = a.email
  BY DEF Init
<1> HIDE DEF user
<1>3. \A t, v \in jwt : t.user_id = v.user_id => t = v
  BY <1>2, InitialAssumption
<1>4. \A a \in applicant : HasToken(a.auth0Id, a.email)
  BY <1>2 DEF HasToken
<1>5. QED
  BY <1>1, <1>2, <1>3, <1>4 DEF LoginInv, UserIdsKept, At, RowDeleted

\* A request for the deletion of an e-mail is never forgotten.
LEMMA RequestedStays ==
  ASSUME TypeOK, PathInv, [Next]_vars, NEW e \in Emails, Requested(e)
  PROVE  Requested(e)'
<1>1. CASE \E d \in deletionRequests : d.email = e
  BY <1>1, RecordsStay DEF Requested
<1>2. ASSUME NEW x \in Requests, req[x].op = "deleteForce", req[x].email = e
      PROVE  req'[x].op = "deleteForce" /\ req'[x].email = e
  <2>0. OnPath(req[x])
    BY DEF PathInv
  <2>1. req[x].pc \notin {"idle", "createUser", "insert", "welcome", "findApplicant", "getUser"}
    BY <1>2, <2>0, IdAssumption DEF OnPath, RegisterOps, NoRequest
  <2>2. ASSUME Moves(x) PROVE req'[x].op = "deleteForce" /\ req'[x].email = e
    <3>1. CASE Begins(x) \/ RegisterMoves(x)
      BY <2>1, <3>1 DEF Begins, RegisterMoves, Goes
    <3>2. CASE Ends(x) \/ Answers(x) \/ ApplyMoves(x)
      BY <1>2, <3>2 DEF Ends, Answers, ApplyMoves, Goes, Keeps, SameKind, SamePerson
    <3>3. CASE DeletionMoves(x)
      BY <1>2, <2>1, <3>3, DeletionKeeps
    <3>4. QED
      BY <2>2, <3>1, <3>2, <3>3 DEF Moves
  <2>3. QED
    BY <1>2, <2>2, OneMoves DEF Elsewhere, Moves, Others
<1>3. QED
  BY <1>1, <1>2 DEF Requested

\* A request about to insert holds the token of the user it will name.
LEMMA InsertToken ==
  ASSUME TypeOK, PathInv, LoginInv, [Next]_vars, NEW x \in Requests, req'[x].pc = "insert",
         NEW u, NEW e, req'[x].sub = u, req'[x].email = e
  PROVE  HasToken(u, e)'
<1>1. CASE req'[x] = req[x]
  BY <1>1, TokensStay DEF LoginInv, At
<1>2. CASE Begins(x)
  <2>1. HasToken(u, e)
    BY <1>2 DEF Begins, Opening
  <2>2. QED
    BY <2>1, TokensStay
<1>3. CASE RegisterMoves(x)
  BY <1>3 DEF RegisterMoves, CreateUser, Goes, HasToken
<1>4. ASSUME Moves(x), ~Begins(x), ~RegisterMoves(x) PROVE FALSE
  BY <1>4 DEF Moves, Ends, Answers, DeletionMoves, ApplyMoves, Goes
<1>5. QED
  BY <1>1, <1>2, <1>3, <1>4, OneMoves DEF Elsewhere, Moves, Others

\* The labels from which a deletion knows whose login to remove.
Identified == {"deleteTx", "deleteRow", "recordRequest"} \cup RowDeleted

\* It learnt the user and the address from one row, or from one Auth0 user.
LEMMA DeletionToken ==
  ASSUME TypeOK, PathInv, LoginInv, [Next]_vars, NEW x \in Requests,
         req'[x].op \in DeleteOps, req'[x].pc \in Identified,
         NEW u, NEW e \in Emails, req'[x].sub = u, req'[x].email = e
  PROVE  HasToken(u, e)'
<1>0. OnPath(req[x]) /\ LocalsAssigned(req[x])
  BY DEF PathInv, TypeOK
<1>1. ASSUME req'[x].op = req[x].op, req[x].pc \in Identified, req[x].sub = u, req[x].email = e
      PROVE  HasToken(u, e)'
  BY <1>1, TokensStay DEF LoginInv, Identified
<1>2. CASE DeletionMoves(x)
  <2>1. CASE req[x].pc = "findApplicant"
    <3>1. PICK a \in Rows(req[x].id) : u = a.auth0Id /\ e = a.email
      BY <1>2, <2>1 DEF DeletionMoves, Goes
    <3>2. HasToken(u, e)
      BY <3>1 DEF Rows, LoginInv
    <3>3. QED
      BY <3>2, TokensStay
  <2>2. CASE req[x].pc = "getUser"
    <3>1. PICK w \in auth0 : w.user_id = u /\ e = IF w.email = None THEN w.user_id ELSE w.email
      BY <1>2, <2>2 DEF DeletionMoves, Goes
    <3>2. w.email = e
      BY <3>1, IdAssumption DEF TypeOK, Auth0User
    <3>3. HasToken(u, e)
      BY <3>1, <3>2 DEF LoginInv, UserIdsKept, HasToken
    <3>4. QED
      BY <3>3, TokensStay
  <2>3. CASE req[x].pc \notin {"findApplicant", "getUser"}
    <3>1. req'[x].op = req[x].op /\ req[x].sub = u /\ req[x].email = e
      BY <1>2, <2>3, DeletionKeeps
    <3>2. req[x].pc \in Identified
      BY <1>2, <2>3 DEF DeletionMoves, Goes, Identified, RowDeleted
    <3>3. QED
      BY <1>1, <3>1, <3>2
  <2>4. QED
    BY <2>1, <2>2, <2>3
<1>3. ASSUME Moves(x), ~DeletionMoves(x) PROVE FALSE
  <2>1. CASE RegisterMoves(x)
    BY <1>0, <2>1 DEF RegisterMoves, Goes, Keeps, SameKind, OnPath, RegisterOps, DeleteOps
  <2>2. CASE ApplyMoves(x)
    BY <1>0, <2>2 DEF ApplyMoves, Goes, Keeps, SameKind, OnPath, SubmissionOps, DeleteOps
  <2>3. CASE Begins(x) \/ Ends(x) \/ Answers(x)
    BY <2>3 DEF Begins, Opening, Ends, Answers, Identified, RowDeleted, RegisterOps, DeleteOps
  <2>4. QED
    BY <1>3, <2>1, <2>2, <2>3 DEF Moves
<1>4. CASE req'[x] = req[x]
  BY <1>1, <1>4
<1>5. QED
  BY <1>2, <1>3, <1>4, OneMoves DEF Elsewhere, Moves, Others

\* Past the row a deletion has put its e-mail on record, or is an administrator's.
LEMMA DeletionRequested ==
  ASSUME TypeOK, IdentityInv, PathInv, DeletionMailInv, [Next]_vars, NEW x \in Requests,
         req'[x].op \in DeleteOps, req'[x].pc \in RowDeleted,
         NEW e \in Emails, req'[x].email = e
  PROVE  Requested(e)'
<1>1. CASE req'[x].op = "deleteMe"
  <2> DEFINE d == [applicantId |-> req'[x].id, email |-> e, by |-> x]
  <2>1. d \in deletionRequests' /\ d.email = e
    BY <1>1, DeletionRecorded
  <2> HIDE DEF d
  <2>2. QED
    BY <2>1 DEF Requested
<1>2. CASE req'[x].op = "deleteForce"
  BY <1>2 DEF Requested
<1>3. QED
  BY <1>1, <1>2 DEF DeleteOps

\* The users a deletion has listed all have the address it is for.
LEMMA VictimTokens ==
  ASSUME TypeOK, PathInv, LoginInv, [Next]_vars, NEW x \in Requests,
         NEW u \in req'[x].victims, NEW e, req'[x].email = e
  PROVE  /\ HasToken(u, e)'
         /\ \/ u \in req[x].victims /\ req[x].email = e
            \/ req'[x].op \in DeleteOps /\ req'[x].pc = "deleteListed"
<1>0. OnPath(req[x])
  BY DEF PathInv
<1>1. CASE u \in req[x].victims /\ req[x].email = e
  BY <1>1, TokensStay DEF LoginInv
<1>2. ASSUME Moves(x), u \in req[x].victims PROVE req[x].email = e
  <2>1. req[x].pc \in {"deleteListed", "done"}
    BY <1>0, <1>2 DEF OnPath
  <2>2. CASE DeletionMoves(x)
    BY <2>1, <2>2, DeletionKeeps
  <2>3. CASE ~DeletionMoves(x)
    BY <1>2, <2>1, <2>3 DEF Moves, Begins, Ends, Answers, RegisterMoves, ApplyMoves, Goes, SamePerson
  <2>4. QED
    BY <2>2, <2>3
<1>3. ASSUME Moves(x), u \notin req[x].victims
      PROVE  /\ HasToken(u, e)'
             /\ req'[x].op \in DeleteOps /\ req'[x].pc = "deleteListed"
  <2>1. DeletionMoves(x)
    BY <1>3 DEF Moves, Begins, Ends, Answers, RegisterMoves, ApplyMoves, Goes, Keeps, SameLists
  <2>2. /\ req'[x].pc = "deleteListed" /\ req'[x].email = req[x].email /\ req'[x].op = req[x].op
        /\ req'[x].victims = {w.user_id : w \in {v \in auth0 : v.email = req[x].email}}
    BY <1>3, <2>1 DEF DeletionMoves, Goes, Keeps, SameLists, SamePerson, SameKind
  <2>3. PICK w \in auth0 : w.email = e /\ w.user_id = u
    BY <2>2
  <2>4. HasToken(u, e)
    BY <2>3 DEF LoginInv, UserIdsKept, HasToken
  <2>5. QED
    BY <2>1, <2>2, <2>4, TokensStay, DeletionKeeps
<1>4. CASE req'[x] = req[x]
  BY <1>1, <1>4
<1>5. QED
  BY <1>1, <1>2, <1>3, <1>4, OneMoves DEF Elsewhere, Moves, Others

\* A row names the user and the address of one token, unless ids are relinked.
LEMMA RowTokens ==
  ASSUME "relink" \notin Ops, TypeOK, PathInv, LoginInv, [Next]_vars, NEW a \in applicant',
         NEW u, NEW e, a.auth0Id = u, a.email = e
  PROVE  HasToken(u, e)'
<1>1. CASE \E b \in applicant : b.auth0Id = u /\ b.email = e
  BY <1>1, TokensStay DEF LoginInv
<1>2. ASSUME NEW r \in Requests, InsertApplicant(r), a \notin applicant PROVE HasToken(u, e)'
  <2> DEFINE row(i) == [id |-> i, email |-> req[r].email, auth0Id |-> req[r].sub, isPaused |-> FALSE]
  <2>1. \A i : row(i).email = req[r].email /\ row(i).auth0Id = req[r].sub
    OBVIOUS
  <2>2. /\ \E i : applicant' = applicant \cup {row(i)}
        /\ At(r, "insert")
    BY <1>2 DEF InsertApplicant
  <2> HIDE DEF row
  <2>3. u = req[r].sub /\ e = req[r].email
    BY <1>2, <2>1, <2>2
  <2>4. HasToken(u, e)
    BY <2>2, <2>3 DEF LoginInv
  <2>5. QED
    BY <2>4, TokensStay
<1>3. ASSUME NEW r \in Requests, PauseApplicant(r)
      PROVE  \E b \in applicant : b.auth0Id = u /\ b.email = e
  <2>1. CASE applicant' = applicant
    BY <2>1
  <2>2. ASSUME NEW f \in BOOLEAN,
               applicant' = {IF b.id = req[r].id THEN [b EXCEPT !.isPaused = f] ELSE b : b \in applicant}
        PROVE  \E b \in applicant : b.auth0Id = u /\ b.email = e
    <3>1. PICK b \in applicant : a = IF b.id = req[r].id THEN [b EXCEPT !.isPaused = f] ELSE b
      BY <2>2
    <3>2. b \in ApplicantRow
      BY DEF TypeOK
    <3>3. QED
      BY <3>1, <3>2 DEF ApplicantRow
  <2>3. QED
    BY <1>3, <2>1, <2>2 DEF PauseApplicant
<1>4. ASSUME NEW r \in Requests, UpdateAuth0Id(r) PROVE FALSE
  BY <1>4 DEF UpdateAuth0Id, At, PathInv, OnPath
<1>5. applicant' \subseteq applicant
        \/ \E r \in Requests : InsertApplicant(r) \/ PauseApplicant(r) \/ UpdateAuth0Id(r)
  BY DatabaseSteps DEF Unchanged, CommitDeletion, DeleteRow, DeleteCascade, RecordRequest,
       InsertUpload, SetUploadStatus, CreateSubmission, UpdateSubmission, UpsertDraft
<1>6. QED
  BY <1>1, <1>2, <1>3, <1>4, <1>5

\* A user goes from Auth0 only when its address was asked to be deleted.
LEMMA TokenUsers ==
  ASSUME TypeOK, PathInv, LoginInv, [Next]_vars
  PROVE  /\ UserIdsKept'
         /\ \A t \in jwt' : (\E u \in auth0' : u.user_id = t.user_id)
                               \/ \A e : t.email = e => Requested(e)'
<1>0. /\ auth0 \subseteq jwt
      /\ \A t, v \in jwt : t.user_id = v.user_id => t = v
      /\ \A t \in jwt : (\E u \in auth0 : u.user_id = t.user_id) \/ Requested(t.email)
  BY DEF LoginInv, UserIdsKept
<1>1. ASSUME NEW t \in jwt, Requested(t.email) PROVE \A e : t.email = e => Requested(e)'
  <2>1. t.email \in Emails
    BY <1>1 DEF Requested
  <2>2. QED
    BY <1>1, <2>1, RequestedStays
<1>2. CASE auth0' = auth0 /\ jwt' = jwt
  BY <1>0, <1>1, <1>2 DEF UserIdsKept
<1>3. CASE \E t : /\ auth0' = auth0 \cup {t} /\ jwt' = jwt \cup {t}
                  /\ t \in jwt \/ \A v \in jwt : v.user_id # t.user_id
  BY <1>0, <1>1, <1>3 DEF UserIdsKept
<1>4. ASSUME jwt' = jwt, NEW r \in Requests, NEW u, auth0' = {v \in auth0 : v.user_id # u},
             (At(r, "deleteById") /\ u = req[r].sub) \/ u \in req[r].victims
      PROVE  \A t \in jwt' : (\E w \in auth0' : w.user_id = t.user_id)
                                \/ \A e : t.email = e => Requested(e)'
  <2>1. HasToken(u, req[r].email) /\ Requested(req[r].email)
    <3>1. At(r, "deleteById") => req[r].op \in DeleteOps /\ req[r].email \in Emails
      BY DEF PathInv, OnPath, At, TypeOK, LocalsAssigned, DeletionLabels
    <3>2. QED
      BY <1>4, <3>1 DEF LoginInv, At, RowDeleted
  <2>2. \A t \in jwt : t.user_id = u => Requested(t.email)
    BY <1>0, <2>1 DEF HasToken
  <2>3. QED
    BY <1>0, <1>1, <1>4, <2>2
<1>5. UserIdsKept'
  BY <1>0, <1>2, <1>3, LoginSteps DEF UserIdsKept
<1>6. QED
  BY <1>0, <1>2, <1>3, <1>4, <1>5, LoginSteps

\* Every handler's step keeps users, tokens and requested deletions in agreement.
LEMMA LoginStep ==
  ASSUME "relink" \notin Ops, TypeOK, IdentityInv, PathInv, DeletionMailInv, LoginInv, [Next]_vars
  PROVE  LoginInv'
<1>1. /\ UserIdsKept'
      /\ \A t \in jwt' : (\E u \in auth0' : u.user_id = t.user_id) \/ Requested(t.email)'
  BY TokenUsers
<1>2. \A a \in applicant' : HasToken(a.auth0Id, a.email)'
  BY RowTokens
<1>3. ASSUME NEW x \in Requests
      PROVE  /\ At(x, "insert")' => HasToken(req[x].sub, req[x].email)'
             /\ req'[x].op \in DeleteOps /\ req'[x].email \in Emails =>
                  /\ req'[x].pc \in Identified => HasToken(req[x].sub, req[x].email)'
                  /\ req'[x].pc \in RowDeleted => Requested(req[x].email)'
  BY InsertToken, DeletionToken, DeletionRequested DEF At
<1>4. ASSUME NEW x \in Requests, NEW u \in req'[x].victims
      PROVE  HasToken(u, req[x].email)' /\ Requested(req[x].email)'
  <2>0. PICK e : req'[x].email = e
    OBVIOUS
  <2>1. /\ HasToken(u, e)'
        /\ \/ u \in req[x].victims /\ req[x].email = e
           \/ req'[x].op \in DeleteOps /\ req'[x].pc = "deleteListed"
    BY <2>0, VictimTokens
  <2>2. CASE u \in req[x].victims /\ req[x].email = e
    <3>1. HasToken(u, e) /\ Requested(e)
      BY <2>2 DEF LoginInv
    <3>2. e \in Emails
      BY <3>1 DEF Requested
    <3>3. QED
      BY <2>0, <2>1, <3>1, <3>2, RequestedStays
  <2>3. CASE req'[x].op \in DeleteOps /\ req'[x].pc = "deleteListed"
    <3>1. e \in Emails
      BY <2>0, <2>3, NextType DEF TypeOK, LocalsAssigned, DeletionLabels
    <3>2. QED
      BY <2>0, <2>1, <2>3, <3>1, DeletionRequested DEF RowDeleted
  <2>4. QED
    BY <2>1, <2>2, <2>3
<1>5. QED
  BY <1>1, <1>2, <1>3, <1>4 DEF LoginInv, Identified

\* Every token keeps its user, or its e-mail's deletion was asked for; and no deletion
\* holds a user of another e-mail than its own.
THEOREM LoginInvCorrect == ASSUME "relink" \notin Ops PROVE Spec => []LoginInv
<1>1. /\ TypeOK /\ SafetyInv /\ PathInv /\ DeletionMailInv /\ LoginInv /\ [Next]_vars
      => LoginInv'
  BY LoginStep DEF SafetyInv
<1>2. QED
  BY <1>1, LoginInit, DeletionMailKept, PathCorrect, TypeCorrect, SafetyCorrect, PTL DEF Spec

\* A login goes from Auth0 only after the deletion of its e-mail was asked for, by
\* its owner on the record or by an administrator, whatever failed and whoever
\* registered meanwhile; as long as the identity service relinks no ids.
THEOREM LoginCorrect == ASSUME "relink" \notin Ops PROVE Spec => []LoginLossIsRequested
<1>1. LoginInv => LoginLossIsRequested
  <2> SUFFICES ASSUME LoginInv, NEW a \in applicant
               PROVE  \/ \E u \in auth0 : u.user_id = a.auth0Id
                      \/ Requested(a.email)
    BY DEF LoginLossIsRequested, Requested
  <2>1. PICK t \in jwt : t.user_id = a.auth0Id /\ t.email = a.email
    BY DEF LoginInv, HasToken
  <2>2. QED
    BY <2>1 DEF LoginInv
<1>2. Spec => []LoginInv
  BY LoginInvCorrect
<1>3. QED
  BY <1>1, <1>2, PTL

-----------------------------------------------------------------------------
(* Objects *)

\* No deletion has begun.
LEMMA ObjectsInit == Init => ObjectsInv
<1> SUFFICES ASSUME Init, NEW r \in Requests
             PROVE  ~PastRow(req[r]) /\ ~HasListed(req[r]) /\ req[r].keys = {}
  BY DEF ObjectsInv, RowsGoFirst, KeysMatch, ObjectsGo
<1>1. req[r] = NoRequest
  BY DEF Init
<1>2. NoRequest.pc = "idle" /\ NoRequest.status = 0 /\ NoRequest.keys = {}
  BY DEF NoRequest
<1>3. QED
  BY <1>1, <1>2 DEF PastRow, HasListed, RowDeleted

\* Only the deletion of the row takes a request past it.
LEMMA PastRowMove ==
  ASSUME TypeOK, IdentityInv, PathInv, NEW x \in Requests, Moves(x), PastRow(req'[x])
  PROVE  /\ req'[x].id = req[x].id /\ req'[x].op = req[x].op /\ (DeletionMoves(x) \/ Answers(x))
         /\ PastRow(req[x]) \/ CommitDeletion(x) \/ DeleteRow(x)
<1>0. OnPath(req[x]) /\ LocalsAssigned(req[x]) /\ (req[x].pc = "recordRequest" => req[x].id = 0)
  BY DEF PathInv, TypeOK, IdentityInv
<1>1. CASE DeletionMoves(x)
  <2>1. req'[x].id = req[x].id /\ req'[x].op = req[x].op /\ req'[x].status = req[x].status
    BY <1>1, DeletionKeeps
  <2>2. CASE PastRow(req[x])
    BY <1>1, <2>1, <2>2
  <2>3. CASE ~PastRow(req[x])
    <3>1. req[x].pc \notin RowDeleted /\ req'[x].pc \in RowDeleted /\ req[x].id # 0
      BY <2>1, <2>3 DEF PastRow
    <3>2. QED
      BY <1>0, <1>1, <2>1, <3>1 DEF DeletionMoves, RowDeleted, Goes
  <2>4. QED
    BY <2>2, <2>3
<1>2. CASE Answers(x)
  BY <1>2 DEF Answers, SameKind, SamePerson, PastRow, RowDeleted
<1>3. CASE Begins(x) \/ Ends(x)
  BY <1>3 DEF Begins, Opening, Ends, PastRow, RowDeleted
<1>4. CASE RegisterMoves(x)
  BY <1>0, <1>4 DEF RegisterMoves, Goes, Keeps, SameKind, OnPath, RegisterOps, DeleteOps, PastRow
<1>5. CASE ApplyMoves(x)
  BY <1>0, <1>5 DEF ApplyMoves, Goes, Keeps, SameKind, OnPath, SubmissionOps, DeleteOps, PastRow
<1>6. QED
  BY <1>1, <1>2, <1>3, <1>4, <1>5 DEF Moves

\* A deletion goes past the row only when it has deleted it, and the row never comes
\* back.
LEMMA RowsFirstStep ==
  ASSUME TypeOK, ErasureInv, IdentityInv, PathInv, RowsGoFirst, [Next]_vars
  PROVE  RowsGoFirst'
<1> SUFFICES ASSUME NEW x \in Requests, PastRow(req'[x]), NEW i, req'[x].id = i
             PROVE  Gone(i)'
  BY DEF RowsGoFirst, PastRow, Gone, Registered
<1>1. PICK j : req[x].id = j /\ j \in Nat
  BY IdsAreNumbers
<1>2. ASSUME PastRow(req[x]), i = j PROVE Gone(i)'
  BY <1>1, <1>2, GoneStays DEF RowsGoFirst
<1>3. CASE req'[x] = req[x]
  BY <1>1, <1>2, <1>3
<1>4. CASE Moves(x)
  <2>1. i = j /\ (PastRow(req[x]) \/ CommitDeletion(x) \/ DeleteRow(x))
    BY <1>1, <1>4, PastRowMove
  <2>2. CASE CommitDeletion(x) \/ DeleteRow(x)
    <3>1. Registered(i) /\ ~Registered(i)'
      BY <1>1, <2>1, <2>2 DEF CommitDeletion, DeleteRow, DeleteCascade, Registered
    <3>2. QED
      BY <1>1, <2>1, <3>1, GoneStays
  <2>3. QED
    BY <1>2, <2>1, <2>2
<1>5. QED
  BY <1>3, <1>4, OneMoves DEF Elsewhere, Moves, Others

\* An object is stored by a client, or deleted by a request that has listed it.
LEMMA BucketSteps ==
  ASSUME [Next]_vars
  PROVE  \/ bucket' = bucket
         \/ \E k \in Key : PutObject(k)
         \/ \E r \in Requests : At(r, "deleteObjects") /\ \E K \in SUBSET req[r].keys : bucket' = bucket \ K
<1>1. ASSUME NEW r \in Requests, Registering(r) PROVE bucket' = bucket
  BY <1>1 DEF Registering, StartRegister, StartRegisterWithJwt, Issue, CreateUser,
              InsertConflict, InsertApplicant, SendWelcome, services
<1>2. ASSUME NEW r \in Requests, Deleting(r), ~DeleteObjects(r) PROVE bucket' = bucket
  <2>1. CASE \/ \E t \in jwt : StartDeleteMe(r, t)
             \/ \E i \in ApplicantIds : StartDeleteForce(r, i)
    BY <2>1 DEF StartDeleteMe, StartDeleteForce, Issue, services
  <2>2. CASE FindApplicant(r) \/ RowAlreadyGone(r) \/ GetUser(r) \/ UsersDeleted(r)
    BY <2>2 DEF FindApplicant, RowAlreadyGone, GetUser, UsersDeleted, services
  <2>3. CASE \/ DeleteById(r) \/ ListByEmail(r) \/ ListResumes(r) \/ NotifyDeletion(r)
             \/ \E u \in Auth0Ids : DeleteListed(r, u)
    BY <2>3 DEF DeleteById, ListByEmail, ListResumes, NotifyDeletion, DeleteListed, services
  <2>4. CASE CommitDeletion(r) \/ DeleteRow(r) \/ RecordRequest(r)
    BY <2>4 DEF CommitDeletion, DeleteRow, RecordRequest, services
  <2>5. QED
    BY <1>2, <2>1, <2>2, <2>3, <2>4 DEF Deleting
<1>3. ASSUME NEW r \in Requests, DeleteObjects(r)
      PROVE  At(r, "deleteObjects") /\ \E K \in SUBSET req[r].keys : bucket' = bucket \ K
  BY <1>3 DEF DeleteObjects
<1>4. ASSUME NEW r \in Requests, Applying(r) PROVE bucket' = bucket
  BY <1>4 DEF Applying, StartCreateUpload, StartCompleteUpload, StartApplication, StartPause,
              StartRelink, Issue, ValidateApplication, NotifySubmission, InsertUpload,
              SetUploadStatus, CreateSubmission, UpdateSubmission, UpsertDraft, PauseApplicant,
              UpdateAuth0Id, services
<1>5. ASSUME \/ UNCHANGED vars
             \/ \E r \in Requests : Respond(r) \/ Fail(r)
             \/ \E u \in Auth0Ids, e \in Emails \cup {None} : SocialSignUp(u, e)
             \/ \E s \in session : SessionExpires(s)
      PROVE  bucket' = bucket
  BY <1>5 DEF vars, Respond, Fail, SocialSignUp, SessionExpires, services
<1>6. QED
  BY <1>1, <1>2, <1>3, <1>4, <1>5 DEF Next

BucketFinite == IsFiniteSet(bucket)

\* The bucket holds finitely many objects, so a page can be compared with them.
LEMMA BucketFiniteInit == Init => BucketFinite
<1> SUFFICES ASSUME Init PROVE IsFiniteSet(bucket)
  BY DEF BucketFinite
<1> DEFINE stored == {v \in InitialUploads : v.status = "SUCCESS"}
           key == [u \in stored |-> [applicantId |-> u.applicantId, uploadId |-> u.id]]
<1>1. IsFiniteSet(stored)
  BY InitialAssumption, FS_Subset
<1>2. bucket = {key[u] : u \in stored}
  BY DEF Init
<1>3. key \in Surjection(stored, bucket)
  BY <1>2 DEF Surjection
<1>4. QED
  BY <1>1, <1>3, FS_Surjection

\* One step stores one.
LEMMA BucketFiniteStep == BucketFinite /\ [Next]_vars => BucketFinite'
BY BucketSteps, FS_AddElement, FS_Subset DEF BucketFinite, PutObject

\* What is stored after a deletion has listed is noted, and never unnoted.
LEMMA LateNoted ==
  ASSUME TypeOK, [Next]_vars
  PROVE  /\ missed \subseteq missed'
         /\ \A x \in Requests, k \in bucket' \ bucket :
              HasListed(req[x]) /\ req[x].id = k.applicantId => <<x, k>> \in missed'
<1>1. CASE \E k \in Key : PutObject(k)
  BY <1>1 DEF PutObject
<1>2. ASSUME NEW r \in Requests, Moves(r) PROVE missed \subseteq missed'
  <2>1. CASE Begins(r) \/ Ends(r) \/ Answers(r)
    BY <2>1 DEF Begins, Ends, Answers, Respond, services
  <2>2. CASE RegisterMoves(r)
    BY <2>2 DEF RegisterMoves, CreateUser, InsertApplicant, SendWelcome, services
  <2>3. CASE ApplyMoves(r)
    BY <2>3 DEF ApplyMoves, InsertUpload, SetUploadStatus, ValidateApplication, CreateSubmission,
                NotifySubmission, UpdateSubmission, UpsertDraft, PauseApplicant, UpdateAuth0Id,
                services
  <2>4. CASE DeletionMoves(r)
    BY <2>4 DEF DeletionMoves, FindApplicant, CommitDeletion, DeleteRow, GetUser, RecordRequest,
                DeleteById, ListByEmail, DeleteListed, UsersDeleted, ListResumes, DeleteObjects,
                NotifyDeletion, services
  <2>5. QED
    BY <1>2, <2>1, <2>2, <2>3, <2>4 DEF Moves
<1>3. ~(\E k \in Key : PutObject(k)) => missed \subseteq missed' /\ bucket' \subseteq bucket
  BY <1>2, OneMoves, BucketSteps DEF Elsewhere, vars, SocialSignUp, SessionExpires, services
<1>4. QED
  BY <1>1, <1>3

\* Every id is a prefix of itself, so the listing finds what the applicant has.
LEMMA OwnKeysListed ==
  ASSUME NEW i \in Nat, IsFiniteSet(ObjectsOf(i)), Cardinality(ObjectsOf(i)) <= PageSize,
         NEW K \in FirstPages(i)
  PROVE  ObjectsOf(i) \subseteq K
<1> DEFINE own == ObjectsOf(i)
<1>1. /\ K = ResumeKeys(i) \/ Cardinality(K) = PageSize
      /\ K \subseteq own \/ own \subseteq K
  BY DEF FirstPages, ObjectsOf
<1>2. own \subseteq ResumeKeys(i)
  <2>1. i \div (10 ^ 0) = i
    OBVIOUS
  <2>2. DecimalPrefix(i, i)
    BY <2>1 DEF DecimalPrefix
  <2>3. QED
    BY <2>2 DEF ObjectsOf, ResumeKeys
<1>3. CASE Cardinality(K) = PageSize /\ K \subseteq own
  <2> HIDE DEF own
  <2>1. IsFiniteSet(own) /\ Cardinality(own) <= PageSize
    BY DEF own
  <2>2. /\ Cardinality(K) <= Cardinality(own) /\ (Cardinality(own) = Cardinality(K) => own = K)
        /\ Cardinality(own) \in Nat
    BY <1>3, <2>1, FS_Subset, FS_CardinalityType
  <2>3. PageSize \in Nat
    BY IdAssumption
  <2>4. own = K
    BY <1>3, <2>1, <2>2, <2>3
  <2>5. QED
    BY <2>4 DEF own
<1>4. QED
  BY <1>1, <1>2, <1>3

\* Only its own listing makes a deletion one that has listed; later the list goes with
\* the objects on it.
LEMMA ListedMove ==
  ASSUME TypeOK, IdentityInv, PathInv, NEW x \in Requests, Moves(x), HasListed(req'[x]),
         req'[x].id # 0
  PROVE  /\ req'[x].id = req[x].id
         /\ \/ HasListed(req[x]) /\ req'[x].keys = req[x].keys
            \/ HasListed(req[x]) /\ bucket' = bucket \ req[x].keys
            \/ ListResumes(x) /\ req'[x].keys \in FirstPages(req[x].id)
<1>0. OnPath(req[x]) /\ LocalsAssigned(req[x]) /\ (req[x].pc = "recordRequest" => req[x].id = 0)
  BY DEF PathInv, TypeOK, IdentityInv
<1>1. CASE DeletionMoves(x)
  <2>1. /\ req'[x].id = req[x].id /\ req'[x].op = req[x].op /\ req'[x].status = req[x].status
        /\ req[x].op \in DeleteOps
    BY <1>1, DeletionKeeps
  <2>2. CASE req[x].pc \in {"findApplicant", "deleteTx", "deleteRow", "getUser", "recordRequest"}
    BY <1>0, <1>1, <2>1, <2>2 DEF DeletionMoves, Goes, HasListed, OnPath
  <2>3. CASE req[x].pc \in {"deleteById", "listByEmail", "deleteListed", "done"}
    BY <1>0, <1>1, <2>1, <2>3 DEF DeletionMoves, Goes, Keeps, SameLists, HasListed, OnPath, DeleteOps
  <2>4. CASE req[x].pc \in {"listResumes", "deleteObjects", "notify"}
    BY <1>0, <1>1, <2>1, <2>4 DEF DeletionMoves, Goes, Keeps, SameLists, HasListed, OnPath, DeleteOps
  <2>5. QED
    BY <1>1, <2>2, <2>3, <2>4 DEF DeletionMoves, Goes
<1>2. CASE Answers(x)
  BY <1>2 DEF Answers, SameKind, SamePerson, SameLists, HasListed, DeleteOps
<1>3. CASE Begins(x) \/ Ends(x)
  BY <1>3 DEF Begins, Opening, Ends, HasListed
<1>4. CASE RegisterMoves(x)
  BY <1>0, <1>4 DEF RegisterMoves, Goes, Keeps, SameKind, OnPath, RegisterOps, DeleteOps, HasListed
<1>5. CASE ApplyMoves(x)
  BY <1>0, <1>5 DEF ApplyMoves, Goes, Keeps, SameKind, OnPath, SubmissionOps, DeleteOps, HasListed
<1>6. QED
  BY <1>1, <1>2, <1>3, <1>4, <1>5 DEF Moves

\* The page a deletion lists holds its applicant's objects, but for those beyond it.
LEMMA ListingNotes ==
  ASSUME BucketFinite, NEW x \in Requests, ListResumes(x), NEW i \in Nat, req[x].id = i,
         req'[x].keys \in FirstPages(i), TypeOK
  PROVE  bucket' = bucket /\ \A k \in ObjectsOf(i) : k \in req'[x].keys \/ <<x, k>> \in missed'
<1>1. PICK K \in FirstPages(i) :
        /\ req' = [req EXCEPT ![x] = [@ EXCEPT !.pc = "deleteObjects", !.keys = K]]
        /\ missed' = IF Cardinality(ObjectsOf(i)) <= PageSize THEN missed
                     ELSE missed \cup ({x} \X (ObjectsOf(i) \ K))
        /\ bucket' = bucket
  BY DEF ListResumes
<1>2. req'[x].keys = K
  BY <1>1 DEF TypeOK, Request
<1>3. IsFiniteSet(ObjectsOf(i))
  BY FS_Subset DEF BucketFinite, ObjectsOf
<1>4. CASE Cardinality(ObjectsOf(i)) <= PageSize
  BY <1>1, <1>2, <1>3, <1>4, OwnKeysListed
<1>5. CASE ~(Cardinality(ObjectsOf(i)) <= PageSize)
  BY <1>1, <1>2, <1>5
<1>6. QED
  BY <1>1, <1>4, <1>5

\* What is not on the list is noted when the list is made, or when it is stored later.
LEMMA ObjectsStep ==
  ASSUME BucketFinite, TypeOK, IdentityInv, PathInv, ObjectsGo, [Next]_vars
  PROVE  ObjectsGo'
<1> SUFFICES ASSUME NEW x \in Requests, HasListed(req'[x]), NEW k \in bucket',
                    k.applicantId = req'[x].id
             PROVE  k \in req'[x].keys \/ <<x, k>> \in missed'
  BY DEF ObjectsGo, ObjectsOf, HasListed
<1>0. missed \subseteq missed'
  BY LateNoted
<1>1. ASSUME HasListed(req[x]), req'[x].id = req[x].id
      PROVE  k \in req[x].keys \/ <<x, k>> \in missed'
  BY <1>0, <1>1, LateNoted DEF ObjectsGo, ObjectsOf
<1>2. CASE req'[x] = req[x]
  BY <1>1, <1>2
<1>3. CASE Moves(x)
  <2>1. req'[x].id # 0
    <3>1. k.applicantId \in ApplicantIds
      BY NextType DEF TypeOK, Key
    <3>2. QED
      BY <3>1, IdAssumption
  <2>2. CASE HasListed(req[x])
    <3>1. ~ListResumes(x)
      <4>1. req[x].pc = "listResumes" => req[x].status = 0
        BY IdAssumption DEF PathInv, OnPath, TypeOK, Request, Statuses
      <4>2. QED
        <5>1. ListResumes(x) => req[x].pc = "listResumes"
          BY DEF ListResumes, At
        <5>2. QED
          BY <2>2, <4>1, <5>1 DEF HasListed
    <3>2. QED
      BY <1>1, <1>3, <2>1, <2>2, <3>1, ListedMove
  <2>3. CASE ListResumes(x) /\ req'[x].keys \in FirstPages(req[x].id) /\ req'[x].id = req[x].id
    BY <2>3, ListingNotes, IdsAreNumbers DEF ObjectsOf
  <2>4. QED
    BY <1>3, <2>1, <2>2, <2>3, ListedMove
<1>4. QED
  BY <1>2, <1>3, OneMoves DEF Elsewhere, Moves, Others

\* Only a listing puts keys on a list, of the prefix asked for.
LEMMA KeysStep ==
  ASSUME TypeOK, PathInv, KeysMatch, [Next]_vars
  PROVE  KeysMatch'
<1> SUFFICES ASSUME NEW x \in Requests, NEW k \in req'[x].keys
             PROVE  DecimalPrefix(req'[x].id, k.applicantId)
  BY DEF KeysMatch, DecimalPrefix
<1>1. CASE req'[x] = req[x]
  BY <1>1 DEF KeysMatch
<1>2. CASE Moves(x)
  <2>1. CASE req[x].pc = "listResumes" /\ req'[x].keys \in FirstPages(req[x].id) /\ req'[x].id = req[x].id
    BY <2>1 DEF FirstPages, ResumeKeys
  <2>2. req[x].keys # {} => req[x].pc = "deleteObjects"
    BY DEF PathInv, OnPath
  <2>3. CASE DeletionMoves(x)
    BY <2>1, <2>2, <2>3 DEF DeletionMoves, Goes, Keeps, SameLists, SamePerson
  <2>4. CASE ~DeletionMoves(x)
    BY <1>2, <2>2, <2>4 DEF Moves, Begins, Ends, Answers, RegisterMoves, ApplyMoves, Goes, Keeps, SameLists
  <2>5. QED
    BY <2>3, <2>4
<1>3. QED
  BY <1>1, <1>2, OneMoves DEF Elsewhere, Moves, Others

\* The three go together.
LEMMA ObjectsInvStep ==
  BucketFinite /\ SafetyInv /\ PathInv /\ ObjectsInv /\ [Next]_vars => ObjectsInv'
BY RowsFirstStep, KeysStep, ObjectsStep DEF SafetyInv, ObjectsInv

\* A deletion past the row is of somebody who is gone, its list holds what has the
\* prefix of that id, and what is not on the list it could not know of.
THEOREM ObjectsInvCorrect == Spec => []ObjectsInv
<1>1. BucketFinite /\ SafetyInv /\ PathInv /\ ObjectsInv /\ [Next]_vars => ObjectsInv'
  BY ObjectsInvStep
<1>2. QED
  BY <1>1, ObjectsInit, BucketFiniteInit, BucketFiniteStep, PathCorrect, TypeCorrect, SafetyCorrect, PTL DEF Spec

\* A deletion that was answered 200 has left no object of its applicant but those
\* stored after it had listed or beyond its page, however many uploads raced it,
\* whatever S3 refused and however the pages were filled.
THEOREM ObjectsCorrect == Spec => []DeletionLeavesNoObjects
<1>1. PathInv /\ ObjectsInv => DeletionLeavesNoObjects
  BY DEF PathInv, OnPath, ObjectsInv, ObjectsGo, HasListed, DeletionLeavesNoObjects
<1>2. QED
  BY <1>1, ObjectsInvCorrect, PathCorrect, PTL

\* An object is lost to a deletion of its applicant, past the row, or of a prefix.
LEMMA ObjectLost ==
  ASSUME PathInv, ObjectsInv, [Next]_vars, NEW k \in bucket \ bucket', NEW i, k.applicantId = i
  PROVE  ~Registered(i) \/ PrefixDeleted(i)
<1>1. PICK r \in Requests : At(r, "deleteObjects") /\ k \in req[r].keys
  BY BucketSteps DEF PutObject
<1>2. DecimalPrefix(req[r].id, i) /\ req[r].op \in DeleteOps /\ req[r].id # 0
  BY <1>1 DEF At, PathInv, OnPath, ObjectsInv, KeysMatch
<1>3. CASE req[r].id = i
  BY <1>1, <1>2, <1>3 DEF ObjectsInv, RowsGoFirst, PastRow, RowDeleted, Gone, At
<1>4. CASE req[r].id # i
  BY <1>2, <1>4 DEF PrefixDeleted
<1>5. QED
  BY <1>3, <1>4

\* An object goes only with its applicant's row gone before it, or because resumes
\* were deleted of an applicant whose id is a decimal prefix of its owner's.
THEOREM ResumesKeptCorrect == Spec => ResumesKept
<1> DEFINE Kept == \A k \in bucket \ bucket' :
                     ~Registered(k.applicantId) \/ PrefixDeleted(k.applicantId)
<1>1. PathInv /\ ObjectsInv /\ [Next]_vars => [Kept]_vars
  BY ObjectLost
<1> HIDE DEF Kept
<1>2. Spec => [][Kept]_vars
  BY <1>1, ObjectsInvCorrect, PathCorrect, PTL DEF Spec
<1>3. QED
  BY <1>2 DEF ResumesKept, Kept
=============================================================================
