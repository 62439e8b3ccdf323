-------------------------- MODULE TestCleanupProofs --------------------------
(***************************************************************************)
(* The cleanup beside the API: what the API's requests keep they keep here *)
(* too, since a step of the cleanup only begins deletions, in slots nobody *)
(* uses.  On that rest the promises of the cleanup itself.                 *)
(***************************************************************************)
EXTENDS TestCleanup, CommonAppPromises, CommonAppLifecycle

\* What holds of the API whatever else is assumed.
CoreInv == SafetyInv /\ PathInv /\ DeletionMailInv /\ ObjectsInv /\ BucketFinite

\* A slot as the cleanup leaves it when it begins the deletion of i.
Opened(q, i) ==
  /\ q \in Request
  /\ q.op = "deleteForce" /\ q.pc = "findApplicant" /\ q.status = 0
  /\ q.who = None /\ q.email = None /\ q.id = i /\ q.victims = {} /\ q.keys = {}

\* Some slots that were idle are begun; nothing else happens.
SlotsOpen ==
  /\ UNCHANGED <<tables, services>>
  /\ req' \in [Requests -> Request]
  /\ \A r \in Requests :
       req'[r] = req[r] \/ (req[r] = NoRequest /\ \E i \in ApplicantIds : Opened(req'[r], i))

\* What is served beside the cleanup is a step of the API.
LEMMA ServeNext == Serve => [Next]_vars
BY DEF Serve, Next, Served

\* A deletion begun by the cleanup is a well-typed request that has done nothing.
LEMMA DeletionOpened ==
  ASSUME NEW i \in ApplicantIds, NEW q,
         q = [NoRequest EXCEPT !.op = "deleteForce", !.pc = "findApplicant", !.id = i]
  PROVE  Opened(q, i)
<1>1. NoRequest \in Request
  BY NoRequestType
<1>2. /\ NoRequest.status = 0 /\ NoRequest.who = None /\ NoRequest.email = None
      /\ NoRequest.victims = {} /\ NoRequest.keys = {}
  BY DEF NoRequest
<1>3. "deleteForce" \in Ops \cup {None} /\ "findApplicant" \in Labels /\ i \in ApplicantIds \cup {0}
  BY SlotAssumption DEF Labels
<1> HIDE DEF NoRequest
<1>4. /\ q.op = "deleteForce" /\ q.pc = "findApplicant" /\ q.id = i
      /\ q.status = NoRequest.status /\ q.who = NoRequest.who /\ q.email = NoRequest.email
      /\ q.victims = NoRequest.victims /\ q.keys = NoRequest.keys
  BY <1>1 DEF Request
<1>5. q \in Request
  BY <1>1, <1>3 DEF Request
<1>6. QED
  BY <1>2, <1>4, <1>5 DEF Opened

\* The slots of a batch are opened, each for its own applicant; the others stay.
LEMMA BatchStarts ==
  ASSUME TypeOK, PathInv, listed \subseteq ApplicantIds, NEW B, StartBatch(B)
  PROVE  /\ SlotsOpen
         /\ B \subseteq Pending /\ batch' = B /\ UNCHANGED <<listed, handler>>
         /\ \A i \in B : Opened(req'[SlotOf[i]], i)
         /\ \A i \in ApplicantIds \ B : req'[SlotOf[i]] = req[SlotOf[i]]
<1>1. /\ B \subseteq Pending /\ B \subseteq ApplicantIds /\ batch' = B /\ UNCHANGED <<listed, handler>>
      /\ UNCHANGED <<tables, services>>
  BY DEF StartBatch, IsSlice, StartDeletions, Pending
<1> DEFINE first(i) == [NoRequest EXCEPT !.op = "deleteForce", !.pc = "findApplicant", !.id = i]
<1>2. req' = [r \in Requests |-> IF \E i \in B : SlotOf[i] = r
                                 THEN first(CHOOSE i \in B : SlotOf[i] = r) ELSE req[r]]
  BY DEF StartBatch, StartDeletions
<1>3. \A i \in ApplicantIds : Opened(first(i), i)
  BY DeletionOpened
<1> HIDE DEF first
<1>4. ASSUME NEW i \in B PROVE Opened(req'[SlotOf[i]], i)
  <2>1. SlotOf[i] \in Requests /\ \A j \in B : SlotOf[j] = SlotOf[i] => j = i
    BY <1>1, SlotAssumption
  <2>2. (CHOOSE j \in B : SlotOf[j] = SlotOf[i]) = i
    BY <2>1
  <2>3. req'[SlotOf[i]] = first(i)
    BY <1>2, <2>1, <2>2
  <2>4. QED
    BY <1>1, <1>3, <2>3
<1>5. \A r \in Requests : (\A i \in B : SlotOf[i] # r) => req'[r] = req[r]
  BY <1>2
<1>6. ASSUME NEW i \in ApplicantIds \ B PROVE req'[SlotOf[i]] = req[SlotOf[i]]
  BY <1>1, <1>5, SlotAssumption
<1>7. ASSUME NEW i \in B PROVE req[SlotOf[i]] = NoRequest
  <2>1. SlotOf[i] \in Requests /\ req[SlotOf[i]].pc = "idle"
    BY <1>1, SlotAssumption DEF Pending, DeletionOf
  <2>2. QED
    BY <2>1 DEF PathInv, OnPath
<1>8. \A r \in Requests :
        req'[r] = req[r] \/ (req[r] = NoRequest /\ \E i \in ApplicantIds : Opened(req'[r], i))
  BY <1>1, <1>4, <1>5, <1>7
<1>9. req' \in [Requests -> Request]
  <2>1. \A r \in Requests : req[r] \in Request /\ req'[r] \in Request
    BY <1>8 DEF TypeOK, Opened
  <2>2. QED
    BY <1>2, <2>1
<1>10. QED
  BY <1>1, <1>4, <1>6, <1>8, <1>9 DEF SlotsOpen

-----------------------------------------------------------------------------
(* What the API keeps *)

\* Beginning deletions breaks nothing of the API's own invariant ...
LEMMA StartsSafe == SafetyInv /\ SlotsOpen => SafetyInv'
<1> SUFFICES ASSUME SafetyInv, SlotsOpen PROVE SafetyInv'
  OBVIOUS
<1>0. UNCHANGED <<tables, services>>
  BY DEF SlotsOpen
<1>1. TypeOK'
  <2>1. ASSUME NEW r \in Requests PROVE LocalsAssigned(req'[r])
    <3>1. CASE req'[r] = req[r]
      BY <3>1 DEF SafetyInv, TypeOK
    <3>2. ASSUME NEW i \in ApplicantIds, Opened(req'[r], i) PROVE LocalsAssigned(req'[r])
      BY <3>2, IdAssumption
         DEF Opened, LocalsAssigned, RegisterLabels, DeletionLabels, IdLabels, RegisterOps
    <3>3. QED
      BY <3>1, <3>2 DEF SlotsOpen
  <2>2. QED
    BY <1>0, <2>1 DEF SafetyInv, TypeOK, SlotsOpen, tables, services
<1>2. ErasureInv'
  BY <1>0 DEF SafetyInv, ErasureInv, ApplicantsNumbered, NoOrphanRows, RecordedIsGone,
              OneDeletionRecord, Registered, tables
<1>3. ResumeInv'
  <2>1. \A r \in Requests : req'[r].pc = "write" => req'[r] = req[r]
    BY DEF SlotsOpen, Opened
  <2>2. ValidatedResume'
    BY <1>0, <2>1 DEF SafetyInv, ResumeInv, ValidatedResume, At, tables
  <2>3. QED
    BY <1>0, <2>2 DEF SafetyInv, ResumeInv, UploadsNumbered, AttachedResumeComplete, ResumeOf, tables
<1>4. IdentityInv'
  <2>1. \A r \in Requests :
          \/ req'[r] = req[r]
          \/ /\ req'[r].who = None /\ req'[r].pc = "findApplicant" /\ req'[r].op = "deleteForce"
             /\ req[r].pc = "idle"
    BY DEF SlotsOpen, Opened, NoRequest
  <2>2. \A d \in deletionRequests : d.by \in Requests
    BY DEF SafetyInv, TypeOK, DeletionRequestRow
  <2>3. AuthorityIsCurrent'
    BY <1>0, <2>1, <2>2 DEF SafetyInv, IdentityInv, AuthorityIsCurrent, tables
  <2>4. (\A r \in Requests : EmailIsOwn(req[r]))'
    <3>1. ASSUME NEW r \in Requests, req'[r] = req[r] PROVE EmailIsOwn(req[r])'
      BY <1>0, <3>1 DEF SafetyInv, IdentityInv, EmailIsOwn, HasToken, services
    <3>2. ASSUME NEW r \in Requests, req'[r].pc = "findApplicant", req'[r].op = "deleteForce"
          PROVE  EmailIsOwn(req[r])'
      BY <3>2 DEF EmailIsOwn, RegisterOps
    <3>3. QED
      BY <2>1, <3>1, <3>2
  <2>5. (\A d \in deletionRequests : ~At(d.by, "idle"))'
    BY <1>0, <2>1, <2>2 DEF tables, SafetyInv, IdentityInv, At
  <2>6. /\ (\A r \in Requests : req[r].who # None => req[r].id <= lastApplicantId)'
        /\ (\A s \in session : s.id <= lastApplicantId)'
        /\ (\A r \in Requests : req[r].pc \in {"getUser", "recordRequest"} => req[r].id = 0)'
        /\ UserIdsKept'
    BY <1>0, <2>1 DEF SafetyInv, IdentityInv, UserIdsKept, tables, services
  <2>7. QED
    BY <2>3, <2>4, <2>5, <2>6 DEF IdentityInv
<1>5. QED
  BY <1>1, <1>2, <1>3, <1>4 DEF SafetyInv

\* ... nor puts a request where it could not be.
LEMMA StartsOnPath == PathInv /\ SlotsOpen => PathInv'
<1> SUFFICES ASSUME PathInv, SlotsOpen, NEW r \in Requests PROVE OnPath(req'[r])
  BY DEF PathInv, OnPath
<1>1. CASE req'[r] = req[r]
  BY <1>1 DEF PathInv
<1>2. ASSUME NEW i \in ApplicantIds, Opened(req'[r], i) PROVE OnPath(req'[r])
  BY <1>2 DEF Opened, OnPath, DeleteOps, SubmissionOps, RegisterOps
<1>3. QED
  BY <1>1, <1>2 DEF SlotsOpen

\* The slots begun were nobody's, so no e-mail, promise or listing is theirs.
LEMMA StartsElsewhere ==
  ASSUME TypeOK, PathInv, SlotsOpen
  PROVE  /\ DeletionMailInv => DeletionMailInv'
         /\ ObjectsInv /\ BucketFinite => ObjectsInv' /\ BucketFinite'
         /\ LoginInv => LoginInv'
<1>0. UNCHANGED <<tables, services>>
  BY DEF SlotsOpen
<1>1. \A r \in Requests :
        \/ req'[r] = req[r]
        \/ /\ req[r].pc = "idle" /\ req[r].op \notin Kinds
           /\ req'[r].op = "deleteForce" /\ req'[r].pc = "findApplicant" /\ req'[r].status = 0
           /\ req'[r].victims = {} /\ req'[r].keys = {}
  BY IdAssumption DEF SlotsOpen, Opened, NoRequest
<1>2. ASSUME DeletionMailInv PROVE DeletionMailInv'
  <2>1. \A m \in mail : m.by \in Requests
    BY DEF TypeOK, Mail
  <2>2. \A m \in mail : m.kind = "deletion" => req'[m.by] = req[m.by]
    BY <1>1, <1>2, <2>1 DEF DeletionMailInv
  <2>3. \A r \in Requests : req'[r].op = "deleteMe" => req'[r] = req[r]
    BY <1>1
  <2>4. QED
    BY <1>0, <1>2, <2>2, <2>3 DEF DeletionMailInv, tables, services
<1>3. \A r \in Requests : PastRow(req'[r]) => req'[r] = req[r]
  BY <1>1 DEF PastRow, RowDeleted
<1>4. ASSUME ObjectsInv, BucketFinite PROVE ObjectsInv' /\ BucketFinite'
  <2>1. RowsGoFirst'
    BY <1>0, <1>3, <1>4 DEF ObjectsInv, RowsGoFirst, Gone, Registered, PastRow, tables
  <2>2. KeysMatch'
    BY <1>1, <1>4 DEF ObjectsInv, KeysMatch, DecimalPrefix
  <2>3. \A r \in Requests : HasListed(req'[r]) => req'[r] = req[r]
    BY <1>1 DEF HasListed
  <2>4. ObjectsGo'
    BY <1>0, <1>4, <2>3 DEF ObjectsInv, ObjectsGo, ObjectsOf, HasListed, services
  <2>5. QED
    BY <1>0, <1>4, <2>1, <2>2, <2>4 DEF ObjectsInv, BucketFinite, services
<1>6. ASSUME LoginInv PROVE LoginInv'
  <2>1. \A e : Requested(e) => Requested(e)'
    BY <1>0, <1>1 DEF Requested, tables, Kinds, DeleteOps
  <2>2. \A u, e : HasToken(u, e) => HasToken(u, e)'
    BY <1>0 DEF HasToken, services
  <2>3. ASSUME NEW r \in Requests
        PROVE  /\ At(r, "insert")' => HasToken(req[r].sub, req[r].email)'
               /\ req'[r].op \in DeleteOps /\ req'[r].email \in Emails =>
                    /\ req'[r].pc \in Identified => HasToken(req[r].sub, req[r].email)'
                    /\ req'[r].pc \in RowDeleted => Requested(req[r].email)'
               /\ \A u \in req'[r].victims : HasToken(u, req[r].email)' /\ Requested(req[r].email)'
    <3>1. CASE req'[r] = req[r]
      BY <1>6, <2>1, <2>2, <3>1 DEF LoginInv, At, Identified
    <3>2. CASE req'[r] # req[r]
      BY <1>1, <3>2 DEF At, Identified, RowDeleted
    <3>3. QED
      BY <3>1, <3>2
  <2>4. QED
    BY <1>0, <1>6, <2>1, <2>2, <2>3 DEF LoginInv, UserIdsKept, Identified, tables, services
<1>7. QED
  BY <1>2, <1>4, <1>6

-----------------------------------------------------------------------------
(* One step of the cleanup *)

\* A step is one of the API, one of the cleanup's own variables, or a batch begun.
LEMMA CleanupSteps ==
  ASSUME [CleanupNext]_<<vars, cleanup>>
  PROVE  \/ [Next]_vars /\ UNCHANGED cleanup /\ (Serve \/ UNCHANGED vars)
         \/ UNCHANGED vars /\ (ListTestApplicants \/ BatchFails \/ AnswerDeleted)
         \/ \E B : StartBatch(B)
BY ServeNext DEF CleanupNext, Serve, ListTestApplicants, BatchFails, AnswerDeleted

\* The cleanup starts beside a deployment that starts.
LEMMA CleanupInitCore == CleanupInit => CleanupTypeOK /\ CoreInv /\ LoginInv
<1> SUFFICES ASSUME CleanupInit PROVE CleanupTypeOK /\ CoreInv /\ LoginInv
  OBVIOUS
<1>1. Init
  BY DEF CleanupInit
<1>2. CleanupTypeOK
  BY <1>1, InitType DEF CleanupInit, CleanupTypeOK
<1>3. QED
  BY <1>1, <1>2, SafetyInit, PathInit, DeletionMailInit, ObjectsInit, BucketFiniteInit, LoginInit
     DEF CoreInv

\* Whatever step it is keeps the API's invariants and the cleanup's types.
LEMMA CoreStep ==
  ASSUME CleanupTypeOK, CoreInv, BatchesInv, [CleanupNext]_<<vars, cleanup>>
  PROVE  CleanupTypeOK' /\ CoreInv'
<1>0. SafetyInv /\ PathInv /\ DeletionMailInv /\ ObjectsInv /\ TypeOK /\ IdentityInv
  BY DEF CoreInv, SafetyInv
<1>1. ASSUME [Next]_vars PROVE CoreInv'
  BY <1>0, <1>1, SafetyStep, PathStep, DeletionMailStep, ObjectsInvStep, BucketFiniteStep DEF CoreInv
<1>2. ASSUME NEW B, StartBatch(B) PROVE CoreInv'
  <2>1. SlotsOpen
    BY <1>0, <1>2, BatchStarts DEF CleanupTypeOK
  <2>2. QED
    BY <1>0, <2>1, StartsSafe, StartsOnPath, StartsElsewhere DEF CoreInv
<1>3. CoreInv'
  BY <1>1, <1>2, CleanupSteps
<1>4. TypeOK'
  BY <1>3 DEF CoreInv, SafetyInv
<1>5. /\ listed' \subseteq ApplicantIds /\ batch' \subseteq listed'
      /\ handler' \in {"list", "batches", "deleted", "failed"}
  <2>1. CASE ListTestApplicants
    <3>1. \A a \in applicant : a.id \in ApplicantIds
      BY <1>0 DEF TypeOK, ApplicantRow
    <3>2. batch = {}
      BY <2>1 DEF ListTestApplicants, BatchesInv, CleanupTypeOK
    <3>3. QED
      BY <2>1, <3>1, <3>2 DEF ListTestApplicants
  <2>2. CASE BatchFails \/ AnswerDeleted
    BY <2>2 DEF BatchFails, AnswerDeleted, CleanupTypeOK
  <2>3. ASSUME NEW B, StartBatch(B) PROVE batch' \subseteq listed' /\ UNCHANGED <<listed, handler>>
    BY <2>3 DEF StartBatch, IsSlice, StartDeletions, Pending
  <2>4. CASE UNCHANGED cleanup
    BY <2>4 DEF cleanup, CleanupTypeOK
  <2>5. QED
    BY <2>1, <2>2, <2>3, <2>4, CleanupSteps DEF CleanupTypeOK
<1>6. QED
  BY <1>3, <1>4, <1>5 DEF CleanupTypeOK

-----------------------------------------------------------------------------
(* Batches *)

\* The clients served leave the cleanup's slots alone until it begins them.
LEMMA SlotsWait ==
  ASSUME TypeOK, Serve \/ UNCHANGED vars, NEW i \in ApplicantIds, req[SlotOf[i]].pc = "idle"
  PROVE  req'[SlotOf[i]] = req[SlotOf[i]]
<1>0. SlotOf[i] \in Requests
  BY SlotAssumption
<1>1. ASSUME NEW r \in Served, Registering(r) \/ Deleting(r) \/ Respond(r) \/ Fail(r)
      PROVE  req'[SlotOf[i]] = req[SlotOf[i]]
  <2>1. r \in Requests /\ r # SlotOf[i]
    BY DEF Served, At
  <2>2. CASE Registering(r) \/ Deleting(r)
    BY <1>0, <2>1, <2>2, RegisteringMoves, DeletingMoves DEF Moves, Others
  <2>3. CASE Respond(r) \/ Fail(r)
    BY <1>0, <2>1, <2>3 DEF Respond, Fail, Reject, TypeOK
  <2>4. QED
    BY <1>1, <2>2, <2>3
<1>2. CASE (\E k \in Key : PutObject(k)) \/ UNCHANGED vars
  BY <1>2 DEF PutObject, vars
<1>3. QED
  BY <1>1, <1>2 DEF Serve

\* A batch is begun only when all of the one before has been answered 200.
LEMMA BatchesStep ==
  ASSUME CleanupTypeOK, CoreInv, BatchesInv, [CleanupNext]_<<vars, cleanup>>
  PROVE  BatchesInv'
<1> USE DEF BatchesInv, DeletionOf
<1>0. /\ TypeOK /\ PathInv /\ listed \subseteq ApplicantIds /\ batch \subseteq listed
      /\ \A i \in ApplicantIds : SlotOf[i] \in Requests
  BY SlotAssumption DEF CleanupTypeOK, CoreInv
<1>1. CASE [Next]_vars /\ UNCHANGED cleanup /\ (Serve \/ UNCHANGED vars)
  <2>1. \A i \in ApplicantIds : req[SlotOf[i]].pc = "idle" => req'[SlotOf[i]].pc = "idle"
    BY <1>0, <1>1, SlotsWait
  <2>2. ASSUME NEW i \in ApplicantIds, req[SlotOf[i]].pc # "idle"
        PROVE  /\ req'[SlotOf[i]].pc # "idle" /\ req'[SlotOf[i]].op = "deleteForce"
               /\ req'[SlotOf[i]].id = i
               /\ req[SlotOf[i]].status = 200 => req'[SlotOf[i]].status = 200
    BY <1>0, <1>1, <2>2, DeletionStays DEF DeleteOps
  <2>3. ASSUME NEW i \in listed \ batch
        PROVE  req'[SlotOf[i]].pc = "idle" \/ req'[SlotOf[i]].status = 200
    BY <1>0, <2>1, <2>2
  <2>4. ASSUME handler = "deleted", NEW i \in listed PROVE req'[SlotOf[i]].status = 200
    <3>1. req[SlotOf[i]].status = 200
      BY <2>4
    <3>2. req[SlotOf[i]].pc = "done"
      BY <1>0, <3>1 DEF PathInv, OnPath
    <3>3. QED
      BY <1>0, <2>2, <3>1, <3>2
  <2>5. QED
    BY <1>0, <1>1, <2>1, <2>2, <2>3, <2>4 DEF cleanup
<1>2. CASE UNCHANGED vars /\ (ListTestApplicants \/ BatchFails \/ AnswerDeleted)
  <2>1. CASE ListTestApplicants
    <3>1. listed = {} /\ batch = {} /\ batch' = {} /\ handler' = "batches"
      BY <1>0, <2>1 DEF ListTestApplicants
    <3>2. \A i \in ApplicantIds : req'[SlotOf[i]].pc = "idle"
      BY <1>2, <3>1 DEF vars
    <3>3. listed' \subseteq ApplicantIds
      BY <1>0, <2>1 DEF ListTestApplicants, TypeOK, ApplicantRow
    <3>4. QED
      BY <3>1, <3>2, <3>3
  <2>2. CASE BatchFails
    BY <1>2, <2>2 DEF BatchFails, vars
  <2>3. CASE AnswerDeleted
    <3>1. \A i \in listed : req[SlotOf[i]].status = 200
      BY <1>0, <2>3 DEF AnswerDeleted, Pending
    <3>2. QED
      BY <1>2, <2>3, <3>1 DEF AnswerDeleted, vars
  <2>4. QED
    BY <1>2, <2>1, <2>2, <2>3
<1>3. ASSUME NEW B, StartBatch(B) PROVE BatchesInv'
  <2>1. /\ B \subseteq Pending /\ batch' = B /\ UNCHANGED <<listed, handler>>
        /\ \A i \in B : Opened(req'[SlotOf[i]], i)
        /\ \A i \in ApplicantIds \ B : req'[SlotOf[i]] = req[SlotOf[i]]
    BY <1>0, <1>3, BatchStarts
  <2>2. B \subseteq listed /\ B \subseteq ApplicantIds
    BY <1>0, <2>1 DEF Pending
  <2>3. handler = "batches" /\ Cardinality(B) <= batchSize
        /\ \A i \in batch : req[SlotOf[i]].status = 200
    BY <1>3 DEF StartBatch, IsSlice
  <2>4. IsFiniteSet(B)
    BY <2>2, SlotAssumption, FS_Subset
  <2>5. \A i \in B : /\ req'[SlotOf[i]].pc = "findApplicant" /\ req'[SlotOf[i]].op = "deleteForce"
                     /\ req'[SlotOf[i]].id = i
    BY <2>1 DEF Opened
  <2>6. QED
    BY <1>0, <2>1, <2>2, <2>3, <2>4, <2>5
<1>4. QED
  BY <1>1, <1>2, <1>3, CleanupSteps

\* No deletion of the cleanup has begun.
LEMMA BatchesInit == CleanupInit => BatchesInv
<1> SUFFICES ASSUME CleanupInit PROVE BatchesInv
  OBVIOUS
<1>1. \A i \in ApplicantIds : req[SlotOf[i]].pc = "idle"
  BY SlotAssumption DEF CleanupInit, Init, NoRequest
<1>2. listed = {} /\ batch = {} /\ handler = "list"
  BY DEF CleanupInit
<1>3. IsFiniteSet({}) /\ Cardinality({}) = 0
  BY FS_EmptySet
<1>4. QED
  BY <1>1, <1>2, <1>3, SlotAssumption DEF BatchesInv, DeletionOf

\* Types, the API's invariants and those of the batches, in every reachable state.
LEMMA CleanupCore == CleanupSpec => [](CleanupTypeOK /\ CoreInv /\ BatchesInv)
<1>1. CleanupInit => CleanupTypeOK /\ CoreInv /\ BatchesInv
  BY CleanupInitCore, BatchesInit
<1>2. /\ CleanupTypeOK /\ CoreInv /\ BatchesInv /\ [CleanupNext]_<<vars, cleanup>>
      => CleanupTypeOK' /\ CoreInv' /\ BatchesInv'
  BY CoreStep, BatchesStep
<1>3. QED
  BY <1>1, <1>2, PTL DEF CleanupSpec

\* The cleanup's own variables are well typed, and beside it so is everything of
\* the API: the deletions it begins are requests like any other.
THEOREM CleanupTypesCorrect == CleanupSpec => []CleanupTypeOK
BY CleanupCore, PTL

\* However large the batches and the number of test applicants, and whether or not
\* one of them fails, no more deletions than a batch are ever under way.
THEOREM OneBatchCorrect == CleanupSpec => []AtMostOneBatch
<1>1. CleanupTypeOK /\ CoreInv /\ BatchesInv => AtMostOneBatch
  <2> SUFFICES ASSUME CleanupTypeOK, CoreInv, BatchesInv PROVE AtMostOneBatch
    OBVIOUS
  <2>1. ASSUME NEW i \in Running PROVE i \in batch
    <3>1. /\ i \in listed /\ i \in ApplicantIds
          /\ req[SlotOf[i]].pc # "idle" /\ req[SlotOf[i]].pc # "done"
      BY DEF Running, DeletionOf, CleanupTypeOK
    <3>2. req[SlotOf[i]].status # 200
      BY <3>1, SlotAssumption DEF CoreInv, PathInv, OnPath
    <3>3. QED
      BY <3>1, <3>2 DEF BatchesInv, DeletionOf
  <2>2. IsFiniteSet(batch) /\ Cardinality(batch) <= batchSize
    BY DEF BatchesInv
  <2>3. Cardinality(Running) <= Cardinality(batch) /\ IsFiniteSet(Running)
    BY <2>1, <2>2, FS_Subset
  <2>4. Cardinality(Running) \in Nat /\ Cardinality(batch) \in Nat /\ batchSize \in Nat
    BY <2>2, <2>3, FS_CardinalityType, SlotAssumption
  <2>5. QED
    BY <2>2, <2>3, <2>4 DEF AtMostOneBatch
<1>2. QED
  BY <1>1, CleanupCore, PTL

\* The API is as safe beside a cleanup as without one: what a cleanup begins is on
\* no path a request of an administrator could not be on.
THEOREM SafetyBesideCleanup == CleanupSpec => []SafetyInv
BY CleanupCore, PTL DEF CoreInv

\* And it goes on implementing the life of an applicant id: the deletions of test
\* applicants erase ids as any other deletion does, and the cleanup itself erases none.
THEOREM LifecycleBesideCleanup == CleanupSpec => LifecycleKept
<1>1. CleanupInit => Lifecycle!Init
  BY LifecycleInit DEF CleanupInit
<1>2. ASSUME UNCHANGED tables PROVE UNCHANGED Lifecycle!vars
  <2>1. /\ \A i \in ApplicantIds : Stage(i)' = Stage(i) /\ SameTables(i)
        /\ Recorded' = Recorded
    BY <1>2 DEF tables, Stage, Registered, Recorded, SameTables, HasUpload, HasDraft, HasSubmission
  <2>2. QED
    BY <2>1, HeldSame, Stutters DEF SameTables
<1>3. ASSUME CleanupTypeOK, CoreInv, [CleanupNext]_<<vars, cleanup>>
      PROVE  [Lifecycle!Next]_(Lifecycle!vars)
  <2>1. TypeOK /\ ErasureInv
    BY <1>3 DEF CoreInv, SafetyInv
  <2>2. CASE [Next]_vars
    BY <2>1, <2>2, LifecycleStep
  <2>3. ASSUME NEW B, StartBatch(B) PROVE UNCHANGED tables
    BY <2>3 DEF StartBatch, StartDeletions
  <2>4. UNCHANGED vars => UNCHANGED tables
    BY DEF vars, tables
  <2>5. QED
    BY <1>2, <1>3, <2>2, <2>3, <2>4, CleanupSteps
<1>4. CleanupTypeOK /\ CoreInv /\ [CleanupNext]_<<vars, cleanup>>
      => [Lifecycle!Next]_(Lifecycle!vars)
  BY <1>3
<1>5. QED
  BY <1>1, <1>4, CleanupCore, PTL DEF CleanupSpec, LifecycleKept, Lifecycle!Spec

-----------------------------------------------------------------------------
(* What a cleanup answered 200 has deleted *)

\* A forced deletion has done deleteUsers' first call.
UserGone(q) ==
  /\ q.op = "deleteForce"
  /\ q.pc \in {"listByEmail", "deleteListed", "respond"} \/ q.status = 200

\* A forced deletion gets past its user only by deleting it.
LEMMA UserGoneMove ==
  ASSUME TypeOK, PathInv, NEW x \in Requests, Moves(x), UserGone(req'[x])
  PROVE  req'[x].sub = req[x].sub /\ (UserGone(req[x]) \/ (DeleteById(x) /\ req[x].op = "deleteForce"))
<1> USE DEF UserGone
<1>0. OnPath(req[x])
  BY DEF PathInv
<1>1. CASE Begins(x) \/ Ends(x)
  BY <1>1 DEF Begins, Opening, Ends
<1>2. CASE Answers(x)
  BY <1>2 DEF Answers, SameKind, SamePerson
<1>3. CASE RegisterMoves(x) \/ ApplyMoves(x)
  BY <1>0, <1>3 DEF RegisterMoves, ApplyMoves, Goes, Keeps, SameKind, SamePerson, SameAnswer, OnPath,
                    RegisterOps, SubmissionOps
<1>4. CASE DeletionMoves(x)
  <2>1. req'[x].op = req[x].op /\ req'[x].status = req[x].status
    BY <1>4 DEF DeletionMoves, Goes, Keeps, SameKind, SameAnswer
  <2>2. req[x].status # 0 => req[x].pc = "done"
    BY <1>0 DEF OnPath
  <2>3. CASE req[x].pc \in {"findApplicant", "getUser"}
    BY <1>4, <2>1, <2>2, <2>3 DEF DeletionMoves, Goes
  <2>4. CASE req[x].pc \notin {"findApplicant", "getUser"}
    <3>1. req'[x].sub = req[x].sub
      BY <1>4, <2>4 DEF DeletionMoves, Goes, Keeps, SamePerson
    <3>2. req[x].pc \in {"notify", "recordRequest"} => req[x].op = "deleteMe"
      BY <1>0 DEF OnPath
    <3>3. QED
      BY <1>4, <2>1, <2>2, <2>4, <3>1, <3>2 DEF DeletionMoves, Goes
  <2>5. QED
    BY <2>3, <2>4
<1>5. QED
  BY <1>1, <1>2, <1>3, <1>4 DEF Moves

\* While the cleanup runs, users appear only with an id no token has.
LEMMA ServedUsers ==
  ASSUME Serve \/ UNCHANGED vars
  PROVE  /\ jwt \subseteq jwt'
         /\ \A u \in auth0' : u \in auth0 \/ \A t \in jwt : t.user_id # u.user_id
<1>1. ASSUME NEW r \in Requests, CreateUser(r)
      PROVE  /\ jwt \subseteq jwt'
             /\ \A u \in auth0' : u \in auth0 \/ \A t \in jwt : t.user_id # u.user_id
  <2> DEFINE user(u) == [user_id |-> u, email |-> req[r].email, connection |-> "password"]
  <2>1. \A u : user(u).user_id = u
    OBVIOUS
  <2>2. \/ auth0' = auth0 /\ jwt' = jwt
        \/ \E u : /\ \A v \in jwt : v.user_id # u
                  /\ auth0' = auth0 \cup {user(u)} /\ jwt' = jwt \cup {user(u)}
    BY <1>1 DEF CreateUser, services
  <2> HIDE DEF user
  <2>3. QED
    BY <2>1, <2>2
<1>2. ASSUME NEW r \in Requests, DeleteById(r) \/ \E u \in Auth0Ids : DeleteListed(r, u)
      PROVE  jwt' = jwt /\ auth0' \subseteq auth0
  BY <1>2 DEF DeleteById, DeleteListed
<1>3. ASSUME \/ \E r \in Requests : Respond(r) \/ Fail(r)
             \/ \E k \in Key : PutObject(k)
             \/ UNCHANGED vars
      PROVE  auth0' = auth0 /\ jwt' = jwt
  BY <1>3 DEF Respond, Fail, PutObject, services, vars
<1>4. QED
  BY <1>1, <1>2, <1>3, RegisteringUsers, DeletingUsers DEF Serve, Served

\* A user that a forced deletion took stays away.
LEMMA UsersStep ==
  ASSUME CleanupTypeOK, CoreInv, LoginInv, UsersInv, [CleanupNext]_<<vars, cleanup>>
  PROVE  UsersInv'
<1>0. TypeOK /\ PathInv /\ listed \subseteq ApplicantIds
  BY DEF CleanupTypeOK, CoreInv
<1> SUFFICES ASSUME NEW x \in Requests, UserGone(req'[x]), NEW s, req'[x].sub = s
             PROVE  (\E t \in jwt' : t.user_id = s) /\ (\A u \in auth0' : u.user_id # s)
  BY DEF UsersInv, UserGone
<1>1. UserGone(req[x]) => (\E t \in jwt : t.user_id = req[x].sub) /\ (\A u \in auth0 : u.user_id # req[x].sub)
  BY DEF UsersInv, UserGone
<1>2. ASSUME [Next]_vars, Serve \/ UNCHANGED vars
      PROVE  (\E t \in jwt' : t.user_id = s) /\ (\A u \in auth0' : u.user_id # s)
  <2>0. /\ jwt \subseteq jwt'
        /\ \A u \in auth0' : u \in auth0 \/ \A t \in jwt : t.user_id # u.user_id
    BY <1>2, ServedUsers
  <2>1. CASE UserGone(req[x]) /\ req[x].sub = s
    BY <1>1, <2>0, <2>1
  <2>2. CASE DeleteById(x) /\ req[x].op = "deleteForce" /\ req[x].sub = s
    <3>1. HasToken(req[x].sub, req[x].email)
      BY <1>0, <2>2 DEF LoginInv, DeleteById, At, RowDeleted, DeleteOps, TypeOK, LocalsAssigned, DeletionLabels
    <3>2. QED
      BY <2>0, <2>2, <3>1 DEF DeleteById, HasToken
  <2>3. \/ req'[x] = req[x]
        \/ Moves(x)
    BY <1>0, <1>2, OneMoves DEF Elsewhere, Moves, Others
  <2>4. QED
    BY <1>0, <2>1, <2>2, <2>3, UserGoneMove
<1>3. ASSUME NEW B, StartBatch(B)
      PROVE  (\E t \in jwt' : t.user_id = s) /\ (\A u \in auth0' : u.user_id # s)
  <2>1. SlotsOpen
    BY <1>0, <1>3, BatchStarts
  <2>2. req'[x] = req[x] /\ auth0' = auth0 /\ jwt' = jwt
    BY <2>1 DEF SlotsOpen, Opened, UserGone, services
  <2>3. QED
    BY <1>1, <2>2
<1>4. ASSUME UNCHANGED vars PROVE [Next]_vars
  BY <1>4
<1>5. QED
  BY <1>2, <1>3, <1>4, CleanupSteps

\* No forced deletion has begun.
LEMMA UsersInit == CleanupInit => UsersInv
BY DEF CleanupInit, Init, NoRequest, UsersInv

\* Logins, tokens and requested deletions stay in agreement beside a cleanup.
LEMMA LoginsBesideCleanup ==
  ASSUME "relink" \notin Ops, CleanupTypeOK, CoreInv, LoginInv, [CleanupNext]_<<vars, cleanup>>
  PROVE  LoginInv'
<1>0. TypeOK /\ IdentityInv /\ PathInv /\ DeletionMailInv /\ listed \subseteq ApplicantIds
  BY DEF CleanupTypeOK, CoreInv, SafetyInv
<1>1. ASSUME [Next]_vars PROVE LoginInv'
  BY <1>0, <1>1, LoginStep
<1>2. ASSUME NEW B, StartBatch(B) PROVE LoginInv'
  BY <1>0, <1>2, BatchStarts, StartsElsewhere
<1>3. QED
  BY <1>1, <1>2, CleanupSteps

\* A cleanup answered 200 means what it says for every applicant it listed: no row,
\* no data, no login, and no resume but what its deletion could not know of; as long as
\* the identity service relinks no ids.
THEOREM CleanupCorrect ==
  ASSUME "relink" \notin Ops
  PROVE  CleanupSpec => []CleanupMeansGone
<1>1. CleanupTypeOK /\ CoreInv /\ BatchesInv /\ UsersInv => CleanupMeansGone
  <2> SUFFICES ASSUME CleanupTypeOK, CoreInv, BatchesInv, UsersInv,
                      handler = "deleted", NEW i \in listed
               PROVE  /\ Erased(i)
                      /\ \A k \in ObjectsOf(i) : <<SlotOf[i], k>> \in missed
                      /\ \A u \in auth0 : u.user_id # DeletionOf(i).sub
    BY DEF CleanupMeansGone
  <2>1. i \in ApplicantIds /\ SlotOf[i] \in Requests /\ i # 0
    BY SlotAssumption, IdAssumption DEF CleanupTypeOK
  <2>2. req[SlotOf[i]].status = 200
    BY DEF BatchesInv, DeletionOf
  <2>3. req[SlotOf[i]].pc = "done" /\ req[SlotOf[i]].keys = {}
    BY <2>1, <2>2 DEF CoreInv, PathInv, OnPath
  <2>4. req[SlotOf[i]].op = "deleteForce" /\ req[SlotOf[i]].id = i
    BY <2>1, <2>3 DEF BatchesInv, DeletionOf
  <2>5. PastRow(req[SlotOf[i]]) /\ HasListed(req[SlotOf[i]])
    BY <2>1, <2>2, <2>4 DEF PastRow, HasListed, DeleteOps
  <2>6. Gone(i) /\ \A k \in ObjectsOf(i) : <<SlotOf[i], k>> \in missed
    BY <2>1, <2>3, <2>4, <2>5 DEF CoreInv, ObjectsInv, RowsGoFirst, ObjectsGo
  <2>7. Erased(i)
    BY <2>6 DEF Gone, Erased, CoreInv, SafetyInv, ErasureInv, NoOrphanRows
  <2>8. \A u \in auth0 : u.user_id # req[SlotOf[i]].sub
    BY <2>1, <2>2, <2>4 DEF UsersInv
  <2>9. QED
    BY <2>6, <2>7, <2>8 DEF DeletionOf
<1>2. CleanupInit => LoginInv /\ UsersInv
  BY CleanupInitCore, UsersInit
<1>3. /\ CleanupTypeOK /\ CoreInv /\ LoginInv /\ [CleanupNext]_<<vars, cleanup>> => LoginInv'
      /\ CleanupTypeOK /\ CoreInv /\ LoginInv /\ UsersInv /\ [CleanupNext]_<<vars, cleanup>> => UsersInv'
  BY LoginsBesideCleanup, UsersStep
<1>4. QED
  BY <1>1, <1>2, <1>3, CleanupCore, PTL DEF CleanupSpec

-----------------------------------------------------------------------------
(* Everybody else *)

\* What has been asked for stays asked for.
LEMMA AskedStays ==
  ASSUME CleanupTypeOK, CoreInv, [CleanupNext]_<<vars, cleanup>>,
         NEW a \in InitialApplicants, AskedFor(a)
  PROVE  AskedFor(a)'
<1>0. TypeOK /\ PathInv /\ listed \subseteq ApplicantIds
  BY DEF CleanupTypeOK, CoreInv
<1>1. ASSUME [Next]_vars PROVE AskedFor(a)'
  <2>1. deletionRequests \subseteq deletionRequests'
    BY <1>1, RecordsStay
  <2>2. \A r \in Requests : req[r].op = "deleteForce" =>
          req'[r].op = "deleteForce" /\ req'[r].id = req[r].id
    BY <1>0, <1>1, DeletionStays DEF DeleteOps
  <2>3. QED
    BY <2>1, <2>2 DEF AskedFor
<1>2. ASSUME NEW B, StartBatch(B) PROVE AskedFor(a)'
  <2>1. SlotsOpen
    BY <1>0, <1>2, BatchStarts
  <2>2. \A r \in Requests : req[r].op = "deleteForce" => req'[r] = req[r]
    BY <2>1, IdAssumption DEF SlotsOpen, NoRequest, Kinds, DeleteOps
  <2>3. QED
    BY <2>1, <2>2 DEF AskedFor, SlotsOpen, tables
<1>3. QED
  BY <1>1, <1>2, CleanupSteps

\* The clients served insert rows and delete them, and change none.
LEMMA ServedRows ==
  ASSUME Serve \/ UNCHANGED vars
  PROVE  \/ applicant' = applicant
         \/ \E r \in Requests : InsertApplicant(r)
         \/ \E r \in Requests : /\ CommitDeletion(r) \/ DeleteRow(r)
                                /\ applicant' = {a \in applicant : a.id # req[r].id}
<1>1. ASSUME NEW r \in Requests, Registering(r) PROVE applicant' = applicant \/ InsertApplicant(r)
  BY <1>1 DEF Registering, StartRegister, StartRegisterWithJwt, CreateUser, Issue, InsertConflict,
              SendWelcome, tables
<1>2. ASSUME NEW r \in Requests, Deleting(r)
      PROVE  applicant' = applicant \/ CommitDeletion(r) \/ DeleteRow(r)
  <2>1. CASE \/ \E t \in jwt : StartDeleteMe(r, t)
             \/ \E i \in ApplicantIds : StartDeleteForce(r, i)
    BY <2>1 DEF StartDeleteMe, StartDeleteForce, Issue, tables
  <2>2. CASE FindApplicant(r) \/ RowAlreadyGone(r) \/ GetUser(r) \/ UsersDeleted(r) \/ RecordRequest(r)
    BY <2>2 DEF FindApplicant, RowAlreadyGone, GetUser, UsersDeleted, RecordRequest, tables
  <2>3. CASE \/ DeleteById(r) \/ ListByEmail(r) \/ \E u \in Auth0Ids : DeleteListed(r, u)
             \/ ListResumes(r) \/ DeleteObjects(r) \/ NotifyDeletion(r)
    BY <2>3 DEF DeleteById, ListByEmail, DeleteListed, ListResumes, DeleteObjects, NotifyDeletion,
                tables
  <2>4. QED
    BY <1>2, <2>1, <2>2, <2>3 DEF Deleting
<1>3. ASSUME \/ \E r \in Requests : Respond(r) \/ Fail(r)
             \/ \E k \in Key : PutObject(k)
             \/ UNCHANGED vars
      PROVE  applicant' = applicant
  BY <1>3 DEF Respond, Fail, PutObject, tables, vars
<1>4. ASSUME NEW r \in Requests, CommitDeletion(r) \/ DeleteRow(r)
      PROVE  applicant' = {a \in applicant : a.id # req[r].id}
  BY <1>4 DEF CommitDeletion, DeleteRow, DeleteCascade
<1>5. QED
  BY <1>1, <1>2, <1>3, <1>4 DEF Serve, Served

\* No two applicants ever have one e-mail.
LEMMA EmailsStayUnique ==
  ASSUME \A a, b \in applicant : a.email = b.email => a = b, Serve \/ UNCHANGED vars
  PROVE  \A a, b \in applicant' : a.email = b.email => a = b
<1>1. ASSUME NEW r \in Requests, InsertApplicant(r)
      PROVE  \A a, b \in applicant' : a.email = b.email => a = b
  <2> DEFINE row(i) == [id |-> i, email |-> req[r].email, auth0Id |-> req[r].sub, isPaused |-> FALSE]
  <2>1. \A i : row(i).email = req[r].email
    OBVIOUS
  <2>2. /\ \E i : applicant' = applicant \cup {row(i)}
        /\ \A a \in applicant : a.email # req[r].email
    BY <1>1 DEF InsertApplicant
  <2> HIDE DEF row
  <2>3. QED
    BY <2>1, <2>2
<1>2. QED
  BY <1>1, ServedRows

\* The row of somebody nobody asked for stays.
LEMMA RowSpared ==
  ASSUME CleanupTypeOK, CoreInv, BatchesInv, Serve \/ UNCHANGED vars,
         NEW a \in InitialApplicants, ~AskedFor(a), ~AskedFor(a)', Spared(a)
  PROVE  a \in applicant'
<1>0. a \in applicant /\ a.id \notin listed /\ a.id \in ApplicantIds
  BY InitialAssumption DEF Spared, ApplicantRow
<1>1. ASSUME NEW r \in Requests, CommitDeletion(r), req[r].id = a.id PROVE FALSE
  <2>2. req[r].email = a.email
    BY <1>1 DEF CommitDeletion, Spared
  <2> DEFINE record == [applicantId |-> req[r].id, email |-> req[r].email, by |-> r]
  <2>3. record.email = a.email /\ record \in deletionRequests'
    BY <1>1, <2>2 DEF CommitDeletion
  <2> HIDE DEF record
  <2>4. QED
    BY <2>3 DEF AskedFor
<1>2. ASSUME NEW r \in Requests, DeleteRow(r), req[r].id = a.id PROVE FALSE
  <2>1. req[r].op = "deleteForce" /\ req[r].pc = "deleteRow"
    BY <1>2 DEF DeleteRow, At, CoreInv, PathInv, OnPath
  <2>2. CASE r = SlotOf[a.id]
    BY <1>0, <2>1, <2>2 DEF BatchesInv, DeletionOf
  <2>3. CASE r # SlotOf[a.id]
    BY <1>2, <2>1, <2>3 DEF AskedFor
  <2>4. QED
    BY <2>2, <2>3
<1>3. QED
  BY <1>0, <1>1, <1>2, ServedRows DEF InsertApplicant

\* Whoever's e-mail a forced deletion has found, it was asked to delete; and whoever's
\* id a deletion has found, it has that e-mail.
LEMMA SparedFound ==
  ASSUME CleanupTypeOK, CoreInv, [Next]_vars, NEW a \in InitialApplicants, Spared(a),
         \A b \in applicant : b.email = a.email => b = a,
         NEW r \in Requests
  PROVE  /\ req'[r].op = "deleteForce" /\ req'[r].email = a.email => req'[r].id = a.id
         /\ req'[r].pc = "deleteTx" /\ req'[r].id = a.id => req'[r].email = a.email
<1> DEFINE Fits(q) == /\ q.op = "deleteForce" /\ q.email = a.email => q.id = a.id
                      /\ q.pc = "deleteTx" /\ q.id = a.id => q.email = a.email
<1>0. /\ TypeOK /\ OnPath(req[r]) /\ PathInv /\ a.email # None /\ a \in applicant
      /\ Fits(req[r])
      /\ \A b \in applicant : b.id = a.id => b = a
  BY InitialAssumption, IdAssumption
     DEF CleanupTypeOK, CoreInv, PathInv, ApplicantRow, Spared, At, SafetyInv, ErasureInv, ApplicantsNumbered
<1>1. CASE req'[r] = req[r]
  BY <1>0, <1>1
<1>2. CASE Begins(r)
  BY <1>0, <1>2 DEF Begins, Opening, RegisterOps
<1>3. CASE Ends(r) \/ Answers(r) \/ ApplyMoves(r)
  BY <1>0, <1>3 DEF Ends, Answers, ApplyMoves, Goes, Keeps, SameKind, SamePerson
<1>4. CASE RegisterMoves(r)
  BY <1>0, <1>4 DEF RegisterMoves, Goes, Keeps, SameKind, OnPath, RegisterOps
<1>5. CASE DeletionMoves(r)
  <2>1. req'[r].op = req[r].op /\ req'[r].id = req[r].id
    BY <1>0, <1>5, DeletionKeeps
  <2>2. CASE req[r].pc = "findApplicant"
    <3>1. \E b \in Rows(req[r].id) : req'[r].email = b.email
      BY <1>5, <2>2 DEF DeletionMoves, Goes
    <3>2. QED
      BY <1>0, <2>1, <3>1 DEF Rows
  <2>3. CASE req[r].pc = "getUser"
    <3>1. req[r].op # "deleteForce" /\ req'[r].pc # "deleteTx"
      BY <1>0, <1>5, <2>3 DEF DeletionMoves, Goes, OnPath
    <3>2. QED
      BY <2>1, <3>1
  <2>4. CASE req[r].pc \notin {"findApplicant", "getUser"}
    <3>1. req'[r].email = req[r].email /\ req'[r].pc # "deleteTx"
      BY <1>0, <1>5, <2>4, DeletionKeeps DEF DeletionMoves, Goes
    <3>2. QED
      BY <1>0, <2>1, <3>1
  <2>5. QED
    BY <2>2, <2>3, <2>4
<1>6. QED
  BY <1>0, <1>1, <1>2, <1>3, <1>4, <1>5, OneMoves DEF Elsewhere, Moves, Others

\* A deletion that may take another's resumes with its own stays one.
LEMMA PrefixDeletedStays ==
  ASSUME CleanupTypeOK, CoreInv, [CleanupNext]_<<vars, cleanup>>, NEW i, PrefixDeleted(i)
  PROVE  PrefixDeleted(i)'
<1>0. TypeOK /\ PathInv /\ listed \subseteq ApplicantIds
  BY DEF CleanupTypeOK, CoreInv
<1>1. PICK r \in Requests : req[r].op \in DeleteOps /\ req[r].id # i /\ DecimalPrefix(req[r].id, i)
  BY DEF PrefixDeleted
<1>2. req'[r].op = req[r].op /\ req'[r].id = req[r].id
  <2>1. CASE [Next]_vars
    BY <1>0, <1>1, <2>1, DeletionStays
  <2>2. ASSUME NEW B, StartBatch(B) PROVE req'[r] = req[r]
    BY <1>0, <1>1, <2>2, BatchStarts, IdAssumption DEF SlotsOpen, NoRequest, Kinds
  <2>3. QED
    BY <2>1, <2>2, CleanupSteps
<1>3. QED
  BY <1>1, <1>2 DEF PrefixDeleted, DecimalPrefix

\* Whoever was spared before a step, and not asked for in it, is spared after it.
LEMMA SparedStays ==
  ASSUME CleanupTypeOK, CoreInv, BatchesInv, SparesInv, [CleanupNext]_<<vars, cleanup>>,
         NEW a \in InitialApplicants, a.email \notin TestEmails, ~AskedFor(a), ~AskedFor(a)', Spared(a)
  PROVE  Spared(a)'
<1>0. /\ TypeOK /\ PathInv /\ ObjectsInv /\ ErasureInv /\ listed \subseteq ApplicantIds
      /\ a \in applicant /\ a.id \notin listed /\ a.id \in ApplicantIds /\ a.email # None
      /\ \A b \in applicant : b.email = a.email => b = a
  BY InitialAssumption, IdAssumption
     DEF CleanupTypeOK, CoreInv, SafetyInv, Spared, SparesInv, ApplicantRow
<1>1. CASE [Next]_vars /\ UNCHANGED cleanup /\ (Serve \/ UNCHANGED vars)
  <2>1. a \in applicant'
    BY <1>1, RowSpared
  <2>2. \A r \in Requests :
          /\ req'[r].op = "deleteForce" /\ req'[r].email = a.email => req'[r].id = a.id
          /\ req'[r].pc = "deleteTx" /\ req'[r].id = a.id => req'[r].email = a.email
    BY <1>0, <1>1, SparedFound
  <2>3. ASSUME NEW k \in bucket, k.applicantId = a.id PROVE k \in bucket' \/ PrefixDeleted(a.id)
    <3>1. Registered(a.id)
      BY <1>0 DEF Registered
    <3>2. QED
      BY <1>0, <1>1, <2>3, <3>1, ObjectLost
  <2>4. CASE PrefixDeleted(a.id)
    <3>1. PrefixDeleted(a.id)'
      BY <2>4, PrefixDeletedStays
    <3>2. QED
      BY <1>0, <1>1, <2>1, <2>2, <3>1 DEF Spared, ResumesSpared, At, cleanup
  <2>5. CASE ~PrefixDeleted(a.id)
    <3>1. ASSUME NEW u \in InitialUploads, u.applicantId = a.id, u.status = "SUCCESS"
          PROVE  [applicantId |-> a.id, uploadId |-> u.id] \in bucket'
      <4> DEFINE k == [applicantId |-> a.id, uploadId |-> u.id]
      <4>1. k \in bucket /\ k.applicantId = a.id
        BY <2>5, <3>1 DEF Spared, ResumesSpared
      <4> HIDE DEF k
      <4>2. k \in bucket'
        BY <2>3, <2>5, <4>1
      <4>3. QED
        BY <4>2 DEF k
    <3>2. QED
      BY <1>0, <1>1, <2>1, <2>2, <3>1 DEF Spared, ResumesSpared, At, cleanup
  <2>6. QED
    BY <2>4, <2>5
<1>2. CASE UNCHANGED vars /\ (ListTestApplicants \/ BatchFails \/ AnswerDeleted)
  <2>1. a.id \notin listed'
    <3>1. CASE ListTestApplicants
      <4>1. \A b \in applicant : b.id = a.id => b = a
        BY <1>0 DEF ErasureInv, ApplicantsNumbered
      <4>2. QED
        BY <3>1, <4>1 DEF ListTestApplicants
    <3>2. CASE BatchFails \/ AnswerDeleted
      BY <1>0, <3>2 DEF BatchFails, AnswerDeleted
    <3>3. QED
      BY <1>2, <3>1, <3>2
  <2>2. QED
    BY <1>2, <2>1 DEF Spared, ResumesSpared, PrefixDeleted, DecimalPrefix, At, vars
<1>3. ASSUME NEW B, StartBatch(B) PROVE Spared(a)'
  <2>1. SlotsOpen /\ listed' = listed
    BY <1>0, <1>3, BatchStarts
  <2>2. \A r \in Requests :
          req'[r].email = a.email \/ req'[r].pc = "deleteTx" => req'[r] = req[r]
    BY <1>0, <2>1 DEF SlotsOpen, Opened
  <2>3. ResumesSpared(a.id)'
    BY <2>1, PrefixDeletedStays DEF Spared, ResumesSpared, SlotsOpen, services
  <2>4. QED
    BY <2>1, <2>2, <2>3 DEF Spared, At, SlotsOpen, tables
<1>4. QED
  BY <1>1, <1>2, <1>3, CleanupSteps

\* Hence everybody the cleanup must spare stays spared.
LEMMA SparesStep ==
  ASSUME CleanupTypeOK, CoreInv, BatchesInv, SparesInv, [CleanupNext]_<<vars, cleanup>>
  PROVE  SparesInv'
<1>0. \A a, b \in applicant : a.email = b.email => a = b
  BY DEF SparesInv
<1>1. \A a, b \in applicant' : a.email = b.email => a = b
  <2>1. CASE Serve \/ UNCHANGED vars
    BY <1>0, <2>1, EmailsStayUnique
  <2>2. ASSUME NEW B, StartBatch(B) PROVE applicant' = applicant
    BY <2>2 DEF StartBatch, StartDeletions, tables
  <2>3. QED
    BY <1>0, <2>1, <2>2, CleanupSteps
<1>2. ASSUME NEW a \in InitialApplicants, a.email \notin TestEmails
      PROVE  AskedFor(a)' \/ Spared(a)'
  <2>1. CASE AskedFor(a)
    BY <2>1, AskedStays
  <2>2. CASE ~AskedFor(a)
    BY <1>2, <2>2, SparedStays DEF SparesInv
  <2>3. QED
    BY <2>1, <2>2
<1>3. QED
  BY <1>1, <1>2 DEF SparesInv

\* Everybody is there to begin with.
LEMMA SparesInit == CleanupInit => SparesInv
<1> SUFFICES ASSUME CleanupInit PROVE SparesInv
  OBVIOUS
<1>1. \A a, b \in applicant : a.email = b.email => a = b
  BY InitialAssumption DEF CleanupInit, Init
<1>2. ASSUME NEW a \in InitialApplicants PROVE Spared(a)
  <2>1. a \in applicant /\ a.id \notin listed /\ a.email # None
    BY InitialAssumption, IdAssumption DEF CleanupInit, Init, ApplicantRow
  <2>2. \A u \in InitialUploads : u.applicantId = a.id /\ u.status = "SUCCESS" =>
          [applicantId |-> a.id, uploadId |-> u.id] \in bucket
    BY DEF CleanupInit, Init
  <2>3. \A r \in Requests : req[r].email = None /\ req[r].pc = "idle"
    BY DEF CleanupInit, Init, NoRequest
  <2>4. QED
    BY <2>1, <2>2, <2>3 DEF Spared, ResumesSpared, At
<1>3. QED
  BY <1>1, <1>2 DEF SparesInv

\* Whoever is not a test user keeps row, login and resumes, whatever the cleanup and
\* the requests beside it do, until somebody asks for that very deletion; only the
\* resumes may go, with those of an applicant whose id is a decimal prefix.  The
\* identity service relinks no ids meanwhile.
THEOREM SparesCorrect ==
  ASSUME "relink" \notin Ops
  PROVE  CleanupSpec => []SparesOthers
<1>1. CleanupTypeOK /\ CoreInv /\ BatchesInv /\ LoginInv /\ SparesInv => SparesOthers
  <2> SUFFICES ASSUME CleanupTypeOK, CoreInv, BatchesInv, LoginInv, SparesInv,
                      NEW a \in InitialApplicants, a.email \notin TestEmails, ~AskedFor(a)
               PROVE  /\ a \in applicant
                      /\ \E u \in auth0 : u.user_id = a.auth0Id
                      /\ ResumesSpared(a.id)
    BY DEF SparesOthers
  <2>1. Spared(a)
    BY DEF SparesInv
  <2>2. ~Requested(a.email)
    <3>1. ASSUME NEW r \in Requests, req[r].op = "deleteForce", req[r].email = a.email PROVE FALSE
      <4>1. req[r].id = a.id /\ a.id \in ApplicantIds /\ a.id \notin listed
        BY <2>1, <3>1, InitialAssumption DEF Spared, ApplicantRow
      <4>2. r = SlotOf[a.id]
        BY <3>1, <4>1 DEF AskedFor
      <4>3. req[r].pc # "idle"
        BY <3>1, IdAssumption DEF CoreInv, PathInv, OnPath, NoRequest, Kinds, DeleteOps
      <4>4. QED
        BY <4>1, <4>2, <4>3 DEF BatchesInv, DeletionOf
    <3>2. QED
      BY <3>1 DEF Requested, AskedFor
  <2>3. PICK t \in jwt : t.user_id = a.auth0Id /\ t.email = a.email
    BY <2>1 DEF Spared, LoginInv, HasToken
  <2>4. \E u \in auth0 : u.user_id = a.auth0Id
    BY <2>2, <2>3 DEF LoginInv
  <2>5. QED
    BY <2>1, <2>4 DEF Spared
<1>2. CleanupInit => LoginInv /\ SparesInv
  BY CleanupInitCore, SparesInit
<1>3. /\ CleanupTypeOK /\ CoreInv /\ LoginInv /\ [CleanupNext]_<<vars, cleanup>> => LoginInv'
      /\ CleanupTypeOK /\ CoreInv /\ BatchesInv /\ SparesInv /\ [CleanupNext]_<<vars, cleanup>>
         => SparesInv'
  BY LoginsBesideCleanup, SparesStep
<1>4. QED
  BY <1>1, <1>2, <1>3, CleanupCore, PTL DEF CleanupSpec

\* All of it together: what TLC evaluates in every state of a small instance.
THEOREM CleanupInvCorrect ==
  ASSUME "relink" \notin Ops
  PROVE  CleanupSpec => []CleanupInv
<1>1. CleanupInit => LoginInv /\ UsersInv /\ SparesInv
  BY CleanupInitCore, UsersInit, SparesInit
<1>2. /\ CleanupTypeOK /\ CoreInv /\ LoginInv /\ [CleanupNext]_<<vars, cleanup>> => LoginInv'
      /\ CleanupTypeOK /\ CoreInv /\ LoginInv /\ UsersInv /\ [CleanupNext]_<<vars, cleanup>> => UsersInv'
      /\ CleanupTypeOK /\ CoreInv /\ BatchesInv /\ SparesInv /\ [CleanupNext]_<<vars, cleanup>>
         => SparesInv'
  BY LoginsBesideCleanup, UsersStep, SparesStep
<1>3. CoreInv /\ BatchesInv /\ LoginInv /\ UsersInv /\ SparesInv => CleanupInv
  BY DEF CoreInv, CleanupInv
<1>4. QED
  BY <1>1, <1>2, <1>3, CleanupCore, PTL DEF CleanupSpec
=============================================================================
