------------------------- MODULE CommonAppLifecycle -------------------------
(***************************************************************************)
(* CommonAppApi implements ApplicantLifecycle: every step of every handler *)
(* registers, fills or erases one applicant id, or changes none of them.   *)
(***************************************************************************)
EXTENDS CommonAppSafety

\* The refinement mapping, by name.
Stage(i) == IF Registered(i) THEN "registered"
            ELSE IF i <= lastApplicantId THEN "gone" ELSE "ahead"
HasUpload(i) == \E u \in upload : u.applicantId = i
HasDraft(i) == \E d \in draft : d.applicantId = i
Recorded == {d.applicantId : d \in deletionRequests} \ {0}
DataKinds == {"upload", "draft", "submission"}

\* What is held under an id is known from the three tables.
LEMMA HeldKinds ==
  ASSUME NEW i
  PROVE  /\ Held(i) \subseteq DataKinds
         /\ "upload" \in Held(i) <=> HasUpload(i)
         /\ "draft" \in Held(i) <=> HasDraft(i)
         /\ "submission" \in Held(i) <=> HasSubmission(i)
BY DEF Held, DataKinds, HasUpload, HasDraft, HasSubmission

\* The same after a step.
LEMMA HeldKindsNext ==
  ASSUME NEW i
  PROVE  /\ Held(i)' \subseteq DataKinds
         /\ "upload" \in Held(i)' <=> HasUpload(i)'
         /\ "draft" \in Held(i)' <=> HasDraft(i)'
         /\ "submission" \in Held(i)' <=> HasSubmission(i)'
BY DEF Held, DataKinds, HasUpload, HasDraft, HasSubmission

\* Tables that agree on an id hold the same under it.
LEMMA HeldSame ==
  ASSUME NEW i, HasUpload(i)' <=> HasUpload(i), HasDraft(i)' <=> HasDraft(i),
         HasSubmission(i)' <=> HasSubmission(i)
  PROVE  Held(i)' = Held(i)
BY HeldKinds, HeldKindsNext DEF DataKinds

\* A row with a new kind of data adds that kind.
LEMMA HeldGrows ==
  ASSUME NEW i, NEW kind \in DataKinds,
         HasUpload(i)' <=> HasUpload(i) \/ kind = "upload",
         HasDraft(i)' <=> HasDraft(i) \/ kind = "draft",
         HasSubmission(i)' <=> HasSubmission(i) \/ kind = "submission"
  PROVE  Held(i)' = Held(i) \cup {kind}
BY HeldKinds, HeldKindsNext DEF DataKinds

\* A step that moves no id, no kind and no record is a stutter.
LEMMA Stutters ==
  ASSUME \A i \in ApplicantIds : Stage(i)' = Stage(i),
         \A i \in ApplicantIds : Held(i)' = Held(i),
         Recorded' = Recorded
  PROVE  UNCHANGED Lifecycle!vars
<1>1. [i \in ApplicantIds |-> Stage(i)]' = [i \in ApplicantIds |-> Stage(i)]
  OBVIOUS
<1>2. [i \in ApplicantIds |-> Held(i)]' = [i \in ApplicantIds |-> Held(i)]
  OBVIOUS
<1>3. QED
  BY <1>1, <1>2 DEF Lifecycle!vars, Stage, Recorded

\* A step that gives one id its place in the sequence is a registration of it.
LEMMA Registers ==
  ASSUME NEW i \in ApplicantIds, Stage(i) = "ahead",
         \A j \in ApplicantIds :
            Stage(j)' = IF j = i THEN "registered"
                        ELSE IF j < i /\ Stage(j) = "ahead" THEN "gone" ELSE Stage(j),
         \A j \in ApplicantIds : Held(j)' = Held(j),
         Recorded' = Recorded
  PROVE  Lifecycle!Next
<1>1. [j \in ApplicantIds |-> Held(j)]' = [j \in ApplicantIds |-> Held(j)]
  OBVIOUS
<1> DEFINE life == [j \in ApplicantIds |-> Stage(j)]
<1>2. life' = [j \in ApplicantIds |-> IF j = i THEN "registered"
                 ELSE IF j < i /\ life[j] = "ahead" THEN "gone" ELSE life[j]]
  OBVIOUS
<1>3. Lifecycle!Register(i)
  BY <1>1, <1>2 DEF Lifecycle!Register, Stage, Recorded
<1>4. QED
  BY <1>3 DEF Lifecycle!Next

\* A step that adds a kind of data under a registered id is an acquisition.
LEMMA Acquires ==
  ASSUME NEW i \in ApplicantIds, NEW kind \in DataKinds, Stage(i) = "registered",
         \A j \in ApplicantIds : Stage(j)' = Stage(j),
         Held(i)' = Held(i) \cup {kind},
         \A j \in ApplicantIds \ {i} : Held(j)' = Held(j),
         Recorded' = Recorded
  PROVE  Lifecycle!Next
<1> DEFINE holdings == [j \in ApplicantIds |-> Held(j)]
<1>1. holdings' = [holdings EXCEPT ![i] = @ \cup {kind}]
  OBVIOUS
<1>2. [j \in ApplicantIds |-> Stage(j)]' = [j \in ApplicantIds |-> Stage(j)]
  OBVIOUS
<1>3. Lifecycle!Acquire(i, kind)
  BY <1>1, <1>2 DEF Lifecycle!Acquire, Stage, Recorded
<1>4. QED
  BY <1>3 DEF Lifecycle!Next, DataKinds

\* A step that removes a registered id and all under it, recorded or not, erases it.
LEMMA Erases ==
  ASSUME NEW i \in ApplicantIds, Stage(i) = "registered", Stage(i)' = "gone",
         Held(i)' = {},
         \A j \in ApplicantIds \ {i} : Stage(j)' = Stage(j) /\ Held(j)' = Held(j),
         Recorded' \in {Recorded, Recorded \cup {i}}
  PROVE  Lifecycle!Next
<1> DEFINE holdings == [j \in ApplicantIds |-> Held(j)]
           life == [j \in ApplicantIds |-> Stage(j)]
<1>1. holdings' = [holdings EXCEPT ![i] = {}]
  OBVIOUS
<1>2. life' = [life EXCEPT ![i] = "gone"]
  OBVIOUS
<1>3. Lifecycle!Erase(i)
  BY <1>1, <1>2 DEF Lifecycle!Erase, Stage, Recorded
<1>4. QED
  BY <1>3 DEF Lifecycle!Next

-----------------------------------------------------------------------------
(* Each write of the database is a step of the lifecycle *)

\* Every table holds rows of the applicant after the step iff it did before.
SameTables(i) ==
  /\ HasUpload(i)' <=> HasUpload(i)
  /\ HasDraft(i)' <=> HasDraft(i)
  /\ HasSubmission(i)' <=> HasSubmission(i)

\* InsertApplicant draws an id ahead of the sequence and skips those before it.
LEMMA InsertRegisters ==
  ASSUME TypeOK, ErasureInv, NEW r \in Requests, InsertApplicant(r)
  PROVE  Lifecycle!Next
<1>1. PICK i \in FreshApplicantIds :
        /\ applicant' = applicant \cup {[id |-> i, email |-> req[r].email,
                                         auth0Id |-> req[r].sub, isPaused |-> FALSE]}
        /\ lastApplicantId' = i
  BY DEF InsertApplicant
<1>2. UNCHANGED <<upload, draft, submission, deletionRequests>>
  BY DEF InsertApplicant
<1>3. /\ i \in ApplicantIds /\ ApplicantIds \subseteq Nat /\ i > lastApplicantId
      /\ lastApplicantId \in Nat
  BY IdAssumption DEF FreshApplicantIds, TypeOK
<1>4. \A j \in ApplicantIds : Registered(j) => j <= lastApplicantId
  BY DEF ErasureInv, ApplicantsNumbered, Registered
<1>5. \A j \in ApplicantIds : Registered(j)' <=> Registered(j) \/ j = i
  <2> DEFINE row == [id |-> i, email |-> req[r].email, auth0Id |-> req[r].sub, isPaused |-> FALSE]
  <2>1. row.id = i /\ applicant' = applicant \cup {row}
    BY <1>1
  <2> HIDE DEF row
  <2>2. QED
    BY <2>1 DEF Registered
<1>6. Stage(i) = "ahead"
  BY <1>3, <1>4 DEF Stage
<1>7. ASSUME NEW j \in ApplicantIds
      PROVE  Stage(j)' = IF j = i THEN "registered"
                         ELSE IF j < i /\ Stage(j) = "ahead" THEN "gone" ELSE Stage(j)
  <2>1. j \in Nat /\ i \in Nat /\ lastApplicantId' = i
    BY <1>1, <1>3
  <2>2. Stage(j)' = IF Registered(j)' THEN "registered" ELSE IF j <= i THEN "gone" ELSE "ahead"
    BY <2>1 DEF Stage
  <2>3. QED
    BY <2>1, <2>2, <1>3, <1>4, <1>5 DEF Stage
<1>8. \A j \in ApplicantIds : Held(j)' = Held(j)
  BY <1>2, HeldSame DEF HasUpload, HasDraft, HasSubmission
<1>9. QED
  BY <1>2, <1>3, <1>6, <1>7, <1>8, Registers DEF Recorded

\* CommitDeletion and DeleteRow take a row with all that belongs to it.
LEMMA DeletionErases ==
  ASSUME TypeOK, ErasureInv, NEW r \in Requests, CommitDeletion(r) \/ DeleteRow(r)
  PROVE  Lifecycle!Next
<1>0. PICK i \in ApplicantIds : i = req[r].id /\ i # 0
  BY IdAssumption DEF CommitDeletion, DeleteRow, Registered, TypeOK, ApplicantRow
<1> DEFINE d0 == [applicantId |-> i, email |-> req[r].email, by |-> r]
<1>1. /\ Registered(i)
      /\ applicant' = {a \in applicant : a.id # i}
      /\ upload' = {u \in upload : u.applicantId # i}
      /\ draft' = {d \in draft : d.applicantId # i}
      /\ submission' = {s \in submission : s.applicantId # i}
      /\ deletionRequests' = deletionRequests \/ deletionRequests' = deletionRequests \cup {d0}
      /\ lastApplicantId' = lastApplicantId
  BY <1>0 DEF CommitDeletion, DeleteRow, DeleteCascade
<1>2. d0.applicantId = i
  OBVIOUS
<1> HIDE DEF d0
<1>4. i <= lastApplicantId
  BY <1>1 DEF ErasureInv, ApplicantsNumbered, Registered
<1>5. Stage(i) = "registered" /\ Stage(i)' = "gone"
  BY <1>1, <1>4 DEF Stage, Registered
<1>6. Held(i)' = {}
  BY <1>1, HeldKindsNext DEF DataKinds, HasUpload, HasDraft, HasSubmission
<1>7. ASSUME NEW j \in ApplicantIds \ {i} PROVE Stage(j)' = Stage(j) /\ Held(j)' = Held(j)
  <2>1. Registered(j)' <=> Registered(j)
    BY <1>1 DEF Registered
  <2>2. SameTables(j)
    BY <1>1 DEF SameTables, HasUpload, HasDraft, HasSubmission
  <2>3. QED
    BY <1>1, <2>1, <2>2, HeldSame DEF Stage, SameTables
<1>8. Recorded' \in {Recorded, Recorded \cup {i}}
  BY <1>0, <1>1, <1>2 DEF Recorded
<1>9. QED
  BY <1>5, <1>6, <1>7, <1>8, Erases

\* InsertUpload, CreateSubmission, UpdateSubmission and UpsertDraft leave one row
\* to a registered applicant; UpdateSubmission finds one there.
LEMMA WritesAcquire ==
  ASSUME TypeOK, ErasureInv, NEW r \in Requests,
         InsertUpload(r) \/ CreateSubmission(r) \/ UpdateSubmission(r) \/ UpsertDraft(r)
  PROVE  Lifecycle!Next
<1>1. UNCHANGED <<applicant, lastApplicantId, deletionRequests>>
  BY DEF InsertUpload, CreateSubmission, UpdateSubmission, UpsertDraft
<1>2. PICK i \in ApplicantIds : i = req[r].id /\ Registered(i)
  <2>1. Registered(req[r].id)
    BY DEF InsertUpload, CreateSubmission, UpdateSubmission, UpsertDraft, ErasureInv, NoOrphanRows
  <2>2. QED
    BY <2>1 DEF Registered, TypeOK, ApplicantRow
<1>3. \E kind \in DataKinds : \A j :
        /\ HasUpload(j)' <=> HasUpload(j) \/ (j = i /\ kind = "upload")
        /\ HasDraft(j)' <=> HasDraft(j) \/ (j = i /\ kind = "draft")
        /\ HasSubmission(j)' <=> HasSubmission(j) \/ (j = i /\ kind = "submission")
  <2>1. CASE InsertUpload(r)
    <3>1. \A j : HasUpload(j)' <=> HasUpload(j) \/ j = i
      <4>1. PICK n \in UploadIds :
              upload' = upload \cup {[id |-> n, applicantId |-> i, status |-> "REQUESTED"]}
        BY <1>2, <2>1 DEF InsertUpload
      <4> DEFINE row == [id |-> n, applicantId |-> i, status |-> "REQUESTED"]
      <4>2. row.applicantId = i /\ upload' = upload \cup {row}
        BY <4>1
      <4> HIDE DEF row
      <4>3. QED
        BY <4>2 DEF HasUpload
    <3>2. QED
      BY <2>1, <3>1 DEF InsertUpload, DataKinds, HasDraft, HasSubmission
  <2>2. CASE CreateSubmission(r) \/ UpdateSubmission(r)
    <3> DEFINE row == [applicantId |-> i, resume |-> req[r].up]
    <3>1. /\ \/ submission' = submission \cup {row}
             \/ submission' = {s \in submission : s.applicantId # i} \cup {row}
          /\ UNCHANGED <<upload, draft>>
      BY <1>2, <2>2 DEF CreateSubmission, UpdateSubmission
    <3>2. row.applicantId = i
      OBVIOUS
    <3> HIDE DEF row
    <3>3. \A j : HasSubmission(j)' <=> HasSubmission(j) \/ j = i
      BY <3>1, <3>2 DEF HasSubmission
    <3>4. QED
      BY <3>1, <3>3 DEF DataKinds, HasUpload, HasDraft
  <2>3. CASE UpsertDraft(r)
    <3> DEFINE row == [applicantId |-> i, resume |-> req[r].up]
    <3>1. /\ draft' = {d \in draft : d.applicantId # i} \cup {row}
          /\ UNCHANGED <<upload, submission>>
      BY <1>2, <2>3 DEF UpsertDraft
    <3>2. row.applicantId = i
      OBVIOUS
    <3> HIDE DEF row
    <3>3. \A j : HasDraft(j)' <=> HasDraft(j) \/ j = i
      BY <3>1, <3>2 DEF HasDraft
    <3>4. QED
      BY <3>1, <3>3 DEF DataKinds, HasUpload, HasSubmission
  <2>4. QED
    BY <2>1, <2>2, <2>3
<1>4. Stage(i) = "registered"
  BY <1>2 DEF Stage
<1>5. (\A j \in ApplicantIds : Stage(j)' = Stage(j)) /\ Recorded' = Recorded
  BY <1>1 DEF Stage, Registered, Recorded
<1>6. PICK kind \in DataKinds : \A j :
        /\ HasUpload(j)' <=> HasUpload(j) \/ (j = i /\ kind = "upload")
        /\ HasDraft(j)' <=> HasDraft(j) \/ (j = i /\ kind = "draft")
        /\ HasSubmission(j)' <=> HasSubmission(j) \/ (j = i /\ kind = "submission")
  BY <1>3
<1>7. Held(i)' = Held(i) \cup {kind}
  BY <1>6, HeldGrows
<1>8. \A j \in ApplicantIds \ {i} : Held(j)' = Held(j)
  BY <1>6, HeldSame
<1>9. QED
  BY <1>4, <1>5, <1>7, <1>8, Acquires

\* The other writes change a status, a flag or a login, or record the deletion of an
\* e-mail without an applicant: nobody's life.
LEMMA OtherWritesStutter ==
  ASSUME TypeOK, ErasureInv, NEW r \in Requests,
         SetUploadStatus(r) \/ PauseApplicant(r) \/ UpdateAuth0Id(r) \/ RecordRequest(r)
  PROVE  UNCHANGED Lifecycle!vars
<1>1. UNCHANGED <<lastApplicantId, draft, submission>>
  BY DEF SetUploadStatus, PauseApplicant, UpdateAuth0Id, RecordRequest
<1>2. \A i : Registered(i)' <=> Registered(i)
  <2>1. CASE PauseApplicant(r) \/ UpdateAuth0Id(r)
    BY <2>1, UpdateKeepsIds DEF Registered
  <2>2. QED
    BY <2>1 DEF SetUploadStatus, RecordRequest, Registered
<1>3. \A i : HasUpload(i)' <=> HasUpload(i)
  <2>1. CASE SetUploadStatus(r)
    <3> DEFINE C == Completable(r)
               done(u) == [u EXCEPT !.status = req[r].upStatus]
    <3>1. upload' = upload \/ upload' = (upload \ C) \cup {done(u) : u \in C}
      BY <2>1 DEF SetUploadStatus
    <3>2. C \subseteq upload
      BY DEF Completable, ResumeOf
    <3>3. \A u \in upload : done(u).applicantId = u.applicantId
      BY DEF TypeOK, UploadRow
    <3> HIDE DEF C, done
    <3>4. QED
      BY <3>1, <3>2, <3>3 DEF HasUpload
  <2>2. QED
    BY <2>1 DEF PauseApplicant, UpdateAuth0Id, RecordRequest, HasUpload
<1>4. Recorded' = Recorded
  <2>1. CASE RecordRequest(r)
    BY <2>1 DEF RecordRequest, Recorded
  <2>2. QED
    BY <2>1 DEF SetUploadStatus, PauseApplicant, UpdateAuth0Id, Recorded
<1>5. \A i \in ApplicantIds : Stage(i)' = Stage(i) /\ Held(i)' = Held(i)
  <2>1. \A i : (HasDraft(i)' <=> HasDraft(i)) /\ (HasSubmission(i)' <=> HasSubmission(i))
    BY <1>1 DEF HasDraft, HasSubmission
  <2>2. QED
    BY <1>1, <1>2, <1>3, <2>1, HeldSame DEF Stage
<1>6. QED
  BY <1>4, <1>5, Stutters

-----------------------------------------------------------------------------
(* The refinement *)

\* A deployment starts with its applicants registered and no deletion on record.
LEMMA LifecycleInit == Init => Lifecycle!Init
<1> SUFFICES ASSUME Init PROVE Lifecycle!Init
  OBVIOUS
<1>1. Recorded = {}
  BY DEF Init, Recorded
<1>2. \A i \in ApplicantIds : Stage(i) \in {"ahead", "registered", "gone"}
  BY DEF Stage
<1>3. \A i \in ApplicantIds : Held(i) \in SUBSET DataKinds
  BY HeldKinds
<1>4. ASSUME NEW i \in ApplicantIds, Stage(i) # "registered" PROVE Held(i) = {}
  <2>1. ~Registered(i) /\ draft = {} /\ submission = {}
    BY <1>4 DEF Stage, Init
  <2>2. ~HasUpload(i)
    BY <2>1, InitialAssumption DEF Init, Registered, HasUpload
  <2>3. QED
    BY <2>1, <2>2, HeldKinds DEF DataKinds, HasDraft, HasSubmission
<1>5. QED
  BY <1>1, <1>2, <1>3, <1>4 DEF Lifecycle!Init, Recorded, Stage, DataKinds

\* Each step of the handlers is a step of the lifecycle, or none of its own.
LEMMA LifecycleStep ==
  ASSUME TypeOK, ErasureInv, [Next]_vars
  PROVE  [Lifecycle!Next]_(Lifecycle!vars)
<1>1. CASE Unchanged
  <2>1. /\ \A i \in ApplicantIds : Stage(i)' = Stage(i) /\ SameTables(i)
        /\ Recorded' = Recorded
    BY <1>1 DEF Unchanged, Stage, Registered, Recorded, SameTables, HasUpload, HasDraft,
                HasSubmission
  <2>2. QED
    BY <2>1, HeldSame, Stutters DEF SameTables
<1>2. ASSUME NEW r \in Requests, InsertApplicant(r) PROVE Lifecycle!Next
  BY <1>2, InsertRegisters
<1>3. ASSUME NEW r \in Requests, CommitDeletion(r) \/ DeleteRow(r) PROVE Lifecycle!Next
  BY <1>3, DeletionErases
<1>4. ASSUME NEW r \in Requests,
             InsertUpload(r) \/ CreateSubmission(r) \/ UpdateSubmission(r) \/ UpsertDraft(r)
      PROVE  Lifecycle!Next
  BY <1>4, WritesAcquire
<1>5. ASSUME NEW r \in Requests,
             SetUploadStatus(r) \/ PauseApplicant(r) \/ UpdateAuth0Id(r) \/ RecordRequest(r)
      PROVE  UNCHANGED Lifecycle!vars
  BY <1>5, OtherWritesStutter
<1>6. QED
  BY <1>1, <1>2, <1>3, <1>4, <1>5, DatabaseSteps

\* All handlers together implement the life of an applicant id: whatever runs at
\* once, data is left only by a registered applicant, goes in one step with the row
\* that a deletion removes, never comes back, and the record of that deletion is
\* made in the same step or never.
THEOREM LifecycleCorrect == Spec => LifecycleKept
<1>1. TypeOK /\ ErasureInv /\ [Next]_vars => [Lifecycle!Next]_(Lifecycle!vars)
  BY LifecycleStep
<1>2. QED
  BY <1>1, LifecycleInit, TypeCorrect, ErasureCorrect, PTL DEF Spec, LifecycleKept, Lifecycle!Spec
=============================================================================
