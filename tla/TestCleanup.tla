----------------------------- MODULE TestCleanup -----------------------------
(***************************************************************************)
(* DELETE /cleanup/testapplicants: deleteTestApplicants runs one            *)
(* deleteApplicantForce for each applicant whose e-mail looks like a test   *)
(* user's, a batch at a time, while the API serves everybody else.  Each of *)
(* these deletions is a request of Deletion in a slot of its own: it does   *)
(* what an administrator's DELETE /applicants/:id does, await by await.     *)
(***************************************************************************)
EXTENDS CommonAppInvariants

CONSTANTS
  TestEmails,   \* LIKE 'success+test-user%@simulator.amazonses.com'
  batchSize,    \* deletions that may run at once
  SlotOf        \* the request slot of each applicant's deletion by the cleanup

ASSUME SlotAssumption ==
  /\ "deleteForce" \in Ops
  /\ IsFiniteSet(ApplicantIds)
  /\ TestEmails \subseteq Emails
  /\ batchSize \in Nat \ {0}
  /\ SlotOf \in [ApplicantIds -> Requests]
  /\ \A i, j \in ApplicantIds : SlotOf[i] = SlotOf[j] => i = j

VARIABLES
  listed,   \* applicantsToDelete
  batch,    \* the deletions Promise.all waits for
  handler   \* what the cleanup does next, or how it ended

cleanup == <<listed, batch, handler>>

CleanupTypeOK ==
  /\ TypeOK
  /\ listed \subseteq ApplicantIds
  /\ batch \subseteq listed
  /\ handler \in {"list", "batches", "deleted", "failed"}

CleanupInit == Init /\ listed = {} /\ batch = {} /\ handler = "list"

DeletionOf(i) == req[SlotOf[i]]
Pending == {i \in listed : DeletionOf(i).pc = "idle"}
Running == {i \in listed : DeletionOf(i).pc \notin {"idle", "done"}}

\* Faulty variant: the pattern matches every address.
ListEverybody ==
  /\ handler = "list"
  /\ listed' = {a.id : a \in applicant}
  /\ handler' = "batches"
  /\ UNCHANGED <<vars, batch>>

\* The raw query.
ListTestApplicants ==
  /\ handler = "list"
  /\ listed' = {a.id : a \in {b \in applicant : b.email \in TestEmails}}
  /\ handler' = "batches"
  /\ UNCHANGED <<vars, batch>>

StartDeletions(B) ==
  /\ batch' = B
  /\ req' = [r \in Requests |->
               IF \E i \in B : SlotOf[i] = r
               THEN [NoRequest EXCEPT !.op = "deleteForce", !.pc = "findApplicant",
                       !.id = CHOOSE i \in B : SlotOf[i] = r]
               ELSE req[r]]
  /\ UNCHANGED <<tables, services, listed, handler>>

\* The next slice of the list, whose order the query leaves open: batchSize of
\* them, or what is left.
IsSlice(B) ==
  /\ B # {} /\ B \subseteq Pending
  /\ B = Pending \/ Cardinality(B) = batchSize
  /\ Cardinality(B) <= batchSize

\* Faulty variant: the batches are not awaited.
StartBatchAtOnce(B) ==
  /\ handler = "batches"
  /\ IsSlice(B)
  /\ StartDeletions(B)

\* The loop goes on once Promise.all has all the results of the batch before.
StartBatch(B) ==
  /\ handler = "batches"
  /\ \A i \in batch : DeletionOf(i).status = 200
  /\ IsSlice(B)
  /\ StartDeletions(B)

\* Promise.all rejects with the first deletion that fails: the batches left are
\* not begun, and the other deletions of this one go on unwatched.
BatchFails ==
  /\ handler = "batches"
  /\ \E i \in batch : DeletionOf(i).status \notin {0, 200}
  /\ handler' = "failed"
  /\ UNCHANGED <<vars, listed, batch>>

\* Faulty variant: a failed deletion counts as settled, as in Promise.allSettled.
AnswerSettled ==
  /\ handler = "batches"
  /\ Pending = {}
  /\ \A i \in batch : DeletionOf(i).pc = "done"
  /\ handler' = "deleted"
  /\ UNCHANGED <<vars, listed, batch>>

\* res.status(200).json(result)
AnswerDeleted ==
  /\ handler = "batches"
  /\ Pending = {}
  /\ \A i \in batch : DeletionOf(i).status = 200
  /\ handler' = "deleted"
  /\ UNCHANGED <<vars, listed, batch>>

\* The API goes on: the deletions the cleanup has begun, and clients who register,
\* delete or upload, in the slots the cleanup does not need.
Served == {r \in Requests : ~At(r, "idle") \/ \A i \in ApplicantIds : r # SlotOf[i]}

Serve ==
  /\ \/ \E r \in Served : Registering(r)
     \/ \E r \in Served : Deleting(r)
     \/ \E r \in Served : Respond(r)
     \/ \E r \in Served : Fail(r)
     \/ \E k \in Key : PutObject(k)
  /\ UNCHANGED cleanup

CleanupNext ==
  \/ Serve
  \/ ListTestApplicants
  \/ \E B \in SUBSET listed : StartBatch(B)
  \/ BatchFails
  \/ AnswerDeleted

CleanupSpec == CleanupInit /\ [][CleanupNext]_<<vars, cleanup>>

-----------------------------------------------------------------------------
\* A client, or an administrator by hand, has asked for the deletion.
AskedFor(a) ==
  \/ \E d \in deletionRequests : d.email = a.email
  \/ \E r \in Requests \ {SlotOf[a.id]} : req[r].op = "deleteForce" /\ req[r].id = a.id

ResumesSpared(i) ==
  \/ \A u \in InitialUploads : u.applicantId = i /\ u.status = "SUCCESS" =>
       [applicantId |-> i, uploadId |-> u.id] \in bucket
  \/ PrefixDeleted(i)

\* "Deletes all applicants that match a known email pattern only used for
\* testing": whoever else is registered keeps the row, the login and the resumes,
\* whatever requests run beside the batches, unless a client has asked for that
\* deletion; only the resumes may go with those of an applicant whose id is a decimal
\* prefix of this one's (DeleteOnlyOwnResumes of CommonAppApi is where that fails).
SparesOthers ==
  \A a \in InitialApplicants : a.email \notin TestEmails /\ ~AskedFor(a) =>
    /\ a \in applicant
    /\ \E u \in auth0 : u.user_id = a.auth0Id
    /\ ResumesSpared(a.id)

\* A cleanup answered 200 has deleted every applicant it listed, with the login and
\* all resumes its deletion could know of, although a batch of deletions runs
\* concurrently and each can stop halfway: one failure in any batch is the answer of
\* the whole.
CleanupMeansGone ==
  handler = "deleted" =>
    \A i \in listed :
      /\ Erased(i)
      /\ \A k \in ObjectsOf(i) : <<SlotOf[i], k>> \in missed
      /\ \A u \in auth0 : u.user_id # DeletionOf(i).sub

\* "This intentionally is not massively parallel as to avoid using too many
\* connections at once": no more than a batch of deletions of a cleanup is ever
\* under way, those that a failed batch leaves behind included.
AtMostOneBatch == Cardinality(Running) <= batchSize

-----------------------------------------------------------------------------
(* Why these hold *)

\* A slot the cleanup has begun deletes its own applicant; whatever a batch before
\* this one did has been answered 200.
BatchesInv ==
  /\ \A i \in ApplicantIds : DeletionOf(i).pc # "idle" =>
        i \in listed /\ DeletionOf(i).op = "deleteForce" /\ DeletionOf(i).id = i
  /\ \A i \in batch : DeletionOf(i).pc # "idle"
  /\ \A i \in listed \ batch : DeletionOf(i).pc = "idle" \/ DeletionOf(i).status = 200
  /\ handler = "list" => listed = {}
  /\ handler = "deleted" => \A i \in listed : DeletionOf(i).status = 200
  /\ IsFiniteSet(batch) /\ Cardinality(batch) <= batchSize

\* A forced deletion past deleteUsers' first call has taken the user of the row it
\* found for good: Auth0 issues no user id twice.
UsersInv ==
  \A r \in Requests :
    /\ req[r].op = "deleteForce"
    /\ req[r].pc \in {"listByEmail", "deleteListed", "respond"} \/ req[r].status = 200
    => /\ \E t \in jwt : t.user_id = req[r].sub
       /\ \A u \in auth0 : u.user_id # req[r].sub

\* Whoever is nobody's test user and not asked for is not on the list, and keeps row
\* and resumes; a forced deletion that found this e-mail was for this very id, and
\* whatever found this id has this e-mail.
Spared(a) ==
  /\ a \in applicant
  /\ a.id \notin listed
  /\ ResumesSpared(a.id)
  /\ \A r \in Requests :
       /\ req[r].op = "deleteForce" /\ req[r].email = a.email => req[r].id = a.id
       /\ At(r, "deleteTx") /\ req[r].id = a.id => req[r].email = a.email

SparesInv ==
  /\ \A a, b \in applicant : a.email = b.email => a = b
  /\ \A a \in InitialApplicants : a.email \notin TestEmails => AskedFor(a) \/ Spared(a)

\* What a cleanup relies on, of itself and of every request of the API.
CleanupInv ==
  /\ SafetyInv /\ PathInv /\ DeletionMailInv /\ ObjectsInv /\ LoginInv
  /\ BatchesInv /\ UsersInv /\ SparesInv
=============================================================================
