----------------------- MODULE SubmissionTransactions -----------------------
(***************************************************************************)
(* The multi-statement transactions of createSubmission, updateSubmission  *)
(* and createOpportunityBatch, statement by statement.  Besides its own    *)
(* row each inserts the skills and causes it names, skipping those that    *)
(* are known.  Postgres (external) lets an insert wait for the transaction *)
(* that has inserted the same key and not ended yet; transactions that     *)
(* insert new names in different orders can wait for each other.           *)
(*                                                                         *)
(* Names are CITEXT keys: a name here is a class of spellings that differ  *)
(* in case only.                                                           *)
(***************************************************************************)
EXTENDS Naturals, Sequences, FiniteSets

CONSTANTS
  Requests,     \* request slots, each used once
  Names,        \* skills and causes
  People,       \* applicants, and the contacts of batches
  Bodies,       \* what clients submit: [op, who, skills, causes]
  InitialRows,  \* rows committed before the run
  TestContact,  \* success+test-user-contact@simulator.amazonses.com
  None

VARIABLES
  rows,  \* the committed rows: [table, key]
  req,   \* the requests
  mail   \* the batches whose contact was sent the welcome e-mail

vars == <<rows, req, mail>>

Tables == {"ApplicantSubmission", "ApplicantSkills", "ApplicantCauses",
           "OpportunityBatch", "OpportunitySkills", "OpportunityCauses"}

Row == [table : Tables, key : Names \cup People \cup Requests]

SubmitOps == {"createSubmission", "updateSubmission", "createBatch"}

ASSUME BodyAssumption ==
  /\ Bodies \subseteq [op : SubmitOps, who : People, skills : Seq(Names), causes : Seq(Names)]
  /\ InitialRows \subseteq Row
  /\ None \notin SubmitOps \cup {"deleteBatch", "deleteTestOpportunities"}

InTable(table, names) == [n \in DOMAIN names |-> [table |-> table, key |-> names[n]]]

\* The rows a request writes, in the order of its statements: a submission is
\* keyed by its applicant, a batch by a fresh id.  updateSubmission inserts the
\* causes before the skills.
Writes(r, b) ==
  CASE b.op = "createSubmission" ->
         InTable("ApplicantSubmission", <<b.who>>) \o
         InTable("ApplicantSkills", b.skills) \o InTable("ApplicantCauses", b.causes)
    [] b.op = "updateSubmission" ->
         InTable("ApplicantSubmission", <<b.who>>) \o
         InTable("ApplicantCauses", b.causes) \o InTable("ApplicantSkills", b.skills)
    [] b.op = "createBatch" ->
         InTable("OpportunityBatch", <<r>>) \o
         InTable("OpportunitySkills", b.skills) \o InTable("OpportunityCauses", b.causes)

\* Those of them that are names.
NamesIn(r, b) == {Writes(r, b)[n] : n \in 2..Len(Writes(r, b))}

Idle == [op |-> None, who |-> None, skills |-> <<>>, causes |-> <<>>,
         pc |-> "idle", todo |-> <<>>, mine |-> {}]

Init ==
  /\ rows = InitialRows
  /\ req = [r \in Requests |-> Idle]
  /\ mail = {}

Running(r) == req[r].pc = "running"
Body(r) == [op |-> req[r].op, who |-> req[r].who, skills |-> req[r].skills,
            causes |-> req[r].causes]

\* BEGIN
Begin(r, b) ==
  /\ req[r].pc = "idle"
  /\ req' = [req EXCEPT ![r] =
       [op |-> b.op, who |-> b.who, skills |-> b.skills, causes |-> b.causes,
        pc |-> "running", todo |-> Writes(r, b), mine |-> {}]]
  /\ UNCHANGED <<rows, mail>>

\* The row a transaction writes next, and the one that makes it wait.
Next1(r) == Head(req[r].todo)
Waits(r, q) ==
  Running(r) /\ req[r].todo # <<>> /\ q # r /\ Next1(r) \in req[q].mine

\* A submission is created once and updated only when it exists; anything else
\* may be there already.
Refused(r) ==
  /\ Next1(r).table = "ApplicantSubmission"
  /\ (Next1(r) \in rows) # (req[r].op = "updateSubmission")

\* Faulty variant: upserts instead of skipDuplicates lock the known names too.
TakesEvery(r) == TRUE

\* ON CONFLICT DO NOTHING leaves a known name alone; an update locks its row.
Takes(r) == Next1(r) \notin rows \/ Next1(r).table = "ApplicantSubmission"

\* Faulty variant: the writes are awaited together, but in no transaction.
WriteAtOnce(r) ==
  /\ Running(r) /\ req[r].todo # <<>>
  /\ \A q \in Requests : ~Waits(r, q)
  /\ ~Refused(r)
  /\ rows' = rows \cup {Next1(r)}
  /\ req' = [req EXCEPT ![r].todo = Tail(@)]
  /\ UNCHANGED mail

\* One row of one statement.
Write(r) ==
  /\ Running(r) /\ req[r].todo # <<>>
  /\ \A q \in Requests : ~Waits(r, q)
  /\ ~Refused(r)
  /\ req' = [req EXCEPT ![r].todo = Tail(@),
                        ![r].mine = IF Takes(r) THEN @ \cup {Next1(r)} ELSE @]
  /\ UNCHANGED <<rows, mail>>

\* Faulty variant: the error is answered and the transaction left open.
FailsOpen(r) ==
  /\ req' = [req EXCEPT ![r].pc = "failed", ![r].todo = <<>>]
  /\ UNCHANGED <<rows, mail>>

\* ROLLBACK: the error goes to next(err).
Fails(r) ==
  /\ req' = [req EXCEPT ![r].pc = "failed", ![r].todo = <<>>, ![r].mine = {}]
  /\ UNCHANGED <<rows, mail>>

\* P2002 of a second submission, P2025 of an edit without one.
Refuse(r) ==
  /\ Running(r) /\ req[r].todo # <<>>
  /\ \A q \in Requests : ~Waits(r, q)
  /\ Refused(r)
  /\ Fails(r)

\* A lost connection, a time-out of the transaction, a killed process.
Rollback(r) == Running(r) /\ Fails(r)

\* Every transaction of the set waits for one of the set and is waited for.
Deadlocked(r) ==
  \E S \in SUBSET Requests :
    /\ r \in S
    /\ \A p \in S : (\E q \in S : Waits(p, q)) /\ (\E q \in S : Waits(q, p))

\* Postgres (external) ends one transaction of a cycle: 40P01.
DeadlockVictim(r) == Deadlocked(r) /\ Fails(r)

\* COMMIT: what is left of a submission is its answer, of a batch its e-mail.
Commit(r) ==
  /\ Running(r) /\ req[r].todo = <<>>
  /\ rows' = rows \cup req[r].mine
  /\ req' = [req EXCEPT ![r].pc = IF req[r].op = "createBatch" THEN "notify" ELSE "done",
                        ![r].mine = {}]
  /\ UNCHANGED mail

\* The organisation's welcome e-mail; a failure is logged and swallowed.
Notify(r) ==
  /\ req[r].pc = "notify"
  /\ mail' \in {mail, mail \cup {r}}
  /\ req' = [req EXCEPT ![r].pc = "done"]
  /\ UNCHANGED rows

-----------------------------------------------------------------------------
(* Administrators *)

BatchRow(r) == [table |-> "OpportunityBatch", key |-> r]

\* deleteOpportunityForce: P2025 when there is no such batch.
DeleteBatch(r, b) ==
  /\ req[r].pc = "idle"
  /\ rows' = rows \ {BatchRow(b)}
  /\ req' = [req EXCEPT ![r] = [Idle EXCEPT !.op = "deleteBatch", !.who = b,
               !.pc = IF BatchRow(b) \in rows THEN "done" ELSE "failed"]]
  /\ UNCHANGED mail

\* Faulty variant: no where.
EveryBatch == {k \in rows : k.table = "OpportunityBatch"}

\* where: { contactEmail: testEmail }
TestBatches == {k \in rows : /\ k.table = "OpportunityBatch"
                             /\ req[k.key].who = TestContact}

DeleteTestOpportunities(r) ==
  /\ req[r].pc = "idle"
  /\ rows' = rows \ TestBatches
  /\ req' = [req EXCEPT ![r] = [Idle EXCEPT !.op = "deleteTestOpportunities", !.pc = "done"]]
  /\ UNCHANGED mail

-----------------------------------------------------------------------------
Handling(r) == Write(r) \/ Refuse(r) \/ Commit(r) \/ Notify(r)

Next ==
  \/ \E r \in Requests, b \in Bodies : Begin(r, b)
  \/ \E r \in Requests : Write(r)
  \/ \E r \in Requests : Refuse(r)
  \/ \E r \in Requests : Commit(r)
  \/ \E r \in Requests : Notify(r)
  \/ \E r \in Requests : Rollback(r)
  \/ \E r \in Requests : DeadlockVictim(r)
  \/ \E r, b \in Requests : DeleteBatch(r, b)
  \/ \E r \in Requests : DeleteTestOpportunities(r)

\* The process goes on with its requests and Postgres breaks deadlocks; nobody
\* has to send a request, and no failure has to happen.
Fairness ==
  /\ \A r \in Requests : WF_vars(Handling(r))
  /\ WF_vars(\E r \in Requests : DeadlockVictim(r))

Spec == Init /\ [][Next]_vars /\ Fairness

-----------------------------------------------------------------------------
TypeOK ==
  /\ \A k \in rows : k.table \in Tables
  /\ \A r \in Requests :
       /\ req[r].pc \in {"idle", "running", "notify", "done", "failed"}
       /\ Running(r) => Body(r) \in Bodies /\ req[r].mine \subseteq
                          {Writes(r, Body(r))[n] : n \in DOMAIN Writes(r, Body(r))}
       /\ ~Running(r) => req[r].todo = <<>> /\ req[r].mine = {}
  /\ mail \subseteq {r \in Requests : req[r].op = "createBatch"}

Committed(r) == req[r].op \in SubmitOps /\ req[r].pc \in {"notify", "done"}

\* The tables of custom names hold exactly the names of the submissions and
\* batches that were committed: none is missing because another transaction had
\* just inserted it and then failed, and none is left of one that failed
\* (createSubmission, updateSubmission, createOpportunityBatch).
NamesFollowSubmissions ==
  {k \in rows : k.table \notin {"ApplicantSubmission", "OpportunityBatch"}} =
    {k \in InitialRows : k.table \notin {"ApplicantSubmission", "OpportunityBatch"}} \cup
    UNION {NamesIn(r, Body(r)) : r \in {q \in Requests : Committed(q)}}

\* A name that is known already makes nobody wait, so popular skills are no
\* bottleneck, and a deadlock takes two names that are both new (skipDuplicates).
KnownNamesNeverBlock ==
  \A r, q \in Requests :
    Waits(r, q) => Next1(r).table = "ApplicantSubmission" \/ Next1(r) \notin rows

\* A batch whose contact was welcomed, or whose client was answered 200, is in the
\* database until an administrator deletes it, by its id or as a test batch.
BatchKept ==
  \A r \in Requests :
    req[r].op = "createBatch" /\ (req[r].pc = "done" \/ r \in mail) =>
      \/ BatchRow(r) \in rows
      \/ \E q \in Requests : req[q].op = "deleteBatch" /\ req[q].who = r /\ req[q].pc = "done"
      \/ /\ req[r].who = TestContact
         /\ \E q \in Requests : req[q].op = "deleteTestOpportunities"

\* Every submission is answered, although updateSubmission inserts its names in
\* the opposite order of createSubmission and clients list theirs in any order:
\* transactions that wait for each other are broken up, and the failure of one
\* lets the others go on.
EverySubmissionAnswered ==
  \A r \in Requests : Running(r) ~> req[r].pc \in {"done", "failed"}
=============================================================================
