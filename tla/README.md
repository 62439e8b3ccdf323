# Formal models of the Common App API

TLA+ models of the API behind Tekalo (`src/src`), of the mail pipeline it
feeds (`src/packages/email-sender`, `src/tf/modules/email`) and of the parts of
Postgres, Auth0 and S3 they rely on; TLC configurations that check them on small
instances; and theorems that TLAPS proves for every instance.  Paths below are
relative to the parent directory of this project.

## 1. The system

### Components

| component | source | state it keeps | operations |
|---|---|---|---|
| registration | `ApplicantController.createApplicant`, `AuthService` | rows of Applicant, Auth0 users, session | `POST /applicants`, with or without a JWT |
| deletion | `deleteApplicant`, `deleteAuth0OnlyApplicant`, `deleteApplicantForce`, `AuthService.deleteUsers`, `S3Service.deleteUploads` | ApplicantDeletionRequests; removes rows, users, objects | `DELETE /applicants/me`, `DELETE /applicants/:id` |
| applications | the rest of `ApplicantController`, `UploadService` | Upload, draft and final submissions, `isPaused`, `auth0Id` | upload URL, upload completion, draft, submit, edit, pause, relink |
| authentication | `middleware/authenticator.ts`, `cookieService.ts`, `app.ts` | sessions | who a request acts for |
| mail | `EmailService` with its whitelist, `SQSService`, the email-sender lambda, `sqs.tf` | SQS queue, dead-letter queue, lambda environments | drop, enqueue, batch, send, retry, give up |
| cleanup of test data | `routes/cleanup.ts`, `deleteTestApplicants`, `deleteTestOpportunities` | none of its own | batches of forced deletions |
| opportunities | `OpportunityController` | OpportunityBatch and its submissions | create, delete |
| custom names | the transactions of submissions and batches | ApplicantSkills, ApplicantCauses, OpportunitySkills, OpportunityCauses | insert unless known |
| suggestions | `SkillController`, `CauseController`, the two views, `skillSync` | ReferenceSkills, annotations | query, upload, sync |
| shell | `app.ts`, `server.ts`, error handler, health, monitoring, config, logging | none that outlives a request | wiring |

Schemas (`packages/schemas`), e-mail texts, the OpenAPI description, Terraform,
workflows, seed data and the Hightouch/Airtable exports are declarations or run
outside the request handlers.

### How they interact

A handler is a chain of awaits.  Between two awaits, any other handler may run, in
the same Node process or in another one (the service is scaled out); the handlers
share only Postgres, Auth0, S3 and the queue.  A transaction spans rows, never two
services, so the awaits of one handler are its commit points: what it has done
when a call fails, or when the process is killed, stays done.  No handler retries
or compensates.  The mail pipeline answers nothing back; the API's last knowledge
of an e-mail is that SQS has taken it.

### What is hard here

1. Auth0 user and row are created and deleted by separate calls.
2. A deletion has five effects in order (request and row together; user by id; users
   by e-mail, concurrently; objects; e-mail) and may stop after any.
3. A request carries the id its token or cookie had when it began.
4. A resume is checked in one query and attached in another.
5. Errors of the lookup in `setApplicantID` are all 404, and 404 means "not
   registered" to `DELETE /me`; a token without the e-mail claim finds any row.
6. Object keys are listed by string prefix, one page of them, and deleted in a second
   call; an upload URL outlives its applicant.
7. One e-mail of a batch fails the batch, and what was still being sent is frozen
   with the lambda's execution environment.
8. The transactions of submissions and batches insert names under unique keys, in
   different orders: they wait for each other, and may deadlock.
9. `Promise.all` over deletions or upserts answers at the first failure, and the rest go on.
10. The views join tables with three-valued logic.

`PROJECT.json` lists these as hazards with their lines and the properties that watch
them, or the reason why none does.

## 2. The modules

| module | models | notes |
|---|---|---|
| `CommonAppState` | schema, services, requests | variables, types, `Init`, the cascade, `Fail`, `Respond` |
| `Registration` | `POST /applicants` | and social sign-ups, which happen outside |
| `Deletion` | the three deletions | with `deleteUsers` and `deleteUploads` call by call |
| `Applications` | everything a registered applicant does | and `PutObject`, the client's own upload |
| `CommonAppApi` | the composition | `Next`, `Spec`, the properties |
| `CommonAppInvariants` | why they hold | the inductive invariants: `SafetyInv`, and one for each promise |
| `CommonAppTypes`, `CommonAppSafety` | proofs about the API | types, `SafetyInv` and the properties it contains |
| `CommonAppPromises` | proofs about the API | what has been answered, mailed, deleted, and what goes from the bucket |
| `CommonAppLifecycle` | proofs about the API | the refinement of `ApplicantLifecycle` |
| `ApplicantLifecycle` | what the API promises about an applicant id | abstract specification, implemented by `CommonAppApi` |
| `TestCleanup` | `DELETE /cleanup/testapplicants` | composed with `CommonAppApi`: its deletions are requests of `Deletion` |
| `TestCleanupProofs` | proofs about it | and of what the API keeps beside it |
| `SubmissionTransactions` | the transactions of submissions and opportunity batches, statement by statement; the deletions of batches | opens up the single steps `CreateSubmission` and `UpdateSubmission` of `Applications` |
| `SubmissionTransactionsProofs` | proofs about it | |
| `Suggestions` | the views, `GET /skills`, `GET /causes`, the two writers of reference skills | |
| `SuggestionsProofs` | proofs about it | |
| `AtLeastOnceMail` | what the mail pipeline promises | abstract specification |
| `EmailDelivery` | `sendEmail`, SQS, lambda, SES | implements `AtLeastOnceMail` |
| `EmailDeliveryProofs` | proofs about it | |
| `MC*` + `MC*.cfg` | instances for TLC | databases, bodies, kinds of request |

**State.**  A table is the set of its rows, reduced to the columns the handlers
decide on.  `lastApplicantId` and `lastUploadId` are the sequences behind the SERIAL
columns; they only go up, and skip values, as they do when an insert fails.
`session` is the Session table, kept with the e-mail of the registration that set the
cookie (a ghost: only properties read it for more than the client's identity); a session
may expire at any time.
`auth0` holds users, `jwt` everybody a token was ever issued to, since an access token
outlives its user.  A user may have no e-mail, and then the tokens lack the claim: Prisma drops
the condition `email: undefined`, so `setApplicantID` takes whichever row comes first
(`FoundBy`: any row).  `bucket` holds the keys `resumes/<applicant>/<upload>`.  `missed` is a
history variable no action reads: the objects a deletion could not know of, because they
were stored after it had listed, or lay beyond the page of an applicant with more than a page.
`mail` is what SQS was given: kind, recipient, applicant, and the request that did it.

**Requests.**  `req[r]` is one run of a handler; `pc` is the call it awaits next, the
other fields are its local variables, and `who` the e-mail of the token or session that
authenticated it (a ghost too).  Each action is one awaited call together with
the code up to the next await.  A guard that an early return or an exception makes
ends the request with its status.  `Fail` may end any request at any await: a
rejected call, a time-out, a killed process (`server.on('SIGTERM')` never fires, so a
shutdown cuts requests off).  A call that takes effect and is then reported as failed is
the action followed by `Fail`.

**Mapping.**  `PROJECT.json` maps every definition to its lines.  In short:
`StartX` is the route and its middleware, `validate`/`write` the two halves of the three
submission handlers, `deleteById`/`listByEmail`/`deleteListed` the three parts of
`deleteUsers`, `listResumes`/`deleteObjects` those of `deleteUploads`.  `DeleteListed` runs
after the request is answered too, when one of the concurrent deletions has failed.

**Faulty variants.**  Definitions whose comment begins with "Faulty variant" are no
part of any specification: each is a plausible mistake in the code, and replacing the
definition below it by the variant makes TLC find the property that watches it violated.

**Test cleanup.**  `SlotOf` reserves a request slot for the deletion of each applicant;
`StartBatch` puts the deletions of a slice there at `findApplicant`, and from then on they are
ordinary requests, interleaved with each other and with the client's.  `Promise.all` is the
guard of `StartBatch` and `AnswerDeleted` (all answered 200) and the action `BatchFails`.

**Transactions.**  `SubmissionTransactions` starts after validation.  `todo` is what a
transaction still has to write, `mine` the rows it has written and not committed.  A row
somebody else has written and not committed makes it wait (`Waits`), a committed one is skipped
(`Takes`) or refused (`Refused`).  Isolation is READ COMMITTED, Postgres' default: an insert
looks at what is committed when it runs.  `DeadlockVictim` ends any transaction of a set
that wait for each other.

**Suggestions.**  A name is a class of spellings (CITEXT).  `SkillsViewRow` and `CausesView`
are the SQL of the two scripts with NULL as a value; the reference definition
(`Offered`, `Label`, `First`, `Entries`) says in plain logic what the editors meant.  Upserts of
an upload are steps of their own and go on after a failure.

**Mail.**  `Mailbox` is `removeAliasLowercaseEmail`, and the whitelist a guard of `Enqueue`: every
generated e-mail has one recipient, which is dropped or not.  (The loop of `sendEmail`
splices the list it walks, which would matter to a second recipient.)  A send is one call of the
SES client, which tries up to `maxAttempts` times by itself: SES may accept several
copies in one call, or some in a call that is then reported as failed.

**Left out of these modules.**  In the API's modules, skills, causes and UTM rows, written in
the same transactions and read by no decision (`SubmissionTransactions` has the names); changes of the e-mail of an Auth0 user;
GET handlers of applicants, which change nothing; the hour clients may cache suggestions; role and scope checks, which only refuse.  `resumeUploadId` is unique in
the schema: two submissions never share an upload, because the validated upload belongs
to the applicant and an applicant has one submission.

## 3. The runs

Every API run has symmetric requests, each slot used once, so that "three requests"
means every interleaving of any three requests of the kinds the run allows.
`CHECK_DEADLOCK FALSE` is stated because the system may stop: when every slot is used, or
every e-mail settled, nothing has to happen.

| run | instance | shows |
|---|---|---|
| `identity` | 3 requests: register, register with JWT, delete me, upload (by token or cookie); 2 people, and users without an e-mail; empty database | nobody's login is lost without a deletion on record (`LoginLossIsRequested`); what was acknowledged is kept or was deleted on record (`AcknowledgedIsKept`); the row a request acts on, and the deletion it records, are of the person its token or cookie named (`AuthorityIsCurrent`); `LoginInv`, the invariant behind the first |
| `erasure` | 3 requests: both deletions, upload, draft; 1 applicant with a resume; pages of one key; sessions expire, objects are stored at any time | `RecordedMeansErased`, `NoOrphanRows`, `OneDeletionRecord`, `DeletionMailMeansErased`, `DeletionLeavesNoObjects` |
| `resumes` | 3 requests: upload, completion, draft, submit, edit; 2 uploads; clients that report anything | `AttachedResumeComplete`, `OneSubmissionMail` |
| `storage` | 3 requests: submit, edit, both deletions; applicants 1 and 10 with a resume each; pages of one key | `DeletionLeavesNoObjects` (the resume of 10 must not take the place of that of 1), `ResumesKept` (an object goes only after its applicant's row, or by the prefix), `AcknowledgedIsKept` |
| `everything` | 2 requests of all eleven kinds; sessions expire, pages of one key | `TypeOK`, `SafetyInv` and `PromisesInv`, invariants of the proofs, and `LifecycleKept`: the API implements `ApplicantLifecycle` |
| `email` | 4 e-mails, one to nobody on the whitelist, 2 environments, batches of 2, 2 receipts, 2 attempts of the SES client | `TypeOK` (with the bounds on receipts and copies), `NothingLost`, `PromiseKept` (safety and liveness of `AtLeastOnceMail`) |
| `transactions` | 3 requests, of 7 bodies and 2 kinds of deletion; 2 new names, 1 known | `TypeOK`, `NamesFollowSubmissions`, `KnownNamesNeverBlock`, `BatchKept`, `EverySubmissionAnswered` (liveness) |
| `suggestions` | 2 skills, 2 causes, 2 ids; 2 uploads and a sync | `TypeOK`, `SkillsAsAnnotated`, `CausesAsAnnotated`, `UploadTakesEffect` |
| `cleanup` | 3 test applicants in batches of 2, 1 other; 1 client request: register or a deletion | `CleanupTypeOK`, `SparesOthers`, `CleanupMeansGone`, `AtMostOneBatch`; `CleanupInv`, what the proofs of these rely on |
| `orphan` | 2 registrations | violated: `RegistrationFailureLeavesNoUser` |
| `complete_mail` | 2 deletions | violated: `CompleteMailMeansNoData` |
| `prefix` | 1 deletion, applicants 1 and 10 | violated: `DeleteOnlyOwnResumes` |

**Why the bounds are enough.**  The conflicts of this code are between two requests about
one person (two registrations, two deletions, a deletion and a write) or about two people
with something in common (an e-mail prefix, an id used again).  Three requests allow a
third to come between: delete, register again, and a stalled request of the first life.
Two ids, uploads or e-mails are needed to mistake one for the other; a third adds nothing
a handler could tell apart.  In `email`, two environments let a message be received
in one while its earlier send is frozen in the other; two receipts are a retry and the
dead-letter queue (`sqs.tf` says three: one more retry of the same kind), two attempts are a retry of
the SES client (its default is three); three messages are a batch and one outside it, and the fourth
is the one the whitelist drops.  In `transactions`, two transactions deadlock over two new names and a
third waits behind them.  In `suggestions`, two names give every way one can be shown as
the other, and the annotations of the instance are those the SQL's conditions tell apart.  In
`cleanup`, the second batch is the one a failure must stop (the code's ten is two here).
A page of `ListObjectsV2` has 1000 keys in S3 and one or two in the runs: one cuts the list of an
applicant with two resumes (`erasure`, `everything`), and that of two applicants with one
prefix (`storage`).  The theorems of section 4 have no bounds.

**Fairness.**  The API specification has none, and no liveness is claimed: a request may be
cut off at any await.  `EmailDelivery` assumes that the event source mapping keeps polling
(`WF` of a receipt: AWS runs the poller for as long as the mapping exists) and that an
invocation ends (`WF` per environment: the handler settles or the lambda's time-out ends
it).  Nothing is assumed about SES: it may refuse for ever, and then the redrive policy
brings the message to the dead-letter queue, which is what `PromiseKept` needs.  A frozen
send is under no fairness of its own: its environment may never run again.
`SubmissionTransactions` assumes that a request in flight takes its next step (`WF` per request:
the event loop goes on, and Postgres answers or the statement fails) and that Postgres ends
one transaction of a deadlock (`WF` of `DeadlockVictim`: its detector runs after
`deadlock_timeout`).  A waiting statement is not enabled, so that nothing is assumed about
what makes it go on: that something does is what the run shows.

### What disagrees with the repository's own words

* `orphan`: the comment at `ApplicantController.ts:99` wants the Auth0 user removed when the
  insert fails; nothing does.  The person can then not register again with a password,
  because `userExists` finds the user.
* `complete_mail`: `deleteAuth0OnlyApplicant` is for people without data (lines 380-381,
  `EmailService.ts:108-109`), but a failed lookup of a registered applicant leads there as
  well: the user loses the login and is told that the deletion is complete, and the row stays.
  A registration that completes between the lookup and the e-mail does the same.
  `LoginLossIsRequested` holds all the same, because that path has recorded a deletion
  request of the address.  It also accepts that somebody who registered again loses the new
  login to an earlier deletion that is still deleting users by e-mail: that one is on record too.
* `prefix`: `resumes/1` is a prefix of `resumes/10/...`.  The unit test at
  `applicants.controller.test.ts:424` accepts the prefix, with one applicant in play.

## 4. The proofs

The theorems are about any sets of requests, e-mails, users, ids and names, any initial
database, any choice of `Ops`, any page and batch sizes and limits, with objects stored at any
time and tokens without an e-mail: what the runs show for two or three of each.  Every safety invariant a passing run checks is the statement of
one of them.

| module | theorem | property | under |
|---|---|---|---|
| `CommonAppTypes` | `TypeCorrect` | `TypeOK` | |
| `CommonAppSafety` | `OrphansCorrect` | `NoOrphanRows` | |
| | `RecordedErasureCorrect` | `RecordedMeansErased` | |
| | `OneRecordCorrect` | `OneDeletionRecord` | |
| | `AttachedResumeCorrect` | `AttachedResumeComplete` | |
| | `AuthorityCorrect` | `AuthorityIsCurrent` | |
| | `SafetyCorrect` | `SafetyInv`: all of these with what they need | |
| `CommonAppLifecycle` | `LifecycleCorrect` | `LifecycleKept`: the API implements `ApplicantLifecycle` | |
| `CommonAppPromises` | `AcknowledgedCorrect` | `AcknowledgedIsKept` | |
| | `OneMailCorrect` | `OneSubmissionMail` | |
| | `DeletionMailCorrect` | `DeletionMailMeansErased` | |
| | `PromisesCorrect` | `PromisesInv`: these three with what they need | |
| | `LoginCorrect`, `LoginInvCorrect` | `LoginLossIsRequested`, `LoginInv` | no relinking |
| | `ObjectsCorrect` | `DeletionLeavesNoObjects` | |
| | `ResumesKeptCorrect` | `ResumesKept` | |
| `EmailDeliveryProofs` | `TypeCorrect` | `TypeOK` | |
| | `NothingLostCorrect` | `NothingLost` | |
| | `PromiseSafety` | the safety part of `PromiseKept` | |
| `SubmissionTransactionsProofs` | `TypeCorrect` | `TypeOK` | |
| | `NamesCorrect` | `NamesFollowSubmissions` | |
| | `KnownNamesFree` | `KnownNamesNeverBlock` | |
| | `BatchesCorrect` | `BatchKept` | |
| `SuggestionsProofs` | `TypeCorrect` | `TypeOK` | |
| | `SkillsCorrect`, `CausesCorrect` | `SkillsAsAnnotated`, `CausesAsAnnotated` | |
| | `UploadsCorrect` | `UploadTakesEffect` | |
| `TestCleanupProofs` | `CleanupTypesCorrect` | `CleanupTypeOK` | |
| | `OneBatchCorrect` | `AtMostOneBatch` | |
| | `SafetyBesideCleanup` | `SafetyInv`, with a cleanup running | |
| | `LifecycleBesideCleanup` | `LifecycleKept`, with a cleanup running | |
| | `CleanupCorrect` | `CleanupMeansGone` | no relinking |
| | `SparesCorrect` | `SparesOthers` | no relinking |
| | `CleanupInvCorrect` | `CleanupInv` | no relinking |

### What is assumed

Of the constants, in every theorem: `IdAssumption` (ids are positive naturals, the sentinels
are not values, `Ops` are kinds of request), `InitialAssumption` (the initial database
satisfies its own constraints), `LimitAssumption` and `AddressAssumption` (pipeline),
`BodyAssumption` of `SubmissionTransactions` (bodies list known kinds of names, initial rows
are rows), `RowAssumption`, `BodyAssumption` and `NullAssumption` of `Suggestions` (annotations
have the columns' types, bodies passed the schema, NULL is no value) and
`SlotAssumption` (the cleanup issues forced deletions, each in a slot of its own; the applicants are
finitely many).  TLC evaluates them in every run.

One thing the code does not provide is a hypothesis of the theorems that need it, and of
no other: `"relink" \notin Ops`.  `PUT /applicants/:auth0Id` writes whatever id it is given: after it,
the row and the user it names need not belong together, and a deletion takes the one
named.  The route is for the identity service, behind a scope of its own.  The runs of
these properties have no such request either.

What the bucket cannot keep is in the statements instead.  `DeletionLeavesNoObjects` and
`CleanupMeansGone` excuse the objects in `missed`, and `ResumesKept` and `SparesOthers` the
resumes of an applicant beside whom somebody with a prefix of the same id is deleted
(`PrefixDeleted`): both happen, and the second is what the run `prefix` is about.

### The arguments

**`SafetyInv`** has four parts, proved in this order, each from the earlier.

1. `TypeOK`, with `LocalsAssigned`: a handler that awaits a call has its arguments.
2. `ErasureInv`.  "Erased" is not inductive as it stands: a late insert must be impossible, so
   every row must have its applicant (`NoOrphanRows`, from the foreign keys and the cascade), and
   the applicant must not come back, so ids in use or on record are at most
   `lastApplicantId` (`ApplicantsNumbered`) and a recorded applicant is gone (`RecordedIsGone`).
   Then a second transaction of the same id finds no row: `OneDeletionRecord`.
3. `ResumeInv`.  Between validation and write, the upload that was seen may disappear but not
   change owner or leave SUCCESS (`ValidatedResume`): upload ids are never used again
   (`UploadsNumbered`) and `updateUploadStatus` leaves SUCCESS alone.  The write needs the row,
   by foreign key; hence `AttachedResumeComplete`.
4. `IdentityInv`.  What a request or a session carries is at most `lastApplicantId`, so a new
   row never has that id: whoever held an id holds it for good or it names nobody.  With `who`, the
   e-mail that was authenticated, the row found later is still the one looked up then, and the
   address `deleteApplicant` records is that person's (`EmailIsOwn`).

**The promises** (`CommonAppPromises`) follow one request along its labels.  `Moves(r)` lists, once
for all of them, what one step can do to one request: begin, end with an error, answer, or
one of the calls with the labels before and after it and the locals it leaves alone; lemma
`OneMoves` says that every step is one of these or moves no request.  Each invariant then
looks only at the moves that touch it.

* `PathInv`: a request stands only at labels of its own kind, holds keys or victims only
  where it uses them, and has a status only at its end.
* `AcknowledgedInv`: from the write on, and not only from the answer on, the row or submission
  is there or its deletion was asked for.  An id on record or gone stays so (`ErasureInv`).
* `SubmissionMailInv`: the second create of an applicant finds the first one's submission, or
  no applicant, and neither comes back to "not there yet", since ids are not used again.
* `DeletionMailInv`: whoever is past the transaction of `deleteApplicant` has its own record, and
  the e-mail carries the id, address and request of that record; with `OneDeletionRecord`, one e-mail.
* `LoginInv`: Auth0 issues no user id twice and a token outlives its user, so tokens say for good
  which e-mail a user id belongs to.  Then each id a deletion holds, found in a row, in a
  token or in a listing by e-mail, is of the e-mail it was asked to delete.
* `ObjectsInv`: whoever lists is past the row, which is gone for good, so no deletion that holds
  keys finds their applicant registered, except by the prefix (`KeysMatch`): hence `ResumesKept`.
  From its listing on, a deletion has on its list what is stored of its applicant, or that is in
  `missed` (`ObjectsGo`).  The listing establishes it because a page is filled in the order of the
  keys, the applicant's own first, and because the bucket is finite (`BucketFinite`, without which a
  set of `PageSize` keys inside the applicant's own need not be all of them); an upload after it
  is noted in `missed`; `DeleteObjects` empties the list and the bucket of the same keys, or fails.

**The refinement** `LifecycleCorrect` needs only `ErasureInv`.  `DatabaseSteps` lists the few calls
that write the tables of the applicants: an insert of an applicant is a `Register` of an id that
was ahead, since ids in use are at most `lastApplicantId`; the two deletions are an `Erase`,
since the row takes all that hangs on it; an insert of an upload, draft or submission is an
`Acquire`, since its applicant is there; the other writes, and all other steps, stutter.

**The cleanup** adds to the API only the beginning of forced deletions.  `CleanupSteps`: a step is one of
the API, one of the cleanup's own variables, or `StartBatch`; and `BatchStarts`: the last opens
slots that were idle (`SlotsOpen`) and does nothing else.  So each invariant of the API needs one
more lemma, that it survives `SlotsOpen`, and the refinement stutters there.  On top, `BatchesInv` says that outside the
current batch every deletion is idle or was answered 200 (a failed sibling that goes on is
still of the current batch, hence `AtMostOneBatch`), `UsersInv` that a forced deletion past
`deleteById` has taken its user for good, and `SparesInv` that whoever must be spared is not
on the list, that a forced deletion which found that e-mail is of that very id, and that whatever
deletes that id has found that e-mail.
Proving `SparesOthers` corrected its statement: it used to promise the object of every initial
upload, and only those in SUCCESS are in the bucket; the instance had no other.

**The pipeline.**  `SettledIsSent` says that a send that is over, in an invocation that has not
failed, was accepted by SES; it needs the receipt numbers, since a frozen send of the same
message must not be mistaken for the awaited one, and `OneBatch`, since another receipt
would change the number.  A step of the pipeline then maps to `Accept`, `Deliver`,
`Abandon` or a stutter.  `ReceiptsInv` counts: SES has at most `maxAttempts` copies for each
receipt whose send is over, a pending send is in one environment only, and only messages with receipts left are in the queue.

**The transactions.**  The names follow what is committed because of what a transaction has
*passed*: a name it skipped as a duplicate was committed, since an uncommitted one makes it wait
(`PassedIsThere`); what it holds nobody else holds (`HeldIsNew`), so a rollback takes nothing
anybody relies on; and names are never deleted.  `BatchInv` follows the row of a batch from
the list of what is to be written to the table.

**The suggestions.**  `SkillsGrouped` and `CausesGrouped` go through the SQL's cases (joined or not, each
column NULL or not) and show that the offered rows of the view are those of the names the editors
offer, with their labels; `Grouped` does the GROUP BY once for both.  `UpsertedIsThere` is the invariant
of the uploads: an item whose upsert is done is in the table, or another writer has overtaken that id.

### Only model-checked

`EverySubmissionAnswered` and the liveness half of `PromiseKept`: liveness under fairness is beyond
the prover.  What the three violation runs refute is no theorem.

## 5. Not modelled

* The shell: `app.ts` and `server.ts` wire components, the error handler turns exceptions into the
  statuses the models record, health, monitoring and logging only report.  None of them keeps
  state a request reads later, except the session store, which is modelled.
* Schemas, API description, e-mail texts: declarations.  What a schema admits is what the models
  let clients send.
* Terraform (but for the queue), workflows, seed data, migrations, Hightouch and Airtable exports:
  they run outside the handlers.
* In the database, UTM parameters and the columns of the forms: stored and exported, never read by
  a decision.

## 6. The plan

Done: the API's core, the abstract life of an applicant it implements, the mail pipeline, the
transactions, the suggestions, the cleanup; and a theorem for each safety invariant the
runs check, and for both refinements (the pipeline's in its safety part).  What is left:

1. That a submission's transaction is atomic to everybody else, as a refinement: what
   `SubmissionTransactions` does statement by statement is what `Applications` does in one step.
2. The state part of `EverySubmissionAnswered`: a waiting transaction waits for one that is open.
