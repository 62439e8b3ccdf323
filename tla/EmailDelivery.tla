--------------------------- MODULE EmailDelivery ---------------------------
(***************************************************************************)
(* The way of an e-mail from enqueueEmail to SES: the SQS queue with its   *)
(* redrive policy and the email-sender lambda, which sends the e-mails of  *)
(* a batch concurrently under one Promise.all.  One failure fails the      *)
(* whole batch: its other e-mails, sent or not, are received again, while  *)
(* the sends still pending are frozen with their execution environment and *)
(* go on when it is invoked next.  A send is a call of the SES client,     *)
(* which tries again by itself before it gives up.  Before the queue comes *)
(* sendEmail, which outside production takes whitelisted recipients only.  *)
(***************************************************************************)
EXTENDS Naturals, FiniteSets

CONSTANTS
  Messages,         \* e-mails
  Addresses,        \* e-mail addresses
  To,               \* the recipient each e-mail was generated for
  Mailbox,          \* removeAliasLowercaseEmail: no "+alias", lower case
  whiteList,        \* AWS_SES_WHITELIST
  env,              \* APP_ENV
  Lambdas,          \* execution environments of the lambda: one invocation each
  BatchSize,        \* records the event source mapping hands to one invocation
  maxReceiveCount,  \* of the redrive policy
  maxAttempts       \* of the SES client's default retry strategy: 3

ASSUME LimitAssumption == /\ BatchSize \in Nat \ {0}
                          /\ maxReceiveCount \in Nat \ {0}
                          /\ maxAttempts \in Nat \ {0}

ASSUME AddressAssumption == /\ To \in [Messages -> Addresses]
                            /\ Mailbox \in [Addresses -> Addresses]
                            /\ whiteList \subseteq Addresses

VARIABLES
  enqueued,    \* every message SQS has accepted from the API
  queue,       \* the messages a poll can receive
  deadLetter,  \* the dead-letter queue
  receives,    \* how often each message was received
  batch,       \* the records of each environment's invocation
  sending,     \* its sendEmail calls not settled yet, of this batch or an earlier
  failed,      \* has one of this batch been rejected?
  sent         \* how often SES has accepted each message

\* A call of sendEmail, named by its message and the receipt that started it.
Sends == Messages \X (1..maxReceiveCount)

vars == <<enqueued, queue, deadLetter, receives, batch, sending, failed, sent>>

TypeOK ==
  /\ enqueued \subseteq Messages
  /\ queue \subseteq enqueued
  /\ deadLetter \subseteq enqueued
  /\ receives \in [Messages -> 0..maxReceiveCount]
  /\ batch \in [Lambdas -> SUBSET enqueued]
  /\ sending \in [Lambdas -> SUBSET Sends]
  /\ failed \in [Lambdas -> BOOLEAN]
  /\ sent \in [Messages -> 0..(maxReceiveCount * maxAttempts)]

Init ==
  /\ enqueued = {}
  /\ queue = {}
  /\ deadLetter = {}
  /\ receives = [m \in Messages |-> 0]
  /\ batch = [l \in Lambdas |-> {}]
  /\ sending = [l \in Lambdas |-> {}]
  /\ failed = [l \in Lambdas |-> FALSE]
  /\ sent = [m \in Messages |-> 0]

useEmailWhiteList == env # "prod"

Listed(a) == useEmailWhiteList => Mailbox[a] \in whiteList

\* sendEmail and enqueueEmail: every generated e-mail has one recipient, and goes
\* to the queue unless the whitelist drops it.
Enqueue(m) ==
  /\ m \notin enqueued
  /\ Listed(To[m])
  /\ enqueued' = enqueued \cup {m}
  /\ queue' = queue \cup {m}
  /\ UNCHANGED <<deadLetter, receives, batch, sending, failed, sent>>

\* The event source mapping (external) invokes the lambda with a batch.
Receive(l, B) ==
  /\ batch[l] = {}
  /\ B # {} /\ Cardinality(B) <= BatchSize
  /\ queue' = queue \ B
  /\ receives' = [m \in Messages |-> IF m \in B THEN receives[m] + 1 ELSE receives[m]]
  /\ batch' = [batch EXCEPT ![l] = B]
  /\ sending' = [sending EXCEPT ![l] = @ \cup {<<m, receives[m] + 1>> : m \in B}]
  /\ UNCHANGED <<enqueued, deadLetter, failed, sent>>

\* The sends the handler's Promise.all waits for.
Awaited(l) == {<<m, receives[m]>> : m \in batch[l]}

\* processMessage: SES accepts, perhaps more than one copy, when the client tried
\* again because an answer was lost.  A send a rejected sibling left pending settles
\* all the same, but only while its environment runs.
Send(l, m, n) ==
  /\ batch[l] # {}
  /\ <<m, n>> \in sending[l]
  /\ \E copies \in 1..maxAttempts : sent' = [sent EXCEPT ![m] = @ + copies]
  /\ sending' = [sending EXCEPT ![l] = @ \ {<<m, n>>}]
  /\ UNCHANGED <<enqueued, queue, deadLetter, receives, batch, failed>>

\* Faulty variant: the error is logged and not thrown again.
SendFailsSilently(l, m, n) ==
  /\ batch[l] # {}
  /\ <<m, n>> \in sending[l]
  /\ sending' = [sending EXCEPT ![l] = @ \ {<<m, n>>}]
  /\ UNCHANGED <<enqueued, queue, deadLetter, receives, batch, failed, sent>>

\* SES refuses, or none of its answers arrives, or the body does not parse: logged
\* and thrown on to Promise.all, if that still waits for it.
SendFails(l, m, n) ==
  /\ batch[l] # {}
  /\ <<m, n>> \in sending[l]
  /\ sending' = [sending EXCEPT ![l] = @ \ {<<m, n>>}]
  /\ failed' = [failed EXCEPT ![l] = @ \/ <<m, n>> \in Awaited(l)]
  /\ \E copies \in 0..maxAttempts : sent' = [sent EXCEPT ![m] = @ + copies]
  /\ UNCHANGED <<enqueued, queue, deadLetter, receives, batch>>

\* Faulty variant: the handler does not await the sends.
SucceedAtOnce(l) ==
  /\ batch[l] # {} /\ ~failed[l]
  /\ batch' = [batch EXCEPT ![l] = {}]
  /\ UNCHANGED <<enqueued, queue, deadLetter, receives, sending, failed, sent>>

\* The handler resolves: the batch is deleted from the queue.
Succeed(l) ==
  /\ batch[l] # {} /\ sending[l] \cap Awaited(l) = {} /\ ~failed[l]
  /\ batch' = [batch EXCEPT ![l] = {}]
  /\ UNCHANGED <<enqueued, queue, deadLetter, receives, sending, failed, sent>>

\* Faulty variant: no redrive policy; SQS goes on counting, and delivering.
ReturnForEver(l) ==
  /\ batch[l] # {}
  /\ queue' = queue \cup batch[l]
  /\ batch' = [batch EXCEPT ![l] = {}]
  /\ failed' = [failed EXCEPT ![l] = FALSE]
  /\ \/ failed[l] /\ UNCHANGED sending
     \/ sending' = [sending EXCEPT ![l] = {}]
  /\ UNCHANGED <<enqueued, deadLetter, receives, sent>>

\* The handler rejects, which freezes its pending sends, or the invocation times
\* out or crashes, which ends them: after the visibility timeout the batch is
\* back, less what was received too often.
Return(l) ==
  LET exhausted == {m \in batch[l] : receives[m] = maxReceiveCount}
  IN  /\ batch[l] # {}
      /\ queue' = queue \cup (batch[l] \ exhausted)
      /\ deadLetter' = deadLetter \cup exhausted
      /\ batch' = [batch EXCEPT ![l] = {}]
      /\ failed' = [failed EXCEPT ![l] = FALSE]
      /\ \/ failed[l] /\ UNCHANGED sending
         \/ sending' = [sending EXCEPT ![l] = {}]
      /\ UNCHANGED <<enqueued, receives, sent>>

Invocation(l) ==
  \/ \E m \in Messages, n \in 1..maxReceiveCount : Send(l, m, n)
  \/ \E m \in Messages, n \in 1..maxReceiveCount : SendFails(l, m, n)
  \/ Succeed(l)
  \/ Return(l)

Next ==
  \/ \E m \in Messages : Enqueue(m)
  \/ \E l \in Lambdas, B \in SUBSET queue : Receive(l, B)
  \/ \E l \in Lambdas : Invocation(l)

\* The event source mapping keeps polling, and an invocation ends: by its own
\* return or by the lambda's timeout.
Fairness ==
  /\ WF_vars(\E l \in Lambdas, B \in SUBSET queue : Receive(l, B))
  /\ \A l \in Lambdas : WF_vars(Invocation(l))

Spec == Init /\ [][Next]_vars /\ Fairness

-----------------------------------------------------------------------------
\* No e-mail the queue has accepted gets lost: it can be received, is being
\* processed, was handed to SES or is in the dead-letter queue.
NothingLost ==
  \A m \in enqueued : \/ m \in queue \cup deadLetter
                      \/ \E l \in Lambdas : m \in batch[l]
                      \/ sent[m] > 0

\* The pipeline keeps the promise of AtLeastOnceMail.
Promise == INSTANCE AtLeastOnceMail WITH
  accepted <- enqueued,
  delivered <- {m \in Messages : sent[m] > 0},
  abandoned <- deadLetter

\* Every accepted e-mail is handed to SES at least once or dead-lettered, however
\* often its batch fails because of another (the lambda's Promise.all, the
\* queue's maxReceiveCount).
PromiseKept == Promise!Spec
=============================================================================
