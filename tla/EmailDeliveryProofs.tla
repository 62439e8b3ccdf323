------------------------ MODULE EmailDeliveryProofs ------------------------
(***************************************************************************)
(* The mail pipeline loses nothing, with any number of messages and        *)
(* invocations, any batch size, redrive limit and number of attempts.      *)
(***************************************************************************)
EXTENDS EmailDelivery, FiniteSetTheorems, TLAPS

\* As much of the types as the argument needs.
Shape == /\ sent \in [Messages -> Nat]
         /\ batch \in [Lambdas -> SUBSET Messages]
         /\ receives \in [Messages -> Nat]
         /\ sending \in [Lambdas -> SUBSET (Messages \X Nat)]
         /\ failed \in [Lambdas -> BOOLEAN]
         /\ enqueued \subseteq Messages
         /\ queue \subseteq enqueued
         /\ \A l \in Lambdas : batch[l] \subseteq enqueued
         /\ \A l \in Lambdas : \A s \in sending[l] : s[1] \in enqueued

\* Unless its invocation has failed, what is no longer being sent has been sent.
SettledIsSent ==
  \A l \in Lambdas : \A m \in batch[l] :
    <<m, receives[m]>> \in sending[l] \/ failed[l] \/ sent[m] > 0

\* A message is with one invocation at most, so that its next receipt disturbs no
\* other: what is in the queue is with none.
OneBatch ==
  /\ \A l \in Lambdas : batch[l] \cap queue = {}
  /\ \A k, l \in Lambdas : k # l => batch[k] \cap batch[l] = {}

LossInv == Shape /\ OneBatch /\ SettledIsSent /\ NothingLost

\* An empty pipeline has lost nothing.
LEMMA LossInit == Init => LossInv
BY DEF Init, LossInv, Shape, OneBatch, SettledIsSent, NothingLost

\* A message that has been sent stays sent.
LEMMA SentGrows ==
  ASSUME sent \in [Messages -> Nat], NEW m \in Messages, NEW copies \in Nat,
         sent' = [sent EXCEPT ![m] = @ + copies]
  PROVE  /\ sent' \in [Messages -> Nat] /\ copies > 0 => sent'[m] > 0
         /\ \A k \in Messages : sent[k] > 0 => sent'[k] > 0
OBVIOUS

\* No step of the queue or of an invocation loses a message.
LEMMA LossStep == LossInv /\ [Next]_vars => LossInv'
<1> SUFFICES ASSUME LossInv, [Next]_vars PROVE LossInv'
  OBVIOUS
<1> USE DEF LossInv
<1>1. CASE UNCHANGED vars
  BY <1>1 DEF vars, Shape, OneBatch, SettledIsSent, NothingLost
<1>2. ASSUME NEW m \in Messages, Enqueue(m) PROVE LossInv'
  <2>1. Shape'
    BY <1>2 DEF Enqueue, Shape
  <2>2. OneBatch'
    BY <1>2 DEF Enqueue, Shape, OneBatch
  <2>3. SettledIsSent'
    BY <1>2 DEF Enqueue, Shape, OneBatch, SettledIsSent
  <2>4. NothingLost'
    BY <1>2 DEF Enqueue, Shape, NothingLost
  <2>5. QED
    BY <2>1, <2>2, <2>3, <2>4
<1>3. ASSUME NEW l \in Lambdas, NEW B \in SUBSET queue, Receive(l, B) PROVE LossInv'
  <2>1. Shape'
    BY <1>3 DEF Receive, Shape
  <2>2. OneBatch'
    BY <1>3 DEF Receive, Shape, OneBatch
  <2>3. SettledIsSent'
    BY <1>3 DEF Receive, Shape, OneBatch, SettledIsSent
  <2>4. NothingLost'
    BY <1>3 DEF Receive, Shape, NothingLost
  <2>5. QED
    BY <2>1, <2>2, <2>3, <2>4
<1>4. ASSUME NEW l \in Lambdas, NEW m \in Messages, NEW n \in 1..maxReceiveCount, Send(l, m, n) PROVE LossInv'
  <2>0. PICK copies \in 1..maxAttempts : sent' = [sent EXCEPT ![m] = @ + copies]
    BY <1>4 DEF Send
  <2>a. copies \in Nat /\ copies > 0
    BY LimitAssumption
  <2>c. sent \in [Messages -> Nat]
    BY DEF Shape
  <2>b. /\ sent' \in [Messages -> Nat] /\ sent'[m] > 0
        /\ \A k \in Messages : sent[k] > 0 => sent'[k] > 0
    BY <2>0, <2>a, <2>c, SentGrows
  <2>1. Shape'
    BY <1>4, <2>b DEF Send, Shape
  <2>2. OneBatch'
    BY <1>4 DEF Send, Shape, OneBatch
  <2>3. SettledIsSent'
    BY <1>4, <2>b DEF Send, Shape, OneBatch, SettledIsSent
  <2>4. NothingLost'
    BY <1>4, <2>b DEF Send, Shape, NothingLost
  <2>5. QED
    BY <2>1, <2>2, <2>3, <2>4
<1>5. ASSUME NEW l \in Lambdas, NEW m \in Messages, NEW n \in 1..maxReceiveCount, SendFails(l, m, n) PROVE LossInv'
  <2>0. PICK copies \in 0..maxAttempts : sent' = [sent EXCEPT ![m] = @ + copies]
    BY <1>5 DEF SendFails
  <2>a. copies \in Nat
    BY LimitAssumption
  <2>c. sent \in [Messages -> Nat]
    BY DEF Shape
  <2>b. sent' \in [Messages -> Nat] /\ \A k \in Messages : sent[k] > 0 => sent'[k] > 0
    BY <2>0, <2>a, <2>c, SentGrows
  <2>1. Shape'
    BY <1>5, <2>b DEF SendFails, Shape
  <2>2. OneBatch'
    BY <1>5 DEF SendFails, Shape, OneBatch
  <2>3. SettledIsSent'
    <3>1. /\ receives' = receives /\ batch' = batch
          /\ sending' = [sending EXCEPT ![l] = @ \ {<<m, n>>}]
          /\ failed' = [failed EXCEPT ![l] = @ \/ <<m, n>> \in Awaited(l)]
      BY <1>5 DEF SendFails
    <3>2. SUFFICES ASSUME NEW k \in Lambdas, NEW x \in batch[k]
                   PROVE  <<x, receives[x]>> \in sending'[k] \/ failed'[k] \/ sent'[x] > 0
      BY <3>1 DEF SettledIsSent
    <3>3. <<x, receives[x]>> \in sending[k] \/ failed[k] \/ sent[x] > 0
      BY DEF SettledIsSent
    <3>4. CASE k = l /\ x = m /\ receives[x] = n
      <4>1. <<m, n>> \in Awaited(l)
        BY <3>4 DEF Awaited
      <4>2. QED
        BY <3>1, <3>4, <4>1 DEF Shape
    <3>5. CASE ~(k = l /\ x = m /\ receives[x] = n)
      BY <2>b, <3>1, <3>3, <3>5 DEF Shape
    <3>6. QED
      BY <3>4, <3>5
  <2>4. NothingLost'
    BY <1>5, <2>b DEF SendFails, Shape, NothingLost
  <2>5. QED
    BY <2>1, <2>2, <2>3, <2>4
<1>6. ASSUME NEW l \in Lambdas, Succeed(l) PROVE LossInv'
  <2>1. Shape'
    BY <1>6 DEF Succeed, Shape
  <2>2. OneBatch'
    BY <1>6 DEF Succeed, Shape, OneBatch
  <2>3. SettledIsSent'
    BY <1>6 DEF Succeed, Shape, OneBatch, SettledIsSent
  <2>a. \A m \in batch[l] : sent[m] > 0
    BY <1>6 DEF Succeed, SettledIsSent, Awaited
  <2>4. NothingLost'
    BY <1>6, <2>a DEF Succeed, Shape, NothingLost
  <2>5. QED
    BY <2>1, <2>2, <2>3, <2>4
<1>7. ASSUME NEW l \in Lambdas, Return(l) PROVE LossInv'
  <2>1. Shape'
    BY <1>7 DEF Return, Shape
  <2>2. OneBatch'
    BY <1>7 DEF Return, Shape, OneBatch
  <2>3. SettledIsSent'
    BY <1>7 DEF Return, Shape, OneBatch, SettledIsSent
  <2>4. NothingLost'
    BY <1>7 DEF Return, Shape, NothingLost
  <2>5. QED
    BY <2>1, <2>2, <2>3, <2>4
<1>8. QED
  BY <1>1, <1>2, <1>3, <1>4, <1>5, <1>6, <1>7 DEF Next, Invocation

\* No e-mail the queue has accepted is lost on its way to SES.
THEOREM NothingLostCorrect == Spec => []NothingLost
<1>1. LossInv => NothingLost
  BY DEF LossInv
<1>2. QED
  BY <1>1, LossInit, LossStep, PTL DEF Spec

-----------------------------------------------------------------------------
(* The promise, as far as it says what may happen *)

\* Every step of the pipeline is a step of AtLeastOnceMail or none.
LEMMA PromiseStep ==
  ASSUME LossInv, [Next]_vars
  PROVE  [Promise!Next]_(Promise!vars)
<1> USE DEF Promise!vars, Promise!Next, Promise!Accept, Promise!Deliver, Promise!Abandon
<1>1. CASE UNCHANGED vars
  BY <1>1 DEF vars
<1>2. ASSUME NEW m \in Messages, Enqueue(m) PROVE Promise!Accept(m)
  BY <1>2 DEF Enqueue
<1>3. ASSUME NEW l \in Lambdas, NEW m \in Messages, NEW n \in 1..maxReceiveCount,
             Send(l, m, n) \/ SendFails(l, m, n)
      PROVE  Promise!Deliver(m) \/ UNCHANGED Promise!vars
  <2>1. m \in enqueued /\ sent \in [Messages -> Nat]
    BY <1>3 DEF LossInv, Shape, Send, SendFails
  <2>2. PICK copies \in 0..maxAttempts : sent' = [sent EXCEPT ![m] = @ + copies]
    BY <1>3, LimitAssumption DEF Send, SendFails
  <2>3. enqueued' = enqueued /\ deadLetter' = deadLetter
    BY <1>3 DEF Send, SendFails
  <2>4. CASE copies = 0
    <3>1. sent' = sent
      BY <2>1, <2>2, <2>4
    <3>2. QED
      BY <2>3, <3>1
  <2>5. CASE copies # 0
    <3>1. copies \in Nat /\ copies > 0
      BY <2>5, LimitAssumption
    <3>2. {k \in Messages : sent'[k] > 0} = {k \in Messages : sent[k] > 0} \cup {m}
      BY <2>1, <2>2, <3>1
    <3>3. QED
      BY <2>1, <2>3, <3>2
  <2>6. QED
    BY <2>4, <2>5
<1>4. ASSUME NEW l \in Lambdas, Return(l)
      PROVE  \E M \in SUBSET enqueued : Promise!Abandon(M)
  <2>1. {m \in batch[l] : receives[m] = maxReceiveCount} \in SUBSET enqueued
    BY DEF LossInv, Shape
  <2>2. QED
    BY <1>4, <2>1 DEF Return
<1>5. ASSUME NEW l \in Lambdas, (\E B \in SUBSET queue : Receive(l, B)) \/ Succeed(l)
      PROVE  UNCHANGED Promise!vars
  BY <1>5 DEF Receive, Succeed
<1>6. QED
  BY <1>1, <1>2, <1>3, <1>4, <1>5 DEF Next, Invocation

\* The pipeline never does what AtLeastOnceMail does not allow: deliver or give up
\* an e-mail nobody enqueued, forget a delivery, or take an e-mail back.
THEOREM PromiseSafety == Spec => Promise!Init /\ [][Promise!Next]_(Promise!vars)
<1>1. Init => Promise!Init
  BY DEF Init, Promise!Init
<1>2. LossInv /\ [Next]_vars => [Promise!Next]_(Promise!vars)
  BY PromiseStep
<1>3. QED
  BY <1>1, <1>2, LossInit, LossStep, PTL DEF Spec

-----------------------------------------------------------------------------
(* Copies *)

\* The receipts of a message whose send no environment has settled.
Pending(m) == {p \in Lambdas \X (1..maxReceiveCount) : <<m, p[2]>> \in sending[p[1]]}

\* Every receipt is one call of the SES client, settled or pending, of so many
\* attempts at most.
Bounded(copies, pending, receipts) == copies + maxAttempts * pending <= maxAttempts * receipts

\* Only a message that may be received again is in the queue.
ReceiptsInv ==
  /\ receives \in [Messages -> 0..maxReceiveCount]
  /\ sending \in [Lambdas -> SUBSET Sends]
  /\ \A m \in queue : receives[m] < maxReceiveCount
  /\ \A m \in Messages \ enqueued : receives[m] = 0
  /\ \A m \in Messages : IsFiniteSet(Pending(m))
                         /\ Bounded(sent[m], Cardinality(Pending(m)), receives[m])

\* Multiplication is monotonic: the product grows by the product of the difference.
LEMMA MoreAttempts ==
  ASSUME NEW x \in Nat, NEW y \in Nat, x <= y
  PROVE  maxAttempts * x <= maxAttempts * y /\ maxAttempts * x \in Nat
<1>1. maxAttempts \in Nat
  BY LimitAssumption
<1>2. PICK d \in Nat : y = x + d
  <2>1. y - x \in Nat /\ y = x + (y - x)
    OBVIOUS
  <2>2. QED
    BY <2>1
<1>3. maxAttempts * y = maxAttempts * x + maxAttempts * d
  BY <1>1, <1>2
<1>4. maxAttempts * d \in Nat /\ maxAttempts * x \in Nat /\ maxAttempts * y \in Nat
  BY <1>1
<1>5. QED
  BY <1>3, <1>4

\* A receipt pays for one more pending call, or for none; a pending call pays for
\* the copies it settles with; and calls given up pay for themselves.
LEMMA BoundKept ==
  ASSUME NEW c \in Nat, NEW p \in Nat, NEW r \in Nat, Bounded(c, p, r)
  PROVE  /\ Bounded(c, p, r + 1) /\ Bounded(c, p + 1, r + 1)
         /\ p > 0 => \A k \in 0..maxAttempts : Bounded(c + k, p - 1, r)
         /\ \A q \in Nat : q <= p => Bounded(c, q, r)
         /\ \A m \in Nat : r <= m => c <= m * maxAttempts
<1> DEFINE a == maxAttempts
<1>1. a \in Nat
  BY LimitAssumption
<1>2. /\ a * (p + 1) = a * p + a /\ a * (r + 1) = a * r + a
      /\ a * (p - 1) = a * p - a
      /\ a * p \in Nat /\ a * r \in Nat
  BY <1>1
<1> HIDE DEF a
<1>3. c + a * p <= a * r
  BY DEF Bounded, a
<1>4. c + a * p <= a * r + a /\ c + (a * p + a) <= a * r + a
  BY <1>1, <1>2, <1>3
<1>5. Bounded(c, p, r + 1) /\ Bounded(c, p + 1, r + 1)
  BY <1>2, <1>4 DEF Bounded, a
<1>6. ASSUME NEW k \in 0..maxAttempts PROVE Bounded(c + k, p - 1, r)
  <2>1. k \in Nat /\ k <= a
    BY <1>1 DEF a
  <2>2. (c + k) + (a * p - a) <= a * r
    BY <1>1, <1>2, <1>3, <2>1
  <2>3. QED
    BY <1>2, <2>2 DEF Bounded, a
<1>7. ASSUME NEW q \in Nat, q <= p PROVE Bounded(c, q, r)
  <2>1. a * q <= a * p /\ a * q \in Nat
    BY <1>7, MoreAttempts DEF a
  <2>2. c + a * q <= a * r
    BY <1>2, <1>3, <2>1
  <2>3. QED
    BY <2>2 DEF Bounded, a
<1>8. ASSUME NEW m \in Nat, r <= m PROVE c <= m * maxAttempts
  <2>1. a * r <= a * m /\ a * m \in Nat
    <3>1. a * r <= a * m
      BY <1>8, MoreAttempts DEF a
    <3>2. a * m \in Nat
      BY <1>1
    <3>3. QED
      BY <3>1, <3>2
  <2>2. c <= a * m
    BY <1>2, <1>3, <2>1
  <2>3. a * m = m * a
    BY <1>1
  <2>4. QED
    BY <2>2, <2>3 DEF a
<1>9. QED
  BY <1>5, <1>6, <1>7, <1>8

\* Dropping pending sends keeps the count.
LEMMA FewerPending ==
  ASSUME NEW m \in Messages, IsFiniteSet(Pending(m)), Pending(m)' \subseteq Pending(m)
  PROVE  /\ IsFiniteSet(Pending(m)') /\ Cardinality(Pending(m)') <= Cardinality(Pending(m))
         /\ Cardinality(Pending(m)) \in Nat /\ Cardinality(Pending(m)') \in Nat
<1>1. IsFiniteSet(Pending(m)') /\ Cardinality(Pending(m)') <= Cardinality(Pending(m))
  BY FS_Subset
<1>2. QED
  BY <1>1, FS_CardinalityType

\* Nothing is received, and nothing pending.
LEMMA ReceiptsInit == Init => ReceiptsInv
<1> SUFFICES ASSUME Init PROVE ReceiptsInv
  OBVIOUS
<1>1. \A m \in Messages : Pending(m) = {}
  BY DEF Init, Pending
<1>2. ASSUME NEW m \in Messages
      PROVE  IsFiniteSet(Pending(m)) /\ Bounded(sent[m], Cardinality(Pending(m)), receives[m])
  <2>1. IsFiniteSet(Pending(m)) /\ Cardinality(Pending(m)) = 0 /\ sent[m] = 0 /\ receives[m] = 0
    BY <1>1, FS_EmptySet DEF Init
  <2>2. 0 + maxAttempts * 0 <= maxAttempts * 0
    BY LimitAssumption
  <2>3. QED
    BY <2>1, <2>2 DEF Bounded
<1>3. QED
  BY <1>2, LimitAssumption DEF Init, ReceiptsInv

\* A receipt adds one delivery and one pending send to each message of its batch.
LEMMA ReceiveReceipts ==
  ASSUME LossInv, ReceiptsInv, NEW l \in Lambdas, NEW B \in SUBSET queue, Receive(l, B)
  PROVE  ReceiptsInv'
<1>1. /\ queue' = queue \ B /\ sent' = sent /\ enqueued' = enqueued
      /\ receives' = [m \in Messages |-> IF m \in B THEN receives[m] + 1 ELSE receives[m]]
      /\ sending' = [sending EXCEPT ![l] = @ \cup {<<m, receives[m] + 1>> : m \in B}]
  BY DEF Receive
<1>2. /\ receives \in [Messages -> 0..maxReceiveCount] /\ sending \in [Lambdas -> SUBSET Sends]
      /\ \A m \in B : receives[m] + 1 \in 1..maxReceiveCount
      /\ sent \in [Messages -> Nat] /\ queue \subseteq enqueued /\ enqueued \subseteq Messages
      /\ maxReceiveCount \in Nat
  BY <1>1, LimitAssumption DEF ReceiptsInv, LossInv, Shape
<1>3. receives' \in [Messages -> 0..maxReceiveCount]
  BY <1>1, <1>2
<1>4. sending' \in [Lambdas -> SUBSET Sends]
  BY <1>1, <1>2 DEF Sends
<1>5. ASSUME NEW m \in B
      PROVE  Pending(m)' = Pending(m) \cup {<<l, receives[m] + 1>>}
  BY <1>1, <1>2 DEF Pending
<1>6. ASSUME NEW m \in Messages \ B
      PROVE  Pending(m)' = Pending(m)
  BY <1>1, <1>2 DEF Pending
<1>7. ASSUME NEW m \in Messages
      PROVE  IsFiniteSet(Pending(m)') /\ Bounded(sent'[m], Cardinality(Pending(m)'), receives'[m])
  <2>1. /\ IsFiniteSet(Pending(m)) /\ Bounded(sent[m], Cardinality(Pending(m)), receives[m])
        /\ Cardinality(Pending(m)) \in Nat /\ sent[m] \in Nat /\ receives[m] \in Nat
    BY <1>2, FS_CardinalityType DEF ReceiptsInv
  <2>2. CASE m \in B
    <3>1. /\ IsFiniteSet(Pending(m)')
          /\ Cardinality(Pending(m)') \in {Cardinality(Pending(m)), Cardinality(Pending(m)) + 1}
      <4> DEFINE P == Pending(m)
                 p == <<l, receives[m] + 1>>
      <4>1. IsFiniteSet(P)
        BY <2>1
      <4> HIDE DEF P, p
      <4>2. IsFiniteSet(P \cup {p})
            /\ Cardinality(P \cup {p}) = IF p \in P THEN Cardinality(P) ELSE Cardinality(P) + 1
        BY <4>1, FS_AddElement
      <4>3. Pending(m)' = P \cup {p}
        BY <1>5, <2>2 DEF P, p
      <4>4. IsFiniteSet(Pending(m)')
            /\ Cardinality(Pending(m)') \in {Cardinality(P), Cardinality(P) + 1}
        BY <4>2, <4>3
      <4>5. QED
        BY <4>4 DEF P
    <3>2. receives'[m] = receives[m] + 1 /\ sent'[m] = sent[m]
      BY <1>1, <2>2
    <3>3. /\ Bounded(sent[m], Cardinality(Pending(m)), receives[m] + 1)
          /\ Bounded(sent[m], Cardinality(Pending(m)) + 1, receives[m] + 1)
      BY <2>1, BoundKept
    <3>4. QED
      BY <3>1, <3>2, <3>3
  <2>3. CASE m \notin B
    BY <1>1, <1>6, <2>1, <2>3
  <2>4. QED
    BY <2>2, <2>3
<1>8. \A m \in queue' : receives'[m] < maxReceiveCount
  BY <1>1, <1>2 DEF ReceiptsInv, LossInv, Shape
<1>9. \A m \in Messages \ enqueued' : receives'[m] = 0
  BY <1>1, <1>2 DEF ReceiptsInv
<1>10. QED
  BY <1>3, <1>4, <1>7, <1>8, <1>9 DEF ReceiptsInv

\* A call is no longer pending once it has settled, with whatever copies.
LEMMA SettleReceipts ==
  ASSUME LossInv, ReceiptsInv, NEW l \in Lambdas, NEW m \in Messages,
         NEW n \in 1..maxReceiveCount, NEW copies \in 0..maxAttempts,
         <<m, n>> \in sending[l], sent' = [sent EXCEPT ![m] = @ + copies],
         sending' = [sending EXCEPT ![l] = @ \ {<<m, n>>}],
         receives' = receives, queue' = queue, enqueued' = enqueued
  PROVE  ReceiptsInv'
<1>2. sending \in [Lambdas -> SUBSET Sends] /\ sent \in [Messages -> Nat]
      /\ receives \in [Messages -> Nat]
  BY DEF ReceiptsInv, LossInv, Shape
<1>3. Pending(m)' = Pending(m) \ {<<l, n>>} /\ <<l, n>> \in Pending(m)
  BY <1>2 DEF Pending
<1>4. \A k \in Messages \ {m} : Pending(k)' = Pending(k) /\ sent'[k] = sent[k]
  BY <1>2 DEF Pending
<1>5. /\ IsFiniteSet(Pending(m)') /\ Cardinality(Pending(m)') = Cardinality(Pending(m)) - 1
      /\ Cardinality(Pending(m)) \in Nat /\ Cardinality(Pending(m)) > 0
  <2> DEFINE P == Pending(m)
             p == <<l, n>>
  <2>1. IsFiniteSet(P) /\ p \in P /\ Pending(m)' = P \ {p}
    BY <1>3 DEF ReceiptsInv
  <2> HIDE DEF P, p
  <2>2. IsFiniteSet(P \ {p}) /\ Cardinality(P \ {p}) = Cardinality(P) - 1
    BY <2>1, FS_RemoveElement
  <2>3. Cardinality(P) \in Nat /\ Cardinality(P \ {p}) \in Nat
    BY <2>1, <2>2, FS_CardinalityType
  <2>4. QED
    BY <2>1, <2>2, <2>3 DEF P
<1>6. Bounded(sent'[m], Cardinality(Pending(m)'), receives'[m])
  <2>1. Bounded(sent[m], Cardinality(Pending(m)), receives[m])
    BY DEF ReceiptsInv
  <2>2. Bounded(sent[m] + copies, Cardinality(Pending(m)) - 1, receives[m])
    BY <1>2, <1>5, <2>1, BoundKept
  <2>3. sent'[m] = sent[m] + copies
    BY <1>2
  <2>4. QED
    BY <1>5, <2>2, <2>3
<1>7. sending' \in [Lambdas -> SUBSET Sends]
  BY <1>2
<1>8. QED
  BY <1>2, <1>4, <1>5, <1>6, <1>7 DEF ReceiptsInv

\* Steps that neither receive nor settle a call.
LEMMA OtherReceipts ==
  ASSUME LossInv, ReceiptsInv, receives' = receives, sent' = sent,
         enqueued \subseteq enqueued',
         \A m \in queue' : m \in Messages /\ receives[m] # maxReceiveCount,
         sending' \in [Lambdas -> SUBSET Sends],
         \A l \in Lambdas : sending'[l] \subseteq sending[l]
  PROVE  ReceiptsInv'
<1>1. \A m \in Messages : Pending(m)' \subseteq Pending(m)
  BY DEF Pending
<1>2. ASSUME NEW m \in Messages
      PROVE  IsFiniteSet(Pending(m)') /\ Bounded(sent'[m], Cardinality(Pending(m)'), receives'[m])
  <2>1. /\ sent[m] \in Nat /\ receives[m] \in Nat
        /\ IsFiniteSet(Pending(m)) /\ Bounded(sent[m], Cardinality(Pending(m)), receives[m])
    BY DEF ReceiptsInv, LossInv, Shape
  <2>2. /\ IsFiniteSet(Pending(m)') /\ Cardinality(Pending(m)') <= Cardinality(Pending(m))
        /\ Cardinality(Pending(m)) \in Nat /\ Cardinality(Pending(m)') \in Nat
    BY <1>1, <2>1, FewerPending
  <2>3. Bounded(sent[m], Cardinality(Pending(m)'), receives[m])
    BY <2>1, <2>2, BoundKept
  <2>4. QED
    BY <2>2, <2>3
<1>3. \A m \in queue' : receives'[m] < maxReceiveCount
  BY LimitAssumption DEF ReceiptsInv
<1>4. QED
  BY <1>2, <1>3 DEF ReceiptsInv

\* What the calls made and pending may hand over never exceeds the receipts' share.
LEMMA ReceiptsStep == LossInv /\ ReceiptsInv /\ [Next]_vars => ReceiptsInv'
<1> SUFFICES ASSUME LossInv, ReceiptsInv, [Next]_vars PROVE ReceiptsInv'
  OBVIOUS
<1>1. \A m \in queue : m \in Messages /\ receives[m] # maxReceiveCount
  BY LimitAssumption DEF ReceiptsInv, LossInv, Shape
<1>2. CASE UNCHANGED vars
  BY <1>1, <1>2, OtherReceipts DEF vars, ReceiptsInv
<1>3. ASSUME NEW m \in Messages, Enqueue(m) PROVE ReceiptsInv'
  <2>1. receives[m] = 0
    BY <1>3 DEF ReceiptsInv, Enqueue
  <2>2. QED
    BY <1>1, <1>3, <2>1, LimitAssumption, OtherReceipts DEF ReceiptsInv, Enqueue
<1>4. ASSUME NEW l \in Lambdas, NEW m \in Messages, NEW n \in 1..maxReceiveCount,
             Send(l, m, n) \/ SendFails(l, m, n)
      PROVE  ReceiptsInv'
  <2>1. PICK copies \in 0..maxAttempts : sent' = [sent EXCEPT ![m] = @ + copies]
    BY <1>4, LimitAssumption DEF Send, SendFails
  <2>2. /\ <<m, n>> \in sending[l] /\ sending' = [sending EXCEPT ![l] = @ \ {<<m, n>>}]
        /\ receives' = receives /\ queue' = queue /\ enqueued' = enqueued
    BY <1>4 DEF Send, SendFails
  <2>3. QED
    BY <2>1, <2>2, SettleReceipts
<1>5. ASSUME NEW l \in Lambdas, Succeed(l) PROVE ReceiptsInv'
  BY <1>1, <1>5, OtherReceipts DEF ReceiptsInv, Succeed
<1>6. ASSUME NEW l \in Lambdas, Return(l) PROVE ReceiptsInv'
  <2>1. \A m \in queue' : m \in Messages /\ receives[m] # maxReceiveCount
    BY <1>1, <1>6 DEF Return, LossInv, Shape
  <2>2. QED
    BY <1>6, <2>1, OtherReceipts DEF ReceiptsInv, Return
<1>7. QED
  BY <1>2, <1>3, <1>4, <1>5, <1>6, ReceiveReceipts DEF Next, Invocation

-----------------------------------------------------------------------------
(* Types *)

\* Type correctness: no message is received more often than the redrive policy
\* allows, SES gets as many copies at most as the attempts of so many calls, frozen
\* ones included, and nothing is in flight that was not accepted.
THEOREM TypeCorrect == Spec => []TypeOK
<1> DEFINE DeadInv == deadLetter \subseteq enqueued
<1>1. LossInv /\ ReceiptsInv /\ DeadInv => TypeOK
  <2> SUFFICES ASSUME LossInv, ReceiptsInv, DeadInv PROVE TypeOK
    OBVIOUS
  <2>1. ASSUME NEW m \in Messages PROVE sent[m] \in 0..(maxReceiveCount * maxAttempts)
    <3>1. /\ IsFiniteSet(Pending(m)) /\ Bounded(sent[m], Cardinality(Pending(m)), receives[m])
          /\ sent[m] \in Nat /\ receives[m] \in 0..maxReceiveCount
      BY DEF ReceiptsInv, LossInv, Shape
    <3>2. /\ Cardinality(Pending(m)) \in Nat
          /\ receives[m] \in Nat /\ maxReceiveCount \in Nat /\ receives[m] <= maxReceiveCount
      BY <3>1, FS_CardinalityType, LimitAssumption
    <3>3. sent[m] <= maxReceiveCount * maxAttempts
      BY <3>1, <3>2, BoundKept
    <3>4. maxReceiveCount * maxAttempts \in Nat
      BY LimitAssumption
    <3>5. QED
      BY <3>1, <3>3, <3>4
  <2>2. sent \in [Messages -> 0..(maxReceiveCount * maxAttempts)]
    BY <2>1 DEF LossInv, Shape
  <2>3. batch \in [Lambdas -> SUBSET enqueued]
    BY DEF LossInv, Shape
  <2>4. QED
    BY <2>2, <2>3 DEF TypeOK, ReceiptsInv, LossInv, Shape
<1>2. Init => DeadInv
  BY DEF Init
<1>3. LossInv /\ DeadInv /\ [Next]_vars => DeadInv'
  BY DEF LossInv, Shape, Next, vars, Invocation, Enqueue, Receive, Send, SendFails, Succeed, Return
<1>4. QED
  <2> HIDE DEF DeadInv
  <2>1. QED
    BY <1>1, <1>2, <1>3, LossInit, LossStep, ReceiptsInit, ReceiptsStep, PTL DEF Spec
=============================================================================
