-------------------- MODULE SubmissionTransactionsProofs --------------------
(***************************************************************************)
(* What the transactions of submissions and batches leave in the tables,   *)
(* for any number of them, of any bodies, in any order of statements.      *)
(***************************************************************************)
EXTENDS SubmissionTransactions, TLAPS

Request == [op : SubmitOps \cup {None, "deleteBatch", "deleteTestOpportunities"},
            who : People \cup Requests \cup {None}, skills : Seq(Names), causes : Seq(Names),
            pc : {"idle", "running", "notify", "done", "failed"},
            todo : Seq(Row), mine : SUBSET Row]

IsName(k) == k.table \notin {"ApplicantSubmission", "OpportunityBatch"}

\* All rows of a request's body, and those it has not come to.
All(r) == {Writes(r, Body(r))[n] : n \in DOMAIN Writes(r, Body(r))}
Rest(r) == {req[r].todo[n] : n \in DOMAIN req[r].todo}

Shape == /\ rows \subseteq Row
         /\ req \in [Requests -> Request]
         /\ mail \subseteq Requests
         /\ \A r \in Requests : req[r].pc = "idle" => req[r] = Idle

\* What an open transaction holds and what it has yet to write are its own rows.
OpenIsOwn ==
  \A r \in Requests :
    /\ Running(r) => /\ Body(r) \in Bodies
                     /\ req[r].mine \subseteq All(r)
                     /\ Rest(r) \subseteq All(r)
    /\ ~Running(r) => req[r].todo = <<>> /\ req[r].mine = {}

\* A name that an open transaction has passed is committed, or its own.
PassedIsThere ==
  \A r \in Requests : Running(r) =>
    \A k \in All(r) : IsName(k) => k \in rows \cup req[r].mine \cup Rest(r)

\* What a transaction holds nobody else holds, and is new unless it is locked to be
\* updated.
HeldIsNew ==
  \A r \in Requests :
    /\ \A k \in req[r].mine : k \notin rows \/ k.table = "ApplicantSubmission"
    /\ \A q \in Requests \ {r} : req[q].mine \cap req[r].mine = {}

NamesInv == Shape /\ OpenIsOwn /\ PassedIsThere /\ HeldIsNew /\ NamesFollowSubmissions

-----------------------------------------------------------------------------
(* The rows of a body *)

\* The rows for a list of names, one each, in its order.
LEMMA InTableRows ==
  ASSUME NEW table \in Tables, NEW K \in SUBSET (Names \cup People \cup Requests),
         NEW names \in Seq(K)
  PROVE  /\ InTable(table, names) \in Seq(Row)
         /\ \A n \in DOMAIN InTable(table, names) : InTable(table, names)[n].table = table
         /\ Len(InTable(table, names)) = Len(names)
         /\ \A n \in 1..Len(names) : InTable(table, names)[n] = [table |-> table, key |-> names[n]]
<1> DEFINE row(n) == [table |-> table, key |-> names[n]]
           f == InTable(table, names)
<1>1. Len(names) \in Nat /\ DOMAIN names = 1..Len(names) /\ \A n \in 1..Len(names) : names[n] \in K
  OBVIOUS
<1>2. \A n \in 1..Len(names) : row(n) \in Row /\ row(n).table = table
  BY <1>1 DEF Row
<1>3. f = [n \in 1..Len(names) |-> row(n)]
  BY <1>1 DEF InTable
<1> HIDE DEF row, f
<1>4. f \in Seq(Row) /\ Len(f) = Len(names) /\ DOMAIN f = 1..Len(names)
  BY <1>1, <1>2, <1>3
<1>5. \A n \in 1..Len(names) : f[n] = row(n)
  BY <1>3
<1>6. QED
  BY <1>2, <1>4, <1>5 DEF f, row

\* A body writes its own row first, and after it names only.
LEMMA OwnRowFirst ==
  ASSUME NEW r \in Requests, NEW b \in Bodies
  PROVE  /\ Writes(r, b) \in Seq(Row)
         /\ Len(Writes(r, b)) > 0
         /\ ~IsName(Writes(r, b)[1])
         /\ b.op = "createBatch" => Writes(r, b)[1] = BatchRow(r)
         /\ \A n \in 2..Len(Writes(r, b)) : IsName(Writes(r, b)[n])
<1>1. /\ b.op \in SubmitOps /\ b.who \in People
      /\ b.skills \in Seq(Names) /\ b.causes \in Seq(Names)
  BY BodyAssumption
<1>2. ASSUME NEW own \in Row, ~IsName(own), NEW s \in Seq(Row), NEW t \in Seq(Row),
             \A n \in DOMAIN s : IsName(s[n]), \A n \in DOMAIN t : IsName(t[n])
      PROVE  LET w == <<own>> \o s \o t
             IN  /\ w \in Seq(Row) /\ Len(w) > 0 /\ w[1] = own
                 /\ \A n \in 2..Len(w) : IsName(w[n])
  <2> DEFINE w == <<own>> \o s \o t
  <2>1. w \in Seq(Row) /\ Len(w) = 1 + Len(s) + Len(t) /\ w[1] = own
    BY <1>2
  <2>2. ASSUME NEW n \in 2..Len(w) 
        PROVE  \/ n - 1 \in DOMAIN s /\ w[n] = s[n - 1]
               \/ n - 1 - Len(s) \in DOMAIN t /\ w[n] = t[n - 1 - Len(s)]
    <3>1. Len(s) \in Nat /\ Len(t) \in Nat /\ n \in Nat /\ n > 1
      BY <2>1
    <3>2. CASE n <= 1 + Len(s)
      BY <3>1, <3>2, <1>2
    <3>3. CASE n > 1 + Len(s)
      BY <3>1, <3>3, <2>1, <1>2
    <3>4. QED
      BY <3>1, <3>2, <3>3
  <2>3. QED
    BY <2>1, <2>2, <1>2
<1>3. ASSUME NEW table \in Tables, NEW names \in Seq(Names), table \notin {"ApplicantSubmission", "OpportunityBatch"}
      PROVE  InTable(table, names) \in Seq(Row)
             /\ \A n \in DOMAIN InTable(table, names) : IsName(InTable(table, names)[n])
  BY <1>3, InTableRows DEF IsName
<1>4. ASSUME NEW table \in Tables, NEW k \in People \cup Requests
      PROVE  InTable(table, <<k>>) = <<[table |-> table, key |-> k]>>
             /\ [table |-> table, key |-> k] \in Row
  BY DEF InTable, Row
<1>5. \A table \in {"ApplicantSkills", "ApplicantCauses", "OpportunitySkills", "OpportunityCauses"} :
        table \in Tables \ {"ApplicantSubmission", "OpportunityBatch"}
  BY DEF Tables
<1>6. CASE b.op = "createSubmission"
  <2> DEFINE own == [table |-> "ApplicantSubmission", key |-> b.who]
  <2>1. Writes(r, b) = <<own>> \o InTable("ApplicantSkills", b.skills)
                               \o InTable("ApplicantCauses", b.causes)
    BY <1>1, <1>4, <1>6 DEF Writes, Tables
  <2>2. own \in Row /\ ~IsName(own)
    BY <1>1, <1>4 DEF IsName, Tables
  <2> HIDE DEF own
  <2>3. QED
    BY <1>1, <1>2, <1>3, <1>5, <1>6, <2>1, <2>2
<1>7. CASE b.op = "updateSubmission"
  <2> DEFINE own == [table |-> "ApplicantSubmission", key |-> b.who]
  <2>1. Writes(r, b) = <<own>> \o InTable("ApplicantCauses", b.causes)
                               \o InTable("ApplicantSkills", b.skills)
    BY <1>1, <1>4, <1>7 DEF Writes, Tables
  <2>2. own \in Row /\ ~IsName(own)
    BY <1>1, <1>4 DEF IsName, Tables
  <2> HIDE DEF own
  <2>3. QED
    BY <1>1, <1>2, <1>3, <1>5, <1>7, <2>1, <2>2, SMTT(30)
<1>8. CASE b.op = "createBatch"
  <2>1. Writes(r, b) = <<BatchRow(r)>> \o InTable("OpportunitySkills", b.skills)
                                       \o InTable("OpportunityCauses", b.causes)
    BY <1>4, <1>8 DEF Writes, Tables, BatchRow
  <2>2. BatchRow(r) \in Row /\ ~IsName(BatchRow(r))
    BY <1>4 DEF IsName, Tables, BatchRow
  <2>3. QED
    BY <1>1, <1>2, <1>3, <1>5, <2>1, <2>2, SMTT(30)
<1>9. QED
  BY <1>1, <1>6, <1>7, <1>8 DEF SubmitOps

-----------------------------------------------------------------------------
(* What each step does to the requests *)

Others(r) == \A q \in Requests \ {r} : req'[q] = req[q]

SameBody(r) == /\ req'[r].op = req[r].op /\ req'[r].who = req[r].who
               /\ req'[r].skills = req[r].skills /\ req'[r].causes = req[r].causes

Closed(r) == req'[r].todo = <<>> /\ req'[r].mine = {}

\* The effect of a step on the requests, field by field.
Effect(r) == req' \in [Requests -> Request] /\ Others(r)

\* A step of one request moves nothing of another's transaction.
LEMMA OthersUnmoved ==
  ASSUME NEW r \in Requests, Others(r), NEW q \in Requests \ {r}
  PROVE  /\ Body(q)' = Body(q) /\ All(q)' = All(q) /\ Rest(q)' = Rest(q)
         /\ (Running(q)' <=> Running(q))
<1>1. req'[q] = req[q]
  BY DEF Others
<1>2. Body(q)' = Body(q) /\ Rest(q)' = Rest(q) /\ (Running(q)' <=> Running(q))
  BY <1>1 DEF Body, Rest, Running
<1>3. All(q)' = All(q)
  BY <1>2 DEF All, Writes
<1>4. QED
  BY <1>2, <1>3

\* A request that keeps its body keeps its rows.
LEMMA SameBodySameRows ==
  ASSUME NEW r \in Requests, SameBody(r)
  PROVE  Body(r)' = Body(r) /\ All(r)' = All(r)
<1>1. Body(r)' = Body(r)
  BY DEF SameBody, Body
<1>2. All(r)' = All(r)
  BY <1>1 DEF All, Writes
<1>3. QED
  BY <1>1, <1>2

\* A request begins with all its rows to write ...
LEMMA BeginEffect ==
  ASSUME Shape, NEW r \in Requests, NEW b \in Bodies, Begin(r, b)
  PROVE  /\ Effect(r)
         /\ req'[r].op = b.op /\ req'[r].who = b.who
         /\ req'[r].skills = b.skills /\ req'[r].causes = b.causes
         /\ req'[r].pc = "running" /\ req'[r].todo = Writes(r, b) /\ req'[r].mine = {}
<1> DEFINE q == [op |-> b.op, who |-> b.who, skills |-> b.skills, causes |-> b.causes,
                 pc |-> "running", todo |-> Writes(r, b), mine |-> {}]
<1>1. q \in Request
  BY OwnRowFirst, BodyAssumption DEF Request
<1>2. req' = [req EXCEPT ![r] = q]
  BY DEF Begin
<1>3. /\ q.op = b.op /\ q.who = b.who /\ q.skills = b.skills /\ q.causes = b.causes
      /\ q.pc = "running" /\ q.todo = Writes(r, b) /\ q.mine = {}
  OBVIOUS
<1> HIDE DEF q
<1>4. QED
  BY <1>1, <1>2, <1>3 DEF Shape, Effect, Others

\* ... writes the next, or skips it ...
LEMMA WriteEffect ==
  ASSUME Shape, NEW r \in Requests, Write(r)
  PROVE  /\ Effect(r) /\ SameBody(r) /\ req'[r].pc = req[r].pc
         /\ req'[r].todo = Tail(req[r].todo)
         /\ Next1(r) \in Row
         /\ Rest(r) = Rest(r)' \cup {Next1(r)}
         /\ req'[r].mine = IF Takes(r) THEN req[r].mine \cup {Next1(r)} ELSE req[r].mine
<1> DEFINE m == IF Takes(r) THEN req[r].mine \cup {Next1(r)} ELSE req[r].mine
<1>1. /\ req[r] \in Request /\ req \in [Requests -> Request]
      /\ req[r].todo \in Seq(Row) /\ req[r].todo # <<>>
  BY DEF Shape, Request, Write
<1>2. /\ Next1(r) \in Row /\ Tail(req[r].todo) \in Seq(Row)
      /\ Len(req[r].todo) \in Nat \ {0}
      /\ Len(Tail(req[r].todo)) = Len(req[r].todo) - 1
      /\ Next1(r) = req[r].todo[1]
      /\ \A n \in 1..(Len(req[r].todo) - 1) : Tail(req[r].todo)[n] = req[r].todo[n + 1]
  BY <1>1 DEF Next1
<1>3. m \in SUBSET Row
  BY <1>1, <1>2 DEF Request
<1>4. req' = [req EXCEPT ![r].todo = Tail(@), ![r].mine = m]
  BY DEF Write
<1> HIDE DEF m
<1>5. /\ req'[r].todo = Tail(req[r].todo) /\ req'[r].mine = m /\ req'[r].pc = req[r].pc
      /\ SameBody(r) /\ Others(r) /\ req' \in [Requests -> Request]
  BY <1>1, <1>2, <1>3, <1>4 DEF Request, SameBody, Others
<1>6. Rest(r) = Rest(r)' \cup {Next1(r)}
  <2> DEFINE t == req[r].todo
             u == Tail(req[r].todo)
  <2>1. Rest(r) = {t[n] : n \in DOMAIN t} /\ Rest(r)' = {u[n] : n \in DOMAIN u}
    BY <1>5 DEF Rest
  <2>2. DOMAIN t = 1..Len(t) /\ DOMAIN u = 1..(Len(t) - 1) /\ Len(t) \in Nat \ {0}
    BY <1>1, <1>2
  <2>3. t[1] = Next1(r) /\ \A n \in DOMAIN u : u[n] = t[n + 1]
    BY <1>2, <2>2
  <2> HIDE DEF t, u
  <2>4. \A n \in DOMAIN t : n = 1 \/ (n - 1 \in DOMAIN u /\ t[n] = u[n - 1])
    BY <2>2, <2>3
  <2>5. \A n \in DOMAIN u : n + 1 \in DOMAIN t
    BY <2>2
  <2>6. 1 \in DOMAIN t
    BY <2>2
  <2>7. QED
    BY <2>1, <2>3, <2>4, <2>5, <2>6
<1>7. QED
  BY <1>2, <1>5, <1>6 DEF Effect, m

\* ... and either fails and holds nothing ...
LEMMA FailsEffect ==
  ASSUME Shape, NEW r \in Requests, Fails(r)
  PROVE  Effect(r) /\ SameBody(r) /\ Closed(r) /\ req'[r].pc = "failed"
<1>1. req[r] \in Request /\ req \in [Requests -> Request]
  BY DEF Shape
<1>2. <<>> \in Seq(Row)
  OBVIOUS
<1>3. QED
  BY <1>1, <1>2 DEF Fails, Effect, Others, SameBody, Closed, Request

\* ... or commits; a batch then has a contact to welcome ...
LEMMA CommitEffect ==
  ASSUME Shape, NEW r \in Requests, Commit(r)
  PROVE  /\ Effect(r) /\ SameBody(r)
         /\ req'[r].mine = {} /\ req'[r].todo = req[r].todo
         /\ req'[r].pc = IF req[r].op = "createBatch" THEN "notify" ELSE "done"
<1> DEFINE p == IF req[r].op = "createBatch" THEN "notify" ELSE "done"
<1>1. /\ req[r] \in Request /\ req \in [Requests -> Request] /\ p \in {"notify", "done"}
      /\ req' = [req EXCEPT ![r].pc = p, ![r].mine = {}]
  BY DEF Shape, Commit
<1> HIDE DEF p
<1>2. Effect(r) /\ SameBody(r) /\ req'[r].mine = {} /\ req'[r].todo = req[r].todo /\ req'[r].pc = p
  BY <1>1 DEF Effect, Others, SameBody, Request
<1>3. QED
  BY <1>2 DEF p

\* ... which ends it.
LEMMA NotifyEffect ==
  ASSUME Shape, NEW r \in Requests, Notify(r)
  PROVE  /\ Effect(r) /\ SameBody(r)
         /\ req'[r].mine = req[r].mine /\ req'[r].todo = req[r].todo /\ req'[r].pc = "done"
<1>1. req[r] \in Request /\ req \in [Requests -> Request]
  BY DEF Shape
<1>2. QED
  BY <1>1 DEF Notify, Effect, Others, SameBody, Request

\* A deletion of batches is a request of its own, which takes no names.
LEMMA DeleteEffect ==
  ASSUME Shape, NEW r \in Requests,
         DeleteTestOpportunities(r) \/ \E b \in Requests : DeleteBatch(r, b)
  PROVE  /\ Effect(r) /\ Closed(r) /\ req[r] = Idle
         /\ req'[r].op \in {"deleteBatch", "deleteTestOpportunities"}
         /\ req'[r].pc \in {"done", "failed"}
         /\ rows' \subseteq rows
         /\ \A k \in rows : IsName(k) => k \in rows'
         /\ DeleteTestOpportunities(r) => req'[r].op = "deleteTestOpportunities"
         /\ \A b \in Requests : DeleteBatch(r, b) =>
               /\ req'[r].op = "deleteBatch" /\ req'[r].who = b
               /\ BatchRow(b) \in rows => req'[r].pc = "done"
<1>1. req[r] = Idle /\ req \in [Requests -> Request] /\ <<>> \in Seq(Row) /\ <<>> \in Seq(Names)
  <2>1. req[r].pc = "idle"
    BY DEF DeleteTestOpportunities, DeleteBatch
  <2>2. <<>> \in Seq(Row) /\ <<>> \in Seq(Names)
    OBVIOUS
  <2>3. QED
    BY <2>1, <2>2 DEF Shape
<1>2. ASSUME NEW b \in Requests, DeleteBatch(r, b)
      PROVE  /\ Effect(r) /\ Closed(r)
             /\ req'[r].op = "deleteBatch" /\ req'[r].who = b
             /\ req'[r].pc \in {"done", "failed"}
             /\ BatchRow(b) \in rows => req'[r].pc = "done"
             /\ rows' \subseteq rows /\ \A k \in rows : IsName(k) => k \in rows'
  <2> DEFINE p == IF BatchRow(b) \in rows THEN "done" ELSE "failed"
             q == [Idle EXCEPT !.op = "deleteBatch", !.who = b, !.pc = p]
  <2>1. req' = [req EXCEPT ![r] = q] /\ rows' = rows \ {BatchRow(b)}
    BY <1>2 DEF DeleteBatch
  <2>2. p \in {"done", "failed"} /\ (BatchRow(b) \in rows => p = "done")
    OBVIOUS
  <2> HIDE DEF p
  <2>3. /\ q \in Request /\ q.op = "deleteBatch" /\ q.who = b /\ q.pc = p
        /\ q.todo = <<>> /\ q.mine = {}
    BY <1>1, <2>2 DEF Idle, Request
  <2> HIDE DEF q
  <2>4. QED
    BY <1>1, <2>1, <2>2, <2>3 DEF Effect, Others, Closed, IsName, BatchRow
<1>3. ASSUME DeleteTestOpportunities(r)
      PROVE  /\ Effect(r) /\ Closed(r)
             /\ req'[r].op = "deleteTestOpportunities" /\ req'[r].pc = "done"
             /\ rows' \subseteq rows /\ \A k \in rows : IsName(k) => k \in rows'
  <2> DEFINE q == [Idle EXCEPT !.op = "deleteTestOpportunities", !.pc = "done"]
  <2>1. req' = [req EXCEPT ![r] = q] /\ rows' = rows \ TestBatches
    BY <1>3 DEF DeleteTestOpportunities
  <2>2. /\ q \in Request /\ q.op = "deleteTestOpportunities" /\ q.pc = "done"
        /\ q.todo = <<>> /\ q.mine = {}
    BY <1>1 DEF Idle, Request
  <2> HIDE DEF q
  <2>3. QED
    BY <1>1, <2>1, <2>2 DEF Effect, Others, Closed, IsName, TestBatches
<1>4. QED
  <2>1. CASE DeleteTestOpportunities(r)
    <3>1. ~\E b \in Requests : DeleteBatch(r, b)
      BY <1>2, <1>3, <2>1
    <3>2. QED
      BY <1>1, <1>3, <2>1, <3>1
  <2>2. CASE \E b \in Requests : DeleteBatch(r, b)
    <3>1. ~DeleteTestOpportunities(r)
      BY <1>2, <1>3, <2>2
    <3>2. QED
      BY <1>1, <1>2, <2>2, <3>1
  <2>3. QED
    BY <2>1, <2>2

\* Every step is one of these, of some request.
Step(r) ==
  \/ \E b \in Bodies : Begin(r, b)
  \/ Write(r)
  \/ Running(r) /\ Fails(r)
  \/ Commit(r)
  \/ Notify(r)
  \/ DeleteTestOpportunities(r) \/ \E b \in Requests : DeleteBatch(r, b)

\* Every step is one of these, of one request.
LEMMA NextIsStep == ASSUME Next PROVE \E r \in Requests : Step(r)
<1>1. ASSUME NEW r \in Requests, DeadlockVictim(r) PROVE Running(r) /\ Fails(r)
  BY <1>1 DEF DeadlockVictim, Deadlocked, Waits
<1>2. QED
  BY <1>1 DEF Next, Step, Refuse, Rollback

-----------------------------------------------------------------------------
(* The names in the tables *)

CommittedNames == UNION {NamesIn(q, Body(q)) : q \in {p \in Requests : Committed(p)}}

\* A step that commits nothing leaves the names that were committed.
LEMMA SameCommittedNames ==
  ASSUME \A q \in Requests : /\ Committed(q)' <=> Committed(q)
                             /\ Committed(q) => SameBody(q)
  PROVE  CommittedNames' = CommittedNames
<1>1. \A q \in Requests : Committed(q) => Body(q)' = Body(q)
  BY DEF SameBody, Body
<1>2. \A q \in Requests : Committed(q) => NamesIn(q, Body(q))' = NamesIn(q, Body(q))
  BY <1>1, ZenonT(30) DEF NamesIn, Writes
<1>3. QED
  BY <1>2 DEF CommittedNames

\* The names a deployment starts with are known, and no transaction is open.
LEMMA InitNames == Init => NamesInv
<1> SUFFICES ASSUME Init PROVE NamesInv
  OBVIOUS
<1>1. <<>> \in Seq(Row) /\ <<>> \in Seq(Names)
  OBVIOUS
<1>2. Idle \in Request /\ Idle.pc = "idle" /\ Idle.mine = {} /\ Idle.todo = <<>> /\ Idle.op = None
  BY <1>1 DEF Idle, Request
<1>3. /\ req \in [Requests -> Request] /\ rows = InitialRows /\ mail = {}
      /\ \A r \in Requests : req[r] = Idle
  BY <1>2 DEF Init
<1>4. Shape /\ OpenIsOwn /\ PassedIsThere /\ HeldIsNew
  BY <1>2, <1>3, BodyAssumption DEF Shape, OpenIsOwn, PassedIsThere, HeldIsNew, Running
<1>5. \A r \in Requests : ~Committed(r)
  BY <1>2, <1>3 DEF Committed
<1>6. QED
  BY <1>3, <1>4, <1>5 DEF NamesInv, NamesFollowSubmissions

\* A transaction that begins has passed no name.
LEMMA BeginNames ==
  ASSUME NamesInv, NEW r \in Requests, NEW b \in Bodies, Begin(r, b)
  PROVE  NamesInv'
<1>1. /\ Effect(r)
      /\ req'[r].op = b.op /\ req'[r].who = b.who
      /\ req'[r].skills = b.skills /\ req'[r].causes = b.causes
      /\ req'[r].pc = "running" /\ req'[r].todo = Writes(r, b) /\ req'[r].mine = {}
  BY BeginEffect DEF NamesInv
<1>2. rows' = rows /\ mail' = mail /\ req[r].pc = "idle"
  BY DEF Begin
<1>3. Body(r)' = b
  <2>1. b = [op |-> b.op, who |-> b.who, skills |-> b.skills, causes |-> b.causes]
    BY BodyAssumption
  <2>2. QED
    BY <1>1, <2>1 DEF Body
<1>4. All(r)' = Rest(r)'
  BY <1>1, <1>3 DEF All, Rest, Writes
<1>5. \A q \in Requests \ {r} : /\ Body(q)' = Body(q) /\ All(q)' = All(q) /\ Rest(q)' = Rest(q)
                                 /\ (Running(q)' <=> Running(q))
  BY <1>1, OthersUnmoved DEF Effect
<1>6. Shape'
  BY <1>1, <1>2 DEF NamesInv, Shape, Effect, Others
<1>7. OpenIsOwn'
  <2>1. Running(r)' /\ Body(r)' \in Bodies /\ (req[r].mine)' = {} /\ Rest(r)' \subseteq All(r)'
    BY <1>1, <1>3, <1>4 DEF Running
  <2>2. ASSUME NEW q \in Requests \ {r}
        PROVE  /\ Running(q)' => /\ Body(q)' \in Bodies
                                /\ req'[q].mine \subseteq All(q)'
                                /\ Rest(q)' \subseteq All(q)'
               /\ ~Running(q)' => req'[q].todo = <<>> /\ req'[q].mine = {}
    BY <1>1, <1>5 DEF NamesInv, OpenIsOwn, Effect, Others
  <2>3. QED
    BY <2>1, <2>2 DEF OpenIsOwn
<1>8. PassedIsThere'
  <2>1. ASSUME NEW q \in Requests \ {r}, Running(q)', NEW k \in All(q)', IsName(k)
        PROVE  k \in rows' \cup req'[q].mine \cup Rest(q)'
    BY <1>1, <1>2, <1>5, <2>1 DEF NamesInv, PassedIsThere, Effect, Others
  <2>2. QED
    BY <1>4, <2>1 DEF PassedIsThere
<1>9. HeldIsNew'
  BY <1>1, <1>2 DEF NamesInv, HeldIsNew, Effect, Others
<1>10. NamesFollowSubmissions'
  <2>1. \A q \in Requests : (Committed(q)' <=> Committed(q)) /\ (Committed(q) => SameBody(q))
    BY <1>1, <1>2 DEF Effect, Others, Committed, SameBody
  <2>2. CommittedNames' = CommittedNames
    BY <2>1, SameCommittedNames
  <2>3. QED
    BY <1>2, <2>2 DEF NamesInv, NamesFollowSubmissions, CommittedNames
<1>11. QED
  BY <1>6, <1>7, <1>8, <1>9, <1>10 DEF NamesInv

\* The name a statement passes is committed, or is the transaction's own from now
\* on.
LEMMA WriteNames ==
  ASSUME NamesInv, NEW r \in Requests, Write(r)
  PROVE  NamesInv'
<1>1. /\ Effect(r) /\ SameBody(r) /\ req'[r].pc = req[r].pc
      /\ Next1(r) \in Row
      /\ Rest(r) = Rest(r)' \cup {Next1(r)}
      /\ req'[r].mine = IF Takes(r) THEN req[r].mine \cup {Next1(r)} ELSE req[r].mine
  BY WriteEffect DEF NamesInv
<1>2. /\ rows' = rows /\ mail' = mail /\ Running(r) /\ req[r].pc = "running"
      /\ \A q \in Requests \ {r} : Next1(r) \notin req[q].mine
  BY DEF Write, Running, Waits
<1>3. \A q \in Requests : /\ Body(q)' = Body(q) /\ All(q)' = All(q)
                          /\ (Running(q)' <=> Running(q))
                          /\ q # r => Rest(q)' = Rest(q)
  BY <1>1, OthersUnmoved, SameBodySameRows DEF Effect, Running
<1>4. Shape'
  BY <1>1, <1>2 DEF NamesInv, Shape, Effect, Others
<1>5. OpenIsOwn'
  <2>1. req'[r].mine \subseteq All(r)' /\ Rest(r)' \subseteq All(r)'
    BY <1>1, <1>2, <1>3 DEF NamesInv, OpenIsOwn
  <2>2. QED
    BY <1>1, <1>2, <1>3, <2>1 DEF NamesInv, OpenIsOwn, Effect, Others
<1>6. PassedIsThere'
  <2>1. ASSUME NEW k \in All(r)', IsName(k) PROVE k \in rows' \cup req'[r].mine \cup Rest(r)'
    <3>1. k \in rows \cup req[r].mine \cup Rest(r)
      BY <1>2, <1>3, <2>1 DEF NamesInv, PassedIsThere
    <3>2. k = Next1(r) => k \in rows \/ Takes(r)
      BY DEF Takes
    <3>3. QED
      BY <1>1, <1>2, <3>1, <3>2
  <2>2. QED
    BY <1>1, <1>2, <1>3, <2>1 DEF NamesInv, PassedIsThere, Effect, Others
<1>7. HeldIsNew'
  <2>1. \A k \in req'[r].mine : k \notin rows \/ k.table = "ApplicantSubmission"
    BY <1>1 DEF NamesInv, HeldIsNew, Takes
  <2>2. \A q \in Requests \ {r} : req'[q].mine \cap req'[r].mine = {}
    BY <1>1, <1>2 DEF NamesInv, HeldIsNew, Effect, Others
  <2>3. QED
    BY <1>1, <1>2, <2>1, <2>2 DEF NamesInv, HeldIsNew, Effect, Others
<1>8. NamesFollowSubmissions'
  <2>1. \A q \in Requests : (Committed(q)' <=> Committed(q)) /\ (Committed(q) => SameBody(q))
    BY <1>1, <1>2 DEF Effect, Others, Committed, SameBody
  <2>2. CommittedNames' = CommittedNames
    BY <2>1, SameCommittedNames
  <2>3. QED
    BY <1>2, <2>2 DEF NamesInv, NamesFollowSubmissions, CommittedNames
<1>9. QED
  BY <1>4, <1>5, <1>6, <1>7, <1>8 DEF NamesInv
\* A step that ends a request without committing it takes no name away.
LEMMA EndsNames ==
  ASSUME NamesInv, NEW r \in Requests, Effect(r), Closed(r),
         req'[r].pc \in {"done", "failed"},
         rows' \subseteq rows, \A k \in rows : IsName(k) => k \in rows',
         mail' \subseteq mail \cup {r},
         Committed(r)' <=> Committed(r), Committed(r) => SameBody(r)
  PROVE  NamesInv'
<1>1. \A q \in Requests \ {r} : /\ Body(q)' = Body(q) /\ All(q)' = All(q) /\ Rest(q)' = Rest(q)
                                /\ (Running(q)' <=> Running(q)) /\ req'[q] = req[q]
  BY OthersUnmoved DEF Effect, Others
<1>2. ~Running(r)' /\ req'[r].todo = <<>> /\ req'[r].mine = {}
  BY DEF Running, Closed
<1>3. Shape'
  BY <1>1 DEF NamesInv, Shape, Effect
<1>4. OpenIsOwn'
  BY <1>1, <1>2 DEF NamesInv, OpenIsOwn
<1>5. PassedIsThere'
  BY <1>1, <1>2 DEF NamesInv, PassedIsThere
<1>6. HeldIsNew'
  BY <1>1, <1>2 DEF NamesInv, HeldIsNew
<1>7. NamesFollowSubmissions'
  <2>1. \A q \in Requests : (Committed(q)' <=> Committed(q)) /\ (Committed(q) => SameBody(q))
    BY <1>1 DEF Committed, SameBody
  <2>2. CommittedNames' = CommittedNames
    BY <2>1, SameCommittedNames
  <2>3. {k \in rows' : IsName(k)} = {k \in rows : IsName(k)}
    OBVIOUS
  <2>4. QED
    BY <2>2, <2>3 DEF NamesInv, NamesFollowSubmissions, CommittedNames, IsName
<1>8. QED
  BY <1>3, <1>4, <1>5, <1>6, <1>7 DEF NamesInv

\* A rollback takes what nobody else relies on: a name that was skipped was
\* committed.
LEMMA FailsNames ==
  ASSUME NamesInv, NEW r \in Requests, Running(r), Fails(r)
  PROVE  NamesInv'
<1>1. Effect(r) /\ SameBody(r) /\ Closed(r) /\ req'[r].pc = "failed"
  BY FailsEffect DEF NamesInv
<1>2. rows' = rows /\ mail' = mail /\ req[r].pc = "running"
  BY DEF Fails, Running
<1>3. ~Committed(r) /\ ~Committed(r)'
  BY <1>1, <1>2 DEF Committed
<1>4. QED
  BY <1>1, <1>2, <1>3, EndsNames

\* A commit adds to the tables the names of its body, all of them and no others.
LEMMA CommitNames ==
  ASSUME NamesInv, NEW r \in Requests, Commit(r)
  PROVE  NamesInv'
<1>1. /\ Effect(r) /\ SameBody(r)
      /\ req'[r].mine = {} /\ req'[r].todo = req[r].todo
      /\ req'[r].pc = IF req[r].op = "createBatch" THEN "notify" ELSE "done"
  BY CommitEffect DEF NamesInv
<1>2. /\ rows' = rows \cup req[r].mine /\ mail' = mail
      /\ Running(r) /\ req[r].pc = "running" /\ req[r].todo = <<>>
  BY DEF Commit, Running
<1>3. \A q \in Requests \ {r} : /\ Body(q)' = Body(q) /\ All(q)' = All(q) /\ Rest(q)' = Rest(q)
                                /\ (Running(q)' <=> Running(q)) /\ req'[q] = req[q]
  BY <1>1, OthersUnmoved DEF Effect, Others
<1>4. ~Running(r)' /\ Body(r)' = Body(r) /\ req'[r].todo = <<>> /\ req'[r].mine = {}
  BY <1>1, <1>2, SameBodySameRows DEF Running
<1>5. Shape'
  <2>1. req[r].mine \subseteq Row
    BY DEF NamesInv, Shape, Request
  <2>2. QED
    BY <1>1, <1>2, <1>3, <2>1 DEF NamesInv, Shape, Effect
<1>6. OpenIsOwn'
  BY <1>3, <1>4 DEF NamesInv, OpenIsOwn
<1>7. PassedIsThere'
  BY <1>2, <1>3, <1>4 DEF NamesInv, PassedIsThere
<1>8. HeldIsNew'
  BY <1>2, <1>3, <1>4 DEF NamesInv, HeldIsNew
<1>9. {k \in rows' : IsName(k)} = {k \in rows : IsName(k)} \cup NamesIn(r, Body(r))
  <2>1. Body(r) \in Bodies
    BY <1>2 DEF NamesInv, OpenIsOwn
  <2>2. NamesIn(r, Body(r)) = {k \in All(r) : IsName(k)}
    <3>1. /\ Writes(r, Body(r)) \in Seq(Row) /\ Len(Writes(r, Body(r))) > 0
          /\ ~IsName(Writes(r, Body(r))[1])
          /\ \A n \in 2..Len(Writes(r, Body(r))) : IsName(Writes(r, Body(r))[n])
      BY <2>1, OwnRowFirst
    <3>2. DOMAIN Writes(r, Body(r)) = {1} \cup 2..Len(Writes(r, Body(r)))
      <4>1. ASSUME NEW w \in Seq(Row), Len(w) > 0 PROVE DOMAIN w = {1} \cup 2..Len(w)
        <5>1. Len(w) \in Nat \ {0} /\ DOMAIN w = 1..Len(w)
          BY <4>1
        <5>2. QED
          BY <5>1
      <4>2. QED
        BY <3>1, <4>1
    <3>3. QED
      BY <3>1, <3>2 DEF All, NamesIn
  <2>3. Rest(r) = {}
    BY <1>2 DEF Rest
  <2>4. \A k \in All(r) : IsName(k) => k \in rows \cup req[r].mine
    BY <1>2, <2>3 DEF NamesInv, PassedIsThere
  <2>5. req[r].mine \subseteq All(r)
    BY <1>2 DEF NamesInv, OpenIsOwn
  <2>6. QED
    BY <1>2, <2>2, <2>4, <2>5
<1>10. CommittedNames' = CommittedNames \cup NamesIn(r, Body(r))
  <2>1. Committed(r)' /\ ~Committed(r)
    <3>1. Body(r).op \in SubmitOps
      BY <1>2, BodyAssumption DEF NamesInv, OpenIsOwn
    <3>2. QED
      BY <1>1, <1>2, <3>1 DEF Committed, SameBody, Body
  <2>2. \A q \in Requests \ {r} : Committed(q)' <=> Committed(q)
    BY <1>3 DEF Committed
  <2>3. \A q \in Requests : NamesIn(q, Body(q))' = NamesIn(q, Body(q))
    <3>1. \A q \in Requests : Body(q)' = Body(q)
      BY <1>3, <1>4
    <3>2. QED
      BY <3>1 DEF NamesIn, Writes
  <2>4. QED
    BY <2>1, <2>2, <2>3 DEF CommittedNames
<1>11. NamesFollowSubmissions'
  BY <1>9, <1>10 DEF NamesInv, NamesFollowSubmissions, CommittedNames, IsName
<1>12. QED
  BY <1>5, <1>6, <1>7, <1>8, <1>11 DEF NamesInv

\* The e-mail to a contact writes no names.
LEMMA NotifyNames ==
  ASSUME NamesInv, NEW r \in Requests, Notify(r)
  PROVE  NamesInv'
<1>1. /\ Effect(r) /\ SameBody(r)
      /\ req'[r].mine = req[r].mine /\ req'[r].todo = req[r].todo /\ req'[r].pc = "done"
  BY NotifyEffect DEF NamesInv
<1>2. rows' = rows /\ mail' \subseteq mail \cup {r} /\ req[r].pc = "notify"
  BY DEF Notify
<1>3. Closed(r)
  BY <1>1, <1>2 DEF NamesInv, OpenIsOwn, Running, Closed
<1>4. QED
  BY <1>1, <1>2, <1>3, EndsNames DEF Committed, SameBody

\* The deletion of a batch leaves its names.
LEMMA DeleteNames ==
  ASSUME NamesInv, NEW r \in Requests,
         DeleteTestOpportunities(r) \/ \E b \in Requests : DeleteBatch(r, b)
  PROVE  NamesInv'
<1>1. /\ Effect(r) /\ Closed(r) /\ req[r] = Idle
      /\ req'[r].op \in {"deleteBatch", "deleteTestOpportunities"}
      /\ req'[r].pc \in {"done", "failed"}
      /\ rows' \subseteq rows
      /\ \A k \in rows : IsName(k) => k \in rows'
  BY DeleteEffect DEF NamesInv
<1>2. mail' = mail
  BY DEF DeleteTestOpportunities, DeleteBatch
<1>3. ~Committed(r) /\ ~Committed(r)'
  BY <1>1, BodyAssumption DEF Committed, Idle, SubmitOps
<1>4. QED
  BY <1>1, <1>2, <1>3, EndsNames

\* Hence names follow what was committed, step by step.
LEMMA NextNames == NamesInv /\ [Next]_vars => NamesInv'
<1> SUFFICES ASSUME NamesInv, [Next]_vars PROVE NamesInv'
  OBVIOUS
<1>1. CASE UNCHANGED vars
  <2>1. rows' = rows /\ req' = req /\ mail' = mail
    BY <1>1 DEF vars
  <2>2. \A r \in Requests : /\ Body(r)' = Body(r) /\ Rest(r)' = Rest(r)
                            /\ (Running(r)' <=> Running(r)) /\ (Committed(r)' <=> Committed(r))
                            /\ SameBody(r)
    BY <2>1 DEF Body, Rest, Running, Committed, SameBody
  <2>3. \A r \in Requests : All(r)' = All(r)
    BY <2>2, ZenonT(30) DEF All, Writes
  <2>4. CommittedNames' = CommittedNames
    BY <2>2, SameCommittedNames
  <2>5. Shape' /\ OpenIsOwn' /\ HeldIsNew'
    BY <2>1, <2>2, <2>3 DEF NamesInv, Shape, OpenIsOwn, HeldIsNew
  <2>6. PassedIsThere'
    BY <2>1, <2>2, <2>3 DEF NamesInv, PassedIsThere
  <2>7. NamesFollowSubmissions'
    BY <2>1, <2>4 DEF NamesInv, NamesFollowSubmissions, CommittedNames
  <2>8. QED
    BY <2>5, <2>6, <2>7 DEF NamesInv
<1>2. ASSUME NEW r \in Requests, Step(r) PROVE NamesInv'
  BY <1>2, BeginNames, WriteNames, FailsNames, CommitNames, NotifyNames, DeleteNames DEF Step
<1>3. QED
  BY <1>1, <1>2, NextIsStep

-----------------------------------------------------------------------------
(* The batches *)

Kept(r) ==
  \/ BatchRow(r) \in rows
  \/ \E q \in Requests : req[q].op = "deleteBatch" /\ req[q].who = r /\ req[q].pc = "done"
  \/ /\ req[r].who = TestContact
     /\ \E q \in Requests : req[q].op = "deleteTestOpportunities"

\* A batch is on its way to the table until it is kept.
BatchInv ==
  /\ \A r \in Requests : req[r].op = "createBatch" =>
       /\ Running(r) => BatchRow(r) \in req[r].mine \cup Rest(r) \/ Kept(r)
       /\ req[r].pc \in {"notify", "done"} => Kept(r)
  /\ \A r \in Requests : req[r].pc = "notify" => req[r].op = "createBatch"
  /\ \A r \in mail : req[r].op = "createBatch" /\ req[r].pc = "done"

\* A request that is done takes no step, and one that runs keeps its body.
LEMMA StepEffect ==
  ASSUME NamesInv, NEW q \in Requests, Step(q)
  PROVE  /\ Effect(q) /\ req[q].pc # "done"
         /\ SameBody(q) \/ req[q] = Idle
<1>1. ASSUME NEW b \in Bodies, Begin(q, b) PROVE Effect(q) /\ req[q] = Idle /\ req[q].pc # "done"
  BY <1>1, BeginEffect DEF NamesInv, Shape, Begin
<1>2. Write(q) => Effect(q) /\ SameBody(q) /\ req[q].pc # "done"
  BY WriteEffect DEF NamesInv, Write, Running
<1>3. Running(q) /\ Fails(q) => Effect(q) /\ SameBody(q) /\ req[q].pc # "done"
  BY FailsEffect DEF NamesInv, Running
<1>4. Commit(q) => Effect(q) /\ SameBody(q) /\ req[q].pc # "done"
  BY CommitEffect DEF NamesInv, Commit, Running
<1>5. Notify(q) => Effect(q) /\ SameBody(q) /\ req[q].pc # "done"
  BY NotifyEffect DEF NamesInv, Notify
<1>6. (DeleteTestOpportunities(q) \/ \E b \in Requests : DeleteBatch(q, b)) =>
        Effect(q) /\ req[q] = Idle /\ req[q].pc # "done"
  <2>1. Idle.pc # "done"
    BY DEF Idle
  <2>2. QED
    BY <2>1, DeleteEffect DEF NamesInv
<1>7. QED
  BY <1>1, <1>2, <1>3, <1>4, <1>5, <1>6 DEF Step

\* A batch leaves the table only by a deletion of it, and deletions stay.
LEMMA KeptStays ==
  ASSUME NamesInv, NEW q \in Requests, Step(q),
         NEW r \in Requests, req[r].op = "createBatch", Kept(r)
  PROVE  Kept(r)'
<1>1. /\ Others(q) /\ req[q].pc # "done"
      /\ SameBody(q) \/ req[q] = Idle
  BY StepEffect DEF Effect
<1>2. Idle.op = None /\ None \notin SubmitOps \cup {"deleteBatch", "deleteTestOpportunities"}
  BY BodyAssumption DEF Idle
<1>3. req'[r].op = req[r].op /\ req'[r].who = req[r].who
  BY <1>1, <1>2 DEF Others, SameBody, SubmitOps
<1>4. ASSUME NEW p \in Requests, req[p].op = "deleteTestOpportunities"
      PROVE  req'[p].op = "deleteTestOpportunities"
  BY <1>1, <1>2, <1>4 DEF Others, SameBody
<1>5. ASSUME NEW p \in Requests, req[p].op = "deleteBatch", req[p].who = r, req[p].pc = "done"
      PROVE  req'[p].op = "deleteBatch" /\ req'[p].who = r /\ req'[p].pc = "done"
  BY <1>1, <1>5 DEF Others
<1>6. ASSUME BatchRow(r) \in rows PROVE Kept(r)'
  <2>1. CASE rows \subseteq rows'
    BY <1>6, <2>1 DEF Kept, BatchRow
  <2>2. ASSUME NEW b \in Requests, DeleteBatch(q, b) PROVE Kept(r)'
    <3>1. CASE b = r
      <4>1. req'[q].op = "deleteBatch" /\ req'[q].who = r /\ req'[q].pc = "done"
        BY <1>6, <2>2, <3>1, DeleteEffect DEF NamesInv
      <4>2. QED
        BY <4>1 DEF Kept
    <3>2. CASE b # r
      <4>1. BatchRow(b) # BatchRow(r) /\ rows' = rows \ {BatchRow(b)}
        BY <2>2, <3>2 DEF BatchRow, DeleteBatch
      <4>2. QED
        BY <1>6, <4>1 DEF Kept, BatchRow
    <3>3. QED
      BY <3>1, <3>2
  <2>3. ASSUME DeleteTestOpportunities(q) PROVE Kept(r)'
    <3>1. rows' = rows \ TestBatches /\ req'[q].op = "deleteTestOpportunities"
      BY <2>3, DeleteEffect DEF NamesInv, DeleteTestOpportunities
    <3>2. CASE BatchRow(r) \in TestBatches
      <4>1. req[r].who = TestContact
        BY <3>2 DEF TestBatches, BatchRow
      <4>2. QED
        BY <1>3, <3>1, <4>1 DEF Kept
    <3>3. CASE BatchRow(r) \notin TestBatches
      BY <1>6, <3>1, <3>3 DEF Kept, BatchRow
    <3>4. QED
      BY <3>2, <3>3
  <2>4. QED
    BY <2>1, <2>2, <2>3 DEF Step, Begin, Write, Fails, Commit, Notify
<1>7. QED
  BY <1>3, <1>4, <1>5, <1>6 DEF Kept

\* A committed batch stays through every step but an administrator's deletion.
LEMMA StepBatches ==
  ASSUME NamesInv, BatchInv, NEW q \in Requests, Step(q)
  PROVE  BatchInv'
<1>1. /\ Effect(q) /\ req[q].pc # "done" /\ (SameBody(q) \/ req[q] = Idle)
      /\ Idle.op = None /\ None \notin SubmitOps \cup {"deleteBatch", "deleteTestOpportunities"}
  BY StepEffect, BodyAssumption DEF Idle
<1>2. ASSUME NEW r \in Requests \ {q}, req'[r].op = "createBatch"
      PROVE  /\ Running(r)' => BatchRow(r) \in req'[r].mine \cup Rest(r)' \/ Kept(r)'
             /\ req'[r].pc \in {"notify", "done"} => Kept(r)'
  <2>1. req'[r] = req[r] /\ Rest(r)' = Rest(r) /\ (Running(r)' <=> Running(r))
    BY <1>1, OthersUnmoved DEF Effect, Others
  <2>2. Kept(r) => Kept(r)'
    BY <1>2, <2>1, KeptStays
  <2>3. QED
    BY <1>2, <2>1, <2>2 DEF BatchInv
<1>3. ASSUME req'[q].op = "createBatch"
      PROVE  /\ Running(q)' => BatchRow(q) \in req'[q].mine \cup Rest(q)' \/ Kept(q)'
             /\ req'[q].pc \in {"notify", "done"} => Kept(q)'
  <2>1. ASSUME NEW b \in Bodies, Begin(q, b)
        PROVE  req'[q].pc = "running" /\ BatchRow(q) \in Rest(q)'
    <3>1. b.op = "createBatch" /\ req'[q].pc = "running" /\ req'[q].todo = Writes(q, b)
      BY <1>3, <2>1, BeginEffect DEF NamesInv
    <3>2. /\ Writes(q, b) \in Seq(Row) /\ Len(Writes(q, b)) > 0
          /\ Writes(q, b)[1] = BatchRow(q)
      BY <3>1, OwnRowFirst
    <3>3. ASSUME NEW w \in Seq(Row), Len(w) > 0 PROVE 1 \in DOMAIN w
      BY <3>3
    <3>4. QED
      BY <3>1, <3>2, <3>3 DEF Rest
  <2>2. SameBody(q) => req[q].op = "createBatch"
    BY <1>3 DEF SameBody
  <2>3. SameBody(q) /\ Kept(q) => Kept(q)'
    BY <2>2, KeptStays
  <2>4. ASSUME Write(q)
        PROVE  /\ req'[q].pc = "running"
               /\ BatchRow(q) \in req'[q].mine \cup Rest(q)' \/ Kept(q)'
    <3>1. /\ SameBody(q) /\ req'[q].pc = req[q].pc /\ req[q].pc = "running"
          /\ Rest(q) = Rest(q)' \cup {Next1(q)} /\ rows' = rows
          /\ req'[q].mine = IF Takes(q) THEN req[q].mine \cup {Next1(q)} ELSE req[q].mine
      BY <2>4, WriteEffect DEF NamesInv, Write, Running
    <3>2. BatchRow(q) \in req[q].mine \cup Rest(q) \/ Kept(q)
      BY <2>2, <3>1 DEF BatchInv, Running
    <3>3. ~Takes(q) => Next1(q) \in rows
      BY DEF Takes
    <3>4. BatchRow(q) \in rows => Kept(q)
      BY DEF Kept
    <3>5. QED
      BY <2>3, <3>1, <3>2, <3>3, <3>4
  <2>5. Running(q) /\ Fails(q) => req'[q].pc = "failed"
    BY FailsEffect DEF NamesInv
  <2>6. ASSUME Commit(q) PROVE req'[q].pc # "running" /\ Kept(q)'
    <3>1. SameBody(q) /\ req'[q].pc # "running"
      BY <2>6, CommitEffect DEF NamesInv
    <3>2. Running(q) /\ Rest(q) = {} /\ rows' = rows \cup req[q].mine
      BY <2>6 DEF Commit, Rest
    <3>3. BatchRow(q) \in req[q].mine \/ Kept(q)
      BY <2>2, <3>1, <3>2 DEF BatchInv
    <3>4. BatchRow(q) \in rows' => Kept(q)'
      BY DEF Kept, BatchRow
    <3>5. QED
      BY <2>3, <3>1, <3>2, <3>3, <3>4
  <2>7. ASSUME Notify(q) PROVE req'[q].pc = "done" /\ Kept(q)'
    BY <2>2, <2>3, <2>7, NotifyEffect DEF NamesInv, BatchInv, Notify
  <2>8. ~(DeleteTestOpportunities(q) \/ \E b \in Requests : DeleteBatch(q, b))
    BY <1>3, DeleteEffect DEF NamesInv
  <2>9. QED
    BY <2>1, <2>4, <2>5, <2>6, <2>7, <2>8 DEF Step, Running
<1>4. ASSUME NEW r \in mail' PROVE req'[r].op = "createBatch" /\ req'[r].pc = "done"
  <2>1. CASE r \in mail
    <3>1. r \in Requests /\ req[r].op = "createBatch" /\ req[r].pc = "done"
      BY <2>1 DEF NamesInv, Shape, BatchInv
    <3>2. QED
      BY <1>1, <3>1 DEF Effect, Others
  <2>2. CASE r \notin mail
    <3>1. mail' # mail
      BY <1>4, <2>2
    <3>2. \/ mail' = mail
          \/ Notify(q)
      BY DEF Step, Begin, Write, Fails, Commit, DeleteTestOpportunities, DeleteBatch
    <3>3. Notify(q) /\ r = q
      BY <1>4, <2>2, <3>1, <3>2 DEF Notify
    <3>4. req'[q].pc = "done" /\ req'[q].op = req[q].op
      BY <3>3, NotifyEffect DEF NamesInv, SameBody
    <3>5. req[q].op = "createBatch"
      BY <3>3 DEF Notify, BatchInv
    <3>6. QED
      BY <3>3, <3>4, <3>5
  <2>3. QED
    BY <2>1, <2>2
<1>5. ASSUME NEW r \in Requests, req'[r].pc = "notify" PROVE req'[r].op = "createBatch"
  <2>1. CASE r # q
    BY <1>1, <1>5, <2>1 DEF Effect, Others, BatchInv
  <2>2. CASE r = q
    <3>1. Write(q) => req'[q].pc = "running"
      BY WriteEffect DEF NamesInv, Write, Running
    <3>2. \A b \in Bodies : Begin(q, b) => req'[q].pc = "running"
      BY BeginEffect DEF NamesInv
    <3>3. Commit(q)
      BY <1>5, <2>2, <3>1, <3>2, FailsEffect, NotifyEffect, DeleteEffect DEF NamesInv, Step
    <3>4. QED
      BY <1>5, <2>2, <3>3, CommitEffect DEF NamesInv, SameBody
  <2>3. QED
    BY <2>1, <2>2
<1>6. QED
  BY <1>2, <1>3, <1>4, <1>5 DEF BatchInv

\* No batch is committed by a request yet.
LEMMA InitBatches == Init => BatchInv
<1> SUFFICES ASSUME Init PROVE BatchInv
  OBVIOUS
<1>1. /\ mail = {} /\ \A r \in Requests : req[r].op = None /\ req[r].pc = "idle"
      /\ None \notin SubmitOps
  BY BodyAssumption DEF Init, Idle
<1>2. QED
  BY <1>1 DEF BatchInv, SubmitOps

\* Hence so it does through all of them.
LEMMA NextBatches == NamesInv /\ BatchInv /\ [Next]_vars => BatchInv'
<1> SUFFICES ASSUME NamesInv, BatchInv, [Next]_vars PROVE BatchInv'
  OBVIOUS
<1>1. CASE UNCHANGED vars
  BY <1>1 DEF vars, BatchInv, Running, Rest, Kept, BatchRow
<1>2. QED
  BY <1>1, StepBatches, NextIsStep

-----------------------------------------------------------------------------
(* The theorems *)

\* What every transaction has passed, holds and leaves, in every reachable state.
THEOREM Invariance == Spec => [](NamesInv /\ BatchInv)
<1>1. Init => NamesInv /\ BatchInv
  BY InitNames, InitBatches
<1>2. NamesInv /\ BatchInv /\ [Next]_vars => (NamesInv /\ BatchInv)'
  BY NextNames, NextBatches
<1>3. QED
  BY <1>1, <1>2, PTL DEF Spec

\* Type correctness: an open transaction holds rows of its own body only, an ended
\* one holds none, and only contacts of batches get mail.
THEOREM TypeCorrect == Spec => []TypeOK
<1>1. NamesInv /\ BatchInv => TypeOK
  <2> SUFFICES ASSUME NamesInv, BatchInv PROVE TypeOK
    OBVIOUS
  <2>1. \A k \in rows : k.table \in Tables
    BY DEF NamesInv, Shape, Row
  <2>2. \A r \in Requests :
          /\ req[r].pc \in {"idle", "running", "notify", "done", "failed"}
          /\ Running(r) => Body(r) \in Bodies /\ req[r].mine \subseteq All(r)
          /\ ~Running(r) => req[r].todo = <<>> /\ req[r].mine = {}
    BY DEF NamesInv, Shape, Request, OpenIsOwn
  <2>3. mail \subseteq {r \in Requests : req[r].op = "createBatch"}
    BY DEF NamesInv, Shape, BatchInv
  <2>4. QED
    BY <2>1, <2>2, <2>3 DEF TypeOK, All
<1>2. QED
  BY Invariance, <1>1, PTL

\* The tables of names hold exactly the names of what was committed, however the
\* transactions interleave, fail and are rolled back.
THEOREM NamesCorrect == Spec => []NamesFollowSubmissions
<1>1. NamesInv => NamesFollowSubmissions
  BY DEF NamesInv
<1>2. QED
  BY Invariance, <1>1, PTL

\* A transaction waits only for a submission's row or for a name that is not
\* committed yet: known names block nobody.
THEOREM KnownNamesFree == Spec => []KnownNamesNeverBlock
<1>1. NamesInv => KnownNamesNeverBlock
  BY DEF NamesInv, HeldIsNew, KnownNamesNeverBlock, Waits
<1>2. QED
  BY Invariance, <1>1, PTL

\* A batch that was answered, or whose contact was welcomed, is in the table until an
\* administrator deletes it.
THEOREM BatchesCorrect == Spec => []BatchKept
<1>1. NamesInv /\ BatchInv => BatchKept
  BY DEF NamesInv, Shape, BatchInv, BatchKept, Kept
<1>2. QED
  BY Invariance, <1>1, PTL
=============================================================================
