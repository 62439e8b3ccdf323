-------------------------- MODULE SuggestionsProofs --------------------------
(***************************************************************************)
(* GET /skills and GET /causes answer what the editors decided, for any    *)
(* names and annotations, and a reference set answered 200 is stored, with *)
(* any number of uploads running at once.                                  *)
(***************************************************************************)
EXTENDS Suggestions, TLAPS

-----------------------------------------------------------------------------
(* Types *)

Item == [referenceId : RefIds, name : Skills]

Status == {"idle", "running", "failed", "stored"}

\* An upload that has begun has a body that passed zod's schema.
Shape ==
  /\ skillsAnnotation \in [Skills -> Annotations(Skills) \cup {Null}]
  /\ causesAnnotation \in [Causes -> Annotations(Causes) \cup {Null}]
  /\ reference \in [RefIds -> Skills \cup {Null}]
  /\ upserts \in [Uploads -> SUBSET Nat]
  /\ upload \in [Uploads -> [body : Seq(Item), status : Status, overtaken : SUBSET RefIds]]
  /\ \A u \in Uploads : upserts[u] \subseteq DOMAIN upload[u].body
  /\ \A u \in Uploads : upload[u].status \in {"idle", "stored"} => upserts[u] = {}

\* The id of an item, and the names a body gives an id.
Id(body, n) == body[n].referenceId
Given(body, i) == {body[k].name : k \in {j \in DOMAIN body : Id(body, j) = i}}

\* What an upload has upserted is in the table, unless it is overtaken.
Stored(u, n) == Id(upload[u].body, n) \notin upload[u].overtaken =>
                  reference[Id(upload[u].body, n)] \in Given(upload[u].body, Id(upload[u].body, n))

UpsertedIsThere ==
  \A u \in Uploads : upload[u].status \in {"running", "stored"} =>
    \A n \in DOMAIN upload[u].body \ upserts[u] : Stored(u, n)

UploadInv == Shape /\ UpsertedIsThere

\* A body is a list of items, each among the names given to its id.
LEMMA Items ==
  ASSUME NEW body \in Seq(Item)
  PROVE  /\ DOMAIN body \subseteq Nat
         /\ \A n \in DOMAIN body : /\ Id(body, n) \in RefIds /\ body[n].name \in Skills
                                   /\ body[n].name \in Given(body, Id(body, n))
<1>1. Len(body) \in Nat /\ DOMAIN body = 1..Len(body) /\ \A n \in DOMAIN body : body[n] \in Item
  OBVIOUS
<1>2. QED
  BY <1>1 DEF Item, Id, Given

\* No upload has begun.
LEMMA UploadInit == Init => UploadInv
<1> SUFFICES ASSUME Init PROVE UploadInv
  OBVIOUS
<1>1. NoUpload \in [body : Seq(Item), status : Status, overtaken : SUBSET RefIds]
      /\ NoUpload.status = "idle"
  <2>1. <<>> \in Seq(Item)
    OBVIOUS
  <2>2. QED
    BY <2>1 DEF NoUpload, Status
<1>2. \A u \in Uploads : upload[u] = NoUpload /\ upserts[u] = {}
  BY DEF Init
<1>3. Shape
  BY <1>1, <1>2 DEF Init, Shape
<1>4. UpsertedIsThere
  BY <1>1, <1>2 DEF UpsertedIsThere
<1>5. QED
  BY <1>3, <1>4 DEF UploadInv

\* The editors' tool touches neither the table nor the uploads.
LEMMA AnnotationStep ==
  ASSUME UploadInv, UNCHANGED <<reference, upserts, upload>>,
         skillsAnnotation' \in [Skills -> Annotations(Skills) \cup {Null}],
         causesAnnotation' \in [Causes -> Annotations(Causes) \cup {Null}]
  PROVE  UploadInv'
<1>1. Shape'
  BY DEF UploadInv, Shape
<1>2. UpsertedIsThere'
  BY DEF UploadInv, UpsertedIsThere, Stored
<1>3. QED
  BY <1>1, <1>2 DEF UploadInv

\* An upload begins with all its upserts to do.
LEMMA StartStep ==
  ASSUME UploadInv, NEW u \in Uploads, NEW body \in Bodies, StartUpload(u, body)
  PROVE  UploadInv'
<1> DEFINE new == [NoUpload EXCEPT !.body = body, !.status = "running"]
<1>1. /\ upload' = [upload EXCEPT ![u] = new] /\ upserts' = [upserts EXCEPT ![u] = DOMAIN body]
      /\ UNCHANGED <<skillsAnnotation, causesAnnotation, reference>>
  BY DEF StartUpload
<1>2. body \in Seq(Item) /\ DOMAIN body \subseteq Nat
  BY BodyAssumption, Items DEF Item
<1>3. /\ new \in [body : Seq(Item), status : Status, overtaken : SUBSET RefIds]
      /\ new.body = body /\ new.status = "running"
  BY <1>2 DEF NoUpload, Status
<1> HIDE DEF new
<1>4. \A v \in Uploads \ {u} : upload'[v] = upload[v] /\ upserts'[v] = upserts[v]
  BY <1>1 DEF UploadInv, Shape
<1>5. upload'[u] = new /\ upserts'[u] = DOMAIN body
  BY <1>1 DEF UploadInv, Shape
<1>6. Shape'
  <2>1. upserts' \in [Uploads -> SUBSET Nat]
    BY <1>1, <1>2 DEF UploadInv, Shape
  <2>2. upload' \in [Uploads -> [body : Seq(Item), status : Status, overtaken : SUBSET RefIds]]
    BY <1>1, <1>3 DEF UploadInv, Shape
  <2>3. QED
    BY <1>1, <1>3, <1>4, <1>5, <2>1, <2>2 DEF UploadInv, Shape
<1>7. UpsertedIsThere'
  BY <1>1, <1>3, <1>4, <1>5 DEF UploadInv, UpsertedIsThere, Stored
<1>8. QED
  BY <1>6, <1>7 DEF UploadInv

\* What a writer of ids leaves of the uploads.
LEMMA OvertakeEffect ==
  ASSUME Shape, NEW ids \in SUBSET RefIds, NEW by, upload' = Overtake(ids, by)
  PROVE  /\ upload' \in [Uploads -> [body : Seq(Item), status : Status, overtaken : SUBSET RefIds]]
         /\ \A v \in Uploads :
              /\ upload'[v].body = upload[v].body /\ upload'[v].status = upload[v].status
              /\ upload[v].overtaken \subseteq upload'[v].overtaken
              /\ v # by /\ upload[v].status # "idle" => ids \subseteq upload'[v].overtaken
              /\ v = by => upload'[v] = upload[v]
<1> DEFINE new(v) == IF v # by /\ upload[v].status # "idle"
                     THEN [upload[v] EXCEPT !.overtaken = @ \cup ids]
                     ELSE upload[v]
<1>1. upload' = [v \in Uploads |-> new(v)]
  BY DEF Overtake
<1>2. ASSUME NEW v \in Uploads
      PROVE  /\ new(v) \in [body : Seq(Item), status : Status, overtaken : SUBSET RefIds]
             /\ new(v).body = upload[v].body /\ new(v).status = upload[v].status
             /\ upload[v].overtaken \subseteq new(v).overtaken
             /\ v # by /\ upload[v].status # "idle" => ids \subseteq new(v).overtaken
             /\ v = by => new(v) = upload[v]
  <2>1. upload[v] \in [body : Seq(Item), status : Status, overtaken : SUBSET RefIds]
    BY DEF Shape
  <2>2. QED
    BY <2>1
<1> HIDE DEF new
<1>3. QED
  BY <1>1, <1>2

\* An upsert puts its own name at its id, and marks the other uploads of that id
\* overtaken.
LEMMA UpsertStep ==
  ASSUME UploadInv, NEW u \in Uploads, NEW n \in upserts[u], Upsert(u, n)
  PROVE  UploadInv'
<1>1. PICK i \in RefIds, name \in Skills :
        /\ i = Id(upload[u].body, n) /\ name = upload[u].body[n].name
        /\ name \in Given(upload[u].body, i)
  <2>1. n \in DOMAIN upload[u].body /\ upload[u].body \in Seq(Item)
    BY DEF UploadInv, Shape
  <2>2. QED
    BY <2>1, Items
<1>2. /\ upserts' = [upserts EXCEPT ![u] = @ \ {n}]
      /\ reference' = [reference EXCEPT ![i] = name]
      /\ upload' = Overtake({i}, u)
      /\ UNCHANGED <<skillsAnnotation, causesAnnotation>>
  BY <1>1 DEF Upsert, Id
<1>3. /\ reference \in [RefIds -> Skills \cup {Null}] /\ upserts \in [Uploads -> SUBSET Nat]
      /\ upload[u].status # "idle" /\ Shape
  BY DEF UploadInv, Shape
<1>4. {i} \in SUBSET RefIds
  OBVIOUS
<1>5. /\ upload' \in [Uploads -> [body : Seq(Item), status : Status, overtaken : SUBSET RefIds]]
      /\ \A v \in Uploads :
           /\ upload'[v].body = upload[v].body /\ upload'[v].status = upload[v].status
           /\ upload[v].overtaken \subseteq upload'[v].overtaken
           /\ v # u /\ upload[v].status # "idle" => {i} \subseteq upload'[v].overtaken
           /\ v = u => upload'[v] = upload[v]
  BY <1>2, <1>3, <1>4, OvertakeEffect, ZenonT(30)
<1>6. Shape'
  <2>1. reference' \in [RefIds -> Skills \cup {Null}]
    BY <1>2, <1>3
  <2>2. upserts' \in [Uploads -> SUBSET Nat] /\ \A v \in Uploads : upserts'[v] \subseteq upserts[v]
    BY <1>2, <1>3
  <2>3. QED
    BY <1>2, <1>5, <2>1, <2>2, ZenonT(30) DEF UploadInv, Shape
<1>7. ASSUME NEW v \in Uploads, upload'[v].status \in {"running", "stored"},
             NEW k \in DOMAIN upload'[v].body \ upserts'[v]
      PROVE  Stored(v, k)'
  <2>1. PICK body \in Seq(Item), j \in RefIds :
          body = upload[v].body /\ j = Id(body, k) /\ k \in DOMAIN body
    <3>1. upload[v].body \in Seq(Item) /\ k \in DOMAIN upload[v].body
      BY <1>5, <1>7 DEF UploadInv, Shape
    <3>2. QED
      BY <3>1, Items
  <2>2. body = upload'[v].body /\ upload[v].overtaken \subseteq upload'[v].overtaken
    BY <1>5, <2>1
  <2> SUFFICES ASSUME j \notin upload'[v].overtaken PROVE reference'[j] \in Given(body, j)
    BY <2>1, <2>2 DEF Stored
  <2>3. k \notin upserts[v] => reference[j] \in Given(body, j)
    BY <1>5, <1>7, <2>1, <2>2 DEF UploadInv, UpsertedIsThere, Stored
  <2>4. CASE v = u /\ j = i
    BY <1>1, <1>2, <1>3, <2>1, <2>4
  <2>5. CASE v = u /\ j # i
    <3>1. k \notin upserts[v]
      BY <1>1, <1>2, <1>3, <1>7, <2>1, <2>5
    <3>2. QED
      BY <1>2, <1>3, <2>3, <2>5, <3>1
  <2>6. CASE v # u
    <3>1. j # i /\ k \notin upserts[v]
      BY <1>2, <1>3, <1>5, <1>7, <2>6
    <3>2. QED
      BY <1>2, <1>3, <2>3, <3>1
  <2>7. QED
    BY <2>4, <2>5, <2>6
<1>8. QED
  BY <1>6, <1>7 DEF UploadInv, UpsertedIsThere

\* An upsert fails, or all have settled and the request is answered.
LEMMA SettleStep ==
  ASSUME UploadInv, NEW u \in Uploads, Answer(u) \/ \E n \in upserts[u] : UpsertFails(u, n)
  PROVE  UploadInv'
<1>1. PICK s \in {"failed", "stored"} : upload' = [upload EXCEPT ![u].status = s]
  BY DEF Answer, UpsertFails
<1>2. UNCHANGED <<skillsAnnotation, causesAnnotation, reference>>
  BY DEF Answer, UpsertFails
<1>3. /\ upserts' \in [Uploads -> SUBSET Nat]
      /\ \A v \in Uploads : upserts'[v] \subseteq upserts[v]
      /\ \A v \in Uploads \ {u} : upserts'[v] = upserts[v]
  <2>1. upserts' = upserts \/ \E n \in upserts[u] : upserts' = [upserts EXCEPT ![u] = @ \ {n}]
    BY DEF Answer, UpsertFails
  <2>2. upserts \in [Uploads -> SUBSET Nat]
    BY DEF UploadInv, Shape
  <2>3. QED
    BY <2>1, <2>2
<1>4. /\ upload' \in [Uploads -> [body : Seq(Item), status : Status, overtaken : SUBSET RefIds]]
      /\ \A v \in Uploads : /\ upload'[v].body = upload[v].body
                            /\ upload'[v].overtaken = upload[v].overtaken
                            /\ v # u => upload'[v].status = upload[v].status
      /\ upload'[u].status = s
  BY <1>1, ZenonT(30) DEF UploadInv, Shape, Status
<1>5. s = "stored" => upload[u].status = "running" /\ upserts[u] = {} /\ upserts'[u] = {}
  <2>1. s = "stored" => Answer(u)
    BY <1>4 DEF UpsertFails, UploadInv, Shape
  <2>2. QED
    BY <2>1 DEF Answer
<1>6. Shape'
  BY <1>2, <1>3, <1>4, <1>5 DEF UploadInv, Shape
<1>7. UpsertedIsThere'
  <2>1. ASSUME NEW v \in Uploads, upload'[v].status \in {"running", "stored"},
               NEW k \in DOMAIN upload'[v].body \ upserts'[v]
        PROVE  Stored(v, k)'
    <3>1. upload[v].status \in {"running", "stored"} /\ upserts'[v] = upserts[v]
      BY <1>3, <1>4, <1>5, <2>1
    <3>2. Stored(v, k)
      BY <1>4, <2>1, <3>1 DEF UploadInv, UpsertedIsThere
    <3>3. QED
      BY <1>2, <1>4, <3>2 DEF Stored
  <2>2. QED
    BY <2>1 DEF UpsertedIsThere
<1>8. QED
  BY <1>6, <1>7 DEF UploadInv

\* A sync overtakes every upload for the ids it writes.
LEMMA SyncStep ==
  ASSUME UploadInv, NEW data \in Lightcast, SyncSkills(data)
  PROVE  UploadInv'
<1> DEFINE new == ITSkills(data)
           ids == {s.id : s \in new}
           name(i) == (CHOOSE s \in new : s.id = i).name
<1>1. /\ reference' = [i \in RefIds |-> IF i \in ids THEN name(i) ELSE reference[i]]
      /\ upload' = Overtake(ids, Null)
      /\ UNCHANGED <<skillsAnnotation, causesAnnotation, upserts>>
  BY DEF SyncSkills
<1>2. new \subseteq [id : RefIds, name : Skills, category : Nat]
  BY BodyAssumption DEF ITSkills
<1>3. ids \in SUBSET RefIds /\ \A i \in ids : name(i) \in Skills
  BY <1>2
<1> HIDE DEF ids, name
<1>4. Null \notin Uploads /\ Shape
  BY NullAssumption DEF UploadInv
<1>5. /\ upload' \in [Uploads -> [body : Seq(Item), status : Status, overtaken : SUBSET RefIds]]
      /\ \A v \in Uploads :
           /\ upload'[v].body = upload[v].body /\ upload'[v].status = upload[v].status
           /\ upload[v].overtaken \subseteq upload'[v].overtaken
           /\ v # Null /\ upload[v].status # "idle" => ids \subseteq upload'[v].overtaken
           /\ v = Null => upload'[v] = upload[v]
  BY <1>1, <1>3, <1>4, OvertakeEffect
<1>6. Shape'
  <2>1. reference' \in [RefIds -> Skills \cup {Null}]
    BY <1>1, <1>3, <1>4 DEF Shape
  <2>2. QED
    BY <1>1, <1>5, <2>1 DEF UploadInv, Shape
<1>7. ASSUME NEW v \in Uploads, upload'[v].status \in {"running", "stored"},
             NEW k \in DOMAIN upload'[v].body \ upserts'[v]
      PROVE  Stored(v, k)'
  <2>1. PICK body \in Seq(Item), j \in RefIds :
          body = upload[v].body /\ j = Id(body, k) /\ k \in DOMAIN body
    <3>1. upload[v].body \in Seq(Item) /\ k \in DOMAIN upload[v].body
      BY <1>5, <1>7 DEF UploadInv, Shape
    <3>2. QED
      BY <3>1, Items
  <2>2. /\ body = upload'[v].body /\ upload[v].overtaken \subseteq upload'[v].overtaken
        /\ ids \subseteq upload'[v].overtaken
    BY <1>4, <1>5, <1>7, <2>1
  <2> SUFFICES ASSUME j \notin upload'[v].overtaken PROVE reference'[j] \in Given(body, j)
    BY <2>1, <2>2 DEF Stored
  <2>3. reference[j] \in Given(body, j)
    BY <1>1, <1>5, <1>7, <2>1, <2>2 DEF UploadInv, UpsertedIsThere, Stored
  <2>4. QED
    BY <1>1, <2>2, <2>3
<1>8. QED
  BY <1>6, <1>7 DEF UploadInv, UpsertedIsThere

\* Every step keeps what an upload has upserted in the table, or marks it overtaken.
LEMMA UploadNext == UploadInv /\ [Next]_vars => UploadInv'
<1> SUFFICES ASSUME UploadInv, [Next]_vars PROVE UploadInv'
  OBVIOUS
<1>1. CASE UNCHANGED vars
  BY <1>1, AnnotationStep DEF vars, UploadInv, Shape
<1>2. ASSUME NEW n \in Skills, NEW row, AnnotateSkill(n, row) PROVE UploadInv'
  <2>1. row \in Annotations(Skills) \cup {Null}
    BY <1>2, RowAssumption DEF AnnotateSkill
  <2>2. QED
    BY <1>2, <2>1, AnnotationStep DEF AnnotateSkill, UploadInv, Shape
<1>3. ASSUME NEW n \in Causes, NEW row, AnnotateCause(n, row) PROVE UploadInv'
  <2>1. row \in Annotations(Causes) \cup {Null}
    BY <1>3, RowAssumption DEF AnnotateCause
  <2>2. QED
    BY <1>3, <2>1, AnnotationStep DEF AnnotateCause, UploadInv, Shape
<1>4. QED
  BY <1>1, <1>2, <1>3, StartStep, UpsertStep, SettleStep, SyncStep DEF Next

\* In every reachable state, what an upload has upserted is in the table unless
\* overtaken.
THEOREM Invariance == Spec => []UploadInv
BY UploadInit, UploadNext, PTL DEF Spec

-----------------------------------------------------------------------------
(* The views *)

\* The offered rows of the view are those of the names, labelled as the annotations
\* say.
Shows(view, row, A, names) ==
  /\ {v \in view : v.suggest = TRUE /\ v.rejectAs = Null} = {row[n] : n \in names}
  /\ \A n \in names : row[n].canonical = Label(A, n) /\ row[n].priority = First(A, n)

\* GROUP BY canonical is one entry per label, with priority if any of its rows has it.
LEMMA Grouped ==
  ASSUME NEW view, NEW row, NEW A, NEW names, Shows(view, row, A, names)
  PROVE  Suggested(view) = Entries(A, names)
<1> USE DEF Shows
<1> DEFINE offered == {v \in view : v.suggest = TRUE /\ v.rejectAs = Null}
           first(c) == \E v \in offered : v.canonical = c /\ v.priority
           entry(c) == [canonical |-> c, priority |-> first(c)]
           labels == {v.canonical : v \in offered}
<1>1. Suggested(view) = {entry(c) : c \in labels}
  BY DEF Suggested
<1>2. labels = {Label(A, n) : n \in names}
  OBVIOUS
<1>3. \A n \in names : first(Label(A, n)) =
                         (\E m \in names : Label(A, m) = Label(A, n) /\ First(A, m))
  OBVIOUS
<1> DEFINE rec(n) == [canonical |-> Label(A, n),
                      priority |-> \E m \in names : Label(A, m) = Label(A, n) /\ First(A, m)]
<1> HIDE DEF offered, first, labels
<1>4. \A n \in names : entry(Label(A, n)) = rec(n)
  BY <1>3
<1>5. Entries(A, names) = {rec(n) : n \in names}
  BY DEF Entries
<1> HIDE DEF entry, rec
<1>6. QED
  BY <1>1, <1>2, <1>4, <1>5

\* One row of SkillsView: offered when the editors say so, under its label.
LEMMA SkillRow ==
  ASSUME Shape, NEW n \in Skills
  PROVE  LET row == SkillsViewRow(n, skillsAnnotation[n], IF n \in Referenced THEN n ELSE Null)
         IN  /\ (n \in Referenced \/ skillsAnnotation[n] # Null)
                  /\ row.suggest = TRUE /\ row.rejectAs = Null <=> Offered(n)
             /\ Offered(n) => /\ row.canonical = Label(skillsAnnotation, n)
                              /\ row.priority = First(skillsAnnotation, n)
<1> DEFINE a == skillsAnnotation[n]
           rs == IF n \in Referenced THEN n ELSE Null
           row == SkillsViewRow(n, a, rs)
<1>1. /\ a = Null \/ a \in Annotations(Skills)
      /\ Null \notin Annotations(Skills) /\ n # Null /\ Null \notin BOOLEAN
  BY NullAssumption DEF Shape
<1>2. rs # Null <=> n \in Referenced
  BY <1>1
<1>3. CASE a = Null
  <2>1. /\ row.canonical = rs /\ row.suggest = (rs # Null) /\ row.rejectAs = Null
        /\ row.priority = FALSE
    BY <1>3 DEF SkillsViewRow, Coalesce
  <2>2. Label(skillsAnnotation, n) = n /\ First(skillsAnnotation, n) = FALSE
    BY <1>3 DEF Label, First
  <2>3. Offered(n) <=> n \in Referenced
    BY <1>3 DEF Offered
  <2> HIDE DEF row
  <2>4. QED
    BY <1>2, <1>3, <2>1, <2>2, <2>3 DEF row
<1>4. CASE a \in Annotations(Skills)
  <2>1. /\ a.suggest \in BOOLEAN \cup {Null} /\ a.priority \in BOOLEAN \cup {Null}
        /\ a # Null
    BY <1>1, <1>4 DEF Annotations
  <2>2. /\ row.canonical = IF a.suggest = TRUE THEN Coalesce(a.canonical, n) ELSE Coalesce(a.canonical, rs)
        /\ row.suggest = Coalesce(a.suggest, rs # Null) /\ row.rejectAs = a.rejectAs
        /\ row.priority = Coalesce(a.priority, FALSE)
    BY <2>1 DEF SkillsViewRow
  <2>3. Offered(n) <=> a.rejectAs = Null /\ (a.suggest = TRUE \/ (a.suggest = Null /\ n \in Referenced))
    BY <2>1 DEF Offered
  <2>4. /\ Label(skillsAnnotation, n) = IF a.canonical # Null THEN a.canonical ELSE n
        /\ First(skillsAnnotation, n) = (a.priority = TRUE)
    BY <2>1 DEF Label, First
  <2>5. row.suggest = TRUE <=> (a.suggest = TRUE \/ (a.suggest = Null /\ n \in Referenced))
    <3>1. CASE a.suggest = Null
      <4>1. row.suggest = (rs # Null) /\ TRUE # Null
        BY <1>1, <2>2, <3>1 DEF Coalesce
      <4>2. QED
        BY <1>2, <3>1, <4>1
    <3>2. CASE a.suggest # Null
      BY <2>2, <3>2 DEF Coalesce
    <3>3. QED
      BY <3>1, <3>2
  <2>6. row.priority = First(skillsAnnotation, n)
    BY <1>1, <2>1, <2>2, <2>4 DEF Coalesce
  <2>7. Offered(n) => row.canonical = Label(skillsAnnotation, n)
    BY <1>2, <2>2, <2>3, <2>4 DEF Coalesce
  <2> HIDE DEF row
  <2>8. QED
    BY <2>1, <2>2, <2>3, <2>5, <2>6, <2>7 DEF row
<1>5. QED
  BY <1>1, <1>3, <1>4

\* The skills view, grouped, is the reference definition.
LEMMA SkillsGrouped == Shape => SkillsAsAnnotated
<1> SUFFICES ASSUME Shape PROVE SkillsAsAnnotated
  OBVIOUS
<1> DEFINE row == [n \in Skills |->
             SkillsViewRow(n, skillsAnnotation[n], IF n \in Referenced THEN n ELSE Null)]
           there == {m \in Skills : m \in Referenced \/ skillsAnnotation[m] # Null}
           names == {n \in Skills : Offered(n)}
<1>1. SkillsView = {row[n] : n \in there}
  BY DEF SkillsView
<1>2. \A n \in Skills :
        /\ n \in there /\ row[n].suggest = TRUE /\ row[n].rejectAs = Null <=> n \in names
        /\ n \in names => /\ row[n].canonical = Label(skillsAnnotation, n)
                          /\ row[n].priority = First(skillsAnnotation, n)
  BY SkillRow
<1>3. there \subseteq Skills /\ names \subseteq Skills
  OBVIOUS
<1> HIDE DEF row, there, names
<1>4. {v \in SkillsView : v.suggest = TRUE /\ v.rejectAs = Null} = {row[n] : n \in names}
  BY <1>1, <1>2, <1>3
<1>5. \A n \in names : /\ row[n].canonical = Label(skillsAnnotation, n)
                       /\ row[n].priority = First(skillsAnnotation, n)
  BY <1>2, <1>3
<1>6. Suggested(SkillsView) = Entries(skillsAnnotation, names)
  <2>1. Shows(SkillsView, row, skillsAnnotation, names)
    BY <1>4, <1>5 DEF Shows
  <2>2. QED
    BY <2>1, Grouped
<1>7. QED
  BY <1>6 DEF SkillsAsAnnotated, getSkills, names

\* The causes view, grouped, is the reference definition.
LEMMA CausesGrouped == Shape => CausesAsAnnotated
<1> SUFFICES ASSUME Shape PROVE CausesAsAnnotated
  OBVIOUS
<1> DEFINE A == causesAnnotation
           row == [n \in Causes |->
             [canonical |-> IF A[n].suggest = TRUE THEN Coalesce(A[n].canonical, n) ELSE A[n].canonical,
              suggest |-> A[n].suggest, rejectAs |-> A[n].rejectAs,
              priority |-> Coalesce(A[n].priority, FALSE)]]
           there == {m \in Causes : A[m] # Null}
           names == {n \in Causes : A[n] # Null /\ A[n].suggest = TRUE /\ A[n].rejectAs = Null}
<1>1. CausesView = {row[n] : n \in there}
  BY DEF CausesView
<1>2. ASSUME NEW n \in Causes
      PROVE  /\ row[n].suggest = A[n].suggest /\ row[n].rejectAs = A[n].rejectAs
             /\ n \in names => /\ row[n].canonical = Label(A, n)
                               /\ row[n].priority = First(A, n)
  <2>1. /\ row[n].suggest = A[n].suggest /\ row[n].rejectAs = A[n].rejectAs
        /\ row[n].canonical = IF A[n].suggest = TRUE THEN Coalesce(A[n].canonical, n) ELSE A[n].canonical
        /\ row[n].priority = Coalesce(A[n].priority, FALSE)
    OBVIOUS
  <2>2. n \in names => /\ A[n] # Null /\ A[n].suggest = TRUE
                       /\ A[n].priority \in BOOLEAN \cup {Null} /\ Null \notin BOOLEAN
    BY NullAssumption DEF Shape, Annotations
  <2> HIDE DEF row, names
  <2>3. QED
    BY <2>1, <2>2 DEF Label, First, Coalesce
<1>3. names = {n \in there : A[n].suggest = TRUE /\ A[n].rejectAs = Null} /\ there \subseteq Causes
  OBVIOUS
<1> HIDE DEF row, there, names
<1>4. {v \in CausesView : v.suggest = TRUE /\ v.rejectAs = Null} = {row[n] : n \in names}
  BY <1>1, <1>2, <1>3
<1>5. \A n \in names : row[n].canonical = Label(A, n) /\ row[n].priority = First(A, n)
  BY <1>2, <1>3
<1>6. Suggested(CausesView) = Entries(A, names)
  <2>1. Shows(CausesView, row, A, names)
    BY <1>4, <1>5 DEF Shows
  <2>2. QED
    BY <2>1, Grouped
<1>7. QED
  BY <1>6 DEF CausesAsAnnotated, getCauses, names

-----------------------------------------------------------------------------
(* The theorems *)

\* Type correctness: an upload that is answered has no upsert left.
THEOREM TypeCorrect == Spec => []TypeOK
<1>1. UploadInv => TypeOK
  BY DEF UploadInv, Shape, TypeOK, Status
<1>2. QED
  BY Invariance, <1>1, PTL

\* GET /skills answers what the editors decided.
THEOREM SkillsCorrect == Spec => []SkillsAsAnnotated
BY Invariance, SkillsGrouped, PTL DEF UploadInv

\* GET /causes answers what the editors decided.
THEOREM CausesCorrect == Spec => []CausesAsAnnotated
BY Invariance, CausesGrouped, PTL DEF UploadInv

\* A reference set that was answered 200 is in the table, and its names are offered
\* or decided on.
THEOREM UploadsCorrect == Spec => []UploadTakesEffect
<1>1. UploadInv => UploadTakesEffect
  <2> SUFFICES ASSUME UploadInv, NEW u \in Uploads, upload[u].status = "stored",
                      NEW n \in DOMAIN upload[u].body,
                      Id(upload[u].body, n) \notin upload[u].overtaken
               PROVE  LET i == Id(upload[u].body, n)
                      IN  /\ reference[i] \in Given(upload[u].body, i)
                          /\ skillsAnnotation[reference[i]] = Null =>
                               \E s \in getSkills : s.canonical = reference[i]
    BY DEF UploadTakesEffect, Id, Given
  <2>1. PICK i \in RefIds : i = Id(upload[u].body, n)
    BY Items DEF UploadInv, Shape
  <2>2. reference[i] \in Given(upload[u].body, i)
    BY <2>1 DEF UploadInv, Shape, UpsertedIsThere, Stored
  <2>3. reference[i] \in Skills
    BY <2>2, Items DEF UploadInv, Shape, Given
  <2>4. ASSUME skillsAnnotation[reference[i]] = Null
        PROVE  \E s \in getSkills : s.canonical = reference[i]
    <3> DEFINE m == reference[i]
    <3>1. m \in Referenced
      BY <2>3, NullAssumption DEF Referenced
    <3>2. Offered(m) /\ Label(skillsAnnotation, m) = m
      BY <2>4, <3>1 DEF Offered, Label
    <3>3. \E s \in Entries(skillsAnnotation, {k \in Skills : Offered(k)}) : s.canonical = m
      <4> DEFINE names == {k \in Skills : Offered(k)}
                 first(k) == \E j \in names : Label(skillsAnnotation, j) = Label(skillsAnnotation, k)
                                              /\ First(skillsAnnotation, j)
                 entry(k) == [canonical |-> Label(skillsAnnotation, k), priority |-> first(k)]
      <4>1. Entries(skillsAnnotation, names) = {entry(k) : k \in names}
        BY DEF Entries
      <4>2. m \in names
        BY <2>3, <3>2
      <4> HIDE DEF first
      <4>3. entry(m).canonical = m
        BY <3>2
      <4> HIDE DEF names, entry
      <4>4. QED
        BY <4>1, <4>2, <4>3 DEF names
    <3>4. QED
      BY <3>3, SkillsGrouped DEF UploadInv, SkillsAsAnnotated
  <2>5. QED
    BY <2>1, <2>2, <2>4
<1>2. QED
  BY Invariance, <1>1, PTL
=============================================================================
