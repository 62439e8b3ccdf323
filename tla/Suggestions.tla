----------------------------- MODULE Suggestions -----------------------------
(***************************************************************************)
(* GET /skills and GET /causes: the two views over the editors' annotations *)
(* and the reference skills, the queries over the views, and the two ways  *)
(* reference skills are written: POST /skills/referenceSet, whose upserts  *)
(* run concurrently under one Promise.all, and the skillSync script, one   *)
(* statement.                                                              *)
(*                                                                         *)
(* Names are CITEXT: a name is a class of spellings that differ in case    *)
(* only.  SQL's NULL is Null; an annotation is absent when it is Null.     *)
(***************************************************************************)
EXTENDS Naturals, FiniteSets, Sequences

CONSTANTS
  Skills, Causes,            \* names
  RefIds,                    \* ReferenceSkills.referenceId
  Uploads,                   \* request slots of POST /skills/referenceSet
  Bodies,                    \* their bodies: sequences of [referenceId, name]
  Lightcast,                 \* the answers of the Lightcast API: [id, name, category]
  SkillRows, CauseRows,      \* what the editors write about a name
  Null

Annotations(names) ==
  [canonical : names \cup {Null}, suggest : BOOLEAN \cup {Null},
   rejectAs : {"reason", Null}, priority : BOOLEAN \cup {Null}]

ASSUME RowAssumption == /\ SkillRows \subseteq Skills \X Annotations(Skills)
                        /\ CauseRows \subseteq Causes \X Annotations(Causes)

\* zod's Skills schema, and what the Lightcast API is typed as.
ASSUME BodyAssumption ==
  /\ Bodies \subseteq Seq([referenceId : RefIds, name : Skills])
  /\ \A data \in Lightcast : data \subseteq [id : RefIds, name : Skills, category : Nat]

ASSUME NullAssumption ==
  Null \notin UNION {Skills, Causes, Uploads, BOOLEAN, Annotations(Skills), Annotations(Causes)}

VARIABLES
  skillsAnnotation,  \* SkillsAnnotation: a row or Null for each name
  causesAnnotation,  \* CausesAnnotation
  reference,         \* ReferenceSkills: the name of each id, or Null
  upserts,           \* the upserts of each upload that have not settled
  upload             \* each upload: its body, and how it was answered

vars == <<skillsAnnotation, causesAnnotation, reference, upserts, upload>>

NoUpload == [body |-> <<>>, status |-> "idle", overtaken |-> {}]

Init ==
  /\ skillsAnnotation = [n \in Skills |-> Null]
  /\ causesAnnotation = [n \in Causes |-> Null]
  /\ reference = [i \in RefIds |-> Null]
  /\ upserts = [u \in Uploads |-> {}]
  /\ upload = [u \in Uploads |-> NoUpload]

-----------------------------------------------------------------------------
(* The views *)

Coalesce(a, b) == IF a # Null THEN a ELSE b
Referenced == {reference[i] : i \in RefIds} \ {Null}

\* One row of SkillsView: sa is the annotation of the name or Null, rs its name
\* in ReferenceSkills or Null (FULL JOIN ... ON sa.name = rs.name).
SkillsViewRow(n, sa, rs) ==
  [canonical |-> IF sa # Null THEN IF sa.suggest = TRUE THEN Coalesce(sa.canonical, n)
                                                        ELSE Coalesce(sa.canonical, rs)
                 ELSE rs,
   suggest |-> Coalesce(IF sa # Null THEN sa.suggest ELSE Null, rs # Null),
   rejectAs |-> IF sa # Null THEN sa.rejectAs ELSE Null,
   priority |-> Coalesce(IF sa # Null THEN sa.priority ELSE Null, FALSE)]

\* Faulty variant: an inner join.
SkillsViewInner ==
  {SkillsViewRow(n, skillsAnnotation[n], IF n \in Referenced THEN n ELSE Null) :
     n \in {m \in Referenced : skillsAnnotation[m] # Null}}

SkillsView ==
  {SkillsViewRow(n, skillsAnnotation[n], IF n \in Referenced THEN n ELSE Null) :
     n \in {m \in Skills : m \in Referenced \/ skillsAnnotation[m] # Null}}

\* Faulty variant: a cause nobody has decided on counts as suggested.
CausesViewUndecided ==
  {LET a == causesAnnotation[n]
   IN  [canonical |-> Coalesce(a.canonical, n), suggest |-> Coalesce(a.suggest, TRUE),
        rejectAs |-> a.rejectAs, priority |-> Coalesce(a.priority, FALSE)] :
     n \in {m \in Causes : causesAnnotation[m] # Null}}

CausesView ==
  {LET a == causesAnnotation[n]
   IN  [canonical |-> IF a.suggest = TRUE THEN Coalesce(a.canonical, n) ELSE a.canonical,
        suggest |-> a.suggest,
        rejectAs |-> a.rejectAs,
        priority |-> Coalesce(a.priority, FALSE)] :
     n \in {m \in Causes : causesAnnotation[m] # Null}}

\* WHERE suggest = true AND "rejectAs" IS NULL GROUP BY canonical, with priority
\* when any row of the group has it.
Suggested(view) ==
  LET offered == {v \in view : v.suggest = TRUE /\ v.rejectAs = Null}
  IN  {[canonical |-> c,
        priority |-> \E v \in offered : v.canonical = c /\ v.priority] :
         c \in {v.canonical : v \in offered}}

getSkills == Suggested(SkillsView)
getCauses == Suggested(CausesView)

-----------------------------------------------------------------------------
(* Writers *)

\* The editors' tool (external) writes or withdraws an annotation.
AnnotateSkill(n, row) ==
  /\ row = Null \/ <<n, row>> \in SkillRows
  /\ skillsAnnotation' = [skillsAnnotation EXCEPT ![n] = row]
  /\ UNCHANGED <<causesAnnotation, reference, upserts, upload>>

AnnotateCause(n, row) ==
  /\ row = Null \/ <<n, row>> \in CauseRows
  /\ causesAnnotation' = [causesAnnotation EXCEPT ![n] = row]
  /\ UNCHANGED <<skillsAnnotation, reference, upserts, upload>>

\* createReferenceSkills starts all its upserts at once.
StartUpload(u, body) ==
  /\ upload[u].status = "idle"
  /\ upload' = [upload EXCEPT ![u] = [NoUpload EXCEPT !.body = body, !.status = "running"]]
  /\ upserts' = [upserts EXCEPT ![u] = DOMAIN body]
  /\ UNCHANGED <<skillsAnnotation, causesAnnotation, reference>>

\* Whoever writes an id after or beside an upload takes it over (a ghost: the
\* uploads remember which of their ids others have written).
Overtake(ids, by) ==
  [u \in Uploads |-> IF u # by /\ upload[u].status # "idle"
                     THEN [upload[u] EXCEPT !.overtaken = @ \cup ids]
                     ELSE upload[u]]

\* One upsert, by referenceId.  It runs on when the request has failed already.
Upsert(u, n) ==
  LET item == upload[u].body[n]
  IN  /\ n \in upserts[u]
      /\ upserts' = [upserts EXCEPT ![u] = @ \ {n}]
      /\ reference' = [reference EXCEPT ![item.referenceId] = item.name]
      /\ upload' = Overtake({item.referenceId}, u)
      /\ UNCHANGED <<skillsAnnotation, causesAnnotation>>

\* The first upsert that fails rejects Promise.all: the request is answered 500.
UpsertFails(u, n) ==
  /\ n \in upserts[u]
  /\ upserts' = [upserts EXCEPT ![u] = @ \ {n}]
  /\ upload' = [upload EXCEPT ![u].status = "failed"]
  /\ UNCHANGED <<skillsAnnotation, causesAnnotation, reference>>

\* Faulty variant: forEach(async ...) instead of Promise.all(map(...)): the
\* request is answered while its upserts run.
AnswerAtOnce(u) ==
  /\ upload[u].status = "running"
  /\ upload' = [upload EXCEPT ![u].status = "stored"]
  /\ UNCHANGED <<skillsAnnotation, causesAnnotation, reference, upserts>>

\* successCount, 200
Answer(u) ==
  /\ upload[u].status = "running"
  /\ upserts[u] = {}
  /\ upload' = [upload EXCEPT ![u].status = "stored"]
  /\ UNCHANGED <<skillsAnnotation, causesAnnotation, reference, upserts>>

\* category "Information Technology" or "Design"
ITSkills(data) == {s \in data : s.category \in {17, 7}}

\* One INSERT ... ON CONFLICT DO UPDATE of everything Lightcast answers: its ids
\* are unique.
SyncSkills(data) ==
  LET new == ITSkills(data)
      ids == {s.id : s \in new}
  IN  /\ reference' = [i \in RefIds |-> IF i \in ids
                         THEN (CHOOSE s \in new : s.id = i).name ELSE reference[i]]
      /\ upload' = Overtake(ids, Null)
      /\ UNCHANGED <<skillsAnnotation, causesAnnotation, upserts>>

Next ==
  \/ \E n \in Skills, row \in {s[2] : s \in SkillRows} \cup {Null} : AnnotateSkill(n, row)
  \/ \E n \in Causes, row \in {c[2] : c \in CauseRows} \cup {Null} : AnnotateCause(n, row)
  \/ \E u \in Uploads, body \in Bodies : StartUpload(u, body)
  \/ \E u \in Uploads : \E n \in upserts[u] : Upsert(u, n)
  \/ \E u \in Uploads : \E n \in upserts[u] : UpsertFails(u, n)
  \/ \E u \in Uploads : Answer(u)
  \/ \E data \in Lightcast : SyncSkills(data)

Spec == Init /\ [][Next]_vars

-----------------------------------------------------------------------------
TypeOK ==
  /\ skillsAnnotation \in [Skills -> Annotations(Skills) \cup {Null}]
  /\ causesAnnotation \in [Causes -> Annotations(Causes) \cup {Null}]
  /\ reference \in [RefIds -> Skills \cup {Null}]
  /\ \A u \in Uploads :
       /\ upload[u].status \in {"idle", "running", "failed", "stored"}
       /\ upserts[u] \subseteq DOMAIN upload[u].body
       /\ upload[u].status \in {"idle", "stored"} => upserts[u] = {}

-----------------------------------------------------------------------------
(* What editors and administrators are entitled to *)

\* An annotated name is offered when the editors say so, or leave it open and the
\* reference set has it; a rejected name is not; any other name of the reference
\* set is.
Offered(n) ==
  LET a == skillsAnnotation[n]
  IN  IF a = Null THEN n \in Referenced
      ELSE a.rejectAs = Null /\ (a.suggest = TRUE \/ (a.suggest = Null /\ n \in Referenced))

\* What a name is shown as, and whether it comes first.
Label(A, n) == IF A[n] # Null /\ A[n].canonical # Null THEN A[n].canonical ELSE n
First(A, n) == A[n] # Null /\ A[n].priority = TRUE

Entries(A, names) ==
  {[canonical |-> Label(A, n),
    priority |-> \E m \in names : Label(A, m) = Label(A, n) /\ First(A, m)] : n \in names}

\* Through the outer join, the three-valued conditions and the grouping, GET
\* /skills answers what the editors decided: each label once, never without a
\* name, first when any of the names it stands for is.
SkillsAsAnnotated == getSkills = Entries(skillsAnnotation, {n \in Skills : Offered(n)})

\* GET /causes likewise; causes are offered only when the editors say so.
CausesAsAnnotated ==
  getCauses = Entries(causesAnnotation,
    {n \in Causes : /\ causesAnnotation[n] # Null
                    /\ causesAnnotation[n].suggest = TRUE
                    /\ causesAnnotation[n].rejectAs = Null})

\* A reference set answered 200 is stored: every id in it has a name the body gave
\* it, unless another upload or a sync wrote that id after or beside it; so its
\* names are offered or the editors decided otherwise, whatever upserts of other
\* uploads, failed ones included, still run.
UploadTakesEffect ==
  \A u \in Uploads : upload[u].status = "stored" =>
    \A n \in DOMAIN upload[u].body :
      LET i == upload[u].body[n].referenceId
      IN  i \notin upload[u].overtaken =>
            /\ reference[i] \in {upload[u].body[k].name :
                  k \in {j \in DOMAIN upload[u].body : upload[u].body[j].referenceId = i}}
            /\ skillsAnnotation[reference[i]] = Null =>
                 \E s \in getSkills : s.canonical = reference[i]
=============================================================================
