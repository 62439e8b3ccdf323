---------------------------- MODULE MCSuggestions ----------------------------
(***************************************************************************)
(* Values for Suggestions: the annotations that tell the cases of the      *)
(* views apart, for a name and the name it may be shown as, and uploads    *)
(* that write the same ids, or one id twice.                               *)
(***************************************************************************)
EXTENDS Suggestions, TLC

CONSTANTS js, javascript, climate, climateChange, ref1, ref2, up1, up2

Annotation(canonical, suggest, rejectAs, priority) ==
  [canonical |-> canonical, suggest |-> suggest, rejectAs |-> rejectAs,
   priority |-> priority]

\* Undecided, decided and rejected, with and without a name to be shown as.
Telling(n, m) ==
  {<<n, Annotation(c, s, Null, TRUE)>> : c \in {m, Null}, s \in BOOLEAN \cup {Null}}
  \cup {<<n, Annotation(m, s, "reason", Null)>> : s \in {TRUE, Null}}

MCSkillRows == Telling(js, javascript) \cup
               {<<javascript, Annotation(Null, TRUE, Null, FALSE)>>,
                <<javascript, Annotation(Null, Null, Null, Null)>>}
MCCauseRows == {<<climate, Annotation(climateChange, TRUE, Null, TRUE)>>,
                <<climate, Annotation(Null, Null, Null, FALSE)>>,
                <<climateChange, Annotation(Null, TRUE, Null, Null)>>}

Symmetry == Permutations(Uploads)

Item(i, n) == [referenceId |-> i, name |-> n]
MCBodies == {<<Item(ref1, js), Item(ref2, javascript)>>,
             <<Item(ref1, javascript), Item(ref1, js)>>}

Skill(i, n, c) == [id |-> i, name |-> n, category |-> c]
MCLightcast == {{Skill(ref1, javascript, 17), Skill(ref2, js, 4)}}
=============================================================================
