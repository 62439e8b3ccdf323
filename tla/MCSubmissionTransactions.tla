---------------------- MODULE MCSubmissionTransactions ----------------------
(***************************************************************************)
(* Values for SubmissionTransactions: bodies whose names overlap in every  *)
(* order, and a database with one submission and one known skill.          *)
(***************************************************************************)
EXTENDS SubmissionTransactions

CONSTANTS a1, a2, org, test, known, new1, new2, cause

Submitted(op, who, skills, causes) ==
  [op |-> op, who |-> who, skills |-> skills, causes |-> causes]

MCBodies ==
  {Submitted("createSubmission", a1, <<new1, new2>>, <<cause>>),
   Submitted("createSubmission", a1, <<known, new1>>, <<>>),
   Submitted("createSubmission", a2, <<new2, new1>>, <<>>),
   Submitted("updateSubmission", a1, <<new1>>, <<cause>>),
   Submitted("updateSubmission", a2, <<new2, known>>, <<cause>>),
   Submitted("createBatch", org, <<new1, known>>, <<cause>>),
   Submitted("createBatch", test, <<known, new1>>, <<>>)}

MCInitialRows ==
  {[table |-> "ApplicantSubmission", key |-> a2],
   [table |-> "ApplicantSkills", key |-> known],
   [table |-> "OpportunitySkills", key |-> known]}
=============================================================================
