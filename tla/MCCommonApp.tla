---------------------------- MODULE MCCommonApp ----------------------------
(***************************************************************************)
(* Values for the constants of CommonAppApi: small databases to start from *)
(* and the kinds of request each run lets clients issue.                   *)
(***************************************************************************)
EXTENDS CommonAppInvariants, TLC

CONSTANTS r1, r2, r3, e1, e2, u1, u2, u3

Symmetry == Permutations(Requests)

NoApplicants == {}
OneApplicant == {[id |-> 1, email |-> e1, auth0Id |-> u1, isPaused |-> FALSE]}
TwoApplicants(i, j) ==
  {[id |-> i, email |-> e1, auth0Id |-> u1, isPaused |-> FALSE],
   [id |-> j, email |-> e2, auth0Id |-> u2, isPaused |-> FALSE]}
PrefixedIds == TwoApplicants(1, 10)

NoUploads == {}
Uploaded(n, i) == [id |-> n, applicantId |-> i, status |-> "SUCCESS"]
OneUpload == {Uploaded(1, 1)}
OneUploadEach == {Uploaded(1, 1), Uploaded(2, 10)}
UploadOfTen == {Uploaded(1, 10)}

AllOps == {"register", "registerWithJwt", "deleteMe", "deleteForce", "createUpload",
           "completeUpload", "draft", "createSubmission", "updateSubmission",
           "pause", "relink"}
IdentityOps == {"register", "registerWithJwt", "deleteMe", "createUpload"}
RegisterOnly == {"register"}
DeleteOnly == {"deleteMe"}
ForceOnly == {"deleteForce"}
ErasureOps == {"deleteMe", "deleteForce", "createUpload", "draft"}
ResumeOps == {"createUpload", "completeUpload", "draft", "createSubmission",
              "updateSubmission"}
SubmitOps == {"createSubmission", "updateSubmission", "deleteMe", "deleteForce"}
=============================================================================
