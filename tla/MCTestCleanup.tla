--------------------------- MODULE MCTestCleanup ---------------------------
(***************************************************************************)
(* Three test users and somebody else, one of the test users and the other *)
(* with a resume, in batches of two.  Meanwhile one of them deletes the    *)
(* own account or signs up again, or an administrator deletes one.         *)
(***************************************************************************)
EXTENDS TestCleanup

CONSTANTS c, d1, d2, d3, d4, d5, t1, t2, t3, e, u1, u2, u3, u4, u5

Applicants ==
  {[id |-> 1, email |-> t1, auth0Id |-> u1, isPaused |-> FALSE],
   [id |-> 2, email |-> t2, auth0Id |-> u2, isPaused |-> FALSE],
   [id |-> 3, email |-> t3, auth0Id |-> u3, isPaused |-> FALSE],
   [id |-> 4, email |-> e, auth0Id |-> u4, isPaused |-> FALSE]}

Uploads == {[id |-> 1, applicantId |-> 1, status |-> "SUCCESS"],
            [id |-> 2, applicantId |-> 4, status |-> "SUCCESS"]}

Slots == <<d1, d2, d3, d4, d5>>
CleanupOps == {"register", "deleteMe", "deleteForce"}
=============================================================================
