SPECIFICATION Spec
CONSTANTS
  r1 = r1
  r2 = r2
  r3 = r3
  e1 = e1
  e2 = e2
  u1 = u1
  u2 = u2
  u3 = u3
  None = None
  Ops <- SubmitOps
  Requests = {r1, r2, r3}
  Emails = {e1, e2}
  Auth0Ids = {u1, u2}
  ApplicantIds = {1, 10}
  UploadIds = {1, 2}
  SessionsExpire = FALSE
  PageSize = 1
  InitialApplicants <- PrefixedIds
  InitialUploads <- OneUploadEach
  StartApplicantId = 10
  StartUploadId = 2
SYMMETRY Symmetry
INVARIANT AcknowledgedIsKept
INVARIANT DeletionLeavesNoObjects
 
CHECK_DEADLOCK FALSE
