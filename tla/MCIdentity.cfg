SPECIFICATION Spec
CONSTANTS
  r1 = r1
  r2 = r2
  r3 = r3
  e1 = e1
  e2 = e2
  u1 = u1
  u2 = u2
  u3 = u3
  None = None
  Ops <- IdentityOps
  Requests = {r1, r2, r3}
  Emails = {e1, e2}
  Auth0Ids = {u1, u2}
  ApplicantIds = {1, 2}
  UploadIds = {1}
  SessionsExpire = FALSE
  PageSize = 2
  InitialApplicants <- NoApplicants
  InitialUploads <- NoUploads
  StartApplicantId = 0
  StartUploadId = 0
SYMMETRY Symmetry
INVARIANT LoginLossIsRequested
INVARIANT AcknowledgedIsKept
INVARIANT AuthorityIsCurrent
INVARIANT LoginInv
CHECK_DEADLOCK FALSE
