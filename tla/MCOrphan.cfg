SPECIFICATION Spec
CONSTANTS
  r1 = r1
  r2 = r2
  r3 = r3
  e1 = e1
  e2 = e2
  u1 = u1
  u2 = u2
  u3 = u3
  None = None
  Ops <- RegisterOnly
  Requests = {r1, r2}
  Emails = {e1}
  Auth0Ids = {u1, u2}
  ApplicantIds = {1}
  UploadIds = {1}
  SessionsExpire = FALSE
  PageSize = 2
  InitialApplicants <- NoApplicants
  InitialUploads <- NoUploads
  StartApplicantId = 0
  StartUploadId = 0
SYMMETRY Symmetry
INVARIANT RegistrationFailureLeavesNoUser
CHECK_DEADLOCK FALSE
