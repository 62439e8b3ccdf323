SPECIFICATION Spec
CONSTANTS
  r1 = r1
  r2 = r2
  r3 = r3
  e1 = e1
  e2 = e2
  u1 = u1
  u2 = u2
  u3 = u3
  None = None
  Ops <- ForceOnly
  Requests = {r1}
  Emails = {e1, e2}
  Auth0Ids = {u1, u2}
  ApplicantIds = {1, 10}
  UploadIds = {1}
  SessionsExpire = FALSE
  PageSize = 2
  InitialApplicants <- PrefixedIds
  InitialUploads <- UploadOfTen
  StartApplicantId = 10
  StartUploadId = 1
SYMMETRY Symmetry
INVARIANT DeleteOnlyOwnResumes
CHECK_DEADLOCK FALSE
