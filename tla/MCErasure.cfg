SPECIFICATION Spec
CONSTANTS
  r1 = r1
  r2 = r2
  r3 = r3
  e1 = e1
  e2 = e2
  u1 = u1
  u2 = u2
  u3 = u3
  None = None
  Ops <- ErasureOps
  Requests = {r1, r2, r3}
  Emails = {e1}
  Auth0Ids = {u1}
  ApplicantIds = {1}
  UploadIds = {1, 2}
  SessionsExpire = TRUE
  PageSize = 1
  InitialApplicants <- OneApplicant
  InitialUploads <- OneUpload
  StartApplicantId = 1
  StartUploadId = 1
SYMMETRY Symmetry
INVARIANT RecordedMeansErased
INVARIANT NoOrphanRows
INVARIANT OneDeletionRecord
INVARIANT DeletionMailMeansErased
INVARIANT DeletionLeavesNoObjects
CHECK_DEADLOCK FALSE
