SPECIFICATION CleanupSpec
CONSTANTS
  c = c
  d1 = d1
  d2 = d2
  d3 = d3
  d4 = d4
  d5 = d5
  t1 = t1
  t2 = t2
  t3 = t3
  e = e
  u1 = u1
  u2 = u2
  u3 = u3
  u4 = u4
  u5 = u5
  None = None
  Ops <- CleanupOps
  Requests = {c, d1, d2, d3, d4, d5}
  Emails = {t1, t2, t3, e}
  Auth0Ids = {u1, u2, u3, u4, u5}
  ApplicantIds = {1, 2, 3, 4, 5}
  UploadIds = {1, 2}
  SessionsExpire = FALSE
  PageSize = 2
  InitialApplicants <- Applicants
  InitialUploads <- Uploads
  StartApplicantId = 4
  StartUploadId = 2
  TestEmails = {t1, t2, t3}
  batchSize = 2
  SlotOf <- Slots
INVARIANT CleanupTypeOK
INVARIANT SparesOthers
INVARIANT CleanupMeansGone
INVARIANT AtMostOneBatch
INVARIANT CleanupInv
CHECK_DEADLOCK FALSE
