SPECIFICATION Spec
CONSTANTS
  a1 = a1
  a2 = a2
  org = org
  test = test
  known = known
  new1 = new1
  new2 = new2
  cause = cause
  None = None
  Requests = {r1, r2, r3}
  Names = {known, new1, new2, cause}
  People = {a1, a2, org, test}
  Bodies <- MCBodies
  InitialRows <- MCInitialRows
  TestContact <- test
INVARIANT TypeOK
INVARIANT NamesFollowSubmissions
INVARIANT KnownNamesNeverBlock
INVARIANT BatchKept
PROPERTY EverySubmissionAnswered
CHECK_DEADLOCK FALSE
