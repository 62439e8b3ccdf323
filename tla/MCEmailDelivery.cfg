SPECIFICATION Spec
CONSTANTS
  m1 = m1
  m2 = m2
  m3 = m3
  m4 = m4
  plain = plain
  alias = alias
  other = other
  Messages = {m1, m2, m3, m4}
  Addresses = {plain, alias, other}
  To <- Recipients
  Mailbox <- Mailboxes
  whiteList = {plain}
  env = "dev"
  Lambdas = {l1, l2}
  BatchSize = 2
  maxReceiveCount = 2
  maxAttempts = 2
INVARIANT TypeOK
INVARIANT NothingLost
PROPERTY PromiseKept
CHECK_DEADLOCK FALSE
