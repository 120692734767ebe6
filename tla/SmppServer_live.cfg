\* Without symmetry (liveness): two connections that bind as one id or as two,
\* two messages, room for one.
SPECIFICATION FairSpec
CONSTANTS
  Sessions = {s1, s2}
  Ids = {i1, i2}
  Subs = {m1, m2}
  Cap = 1
  None = None
\* Every connection may have ended.
CHECK_DEADLOCK FALSE
INVARIANTS
  TypeOK
  NoDeadClient
  PendingExact
  ReceiptToSubmitter
PROPERTIES
  SubmitAnswered
  DeadSessionRemoved
