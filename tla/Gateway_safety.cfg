\* Three users of one MX server share its two numbers, one user has another MX
\* server; three messages out, one in over two SMPP sessions, one of which is lost.
SPECIFICATION Spec
CONSTANTS
  mx1 = mx1
  mx2 = mx2
  jidA = jidA
  jidB = jidB
  jidC = jidC
  n1 = n1
  n2 = n2
  n3 = n3
  Contacts = {p1}
  Numbers = {n1, n2, n3}
  Targets <- Everyone
  NoItem = NoItem
  Mxs = {mx1, mx2}
  From <- TwoAndOne
  Default = {mx1}
  DefaultJid = DefaultJid
  MaxErrors <- ErrorsOf
  Refs = {1}
  MaxSends = 3
  MaxIn = 2
  MaxDrops = 1
  Loads <- Mixed
  Links = {l1, l2}
SYMMETRY Symmetry
\* Every supervisor may have ended.
CHECK_DEADLOCK FALSE
INVARIANTS
  TypeOK
  NumberOfMx
  OneNumberPerUser
  KnownUserReachable
  AckedWasTaken
  AgainOnlyIfCut
PROPERTIES
  TakesOldestOnly
  RoutedToLastWriter
  LostOnlyOffline
