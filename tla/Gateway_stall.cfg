\* One MX server that is never reached, two SMS for its default user.
SPECIFICATION FairSpec
CONSTANTS
  mx1 = mx1
  mx2 = mx2
  jidA = jidA
  jidB = jidB
  jidC = jidC
  n1 = n1
  n2 = n2
  n3 = n3
  Contacts = {p1}
  Numbers = {n1, n2, n3}
  Targets <- Everyone
  NoItem = NoItem
  Mxs = {mx1, mx2}
  From <- TwoAndOne
  Default = {mx1}
  DefaultJid = DefaultJid
  MaxErrors <- ErrorsOf
  Refs = {1}
  MaxSends = 0
  MaxIn = 2
  MaxDrops = 0
  Loads <- InOnly
  Links = {l1, l2}
CHECK_DEADLOCK FALSE
PROPERTY IncomingProcessed
