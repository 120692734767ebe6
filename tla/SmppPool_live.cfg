\* One address whose budget lets it connect three times, so that the goroutines of two
\* closed connections and of the current one compete for a two-part and a one-part
\* message.
SPECIFICATION FairSpec
CONSTANTS
  m1 = m1
  m2 = m2
  Addrs = {a1}
  Msgs = {m1, m2}
  Parts <- PartsTwoOne
  Conns = {c1, c2, c3}
  NoConn = NoConn
  NoMsg = NoMsg
  MaxErrors = 3
\* The process may stop: every address given up, or a panic.
CHECK_DEADLOCK FALSE
INVARIANT PartsOnceInOrder
PROPERTIES
  OutboxSpec
  OfferedSettles
  DeadSessionRemoved
  CloseStops
