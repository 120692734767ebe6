\* Two addresses, three connections: one address reconnects while the other
\* runs.  Messages are left to the other runs: these properties do not read them.
SPECIFICATION Spec
CONSTANTS
  m1 = m1
  m2 = m2
  Addrs = {a1, a2}
  Msgs = {}
  Parts <- PartsTwoOne
  Conns = {c1, c2, c3}
  NoConn = NoConn
  NoMsg = NoMsg
  MaxErrors = 2
\* The process may stop: every address given up, or a panic.
CHECK_DEADLOCK FALSE
INVARIANTS
  TypeOK
  RegisteredIsCurrent
  CloseReachesAll
  PlannedStop
