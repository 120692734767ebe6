\* One address that reconnects once, one message of two parts.
SPECIFICATION Spec
CONSTANTS
  m1 = m1
  m2 = m2
  Addrs = {a1}
  Msgs = {m1}
  Parts <- PartsTwoOne
  Conns = {c1, c2}
  NoConn = NoConn
  NoMsg = NoMsg
  MaxErrors = 2
CHECK_DEADLOCK FALSE
PROPERTY NoLossWhileConnected
