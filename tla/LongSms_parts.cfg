\* Two messages of any of eight texts, two references, at most three parts, one
\* lost connection.
SPECIFICATION Spec
CONSTANTS
  i1 = i1
  i2 = i2
  r1 = r1
  r2 = r2
  Ids = {i1, i2}
  Refs = {r1, r2}
  Texts <- Limits
  MaxParts = 3
  MaxCuts = 1
  NoSms = NoSms
SYMMETRY Symmetry
\* Everything may have been sent and delivered.
CHECK_DEADLOCK FALSE
INVARIANTS
  TypeOK
  SplitIsSound
  WholeWhenRunIsClean
  HandledIsKept
  TwiceOnlyIfCut
  PanicNeedsMixing
