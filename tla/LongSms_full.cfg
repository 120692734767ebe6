\* One message of two parts.
SPECIFICATION Spec
CONSTANTS
  i1 = i1
  i2 = i2
  r1 = r1
  r2 = r2
  Ids = {i1}
  Refs = {r1, r2}
  Texts <- TwoParts
  MaxParts = 3
  MaxCuts = 0
  NoSms = NoSms
\* Everything may have been sent and delivered.
CHECK_DEADLOCK FALSE
INVARIANT FullMeansFull
