\* Any two of the sample PDUs and texts, one after the other, cut anywhere.
SPECIFICATION Spec
CONSTANTS
  Pdus <- Samples
  Texts <- SampleTexts
  MaxSent = 2
  MaxPdu = 4096
\* The reader may wait for bytes, or be closed.
CHECK_DEADLOCK FALSE
INVARIANTS
  ReceivedIsSent
  NothingSwallowed
  ClosedMeansCut
  TextReadBack
