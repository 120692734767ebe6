\* Enquire interval 10 seconds, two PDUs in flight, one unasked PDU.
SPECIFICATION FairSpec
CONSTANTS
  Eli = 2
  PipeMax = 2
  Requests = 1
\* The transceiver is done when it is closed and its goroutines have ended.
CHECK_DEADLOCK FALSE
INVARIANT TypeOK
PROPERTIES
  DeadPeerDetected
  BindDecides
  FailedBindClosed
  ReaderEnds
  ClosedGoesQuiet
