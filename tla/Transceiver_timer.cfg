\* No unasked PDU is needed: one enquire link and its response.
SPECIFICATION Spec
CONSTANTS
  Eli = 2
  PipeMax = 2
  Requests = 0
CHECK_DEADLOCK FALSE
PROPERTY TimerOnlyWhenOwed
