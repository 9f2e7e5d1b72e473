CONSTANTS
  Worker = {w1, w2}
  Capacity = 4
SPECIFICATION Spec
CHECK_DEADLOCK FALSE
INVARIANTS
  NoSendOnClosed
PROPERTIES
  CancelReturns
  ReportsAccepted
