CONSTANTS
  p = p
  b = b
  Peer = {b, p}
  BOOTSTRAP_PEERS = {b}
  Batch = 1
  MaxOutbound = 1
  MaxTime = 0
  absent = absent
SPECIFICATION AloneSpec
CHECK_DEADLOCK FALSE
PROPERTIES
  Reconnects
