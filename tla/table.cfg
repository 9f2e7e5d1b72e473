CONSTANTS
  q = q
  p = p
  b = b
  Peer = {b, p, q}
  BOOTSTRAP_PEERS = {b}
  Batch = 2
  MaxOutbound = 1
  MaxTime = 1
  absent = absent
SPECIFICATION Spec
SYMMETRY Symmetry
INVARIANTS
  TypeOK
  TableSaved
