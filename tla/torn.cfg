CONSTANTS
  Node = {"A", "B"}
  Stream <- Pair
  Cap = 1
SPECIFICATION Spec
INVARIANTS
  NoTornStream
