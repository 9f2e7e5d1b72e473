CONSTANTS
  Node = {"A", "B"}
  Stream <- Pair
  Cap = 1
SPECIFICATION Spec
INVARIANTS
  TypeOK
  DeadlineHeld
  Framed
PROPERTIES
  SendsEnd
  TornCloses
