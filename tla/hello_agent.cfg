CONSTANTS
  Conn = {"i1"}
  Inbound = {"i1"}
  Persistent = {}
  Addr <- MCAddr
  Host <- MCHost
  Agent = {"A"}
  Hellos = {"none"}
  none = "none"
  Target = {"H1", "A"}
  MaxOutbound = 1
  MaxBuffer = 1
  Admin = {}
SPECIFICATION Spec
CHECK_DEADLOCK FALSE
INVARIANTS
  NoPanic
