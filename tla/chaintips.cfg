CONSTANTS
  Conn = {"i1", "i2"}
  Inbound = {"i1", "i2"}
  Persistent = {}
  Addr <- MCAddr
  Host <- MCHost
  Agent = {"A"}
  Hellos = {"A"}
  none = "none"
  Target = {"H1", "A"}
  MaxOutbound = 1
  MaxBuffer = 1
  Admin = {}
SPECIFICATION Spec
CHECK_DEADLOCK FALSE
INVARIANTS
  ChaintipsDistinct
