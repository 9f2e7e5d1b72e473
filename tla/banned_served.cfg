CONSTANTS
  Conn = {"i1"}
  Inbound = {"i1"}
  Persistent = {}
  Addr <- MCAddr
  Host <- MCHost
  Agent = {"A"}
  Hellos = {"A"}
  none = "none"
  Target = {"H1", "A"}
  MaxOutbound = 1
  MaxBuffer = 2
  Admin = {}
SPECIFICATION Spec
CHECK_DEADLOCK FALSE
PROPERTIES
  BannedIgnored
