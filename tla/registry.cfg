CONSTANTS
  Conn = {"i1", "o1"}
  Inbound = {"i1"}
  Persistent = {}
  Addr <- MCAddr
  Host <- MCHost
  Agent = {"A"}
  Hellos = {"A"}
  none = "none"
  Target = {"H1"}
  MaxOutbound = 1
  MaxBuffer = 1
  Admin = {"ui"}
SPECIFICATION FairSpec
CHECK_DEADLOCK FALSE
INVARIANTS
  TypeOK
  LiveRegistered
  HostBanHolds
  CountsExact
  RegisteredServed
PROPERTIES
  DeadRemoved
