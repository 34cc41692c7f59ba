CONSTANTS
  Socks = {k1, k2}
  Schemes = {"http", "soap.udp", ""}
  Peers = {"p1", "p2", "name"}
  AssertsEnabled = TRUE
  None = None
  MaxSocks = 3
  MaxTransports = 4
SPECIFICATION Spec
INVARIANTS
  TypeOK
  ContextRestored
  TransportKept
  CrashOnlyUnconnected
  OneTransportEach
CHECK_DEADLOCK FALSE
