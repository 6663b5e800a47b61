CONSTANTS
  a1 = a1
  a2 = a2
  Attempts <- MCAttempts
  HostOf <- MCHostOf
  Ports = {p1, p2}
  QSize = 1
  NoPort = NoPort
  Sentinel = Sentinel
SPECIFICATION FairSpec
INVARIANTS
  TypeOK
  ConnectionsAreWhole
PROPERTIES
  WaitsEnd
CHECK_DEADLOCK FALSE
