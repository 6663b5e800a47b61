CONSTANTS
  A = A
  B = B
  d1 = d1
  d2 = d2
  d3 = d3
  Data = {d1, d2, d3}
  Setups <- MCSetups
  Cap = 1
  None = None
SPECIFICATION FairSpec
INVARIANTS
  TypeOK
  InFlightIsRequested
CHECK_DEADLOCK FALSE
PROPERTIES
  Delivered
  PeersEnd
