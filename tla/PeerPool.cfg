CONSTANTS
    Server = {a, b, me}
    Self = me
    Known = {a, me}
    Capacity = 2
    MaxNumPeers = 3
    MaxDelayed = 2
    NoServer = NoServer
SPECIFICATION FairSpec
INVARIANTS
    TypeOK
    PoolIsWhole
PROPERTIES
    StopReturns
CHECK_DEADLOCK FALSE
