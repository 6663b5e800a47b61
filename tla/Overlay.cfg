SPECIFICATION Spec
CONSTANTS
    p = p
    a = a
    b = b
    c = c
    Node <- ThreeSubs
    Pub = p
    MaxClnt = 1
    MaxSrvr = 1
    MaxLinks = 4
    Knows <- Chain
    MaxCuts = 1
INVARIANTS
    TypeOK
    TierHasSource
PROPERTIES
    ClientsConverge
CHECK_DEADLOCK FALSE
