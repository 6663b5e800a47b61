CONSTANTS
    a = a
    b = b
    c = c
    x = x
    y = y
    Peer = {a, b, c}
    Datum = {x, y}
    Publisher = {c}
    Reliable = {a, b, c}
    MaxConnects = 3
    NoDatum = NoDatum
SPECIFICATION FairSpec
PROPERTIES
    StableDelivery
CHECK_DEADLOCK FALSE
