CONSTANTS
    a = a
    b = b
    c = c
    x = x
    y = y
    Peer = {a, b, c}
    Datum = {x, y}
    Publisher = {}
    Reliable = {}
    MaxConnects = 4
    NoDatum = NoDatum
SYMMETRY Symmetry
SPECIFICATION Spec
INVARIANTS
    TypeOK
    BookIsSound
    RequestsAreSound
PROPERTIES
    AskedPeerForgotten
CHECK_DEADLOCK FALSE
