SPECIFICATION Spec
CONSTANTS
    Pub = p
    Sub = {s}
    Client = {c}
    HasDisposer = TRUE
    MaxThreads = 2
    MaxConns = 3
    MaxFails = 1
    MaxSignals = 1
INVARIANTS
    TypeOK
    ExitIsClean
PROPERTIES
    WaitsEnd
CHECK_DEADLOCK FALSE
