CONSTANTS
    a = a
    b = b
    c = c
    Prod = {a, b, c}
    NumSegs <- Sizes
    CreateTime <- CreatedInTurn
    Nested = {a, b}
    KeepTime = 2
    MaxOpen = 1
    MaxTime = 4
    MaxStarts = 1
    NoProd = NoProd
SPECIFICATION FairSpec
INVARIANTS
    TypeOK
    QueuesAgree
    ProductIffWhole
    QueuedIsComplete
PROPERTIES
    OldIsDeleted
CHECK_DEADLOCK FALSE
