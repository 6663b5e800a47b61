CONSTANTS
    File = {f1, f2}
    Nested = {f1, f2}
    KeepTime = 1
    Start = 2
    MaxTime = 3
    MaxWrites = 1
    MaxDirs = 2
    Root = Root
    Sub = Sub
    NoName = NoName
SPECIFICATION Spec
INVARIANTS
    TypeOK
    SentOnce

    
CHECK_DEADLOCK FALSE
