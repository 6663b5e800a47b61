CONSTANTS
  pipeKept = pipeKept
  pipeOnce = pipeOnce
  append = append
  overwrite = overwrite
  exec = exec
  misspelt = misspelt
  NoAct = NoAct
  Acts <- MCActs
  Kind <- MCKind
  KeepOpen <- MCKeepOpen
  NotFound <- MCNotFound
  MaxKeepOpen = 2
  MaxProds = 2
SPECIFICATION Spec
INVARIANTS
  TypeOK
  DecodersAreTracked
  OutputIsExecuted
CHECK_DEADLOCK FALSE
