SPECIFICATION PioSpec
CONSTANTS
  Size = 5
  Chunk = 1
  Window = 4
  NWorkers = 1
  Attempts = 1
  MaxFailures = 1
  CreatedSets <- SomeWorkers
PROPERTY ReadyIsKept
PROPERTY ReadReturns
PROPERTY CloseEnds
CHECK_DEADLOCK FALSE
