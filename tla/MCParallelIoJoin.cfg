SPECIFICATION PioSpec
CONSTANTS
  Size = 3
  Chunk = 1
  Window = 2
  NWorkers = 2
  Attempts = 1
  MaxFailures = 1
  CreatedSets <- AnyWorkers
INVARIANT NoWorkerOutlives
CHECK_DEADLOCK FALSE
