SPECIFICATION LogSpec
CONSTANTS
  Flushers = {"main"}
  Opener = "main"
  Writer = "writer"
  BootCap = 1
  QueueCap = 1
  RotateAt = 2
  NoOne = NoOne
  MaxRuns = 3
  MaxLines = 2
INVARIANT LastRunAlone
CHECK_DEADLOCK FALSE
