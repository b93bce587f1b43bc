CONSTANTS
  Ids = {1, 2}
  Size = 5
  Chunk = 2
  Window = 2
  NWorkers = 2
  Attempts = 2
  MaxFailures = 1
  CreatedSets <- AnyWorkers
  Folders <- MCFolders
  Names = {"x", "y", "z"}
  Jobs <- MCJobs
  All = All
  Nothing = Nothing
  Partial = Partial
  FirstFiles <- MCFirst
  MaxJobs = 2
  Releases = {1, 2, 3}
  Absent = Absent
  Other = Other
  MaxRestarts = 2
  c1 = c1
  c2 = c2
  j1 = j1
  j2 = j2
  Callers <- MCCallers
  ConnJobs <- MCConnJobs
  List <- MCList
  BadMax = 1
  NoConnJob = NoConnJob
  MaxCalls = 1
  Blocks = 5
  Brim = 2
  Low = 1
  Burst = 2
  InitSize <- MCInitSize
  GrowSizes <- MCGrowSizes
  PayloadSizes <- MCPayloadSizes
  Flushers = {"main"}
  Opener = "main"
  Writer = "writer"
  BootCap = 1
  QueueCap = 1
  RotateAt = 2
  NoOne = NoOne
  MaxRuns = 3
  MaxLines = 1
SPECIFICATION Spec
SYMMETRY Symmetry
INVARIANTS DeliversTheFile OneWriterPerSlot
INVARIANTS TransferLosesNothing CompletedIsThere NoPartialLeft
INVARIANTS InstalledIsVerified
INVARIANTS JobHasOneOwner EveryAddressTried
INVARIANTS LogInOrder LastRunKept
INVARIANT CountBounded
INVARIANTS RegionsDisjoint NothingLeaks
PROPERTIES NeverDowngrades LivePacketsUndisturbed
CHECK_DEADLOCK FALSE
