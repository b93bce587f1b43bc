CONSTANTS
  Requests <- MCRequests
  Threads <- MCThreadIds
  Kind <- MCKind
  QueueMax = 2
  StartedSets <- MCStarted
  Nobody = Nobody
  MaxInits = 2
  Files <- MCFiles
  NoTs = 0
  Tries = 2
  MaxTurns = 2
  MaxSessions = 3
  Unanswered = {"decode"}
  Paths = {"f", "g"}
  Times <- MCTimes
  CacheSize = 2
  Tolerance = 1
  Coalesced = 1
  NoPicture = NoPicture
  MaxMoves = 3
SPECIFICATION Spec
INVARIANT RequestOwned
PROPERTIES RequestAnswered ShutdownEnds
INVARIANT PacketsOnce
PROPERTY EndIsReached
PROPERTY StopReturns
INVARIANT ExclusiveUse
PROPERTIES SeekEnds PictureResumes
PROPERTIES LoadingEnds ObsoleteOnlyAfterHit
CHECK_DEADLOCK FALSE
