CONSTANTS
  Paths = {"f", "g"}
  Times <- MCTimes
  CacheSize = 2
  Tolerance = 1
  Coalesced = 1
  NoPicture = NoPicture
  MaxMoves = 3
SPECIFICATION PreviewSpec
PROPERTY NothingObsolete
CHECK_DEADLOCK FALSE
