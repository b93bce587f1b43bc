CONSTANTS
  Paths = {"f", "g"}
  Times <- MCTimes
  CacheSize = 2
  Tolerance = 1
  Coalesced = 1
  NoPicture = NoPicture
  MaxMoves = 2
SPECIFICATION PreviewSpec
INVARIANT ContextsAreItsOwn
CHECK_DEADLOCK FALSE
