SPECIFICATION PlaySpec
CONSTANTS
  LastFrame = 4
  Targets <- SomeTargets
  RunUp = 1
  HasVideo = TRUE
  MaxSeeks = 2
  MaxFiles = 2
INVARIANTS PlayingRuns NotFrozen
PROPERTIES StopEnds PictureComesBack
CHECK_DEADLOCK FALSE
