SPECIFICATION PlaySpec
CONSTANTS
  LastFrame = 4
  Targets <- SomeTargets
  RunUp = 1
  HasVideo = TRUE
  MaxSeeks = 1
  MaxFiles = 1
PROPERTY PausedStands
CHECK_DEADLOCK FALSE
