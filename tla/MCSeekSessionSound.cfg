SPECIFICATION PlaySpec
CONSTANTS
  LastFrame = 4
  Targets <- SomeTargets
  RunUp = 1
  HasVideo = FALSE
  MaxSeeks = 1
  MaxFiles = 1
PROPERTY SoundComesBack
CHECK_DEADLOCK FALSE
