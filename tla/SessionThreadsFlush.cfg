CONSTANTS
  MaxSessions = 1
  Unanswered = {"flush"}
SPECIFICATION SessionSpec
PROPERTY StopNeverFreezes
CHECK_DEADLOCK FALSE
