CONSTANTS
  MaxSessions = 1
  Unanswered = {"decode"}
SPECIFICATION SessionSpec
PROPERTY StopNeverFreezes
CHECK_DEADLOCK FALSE
