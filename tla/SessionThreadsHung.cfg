CONSTANTS
  MaxSessions = 3
  Unanswered = {"decode"}
SPECIFICATION SessionSpec
INVARIANT OnlyStuckIsLeft
CHECK_DEADLOCK FALSE
