SPECIFICATION Spec
CONSTANTS
  ContextRows = 2
  KeptRows = 1
  ReviewRows = 1
  MaxUpdates = 2
  MaxNudges = 1
  MaxReviews = 2
  MaxDays = 1
  MaxPauses = 1
  MaxFaults = 1
INVARIANTS OnceEach
PROPERTIES UpdatesAreHandled
CHECK_DEADLOCK FALSE
