CONSTANTS
  MaxRuns = 2
  AtOnce = 2
  MaxLines = 2
  Retain <- KeepOne
  MaxAttempts = 2
  MaxLog = 0
  NoFile = NoFile
SPECIFICATION MCSpec
INVARIANTS BackupsKept LogKept SummaryTrue
PROPERTIES MaintenanceEnds
CHECK_DEADLOCK FALSE
