CONSTANTS
  Runs = {r1, r2}
  Resident = {r1, r2}
  Sources <- TwoAdapters
  Malformed <- OneMalformed
  MaxAttempts = 2
  Exclusive = TRUE
  NoReport = NoReport
SPECIFICATION FairSpec
INVARIANTS StoredOnce WarningsCounted
PROPERTY RunEnds
CHECK_DEADLOCK FALSE
