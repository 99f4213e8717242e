CONSTANTS
  Runs = {r1}
  Resident = {r1}
  Sources <- OneLine
  Malformed = {}
  MaxAttempts = 3
  Exclusive = TRUE
  NoReport = NoReport
SPECIFICATION Spec
INVARIANT LockReported
CHECK_DEADLOCK FALSE
