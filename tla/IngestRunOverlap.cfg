CONSTANTS
  Runs = {r1, r2}
  Resident = {r1}
  Sources <- TwoAdapters
  Malformed = {}
  MaxAttempts = 2
  Exclusive = FALSE
  NoReport = NoReport
SPECIFICATION Spec
INVARIANTS SequencesDense CleanRunIsComplete ReportedIsSearchable
CHECK_DEADLOCK FALSE
