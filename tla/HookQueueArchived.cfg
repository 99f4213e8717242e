CONSTANTS
  Ingesters = {i1}
  Rotators = {r1}
  NoProc = NoProc
  NoFile = NoFile
  MaxEvents = 4
  Malformed = {2}
  MaxSize = 1
  Retention = 1
  FailPoints <- AnyPoint
  MaxFails = 3
  Overlap = FALSE
  Clash = TRUE
SPECIFICATION Spec
PROPERTY PreparedKeepsPending
