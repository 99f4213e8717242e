CONSTANTS
  Ingesters = {i1, i2}
  Rotators = {r1}
  NoProc = NoProc
  NoFile = NoFile
  MaxEvents = 3
  Malformed = {2}
  MaxSize = 1
  Retention = 9
  FailPoints <- OrderedPoints
  MaxFails = 2
  Overlap = TRUE
  Clash = FALSE
SPECIFICATION Spec
SYMMETRY ProcSymmetry
INVARIANTS QueueOrder NothingVanishes
