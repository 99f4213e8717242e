CONSTANTS
  Ingesters = {i1, i2}
  Rotators = {r1, r2}
  NoProc = NoProc
  NoFile = NoFile
  MaxEvents = 5
  Malformed = {2}
  MaxSize = 1
  Retention = 1
  FailPoints <- SafePoints
  MaxFails = 3
  Overlap = FALSE
  Clash = TRUE
SPECIFICATION Spec
SYMMETRY ProcSymmetry
INVARIANTS TypeOK NoLoss MarkSound Durability
PROPERTY ImplementsLog
