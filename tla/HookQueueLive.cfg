CONSTANTS
  Ingesters = {i1}
  Rotators = {r1}
  NoProc = NoProc
  NoFile = NoFile
  MaxEvents = 5
  Malformed = {4}
  MaxSize = 1
  Retention = 1
  FailPoints <- SafePoints
  MaxFails = 2
  Overlap = FALSE
  Clash = TRUE
SPECIFICATION FairSpec
INVARIANT NoDuplicateEvidence
PROPERTIES EventuallyStored QueueEventuallyBounded
