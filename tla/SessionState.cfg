CONSTANTS
  Ingesters = {i1}
  Rotators = {r1}
  NoProc = NoProc
  NoFile = NoFile
  MaxEvents = 4
  Malformed = {}
  MaxSize = 1
  Retention = 1
  FailPoints <- SafePoints
  MaxFails = 1
  Overlap = FALSE
  Clash = TRUE
  SessionOf <- TwoSessions
  RepoOf <- TwoRepos
  Stops <- OneStop
  CapturedAt <- Stamps
  Now = 5
  StaleAfter = 2
  Asked <- SomeAsks
  Profiles <- TwoProfiles
  Unknown = "h3"
  Limit <- OneEach
  Roots = {1, 2, 3}
  Around <- OneInside
  GitRoots = {1, 2}
  LooksLike <- Underscore
  Folded = {2, 3}
  Unreadable = Unreadable
  Raising = Raising
  Registries <- SixRegistries
  RowForms <- FiveRows
  Candidate = "tool"
  Own = 1
  SearchLimit = 4
  PacketLimit = 2
  MaxRows = 5
  MaxEdits = 1
SPECIFICATION MCSpec
INVARIANTS ConfirmedIsTrue ConfirmedHasAll  CardExplained TargetAnswered
PROPERTIES WinnerStays QuietIsComplete
