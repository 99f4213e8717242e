CONSTANTS
  Hooks = {h1, h2}
  Sessions = {s1, s2}
  Payloads <- MixedPayloads
  Rotation = Rotation
  Nobody = Nobody
  Torn = TRUE
SPECIFICATION FairSpec
INVARIANTS TypeOK NothingSilent ProofsTrue InjectedSummary QueuedReadable
PROPERTY HookEnds
