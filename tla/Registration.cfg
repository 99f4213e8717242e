CONSTANTS
  Entries = {e1}
  HookCommands <- TwoHookCommands
  McpCommands <- TwoMcpCommands
  DefaultHook <- DefaultHookCommand
  DefaultMcp <- DefaultMcpCommand
  NoArg = NoArg
  MaxFails = 1
  Rests <- FewRests
  MaxWriters = 2
SPECIFICATION MCSpec
INVARIANTS UserEntriesKept OneBlock AgreeAfterThree FullRemoval VerdictRight HealthyIsTrue DoctorAnswers
