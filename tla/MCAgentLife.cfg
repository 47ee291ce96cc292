SPECIFICATION Spec
CONSTANTS
  MinNewMarks = 4
  ReportBudget = 5
  MaxNonTerminalCycles = 3
  ThinkCyclesBeforeDecide = 1
  MaxToolAttempts = 2
  ToolCallHistory = 1
  MaxConsecutiveToolFailures = 2
  MaxWarnings = 2
  MaxTaskAttempts = 1
  MaxDerivedRejections = 1
  MaxConsecutiveCrashes = 2
  Decisions <- ReadDecisions
  Reports <- SmallReports
  Calls = {"a", "b"}
  Completions <- SmallCompletions
  Settings <- SmallSettings
INVARIANTS
  TypeOK
  RejectedNeverSalvaged
  OnlyAcceptedServed
  FirstWordRules
PROPERTIES
  RespawnKnowsWhy
  NeverRedone
  TaskSettles
