SPECIFICATION Spec
CONSTANTS
  MaxTasks = 3
  MaxAgents = 4
  MaxTaskAttempts = 1
  MaxDerivedRejections = 1
  MaxNonTerminalCycles = 2
  MaxConsecutiveCrashes = 2
  MaxSubtasksRoot = 3
  MaxSubtasksNonRoot = 2
  Batches <- DelegationBatches
  Outcomes = {"think", "ceiling"}
INVARIANTS
  ResumedWithEveryResult
