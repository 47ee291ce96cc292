SPECIFICATION Spec
CONSTANTS
  MaxTasks = 4
  MaxAgents = 5
  MaxTaskAttempts = 1
  MaxDerivedRejections = 1
  MaxNonTerminalCycles = 2
  MaxConsecutiveCrashes = 2
  MaxSubtasksRoot = 3
  MaxSubtasksNonRoot = 2
  Batches <- DelegationBatches
  Outcomes = {"think", "die", "ceiling", "screen"}
PROPERTIES
  ClosedForGood
