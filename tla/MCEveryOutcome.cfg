SPECIFICATION Spec
CONSTANTS
  MaxTasks = 3
  MaxAgents = 4
  MaxTaskAttempts = 1
  MaxDerivedRejections = 1
  MaxNonTerminalCycles = 2
  MaxConsecutiveCrashes = 2
  MaxSubtasksRoot = 3
  MaxSubtasksNonRoot = 2
  Batches <- OutcomeBatches
  Outcomes = {"crash", "think", "die", "oversize", "review", "ceiling", "cache", "screen", "drop", "energy", "watchdog"}
INVARIANTS
  NoLostWakeup
  SuccessorClean
  OneAgentPerTask
  ReportsAreOwners
PROPERTIES
  Settles
