SPECIFICATION Spec
CONSTANTS
  MaxTasks = 5
  MaxAgents = 6
  MaxTaskAttempts = 1
  MaxDerivedRejections = 1
  MaxNonTerminalCycles = 2
  MaxConsecutiveCrashes = 2
  MaxSubtasksRoot = 2
  MaxSubtasksNonRoot = 1
  Batches <- ColonyBatches
  Outcomes = {"think", "die", "ceiling", "cache", "energy", "watchdog"}
INVARIANTS
  TypeOK
  NoSilentStall
  CompleteSubtree
  Informed
  NothingToDispatch
PROPERTIES
  RefinesLifecycle
