SPECIFICATION Spec
CONSTANTS
  MaxTasks = 3
  Budget = 12
  DeathThreshold = 0
  AdmissionFloor = 1
  SpawnExecutor = 2
  SpawnDecomposer = 1
  ReserveExecutor = 2
  ReserveDecomposerBase = 1
  ReservePerChild = 1
  ReserveRootExtra = 1
  TaskCeilingAttempts = 2
  MaxSubtasksRoot = 1
  MaxSubtasksNonRoot = 1
  MaxBatch = 2
  Costs = {1, 2}
INVARIANTS
  TypeOK
  Covered
  Solvent
  AdmittedCanStart
PROPERTIES
  CeilingKeptByRestart
CONSTRAINT RootOpen
CHECK_DEADLOCK FALSE
