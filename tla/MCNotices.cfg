SPECIFICATION Spec
CONSTANTS
  MinNewMarks = 4
  ReportBudget = 5
  MaxNewMarks = 6
  MaxDraws = 3
  Marks <- SmallMarks
  Openings <- SmallOpenings
  MaxSubtasksRoot = 2
  MaxSubtasksNonRoot = 1
  Batches <- SmallBatches
  ResultLines = {120, 430}
  ThinkLengths = {0, 300}
INVARIANT NoticesAreRead
CHECK_DEADLOCK FALSE
