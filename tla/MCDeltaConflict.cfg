SPECIFICATION Spec
CONSTANTS
  Null = Null
  Tables <- TableNames
  Modes = {"overwrite"}
  Plans <- PartitionedPlans
  Expected = {"a"}
  Allowed = Null
  MaxRuns = 2
  MaxFaults = 1
INVARIANT NoSelfConflictAtAll
CHECK_DEADLOCK FALSE
