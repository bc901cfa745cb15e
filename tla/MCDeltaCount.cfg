SPECIFICATION Spec
CONSTANTS
  Null = Null
  Tables <- TableNames
  Modes = {"overwrite"}
  Plans <- OneTablePlans
  Expected = {"a"}
  Allowed = Null
  MaxRuns = 2
  MaxFaults = 1
INVARIANT CountIsTruthful
CHECK_DEADLOCK FALSE
