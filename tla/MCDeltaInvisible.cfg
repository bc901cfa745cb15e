SPECIFICATION Spec
CONSTANTS
  Null = Null
  Tables <- TableNames
  Modes = {"overwrite"}
  Plans <- PlainPlans
  Expected = {"a"}
  Allowed = Null
  MaxRuns = 2
  MaxFaults = 1
INVARIANT PassIsInvisible
CHECK_DEADLOCK FALSE
