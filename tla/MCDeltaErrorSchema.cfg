SPECIFICATION Spec
CONSTANTS
  Null = Null
  Tables <- TableNames
  Modes = {"error"}
  Plans <- PlainPlans
  Expected = {"a"}
  Allowed = Null
  MaxRuns = 2
  MaxFaults = 1
INVARIANT SchemaAgreesOnError
CHECK_DEADLOCK FALSE
