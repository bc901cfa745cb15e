SPECIFICATION Spec
CONSTANTS
  Null = Null
  Tables <- TableNames
  Modes = {"overwrite", "append", "error"}
  Plans <- AllPlans
  Expected = {"a"}
  Allowed = Null
  MaxRuns = 3
  MaxFaults = 2
INVARIANTS SchemaAgrees VersionsAreWhole HistoryReadable RerunRecovers HistoryTells NoSelfConflict IInv
PROPERTY CommittedRowsStay
CHECK_DEADLOCK FALSE
