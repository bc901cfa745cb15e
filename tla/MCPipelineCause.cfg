SPECIFICATION Spec
CONSTANTS
  Threads = 2
  QueueDepth = 1
  CommitConcurrency = 1
  Tables <- TableNames
  Wanted <- WantedNames
  Reserved <- ReservedNames
  Dumps <- BadDumps
  NoTable = NoTable
INVARIANT RealCause
CHECK_DEADLOCK FALSE
