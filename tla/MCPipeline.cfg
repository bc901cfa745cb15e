SPECIFICATION Spec
CONSTANTS
  Threads = 3
  QueueDepth = 1
  CommitConcurrency = 2
  Tables <- TableNames
  Wanted <- WantedNames
  Reserved <- ReservedNames
  Dumps <- SmallDumps
  NoTable = NoTable
INVARIANTS EventRoom AnswersMatchBlock RowsFindTheirBlock RowsConserved CommittedIsWhole IInv
PROPERTY ImplementsAllOrNothing AlwaysReturns
CHECK_DEADLOCK FALSE
