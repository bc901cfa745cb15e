SPECIFICATION Spec
CONSTANTS
  Bytes <- ByteCodes
  Inputs <- Streams
  Feeders = {"reader", "any"}
  Target = 2
  MaxChunk = 5
INVARIANTS RowsAreTheText ChunksAreAligned EventsAreBracketed OkMeansComplete TooLargeIsReal IInv
PROPERTY ReadingEnds
CHECK_DEADLOCK FALSE
