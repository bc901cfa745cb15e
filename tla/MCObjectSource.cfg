SPECIFICATION Spec
CONSTANTS
  Total = 6
  MaxResumes = 3
  MaxChunk = 3
  MaxBuf = 2
INVARIANTS Contiguous EofIsComplete RangeIsSatisfiable
PROPERTY ReadingEnds
CHECK_DEADLOCK FALSE
