CONSTANTS
  W = 4
  ALIGN = 16
  NWords = 2
  HeapBegin = 64
  WordBytes = 2
  Colors = {0, 1}
  FromColor = 1
  ToColor = 0
  OverflowChecks = FALSE
  Panic = Panic
  SweepRanges <- WordRanges
  BufferSizes <- WordBuffers
SPECIFICATION Spec
INVARIANT SweepWalkExact
INVARIANT SweepColorExact
INVARIANT BatchesFitBuffer
