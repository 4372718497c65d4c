CONSTANTS
  W = 4
  ALIGN = 16
  MIN_ALLOCATION = 16
  NWords = 3
  HeapBegin = 64
  OverflowChecks = FALSE
  Panic = Panic
  Wild = Wild
SPECIFICATION Spec
INVARIANT TypeOK
INVARIANT VisitMarkedRangeExact
INVARIANT ClearRangeEdges
INVARIANT FindHeaderSound
