CONSTANTS
  HeapBegin = 4096
  HeapSize = 256
  GuardBytes = 0
  OverflowChecks = FALSE
  Panic = Panic
  Wild = Wild
SPECIFICATION Spec
INVARIANT TypeOK
INVARIANT FindHeaderSound
