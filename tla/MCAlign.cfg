\* Every helper on every argument of an 8-bit word, release build.
CONSTANTS
  Wd = 8
  U32 = 8
  ALIGN = 2
  LINE_ALIGN = 4
  CAPACITY = 100
  OverflowChecks = FALSE
  Panic = Panic
  Aligns <- MCAligns
SPECIFICATION Spec
INVARIANT TypeOK
INVARIANT RoundUpIsLeastMultiple
INVARIANT BitmapCoversCapacity
INVARIANT AlignHelpersExact
INVARIANT PowerOfTwoRounding
INVARIANT SetHeapSizeExact
INVARIANT LineTableInBounds
