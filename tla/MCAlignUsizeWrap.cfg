\* align_usize against its doc comment on every 8-bit value, release build.
CONSTANTS
  Wd = 8
  U32 = 8
  ALIGN = 2
  LINE_ALIGN = 4
  CAPACITY = 100
  OverflowChecks = FALSE
  Panic = Panic
  Aligns <- MCAligns
SPECIFICATION Spec
INVARIANT AlignUsizeRoundsUp
