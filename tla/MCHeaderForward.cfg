CONSTANTS
  VTables <- MCVTables
  Pointers <- MCPointers
  Sizes <- MCSizes
SPECIFICATION Spec


INVARIANT ForwardRoundTrip
