\* A mutator leaves its poll as Unsafe while a collection that observed it Safe runs.
CONSTANTS
  m1 = m1
  m2 = m2
  d1 = d1
  None = None
  MutatorList <- MCMutatorList
  Drivers <- MCDrivers
  MaxScopes = 1
  WeakCasMayFail = FALSE

SPECIFICATION Spec

INVARIANT WorldStoppedWhileCollecting
