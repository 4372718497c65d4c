\* new_no_mutator racing a mutator-initiated scope, with a strong CAS.
CONSTANTS
  m1 = m1
  m2 = m2
  d1 = d1
  None = None
  MutatorList <- MCMutatorList
  Drivers <- MCDrivers
  MaxScopes = 1
  WeakCasMayFail = FALSE

SPECIFICATION Spec

INVARIANT NoMutatorScopeNeverPanics
