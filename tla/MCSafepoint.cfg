\* Safety and liveness: two mutators and one driver, each opening up to two scopes;
\* spurious failures of compare_exchange_weak enabled (as on LL/SC targets).
CONSTANTS
  m1 = m1
  m2 = m2
  d1 = d1
  None = None
  MutatorList <- MCMutatorList
  Drivers <- MCDrivers
  MaxScopes = 2
  WeakCasMayFail = TRUE

SPECIFICATION Spec

INVARIANT TypeOK
INVARIANT EnableCntConsistent
INVARIANT UserCodeIsUnsafe
PROPERTY Refines
PROPERTY CollectionReachesStw
PROPERTY WaitersResume
