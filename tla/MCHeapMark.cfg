\* Two spaces added in either order, then five threads marking with a weak CAS.
CONSTANTS
  t1 = t1
  t2 = t2
  t3 = t3
  t4 = t4
  t5 = t5
  W = 4
  None = None
  WeakCasMayFail = TRUE
  SpaceList <- MCSpaces
  Precise <- MCPrecise
  Threads <- MCThreads
  Target <- MCTarget
  SetupObjects <- MCSetup

SPECIFICATION FairSpec

INVARIANT TypeOK
INVARIANT RoutesToOwner
INVARIANT OneWinnerPerObject
PROPERTY Linearizable
PROPERTY MarkingTerminates
