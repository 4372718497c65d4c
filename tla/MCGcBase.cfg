\* Finalizers and init closures rooting locals on the mutator's shadow stack.
CONSTANTS
  h1 = h1
  h2 = h2
  h3 = h3
  Handlers <- MCHandlers
  MaxCalls = 6
  Values = {v1, v2}
  MaxDepth = 4
  None = None
SPECIFICATION Spec
INVARIANT WalkSeesRootsInScope
INVARIANT LockReleasedWhenIdle
INVARIANT NoHandlerTwiceInOneCall
