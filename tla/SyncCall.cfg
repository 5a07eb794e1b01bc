SPECIFICATION FairSpec
CONSTANTS
  Callers = {h1, h2}
  MaxCalls = 2
INVARIANTS
  IndInv
PROPERTIES
  ImplementsRemoteCall
  PostedCallsAreServed
  SleeperReturns
CHECK_DEADLOCK FALSE
