SPECIFICATION FairSpec
CONSTANTS
  Callers = {h1}
  MaxCalls = 1
PROPERTIES
  SignalledWaitReturns
CHECK_DEADLOCK FALSE
