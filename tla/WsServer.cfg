SPECIFICATION FairSpec
CONSTANTS
  MaxSessions = 2
  Budgets <- MCBudgets
INVARIANTS
  ServerInv
PROPERTIES
  GoneSessionsLeave
  ShutdownReturns
CHECK_DEADLOCK FALSE
