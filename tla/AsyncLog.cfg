SPECIFICATION FairSpec
CONSTANTS
  Writers = {w1, w2}
  MaxLines = 2
  NoLine = NoLine
INVARIANTS
  LogInv
PROPERTIES
  ImplementsChannel
  LinesAreWritten
  SeenStopReturns
CHECK_DEADLOCK FALSE
