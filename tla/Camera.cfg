SPECIFICATION FairSpec
CONSTANTS
  Addrs = {a1, a2}
  NotSeen = NotSeen
  MaxId = 2
  MaxChanges = 2
INVARIANTS
  CameraInv
  LatestCheckIsCurrent
PROPERTIES
  ChangesAreChecked
  StopReturns
CHECK_DEADLOCK FALSE
