CONSTANTS
  CameraList <- MCCameraList
  Occurs <- MCOccurs
  Stored0 <- MCStored0
  Unset = Unset
  Nothing = Nothing
  NotRunning = NotRunning
  MaxActs = 3
  MaxLosses = 1

SPECIFICATION Spec

INVARIANTS
  
  RunsWhatIsStored
  
  ShowsTheChannel

PROPERTIES
  AcceptedIsPlayed

CHECK_DEADLOCK FALSE
