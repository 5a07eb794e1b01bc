SPECIFICATION Spec
CONSTANTS
  Channels = {c1, c2}
  ShortIds = {}
  Addrs = {a1, a2}
  Requests <- MCRequests
  MinCameras = 2
  MaxCameras = 2
  NumGpus = 2
  UseGpuMaxCount = 1
  MaxId = 3
  Free = Free
SYMMETRY Symmetric
INVARIANTS
  IndInv
  CurrentStreamsDiffer
PROPERTIES
  IdsAreStable
CHECK_DEADLOCK FALSE
