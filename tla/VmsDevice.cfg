SPECIFICATION VmsFairSpec
CONSTANTS
  Channels = {1, 2, 3}
  MaxClients = 3
INVARIANTS
  DeviceInv
PROPERTIES
  CatalogsAreCurrent
  CommandsReturn
CHECK_DEADLOCK FALSE
