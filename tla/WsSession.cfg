SPECIFICATION PumpFairSpec
CONSTANTS
  MaxMsgs = 4
INVARIANTS
  PumpInv
PROPERTIES
  ImplementsChannel
  BatchIsWritten
  NextSendCarriesTheRest
CHECK_DEADLOCK FALSE
