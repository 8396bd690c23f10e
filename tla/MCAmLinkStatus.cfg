SPECIFICATION Spec
CONSTANTS
  SnMod = 8
  WindowSize = 4
  SduUnits = 1
  PduUnits = {1}
  MaxTxBufferSize = 0
  MaxSdus = 4
  StartSns = {6}
  StatusGrants = {6}
  MaxInFlight = 4
  MaxStatuses = 1
  MaxLosses = 0
  LateSubmits = TRUE
PROPERTIES StatusFits
CHECK_DEADLOCK FALSE
