SPECIFICATION FairSpec
CONSTANTS
  SnMod = 8
  WindowSize = 4
  SduUnits = 3
  PduUnits = {2}
  MaxTxBufferSize = 6
  MaxSdus = 2
  StartSns = {6}
  StatusGrants = {4}
  MaxInFlight = 2
  MaxStatuses = 1
  MaxLosses = 1
  LateSubmits = FALSE
PROPERTIES AllDelivered
CHECK_DEADLOCK FALSE
