SPECIFICATION Spec
CONSTANTS
  SnMod = 8
  WindowSize = 4
  MaxTxBufferSize = 4
  LiMax = 4
  MaxSdus = 8
  StartSns = {4}
  Environments <- Outside
INVARIANTS NoneOutsideWindow
CHECK_DEADLOCK FALSE
