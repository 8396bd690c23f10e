SPECIFICATION FairSpec
CONSTANTS
  SnMod = 8
  WindowSize = 4
  MaxTxBufferSize = 4
  LiMax = 4
  MaxSdus = 7
  StartSns = {4}
  Environments <- All
INVARIANTS ReassemblyClean ArrivalsPaced
PROPERTIES PipeSpec BufferDrains AllDelivered
CHECK_DEADLOCK FALSE
