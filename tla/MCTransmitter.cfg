SPECIFICATION Spec
CONSTANTS
  SnMod = 4
  WindowSize = 2
  SduSizes = {1, 6}
  Grants = {2, 3, 4, 5, 6, 8, 9, 10, 12}
  MaxTxBufferSize = 8
  LiMax = 4
  MaxSdus = 4
  StartSns = {0}
INVARIANTS Accounting SegmentsTrue MacInformed
PROPERTIES PduTakesTheHead GrantFilled ReportSuffices
CHECK_DEADLOCK FALSE
