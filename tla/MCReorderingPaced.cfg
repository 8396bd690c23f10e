SPECIFICATION PacedSpec
CONSTANTS SnMod = 16  WindowSize = 8  ChannelType = "DTCH"  Pdu <- Numbered
INVARIANTS TypeOK ComparableAtExpiry WindowOrder BufferInWindow NoneStranded
PROPERTIES ReleasedInOrder
