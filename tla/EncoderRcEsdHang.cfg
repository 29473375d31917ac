SPECIFICATION FairSpec
CONSTANTS
  statusWork = statusWork
  esdIrq = esdIrq
  None = None
  StatusWork = statusWork
  EsdIrq = None
  Primaries <- PrimaryOnly
  Modes <- BothModes
  DmsModes <- CmdOnly
  Faulty = FALSE
PROPERTIES
  EsdCompletes
CHECK_DEADLOCK FALSE
