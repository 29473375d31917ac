SPECIFICATION Spec
CONSTANTS
  statusWork = statusWork
  esdIrq = esdIrq
  None = None
  StatusWork = None
  EsdIrq = esdIrq
  Primaries <- PrimaryOnly
  Modes <- BothModes
  DmsModes <- CmdOnly
  Faulty = FALSE
PROPERTIES
  StopEndsOff
CHECK_DEADLOCK FALSE
