SPECIFICATION FairSpec
CONSTANTS
  statusWork = statusWork
  esdIrq = esdIrq
  None = None
  StatusWork = statusWork
  EsdIrq = None
  Primaries <- AnyDisplay
  Modes <- BothModes
  DmsModes <- CmdOnly
  Faulty = TRUE
INVARIANTS
  TypeOK
  VotesMatchState
  FramePendingExact
  LaunchPowered
  NoReinitWhileArmed
  OffWhenInactive
PROPERTIES
  NoIdleUnderFrame
  EventuallyIdle
CHECK_DEADLOCK FALSE
