SPECIFICATION Spec
CONSTANTS
  PoolSize = 2
  MaxOrphans = 1
INVARIANTS
  TypeOK
  MaskMatchesCount
  NoSilentIrq
  FollowsCrtc
PROPERTIES
  HistReported
