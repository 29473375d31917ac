SPECIFICATION FairSpec
CONSTANTS
  i1 = i1
  i2 = i2
  s1 = s1
  s2 = s2
  f1 = f1
  f2 = f2
  Start = 8
  Ioctls <- MCIoctls
  Signalers <- MCSignalers
  Fences <- MCFences
  Offsets <- MCOffsets
  Half = 5
  Window = 2
  MaxCommits = 3
  None = None
CHECK_DEADLOCK FALSE
INVARIANTS
  TypeOK
  NoEarlySignal
  NoMissedSignal
  KrefExact
PROPERTIES
  ImplementsContract
  EventuallySignaled
