SPECIFICATION FairSpec
CONSTANTS
  c1 = c1
  c2 = c2
  c3 = c3
  p1 = p1
  Clients <- TwoClients
  Crtcs <- TwoCrtcs
  Planes <- OnePlane
  Conn = conn
  None = None
  Requests <- MCRequests
  MaxCommits = 3
  MaxBackoffs = 1
INVARIANTS
  TypeOK
  LiveWhileUsed
  PendingExact
  ValidUntilBackoff
PROPERTIES
  ImplementsContract
  CommitsReturn
CHECK_DEADLOCK FALSE
