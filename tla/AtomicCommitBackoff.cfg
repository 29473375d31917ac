SPECIFICATION Spec
CONSTANTS
  c1 = c1
  c2 = c2
  c3 = c3
  p1 = p1
  Clients <- ThreeClients
  Crtcs <- TwoCrtcs
  Planes <- NoPlane
  Conn = conn
  None = None
  Requests <- CrtcRequests
  MaxCommits = 3
  MaxBackoffs = 1
PROPERTY
  FencesProtected
CHECK_DEADLOCK FALSE
