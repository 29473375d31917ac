SPECIFICATION Spec
CONSTANTS
  Primary = primary
  Trusted = trusted
  NumIrqs = 2
  MaxParcels = 3
  Eager = FALSE
  TwoFailures = FALSE
INVARIANTS
  TypeOK
  BelievesWhatItHolds
  HwOnlyWhileGranted
  AlwaysAWay
PROPERTIES
  ImplementsOwnership
