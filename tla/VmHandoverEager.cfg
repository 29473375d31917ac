SPECIFICATION Spec
CONSTANTS
  Primary = primary
  Trusted = trusted
  NumIrqs = 2
  MaxParcels = 1
  Eager = TRUE
  TwoFailures = FALSE
INVARIANT
  HwOnlyWhileGranted
