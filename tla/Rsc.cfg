SPECIFICATION Spec
CONSTANTS
  Primary = primary
  Externals = {ext1, ext2}
  Power = power
  None = None
  Revs <- MCRevs
INVARIANTS
  TypeOK
  StateFollowsVotes
  NoCollapseUnderDisplay
  PoweredWhileActive
  VsyncWaitExact
PROPERTIES
  VsyncWaitEnds
