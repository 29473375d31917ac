SPECIFICATION Spec
CONSTANTS
  Master = master
  Slave = slave
  Dsi = dsi
  Mdp = mdp
  Encoder = encoder
  Panel = panel
  Checker = checker
  Recovery = recovery
  CmdMode = TRUE
  MaxFaults = 2
  None = none
INVARIANTS
  TypeOK
  ClocksOrdered
  
PROPERTY
  CountsBalanced
