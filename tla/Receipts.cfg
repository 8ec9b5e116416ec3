CONSTANTS
  Writer = {w1, w2}
  MaxReceipts = 3
  MaxFaults = 2
  TipEnabled = TRUE
SPECIFICATION RSpec
SYMMETRY Symmetry
INVARIANTS
  TypeOK
  VerifiedMeansComplete
  SettledVerifies
PROPERTIES
  BrokenChainStaysBroken
  SoloWriteExtendsChain
  HandedKeepsChecked
  HandedIsWhole
CHECK_DEADLOCK FALSE
