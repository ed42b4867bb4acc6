SPECIFICATION Spec
CONSTANTS
  MaxOps = 1
  Transfers <- TwoTransfers
INVARIANT ReinKeepsTransfer
CHECK_DEADLOCK FALSE
