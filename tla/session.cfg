SPECIFICATION Spec
CONSTANTS
  MaxOps = 2
  Transfers <- TwoTransfers
INVARIANTS
  TypeOK
  OneTransfer
  StatusExact
  Ownership
  IdleClean
  PromisesKept
  NoFinalAfterEnd
PROPERTIES
  ChannelKept
  TransferCompletes
  CloseCompletes
\* The node's life ends.
CHECK_DEADLOCK FALSE
