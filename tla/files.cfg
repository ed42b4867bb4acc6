SPECIFICATION Spec
CONSTANTS
  FirstFiles <- MCFiles
  MaxConns = 3
  MaxChunks = 2
INVARIANTS
  TypeOK
  TransferredWhole
  NullStreamNeedsSwitch
\* The server may crash.
CHECK_DEADLOCK FALSE
