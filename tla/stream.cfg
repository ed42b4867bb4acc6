SPECIFICATION Spec
CONSTANTS
  Limit = 2
  MaxSegment = 4
  MaxBytes = 6
INVARIANTS
  TypeOK
  NothingLost
  PoliteNeverWaits
\* The client may stop sending.
CHECK_DEADLOCK FALSE
