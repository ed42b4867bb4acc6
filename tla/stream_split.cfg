SPECIFICATION Spec
CONSTANTS
  Limit = 2
  MaxSegment = 3
  MaxBytes = 4
INVARIANT MoreDataCompletes
\* The client may stop sending.
CHECK_DEADLOCK FALSE
