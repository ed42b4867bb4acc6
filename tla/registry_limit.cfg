SPECIFICATION Spec
CONSTANTS
  Conns = {c1, c2, c3}
  Listers = {c1}
  Named = {alice}
  Anonymous = anon
  NoAccount = none
  MaxClients = 2
PROPERTY LimitCountsConnections
\* Every connection ends, and a crash ends them all.
CHECK_DEADLOCK FALSE
