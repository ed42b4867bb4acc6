SPECIFICATION Spec
CONSTANTS
  Conns = {c1, c2, c3}
  Listers = {c1}
  Named = {alice}
  Anonymous = anon
  NoAccount = none
  MaxClients = 2
INVARIANTS
  TypeOK
  Capacity
  OneHome
  NullUserNeedsHurry
PROPERTIES
  RefusalMeansFull
  QuotaKept
\* Every connection ends, and a crash ends them all.
CHECK_DEADLOCK FALSE
