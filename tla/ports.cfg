SPECIFICATION Spec
CONSTANTS
  Clients = {c1, c2}
  Word = 9
  Start = 3
  Num = 2
  Tries = 3
  Foreign = {3, 4}
  NoPort = none
INVARIANTS
  TypeOK
  OrderlyRange
  RefusalMeansBusy
PROPERTY SearchEnds
