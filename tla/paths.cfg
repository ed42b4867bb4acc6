SPECIFICATION Spec
CONSTANTS
  home = home
  o1 = o1
  o2 = o2
  o3 = o3
  Sessions = {s1, s2}
  Objects <- MCObjects
  Home <- home
  NoObject = nothing
  Changed = changed
  Names = {"a", "b"}
  Unique = {"b"}
  Args <- MCArgs
  NoPath = nopath
  FirstTrees <- MCTrees
CONSTRAINTS TwoAtOnce FewChanges
SYMMETRY Symmetry
INVARIANTS
  TypeOK
  InPlace
  ConfirmedKept
  AsSeen
