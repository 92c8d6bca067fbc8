\* A user's variable in two spellings, a standard one and heaptop; room for three entries.
CONSTANTS
  Name <- AllNames
  Var <- VarOf
  Std <- StdTable
  Default <- Defaults
  Allowed <- Lists
  Heaptop = "heaptop"
  Expert = "galileoexpert"
  HeapStart = 1
  Sysvars <- Board
  Factory <- NewBoard
  Typed <- Inputs
  Value = {0, 1, 2, 3}
  Long = {3}
  NVAR = 4
  Room = 3
SPECIFICATION Spec
INVARIANTS
  TypeOK
  SetSurvives
  RemovedOnce
  NoDuplicates
  StartStable
  StdAlwaysSet
