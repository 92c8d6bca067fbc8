\* Removing a variable that was set under another spelling.
CONSTANTS
  Name <- AllNames
  Var <- VarOf
  Std <- StdTable
  Default <- Defaults
  Allowed <- Lists
  Heaptop = "heaptop"
  Expert = "galileoexpert"
  HeapStart = 1
  Sysvars <- Board
  Factory <- NewBoard
  Typed <- Inputs
  Value = {0, 1, 2, 3}
  Long = {3}
  NVAR = 4
  Room = 3
SPECIFICATION Spec
INVARIANT RemovedStaysRemoved
