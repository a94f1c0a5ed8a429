SPECIFICATION Spec
CONSTANTS
  Decl <- Flow
  Stock <- Shelf
  Ids = {1, 2, 3, 4}
  Requests <- Relabels
  MaxEvents = 10
  MaxNow = 1
INVARIANTS LogFolds
