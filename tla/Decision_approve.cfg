SPECIFICATION Spec
CONSTANTS
  Decl <- AskedToForget
  Stock <- Shelf
  Ids = {1, 2, 3, 4, 5, 6}
  Requests <- Approvals
  MaxEvents = 8
  MaxNow = 2
INVARIANTS LogAccepts
