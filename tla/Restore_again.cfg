SPECIFICATION Spec
CONSTANTS
  Scopes <- MCScopes
  Selected = {"claims"}
  MaxAcks = 1
  Least = 2
  Round = 2
  DrawMost = 1
  Again = TRUE
  Limit = 1
  MaxRecords = 4
  MaxTime = 1
  MaxCopies = 1
  MaxRestores = 2
  MaxForgets = 1
  None = None
INVARIANT HandedOutOnce
