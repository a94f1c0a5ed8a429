SPECIFICATION Spec
CONSTANTS
  Decl <- Flow
  Stock <- Shelf
  Ids = {1, 2, 3, 4, 5, 6}
  Requests <- Asks
  MaxEvents = 7
  MaxNow = 2
INVARIANTS TypeOK AdmissionsStand VersionsLogged LogFolds SpansTile ChainsEnd ExecutedAsFiled
PROPERTIES ErasureReaches ErasesTheGroup
