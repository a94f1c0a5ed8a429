SPECIFICATION FairSpec
CONSTANTS
  t1 = t1
  t2 = t2
  t3 = t3
  k1 = k1
  NoKey = NoKey
  Nobody = Nobody
  NoTx = NoTx
  Tickets <- MCTickets
  Keys <- MCKeys
  KeyOf <- MCKeyOf
  BodyOf <- MCOtherBody
  Capacity = 1
  Backend = "postgres"
  GroupMost = 3
  MaxFaults = 2
  MaxCrashes = 1
INVARIANTS
  AnsweredIsDurable
  RefusedLeavesItsRow
  NumbersNotReused
PROPERTIES
  KeepsItsPromise
