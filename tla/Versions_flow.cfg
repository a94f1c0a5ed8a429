SPECIFICATION Spec
CONSTANTS
  Procs = {"a", "b"}
  Clients = {"ca", "cb"}
  Home <- At
  Objects = {"o", "p"}
  Values = {1, 2, 3, 4}
  First = 1
  Changes = {"x", "y"}
  Base <- Loose
  Calls <- Mixed
  MAX_CALLS = 1
  MaxLog = 4
  MaxAttempts = 1
  MaxCrashes = 1
INVARIANTS TypeOK NoLostWrite RunsUnderItsTime BatchOnce NumbersDistinct ReportIsOfItsChange JudgedOnWhatItHolds
