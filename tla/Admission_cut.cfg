SPECIFICATION FairSpec
CONSTANTS
  r1 = r1
  r2 = r2
  Reads <- MCReads
  Pools <- MCPools
  DryRuns = "dry_runs"
  Most <- MCMost
  MaxWrites = 1
  Nobody = Nobody
INVARIANTS TypeOK SlotsBounded NoneRunsAtTheCut
PROPERTIES StopsOnlyEarlier BarsLifted EveryReadAnswered
CHECK_DEADLOCK FALSE
