SPECIFICATION Spec
CONSTANTS
  r1 = r1
  r2 = r2
  Reads <- MCReads
  Pools <- MCPools
  DryRuns = "dry_runs"
  Most <- MCMost
  MaxWrites = 1
  Nobody = Nobody
INVARIANT ReleaseLetsHeldIn
CHECK_DEADLOCK FALSE
