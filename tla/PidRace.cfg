\* Starts at the same time while the pid file is stale.
SPECIFICATION Spec
CONSTANTS
  Pids = {p1, p2, p3}
  Lookers = {}
  MaxStarts = 4
  MaxCrashes = 1
INVARIANT ReclaimsOnlyStale
CHECK_DEADLOCK FALSE
