\* Edits of the files of two agents while the gateway runs; the rest is kept small.
SPECIFICATION HostSpec
CONSTANTS
  c1 = c1
  Commands = {c1}
  MaxTurns = 1
  MaxLaunches = 1
  MayCrash = {}
  MaxFailures = 0
  p1 = p1
  p2 = p2
  p3 = p3
  l1 = l1
  Pids = {p1}
  Lookers = {}
  MaxStarts = 1
  MaxCrashes = 0
  w1 = w1
  w2 = w2
  t1 = t1
  t2 = t2
  Watches = {w1, w2}
  Schedules <- EveryOrCron
  Policy <- Mixed
  Emit <- SomeEmits
  Outputs = {1}
  Spoken = {1}
  Ticks = {t1}
  MaxHistory = 1
  MaxTime = 0
  MaxEdits = 0
  MaxRestarts = 0
  MaxRuns = 1
  MaxChildren = 1
  Files = {f1}
  Scans = {s1}
  MaxChanges = 0
  Universe = {}
  Roots = {"agents/shrimpy", "agents/x"}
  AgentSets <- SomeAgents
  ChannelSets <- SomeChannels
  MaxFileChanges = 0
  MaxListings = 0
  Owners <- TwoOwners
  Written <- SomeWatchFiles
  Options = {}
  Shells = {}
  MaxWrites = 3
  MaxUses = 0
  MaxLives = 1
INVARIANT AgentsIsolated
CHECK_DEADLOCK FALSE
