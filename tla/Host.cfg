\* Starts of gateways at any time, crashes anywhere, pids used again, a status
\* command; commands on a worker, crashes of commands and supervisors; two
\* watches, overlapping ticks, an edit, a restart; two lives of a gateway with
\* four inspectors; two files under two overlapping scans; a listing of files of every
\* kind; the watch files of two agents with two edits and a command.
SPECIFICATION HostSpec
CONSTANTS
  c1 = c1
  Commands = {c1}
  MaxTurns = 3
  MaxLaunches = 2
  MayCrash = {"command", "supervisor"}
  MaxFailures = 2
  p1 = p1
  p2 = p2
  p3 = p3
  l1 = l1
  Pids = {p1, p2, p3}
  Lookers = {l1}
  MaxStarts = 4
  MaxCrashes = 2
  w1 = w1
  w2 = w2
  t1 = t1
  t2 = t2
  Watches = {w1, w2}
  Schedules <- EveryOrCron
  Policy <- Mixed
  Emit <- SomeEmits
  Outputs = {1}
  Spoken = {1}
  Ticks = {t1, t2}
  MaxHistory = 2
  MaxTime = 3
  MaxEdits = 1
  MaxRestarts = 1
  MaxRuns = 2
  MaxChildren = 4
  Files = {f1, f2}
  Scans = {s1, s2}
  MaxChanges = 3
  Universe <- AllKinds
  Roots = {"agents/shrimpy", "agents/x"}
  AgentSets <- SomeAgents
  ChannelSets <- SomeChannels
  MaxFileChanges = 1
  MaxListings = 1
  Owners <- TwoOwners
  Written <- SomeWatchFiles
  Options <- SomeOptions
  Shells = {"shell"}
  MaxWrites = 2
  MaxUses = 1
  MaxLives = 2
INVARIANTS    InspectorServes WatchFilesTrue
  
CHECK_DEADLOCK FALSE
