\* Three edits of the configuration; three models; two sessions of an agent; short
\* transcripts; two commands on two skills; two
\* releases; two programs at one index of a document that is written; a search of two
\* transcripts that grow; two checkpoints at once.
SPECIFICATION UpkeepSpec
SYMMETRY Symmetry
CONSTANTS
  Sessions = {p1, p2}
  Scoped = {p2}
  Editors = {w1}
  MaxEdits = 3
  m3 = m3
  Models = {m1, m2, m3}
  Provider <- TwoAndOne
  MaxCandidates = 3
  TurnSessions = {s1, s2}
  Facts = {"f"}
  Revisions = {1, 2}
  MaxEntries = 2
  MaxItems = 1
  MaxSeen = 1
  MaxPerTurn = 2
  MaxActivity = 2
  MaxChanges = 1
  MaxResets = 1
  Budget = 8
  Overhead = 2
  Base = 1
  Floor = 1
  MaxPasses = 1
  SummarySizes = {1, 3}
  Jobs <- SomeJobs
  SkillCommands = {k1, k2}
  Copies = {d1, d2}
  MaxVersion = 2
  MaxSkillEdits = 1
  MaxCrashes = 1
  MaxCommands = 3
  UpdateCommands = {u1, u2}
  Releases = {r1, r2}
  Installed = r0
  MaxErrors = 2
  MaxApplies = 3
  Agents = {"a1", "a2"}
  Documents <- TwoDocuments
  Paths <- OnePath
  Searches = {q1, q2}
  Uses = {"a1", "rebuild", "inspect"}
  Shown <- OneOrBoth
  MaxClock = 1
  MaxWrites = 1
  MaxConfigs = 1
  MaxSearches = 3
  x1 = x1
  Transcribed = {x1, x2}
  Owner <- OwnerOf
  Limit = 1
  Window = 1
  Searchers = {z1}
  MaxFiles = 2
  MaxTime = 3
  Listed = {o1}
  Private = {s0}
  Programs = {g1, g2}
  MaxFileEdits = 2
  MaxRuns = 3
  MaxFailures = 1
INVARIANTS SavesKept ActivityAccounted  RecordedKept 
PROPERTIES NotToldTwice  ModelsChosen 
CHECK_DEADLOCK FALSE
