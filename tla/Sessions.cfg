\* Every program and every operation, crashes and pids used again; two agents and
\* three switches in the terminal; a gateway, foreground sessions and previews with two
\* edits of files, skills or configuration; two turns, in two programs, with two
\* commands and an edit.
SPECIFICATION SessionsSpec
CONSTANTS
  Processes = {1, 2, 3, 4}
  Program <- Everybody
  Work = {"turn", "reset"}
  MaxFiles = 2
  MaxTokens = 3
  MaxWork = 1
  MaxCrashes = 2
  Navigable <- TwoAgents
  LocalNames = {"main"}
  MaxChanges = 1
  MaxSwitches = 3
  Ids <- SomeIds
  Unnameable = {"bad"}
  PromptFiles <- SomeFiles
  Agent = "a"
  EnvKeys <- Facts
  Configs <- SomeConfigs
  Looks <- SomeLooks
  Targets <- SomeTargets
  MaxEdits = 2
  MaxOpens = 2
  None = None
  Channels = {c1}
  Types = {"gateway", "preview"}
  TurnConfigs <- SomeTurnConfigs
  DefaultCacheMs = 1
  Runners = {1, 2}
  MaxClock = 2
  MaxTurns = 2
  MaxTurnEdits = 1
INVARIANTS HolderOnRecord OwnershipHolds PromptFaithful ServedFresh
PROPERTY SessionShown
CHECK_DEADLOCK FALSE
