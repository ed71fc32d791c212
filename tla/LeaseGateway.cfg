\* A reset in the gateway while a foreground run owns a session; the rest is kept small.
SPECIFICATION SessionsSpec
CONSTANTS
  Processes = {1, 2}
  Program <- GatewayAndRun
  Work = {"turn", "reset"}
  MaxFiles = 2
  MaxTokens = 2
  MaxWork = 1
  MaxCrashes = 0
  Navigable <- TwoAgents
  LocalNames = {"main"}
  MaxChanges = 0
  MaxSwitches = 1
  Ids <- SomeIds
  Unnameable = {"bad"}
  PromptFiles <- SomeFiles
  Agent = "a"
  EnvKeys <- Facts
  Configs <- SomeConfigs
  Looks <- SomeLooks
  Targets <- SomeTargets
  MaxEdits = 0
  MaxOpens = 1
  None = None
  Channels = {c1}
  Types = {"gateway", "preview"}
  TurnConfigs <- SomeTurnConfigs
  DefaultCacheMs = 1
  Runners = {1}
  MaxClock = 1
  MaxTurns = 1
  MaxTurnEdits = 0
INVARIANTS AloneOnTranscript
CHECK_DEADLOCK FALSE
