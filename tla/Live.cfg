\* Small instances under fairness: updates of two chats and the liveness of four components.
SPECIFICATION FairLiveSpec
CONSTANTS
  a1 = a1
  a2 = a2
  c1 = c1
  c2 = c2
  u1 = u1
  r1 = r1
  Channels = {c1, c2}
  Agents = {a1, a2}
  Members <- OneShared
  Messages <- Wakes
  MaxHandled = 2
  MaxLog = 1
  MaxStops = 1
  OutChannels = {c1, c2}
  OutMessages <- OneText
  MaxAttempts = 2
  RunIds = {r1}
  MaxPosts = 1
  MaxRelaunches = 1
  MaxRebinds = 0
  Chats = {c1, c2}
  Updates <- TwoChats
  MayCommand <- OnlyFirst
  MaxUpdates = 2
  MaxFailures = 1
  MaxRestarts = 1
  Commands = {c1}
  MaxTurns = 2
  MaxLaunches = 2
  MayCrash = {"command", "supervisor"}
  MaxCrashes = 1
INVARIANTS UpdatesAccounted
PROPERTIES EveryWakeHandled EverySendSettles EveryUpdateSettles WaitEnds
CHECK_DEADLOCK FALSE
