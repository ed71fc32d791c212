\* One lane, every kind of message and session operation; a message to a chat; texts of
\* six cells; three lines of two writers, one dying; three commands on agents beside a
\* gateway; policies with two patterns; a browser with two logs.
SPECIFICATION ChannelsSpec
SYMMETRY Symmetry
CONSTANTS
  a1 = a1
  c1 = c1
  Channels = {c1}
  Agents = {a1}
  Members <- Everywhere
  Messages <- SessionOps
  MaxHandled = 2
  MaxLog = 3
  MaxRestarts = 1
  MaxStops = 1
  Texts <- SomeTexts
  Pictures <- SomePictures
  MaxRetries = 2
  TagNames = {"b", "i"}
  Limit = 9
  MaxCells = 6
  Writers = {w1, w2}
  MaxLines = 3
  MaxDeaths = 1
  Configurable = {"s", "x", "y"}
  Default = "s"
  Roots = {"s", "x", "y"}
  Rooms = {"tg", "dm"}
  Threads = {"t1"}
  ChannelOf <- OneThread
  Dm <- OneDm
  SurfaceDefault <- TelegramDefault
  MaxOps = 3
  Me = "me"
  Others = {"other"}
  Places = {"home", "work"}
  Patterns = {"home", "all"}
  Matches <- HomeOrAll
  Values <- SomeRules
  Files = {g1, g2}
  Window = 2
  MaxWrites = 2
  MaxSelects = 2
  MaxBreaks = 1
  MaxAsked = 2
INVARIANTS CursorCovered RerunsExcused FirstTurnsInOrder ControlsSettle  LinesRead RosterTrue WakesGuarded 
CHECK_DEADLOCK FALSE
