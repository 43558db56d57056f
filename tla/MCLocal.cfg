SPECIFICATION LocalSpec
CONSTANTS
  Uses = {1, 2}
  MaxTurns = 2
  MaxChanges = 1
  CodexFaults = 1
  None = None
  Tools = {"opencode", "hermes", "zcode", "copilot", "antigravity"}
  MaxRow = 2
  MaxWrites = 4
  DbFaults = 2
  NoEntry = NoEntry
  NoPoll = NoPoll
  Sources = {s1, s2}
  HeartbeatLimit = 1
  ConnectedWindow = 3
  StaleWindow = 5
  Interval = 2
  MinBackoff = 1
  MaxBackoff = 3
  PassTime = 1
  MaxNow = 7
  HealthFaults = 1
INVARIANTS LocalTypeOK CodexCounts HubShowsSource
  HealthIsHonest
CHECK_DEADLOCK FALSE
