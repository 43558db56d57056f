SPECIFICATION RecoverySpec
CONSTANTS
  Agents = {daemon}
  Polling = {daemon}
  Logs = {codexLog}
  Snaps = {opencode}
  Cached = {codexLog, opencode}
  MaxKey = 2
  MaxRow = 1
  MaxVer = 2
  BatchMax = 1
  MaxFaults = 2
  Overtaking = FALSE
  NoSource = NoSource
  NoEntry = NoEntry
  Adapters = {"claude", "openclaw", "generic"}
  MaxRecs = 3
  MaxOps = 1
  LogFaults = 1
  NL = NL
  Processes = {serve, import, restore}
  OneAtATime = TRUE
  Suspends = FALSE
  Heartbeat = 1
  StaleAfter = 2
  LockFaults = 3
  NoMarker = NoMarker
  Orphan = Orphan
INVARIANTS TypeOK CursorCovered FingerprintCovered RecoveryTypeOK
   CalmRescanSafe DurationKept Exclusive OwnerKeepsMarker
PROPERTIES HubNeverFallsBack ReadCommitDelivers CalmCommitDelivers ImplementsOutbox
  RecordsRead Reclaimed
CHECK_DEADLOCK FALSE
