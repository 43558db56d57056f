SPECIFICATION LockSpec
CONSTANTS
  Processes = {serve, import, restore}
  OneAtATime = FALSE
  Suspends = FALSE
  Heartbeat = 1
  StaleAfter = 2
  LockFaults = 0
  NoMarker = NoMarker
  Orphan = Orphan
INVARIANT Exclusive
