SPECIFICATION Spec
CONSTANTS
  Agents = {daemon}
  Polling = {daemon}
  Logs = {codexLog}
  Snaps = {opencode}
  Cached = {codexLog, opencode}
  MaxKey = 2
  MaxRow = 1
  MaxVer = 2
  BatchMax = 1
  MaxFaults = 1
  Overtaking = FALSE
  NoSource = NoSource
  NoEntry = NoEntry
PROPERTY CommitDelivers
