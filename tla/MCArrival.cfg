SPECIFICATION ArrivalSpec
CONSTANTS
  Agents = {daemon, once}
  Polling = {daemon}
  Logs = {claudeLog, codexLog}
  Snaps = {}
  Cached = {codexLog}
  MaxKey = 1
  MaxRow = 0
  MaxVer = 1
  BatchMax = 1
  MaxFaults = 1
  Overtaking = TRUE
  NoSource = NoSource
  NoEntry = NoEntry
  Requests = {r1, r2, r3}
  Ingests = {i1}
  Endpoints = {"overview"}
  NoOne = NoOne
  Nothing = Nothing
  Failed = Failed
INVARIANTS RecordsAccountedFor
  CacheTypeOK SingleFlight FreshAnswers MonotoneReads QuietCacheIsCurrent
PROPERTIES LogRecordsArrive EveryRequestAnswered
CHECK_DEADLOCK FALSE
