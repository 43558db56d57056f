SPECIFICATION CacheSpec
CONSTANTS
  Requests = {r1}
  Ingests = {i1}
  Endpoints = {"overview"}
  NoOne = NoOne
  Nothing = Nothing
  Failed = Failed
CHECK_DEADLOCK FALSE
INVARIANTS WrittenIsInvalidated
