SPECIFICATION LogSpec
CONSTANTS
  Adapters = {"claude"}
  MaxRecs = 3
  MaxOps = 1
  LogFaults = 0
  NL = NL
INVARIANT RescanSafe
CHECK_DEADLOCK FALSE
