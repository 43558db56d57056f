SPECIFICATION LogSpec
CONSTANTS
  Adapters = {"claude"}
  MaxRecs = 3
  MaxOps = 1
  LogFaults = 0
  NL = NL
INVARIANT TruncationSafe
CHECK_DEADLOCK FALSE
