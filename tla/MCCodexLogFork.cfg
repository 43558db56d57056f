SPECIFICATION CodexSpec
CONSTANTS
  Uses = {1}
  MaxTurns = 2
  MaxChanges = 1
  CodexFaults = 1
  None = None
INVARIANT ResumeAlwaysFull
CHECK_DEADLOCK FALSE
