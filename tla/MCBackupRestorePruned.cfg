SPECIFICATION BackupSpec
CONSTANTS
  Schemas = {3, 4}
  Keep = 2
  SharedDir = FALSE
  MaxRows = 2
  MaxFiles = 4
  MaxFaults = 0
  Nothing = Nothing
  Torn = Torn
INVARIANT PreRestoreRetained
CHECK_DEADLOCK FALSE
