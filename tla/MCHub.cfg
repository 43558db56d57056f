SPECIFICATION HubSpec
CONSTANTS
  Ids <- MCIds
  Sessions = {"session"}
  NoSession = NoSession
  Stamps = {1, 2}
  Totals = {1}
  KindsOf <- MCKindsOf
  SessionOf <- MCSessionOf
  MaxBatch = 2
  NoRow = NoRow
  Schemas = {9, 10}
  Keep = 2
  SharedDir = FALSE
  MaxRows = 3
  MaxFiles = 4
  MaxFaults = 2
  Nothing = Nothing
  Torn = Torn
  m1 = m1
  m2 = m2
  Machines <- HubMachines
  Written <- HubWritten
  MaxLog = 3
  BatchEvents = 2
  BatchBytes = 3
  UploadFaults = 1
  Thresholds <- HubThresholds
  Hour = 4
  Day = 8
  Month = 16
  Week = 24
  PeriodDays = 2
  ActivityWeeks = 1
  VisibleSeries = 1
  Ahead = 8
  Moments = {25, 32, 33, 37, 41}
  Clocks = {31, 38}
  Names = {1, 2}
  Shapes <- MCShapes
  MaxEvents = 2
  Races = {"none", "points", "aggregate", "week"}
  NoTotal = NoTotal
  NoStart = NoStart
  Pages = {p1, p2}
  CardSets <- HubCardSets
  Figures = {1, 2}
  MaxEvidence = 5
  Claims = 1
  TTL = 1
  Timeout = 1
  MaxTime = 2
  Label = Label
  Redaction = Redaction
  NoRecap = NoRecap
INVARIANTS HubTypeOK UniqueDetail NoDoubleCount NeverIgnored ResendIdempotent
  RestoreSafe StoredInOrder EvolutionAnnounced AnalyticsAdds RecapGrounded
PROPERTIES NoRecordLost ReopenKeepsRows
CHECK_DEADLOCK FALSE
