SPECIFICATION Spec
CONSTANTS
  Ids <- MCIds
  Sessions = {"session"}
  NoSession = NoSession
  Stamps = {1, 2}
  Totals = {1}
  KindsOf <- MCKindsOf
  SessionOf <- MCSessionOf
  MaxBatch = 2
  NoRow = NoRow
INVARIANT AggregateCounts
