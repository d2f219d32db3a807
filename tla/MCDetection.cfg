SPECIFICATION DetectionFairSpec
CONSTANTS
  Axes = {"role", "region"}
  FieldOrder <- MCFieldOrder
  PROJECTION_VERSION = "crc-v1"
  None = None
  Huge = Huge
  Malformed = Malformed
  planner = planner
  F1 = F1
  F2 = F2
  DefaultGate = 2
  DefaultVersion = 0
  Workers = {w1}
  Batches = {b1}
  Bodies <- MCBodies
  Rows <- MCRows
  Faults = {"sign", "short", "forged", "put"}
  MaxEvents = 1
  MaxBatch = 2
  MaxReports = 1
INVARIANTS NumericIsEarned Reproducible ReturnedEventsVerify ReportsAreTrue
PROPERTY BatchesReturn
CHECK_DEADLOCK FALSE
