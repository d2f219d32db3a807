SPECIFICATION RetentionFairSpec
CONSTANTS
  Passes = {p1, p2}
  Policies <- MCPolicies
  BatchSize = 2
  None = None
  MaxClock = 2
  MaxIngested = 3
PROPERTIES AgedRowsAreGone OnlyDueRowsAreDeleted PassesEnd
CHECK_DEADLOCK FALSE
