SPECIFICATION AuditSpec
CONSTANTS
  Callers = {c1, c2}
  Requests <- MCRequests
  Empty = Empty
  HostKey = HostKey
  NoEntry = NoEntry
  thought = thought
  stream = stream
  MaxCalls = 3
  MaxClock = 1
INVARIANT EntriesAreSealed
PROPERTY AuditImplementsLog
CHECK_DEADLOCK FALSE
