SPECIFICATION CaptureSpec
CONSTANTS
  t1 = t1
  t2 = t2
  Thoughts = {t1, t2}
  EventTypes = {LLM_CALL, ACTION_RESULT}
  SealType = ACTION_RESULT
  LLM_CALL = LLM_CALL
  ACTION_RESULT = ACTION_RESULT
  NOT_AN_EVENT = NOT_AN_EVENT
  UnknownTypes = {NOT_AN_EVENT}
  Tasks = {}
  Levels = {generic, detailed}
  detailed = detailed
  generic = generic
  None = None
  NoTrace = NoTrace
  bad = bad
  BadStamps = {bad}
  Inbound <- MCInbound
  MaxAge = 0
  MaxClock = 1
  MaxDelivered = 4
  MaxRestarts = 1
  GrantTypes = {scores}
  WithdrawTypes = {recants}
  OtherTypes = {other_type}
  ConsentDim = consent_dim
  OtherDims = {other_dim}
  ConfigStamps = {config_ts}
  NoStamp = NoStamp
  MaxAsserted = 2
  MaxRows = 3
INVARIANTS TracesAreSound GrantIsNewest
PROPERTIES OnlyStaleTracesAreLost ImplementsAssembly WithdrawalSticks
CHECK_DEADLOCK FALSE
