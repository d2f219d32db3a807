SPECIFICATION ClientSpec
CONSTANTS
  Thoughts = {t1}
  EventTypes = {LLM_CALL, ACTION_RESULT}
  SealType = ACTION_RESULT
  LLM_CALL = LLM_CALL
  UnknownTypes = {NOT_AN_EVENT}
  Tasks = {}
  Levels = {generic, detailed}
  None = None
  NoTrace = NoTrace
  BadStamps = {}
  Inbound <- MCInbound
  MaxAge = 0
  MaxClock = 0
  MaxDelivered = 4
  MaxRestarts = 0
  GrantTypes = {scores}
  WithdrawTypes = {recants}
  OtherTypes = {}
  ConsentDim = consent_dim
  OtherDims = {}
  ConfigStamps = {config_ts}
  NoStamp = NoStamp
  MaxAsserted = 1
  MaxRows = 0
  Calls = {c1, c2}
  HasKey = FALSE
  HasTee = TRUE
  ClientLevel = generic
  Failures = {"tee"}
PROPERTY SealedIsStored
CHECK_DEADLOCK FALSE
