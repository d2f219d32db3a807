SPECIFICATION ClientSafetySpec
CONSTANTS
  Thoughts = {t1}
  EventTypes = {LLM_CALL, ACTION_RESULT}
  SealType = ACTION_RESULT
  LLM_CALL = LLM_CALL
  UnknownTypes = {NOT_AN_EVENT}
  Tasks = {}
  Levels = {generic, detailed}
  None = None
  NoTrace = NoTrace
  BadStamps = {}
  Inbound <- MCInbound
  MaxAge = 0
  MaxClock = 0
  MaxDelivered = 3
  MaxRestarts = 1
  GrantTypes = {scores}
  WithdrawTypes = {recants}
  OtherTypes = {}
  ConsentDim = consent_dim
  OtherDims = {other_dim}
  ConfigStamps = {config_ts}
  NoStamp = NoStamp
  MaxAsserted = 2
  MaxRows = 2
  Calls = {c1, c2}
  HasKey = TRUE
  HasTee = FALSE
  ClientLevel = generic
  Failures = {"directory", "sign", "persist", "cancel"}
SYMMETRY Symmetry
INVARIANTS AtMostOnce ConsentCovers SignedAsStored
PROPERTY ImplementsDelivery
CHECK_DEADLOCK FALSE
