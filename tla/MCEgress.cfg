SPECIFICATION EgressSpec
CONSTANTS
  t1 = t1
  t2 = t2
  agent = agent
  text = text
  Empty = Empty
  NoCoord = NoCoord
  NoBlock = NoBlock
  NoSeverity = NoSeverity
  Unsigned = Unsigned
  Traces = {t1, t2}
  Bodies <- MCBodies
  FilterArgs <- MCFilterArgs
  Severities = {"info", "warning", "odd"}
  Inputs <- MCInputs
  MetaFields <- MCMetaFields
  PlaceFields <- MCPlaceFields
  CoordFields <- MCCoordFields
  Grain = 64
  MaxHops = 2
INVARIANTS VerifiesIffUntouched LocationIsCoarse
PROPERTY FiltersHold
CHECK_DEADLOCK FALSE
