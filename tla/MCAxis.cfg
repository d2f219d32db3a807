SPECIFICATION AllSpec
CONSTANTS
  Agents = {a1, a2, a3}
  Records <- MCRecords
  Bundles <- MCBundles
  m1 = m1
  m2 = m2
  Absent = Absent
  NoMetric = NoMetric
  NoHash = NoHash
  NoBound = NoBound
  NoVerdict = NoVerdict
  NoAttestation = NoAttestation
  Keys = {k1, k2}
  Grain = 2
  MaxSample = 3
  Log10 <- MCLog10
  Values = {0, 1, 2, 3, NotFinite}
  NotFinite = NotFinite
SYMMETRY Symmetry
INVARIANTS NoSignalNoNumber MeasuresKeepTheirRange EvidenceNamesItsSources CapacityIsNeverInflated
PROPERTY SeverityIsARamp
CHECK_DEADLOCK FALSE
