------------------------------ MODULE Scoring ------------------------------
(***************************************************************************)
(* From a trace and a calibration bundle to a ManifoldConformity:          *)
(* cohort/declared.rs, extract/projection.rs, scoring/calibration.rs,      *)
(* detector/manifold.rs, pipeline/lifecycle.rs and scoring/assembly.rs.    *)
(* Numbers are abstract: NaN is None, a value whose square overflows is    *)
(* Huge, and a distance is the data it is computed from, so two distances  *)
(* are equal only when they come from the same vector and centroid.        *)
(***************************************************************************)
EXTENDS Integers, FiniteSets, Sequences, SequencesExt

CONSTANTS
  Axes,               \* the six fields of deployment_profile
  FieldOrder,         \* CRC_V1_FIELD_ORDER
  PROJECTION_VERSION,
  None, Huge,
  DefaultGate,        \* sample_size_gate of the call site
  DefaultVersion      \* ratchet_calibration_version of the call site

ASSUME ScoringAssumption ==
  /\ IsFiniteSet(Axes)
  /\ FieldOrder \in Seq(ToSet(FieldOrder))
  /\ Cardinality(ToSet(FieldOrder)) = Len(FieldOrder)
  /\ None # Huge
  /\ DefaultGate \in Nat /\ DefaultVersion \in Int

Fields == ToSet(FieldOrder)

----------------------------------------------------------------------------
(* cohort/declared.rs and extract/projection.rs.                           *)

(* A profile that is absent or not a string leaves the axis None.          *)
ParseFromEnvelope(body) ==
  [a \in Axes |-> IF a \in DOMAIN body.profile THEN body.profile[a] ELSE None]

CohortCell(body) == ParseFromEnvelope(body)

(* The vector of a trace; a missing feature is NaN.                        *)
Project(body) ==
  [f \in Fields |-> IF f \in DOMAIN body.features THEN body.features[f] ELSE None]

----------------------------------------------------------------------------
(* scoring/calibration.rs.                                                 *)

RetainedFields(b) == {f \in Fields : b.retention_mask[f]}

(* CalibrationBundle::validate; a vector's length is its domain.           *)
Valid(b) ==
  /\ b.projection_version = PROJECTION_VERSION
  /\ b.field_order = FieldOrder
  /\ DOMAIN b.means = Fields /\ DOMAIN b.stds = Fields
  /\ DOMAIN b.retention_mask = Fields
  /\ \A i \in 1..Len(b.cohort_centroids) :
       /\ DOMAIN b.cohort_centroids[i].centroid = RetainedFields(b)
       /\ DOMAIN b.cohort_centroids[i].variance = RetainedFields(b)

(* CalibrationBundle::from_persist_row; None stands for a BundleError.     *)
FromPersistRow(row) ==
  IF row.sample_size_gate >= 0 /\ Valid(row) THEN row ELSE None

(* Mutant: an unknown cohort is scored against the first centroid.         *)
LookupNearest(b, cell) ==
  IF b.cohort_centroids = <<>> THEN None ELSE b.cohort_centroids[1]

(* The first centroid of the cohort.                                       *)
LookupCohort(b, cell) ==
  LET Is(i) == b.cohort_centroids[i].cohort = cell
      first == {i \in 1..Len(b.cohort_centroids) : Is(i) /\ \A j \in 1..(i - 1) : ~Is(j)}
  IN IF first = {} THEN None ELSE b.cohort_centroids[CHOOSE i \in first : TRUE]

----------------------------------------------------------------------------
(* detector/manifold.rs; None stands for DegenerateCovariance.             *)

(* Mutant: a feature without imputation counts as its mean.                *)
ImputedToMean(b, raw) ==
  [f \in RetainedFields(b) |-> IF raw[f] = None THEN 0 ELSE raw[f]]

Imputed(b, raw) ==
  [f \in RetainedFields(b) |->
     IF raw[f] # None THEN raw[f]
     ELSE IF f \in DOMAIN b.imputation THEN b.imputation[f] ELSE None]

StandardizeAndRetain(b, raw) ==
  LET x == Imputed(b, raw)
  IN IF \A f \in RetainedFields(b) : b.stds[f] > 0 /\ x[f] # None THEN x ELSE None

MahalanobisDefined(c, x) ==
  \A f \in DOMAIN c.variance : c.variance[f] > 0 /\ x[f] # Huge

ScoreMahalanobis(b, c, raw) ==
  LET x == StandardizeAndRetain(b, raw)
  IN IF x # None /\ MahalanobisDefined(c, x)
     THEN [x |-> x, means |-> b.means, stds |-> b.stds, centroid |-> c]
     ELSE None

----------------------------------------------------------------------------
(* pipeline/lifecycle.rs and scoring/assembly.rs.                          *)

ColdStart == [variant |-> "indeterminate", reason |-> "cohort_cold_start"]
BelowGate(current, gate) ==
  [variant |-> "indeterminate", reason |-> <<"sample_size_below_gate", current, gate>>]
Degenerate == [variant |-> "unavailable", reason |-> "degenerate_covariance"]
Numeric(d) == [variant |-> "numeric", score |-> d]

(* assemble(Scored): the gate a second time.                               *)
AssembleScored(d, current, gate) ==
  IF current < gate THEN BelowGate(current, gate) ELSE Numeric(d)

EffectiveGate(b) == IF b = None THEN DefaultGate ELSE b.sample_size_gate

(* Mutant: the call site's version is stamped although a bundle is there.  *)
CallSiteVersion(b) == DefaultVersion

EffectiveVersion(b) ==
  IF b = None THEN DefaultVersion ELSE b.ratchet_calibration_version

(* assembly_input_from_bundle and assemble; detect() never fires.          *)
Conformity(b, body) ==
  LET c == IF b = None THEN None ELSE LookupCohort(b, CohortCell(body)) IN
  IF c = None THEN ColdStart
  ELSE IF c.sample_count < b.sample_size_gate
  THEN BelowGate(c.sample_count, b.sample_size_gate)
  ELSE LET d == ScoreMahalanobis(b, c, Project(body)) IN
       IF d = None THEN Degenerate
       ELSE AssembleScored(d, c.sample_count, EffectiveGate(b))

SeverityFrom(conformity) ==
  IF conformity.variant = "unavailable" THEN "warning" ELSE "info"
=============================================================================
