---------------------------- MODULE AxisScoring ----------------------------
(***************************************************************************)
(* Scoring a cohort against the axis calibration (crc-v2):                 *)
(*   src/scoring/axis_calibration.rs    the bundle and its axes            *)
(*   src/detector/axis_metrics.rs       threshold, polarity, severity      *)
(*   src/detector/correlated_action.rs  src/detector/distributive_access.rs*)
(*                                      which measure, over which fields   *)
(*   src/signing/event.rs:53-143        the evidence an attestation cites  *)
(*                                                                         *)
(* The pipeline does not call these scorers yet: the caller that loads a   *)
(* bundle, scores a cohort and attests the verdict is external.  A score   *)
(* is a ratio of hundredths.                                               *)
(***************************************************************************)
EXTENDS AxisMetrics

CONSTANTS
  Agents,       \* agents whose aggregates make up the corpus
  Records,      \* the aggregates RATCHET's Pass A produces, fields missing or not
  Absent,       \* an agent without an aggregate
  Bundles,      \* the bundle.yaml files there are; some do not parse
  NoHash,       \* no prior bundle to cite
  NoBound,      \* a corridor bound, direction or outcome that is not given
  NoVerdict     \* nothing attested yet

VARIABLES
  corpus,    \* agent -> its aggregate
  bundle,    \* the calibration in use
  prior,     \* what the caller gives for the superseded bundle's hash, in a transition
  verdict,   \* the last verdict under this bundle, to compare the next one with
  envelope   \* the attestation just handed out, with its evidence

axisVars == <<corpus, bundle, prior, verdict, envelope>>

(* The numbers of a record are counts; an axis is calibrated by a ratio and *)
(* a score that is not positive, and bundles differ in their hashes.       *)
Numbers == {"cost_usd_sum", "pdma_total", "pdma_conflict_count", "n_distinct_domains",
            "dsdma_flags_count", "n_action"}

ASSUME RecordAssumption ==
  /\ IsFiniteSet(Agents)
  /\ \A n \in 1..Cardinality(Agents) : Log10[n] \in Nat
  /\ NoMetric \notin Ratios
  /\ \A r \in Records :
       /\ \A f \in DOMAIN r \cap Numbers : r[f] \in Nat
       /\ "federation_member" \in DOMAIN r => r["federation_member"] \in BOOLEAN
       /\ "llm_model_counts" \in DOMAIN r =>
            /\ IsFiniteSet(DOMAIN r["llm_model_counts"])
            /\ \A k \in DOMAIN r["llm_model_counts"] : r["llm_model_counts"][k] \in Nat

AxisEntryOK(e) ==
  /\ e.threshold \in Ratios
  /\ e.upper_bound \in Ratios \cup {NoBound}
  /\ e.lower_bound \in Ratios \cup {NoBound}
  /\ e.score_at_threshold \in Int /\ e.score_at_threshold <= 0
  /\ e.concern_direction \in {"at_or_above", "at_or_below", "outside_corridor", NoBound}

ASSUME BundleAssumption ==
  /\ \A b \in Bundles : b.sha256 # NoHash
  /\ \A b, c \in Bundles : b.sha256 = c.sha256 => b = c
  /\ \A b \in Bundles : \A d \in DOMAIN b.axes : AxisEntryOK(b.axes[d])

NoBundle == [sha256 |-> NoHash, axes |-> <<>>]

----------------------------------------------------------------------------
(* axis_calibration.rs.                                                    *)

AXIS_CALIBRATION_VERSION == "crc-v2"

RATCHET_AXIS_CALIBRATION_VERSION == 2

(* Mutant: any version string will do.                                     *)
ValidStamp(b) ==
  b.parses /\ b.ratchet_calibration_version = RATCHET_AXIS_CALIBRATION_VERSION

(* from_yaml and validate.                                                 *)
Valid(b) ==
  /\ b.parses
  /\ b.projection_version = AXIS_CALIBRATION_VERSION
  /\ b.ratchet_calibration_version = RATCHET_AXIS_CALIBRATION_VERSION

(* The explicit direction wins over the percentile's tail.                 *)
ConcernDirection(e) ==
  IF e.concern_direction # NoBound THEN e.concern_direction
  ELSE IF e.pctile <= 50 THEN "at_or_below" ELSE "at_or_above"

UpperBound(e) == IF e.upper_bound # NoBound THEN e.upper_bound ELSE e.threshold

----------------------------------------------------------------------------
(* The corpus: an agent's field, or what the code puts for a missing one.  *)

Cohort == {a \in Agents : corpus[a] # Absent}

Members == SetToSeq(Cohort)

Field(f, default) ==
  [i \in DOMAIN Members |->
     LET r == corpus[Members[i]] IN IF f \in DOMAIN r THEN r[f] ELSE default]

PooledModels ==
  LET maps == Field("llm_model_counts", <<>>)
      used == UNION {DOMAIN maps[i] : i \in DOMAIN maps}
  IN  [k \in DOMAIN SetToSeq(used) |->
         Total([i \in DOMAIN maps |-> IF SetToSeq(used)[k] \in DOMAIN maps[i]
                                      THEN maps[i][SetToSeq(used)[k]] ELSE 0])]

(* dimension -> family; training_data and the positive duals have none of  *)
(* the measures and no axis in the bundle.                                 *)
Resources == {"compute", "models", "training_data", "agent_capabilities",
              "federation_membership"}

CorrelatedActions == {"rights_asymmetry", "participation_exclusion",
                      "informational_asymmetry", "aggregate_footprint",
                      "participation_inclusion"}

Dimensions == Resources \cup CorrelatedActions

Metric(d) ==
  CASE d = "compute" -> Gini(Field("cost_usd_sum", 0))
    [] d = "models" -> Hhi(PooledModels)
    [] d = "agent_capabilities" ->
         CapabilityDiversity(
           [i \in DOMAIN Members |-> <<Field("cognitive_state_dominant", "")[i],
                                       Field("agent_role", "")[i]>>])
    [] d = "federation_membership" ->
         PooledRate(Cardinality({i \in DOMAIN Members :
                                   ~Field("federation_member", TRUE)[i]}),
                    Len(Members))
    [] d = "rights_asymmetry" ->
         PooledRate(Total(Field("pdma_conflict_count", 0)),
                    Total(Field("pdma_total", 0)))
    [] d = "participation_exclusion" ->
         FractionBelowMedian(Field("n_distinct_domains", 0))
    [] d = "informational_asymmetry" ->
         CoefficientOfVariation(Field("dsdma_flags_count", 0))
    [] d = "aggregate_footprint" ->
         AggregateFootprint(Total(Field("n_action", 0)), Len(Members))
    [] OTHER -> NoMetric

----------------------------------------------------------------------------
(* score_against_axis and severity_scaled_score.                           *)

Indeterminate == [kind |-> "Indeterminate", score |-> Zero]

Numeric(score) == [kind |-> "Numeric", score |-> score]

BoundedMetrics == {"compute_gini", "models_hhi", "part_excl_frac",
                   "pdma_rate_within", "nonmember_frac"}

Ceiling(e) == IF e.metric \in BoundedMetrics THEN One
              ELSE Ratio(2 * e.threshold.n, e.threshold.d)

Clamp(x) == IF x.n <= 0 THEN Zero ELSE IF Leq(One, x) THEN One ELSE x

Minus(a, b) == Ratio(a.n * b.d - b.n * a.d, a.d * b.d)

(* b > 0.                                                                  *)
Over(a, b) == Ratio(a.n * b.d, a.d * b.n)

(* Mutant: the ramp is not clamped.                                        *)
RampWithoutClamp(m, e) ==
  LET t == e.threshold
  IN  IF ConcernDirection(e) = "at_or_below"
      THEN IF t.n <= 0 THEN Zero ELSE Over(Minus(t, m), t)
      ELSE IF Leq(Ceiling(e), t) THEN Zero
           ELSE Over(Minus(m, t), Minus(Ceiling(e), t))

(* Mutant: the lower tail is measured from the floor, not from the threshold.*)
RampFromTheFloor(m, e) ==
  LET t == e.threshold
  IN  IF ConcernDirection(e) = "at_or_below"
      THEN IF t.n <= 0 THEN Zero ELSE Clamp(Over(m, t))
      ELSE IF Leq(Ceiling(e), t) THEN Zero
           ELSE Clamp(Over(Minus(m, t), Minus(Ceiling(e), t)))

(* How far past the threshold, of the head-room there is: in 0..1.         *)
Ramp(m, e) ==
  LET t == e.threshold
  IN  IF ConcernDirection(e) = "at_or_below"
      THEN IF t.n <= 0 THEN Zero ELSE Clamp(Over(Minus(t, m), t))
      ELSE IF Leq(Ceiling(e), t) THEN Zero
           ELSE Clamp(Over(Minus(m, t), Minus(Ceiling(e), t)))

SeverityScaledScore(m, e) ==
  LET frac == Ramp(m, e)
  IN  Ratio(e.score_at_threshold * (frac.d + frac.n), frac.d)

Crosses(m, e) ==
  CASE ConcernDirection(e) = "at_or_above" -> Leq(e.threshold, m)
    [] ConcernDirection(e) = "at_or_below" -> Leq(m, e.threshold)
    [] ConcernDirection(e) = "outside_corridor" ->
         \/ Leq(UpperBound(e), m)
         \/ e.lower_bound # NoBound /\ Leq(m, e.lower_bound)

(* Mutant: the sentinel axes are scored like the others.                   *)
ScoreWithoutSentinel(m, e) ==
  IF Crosses(m, e) THEN Numeric(SeverityScaledScore(m, e)) ELSE Numeric(Zero)

ScoreAgainstAxis(m, e) ==
  IF e.calibration_outcome = "zero_variance_baseline" /\ m.n <= 0
  THEN Indeterminate
  ELSE IF Crosses(m, e) THEN Numeric(SeverityScaledScore(m, e))
                        ELSE Numeric(Zero)

AxisScore(m, e) ==
  IF m = NoMetric THEN Indeterminate ELSE ScoreAgainstAxis(m, e)

(* score without a bundle, score_calibrated with one.                      *)
ScoreCalibrated(d) ==
  IF d \notin DOMAIN bundle.axes
  THEN Indeterminate
  ELSE AxisScore(Metric(d), bundle.axes[d])

----------------------------------------------------------------------------
(* build_axis_evidence_refs.  A cohort is delineated by its members or, as *)
(* they need not be at hand, by the algorithm that derives it.             *)
Delineations == {"members", "algorithm"}

Delineated(by) ==
  IF by = "members"
  THEN {<<"cohort_delineation", "cohort_id">>} \cup {<<"cohort_member", a>> : a \in Cohort}
  ELSE {<<"cohort_derivation", by>>}

(* Mutant: the prior bundle is cited in place of the active one.           *)
RefsToOneBundle(d, by) ==
  {<<"bundle", IF prior # NoHash THEN prior ELSE bundle.sha256>>}
    \cup {<<"calibration_corpus", bundle.trace_events_sha256>>,
          <<"corpus_trace_events", corpus>>}
    \cup Delineated(by)
    \cup {<<"evidence_required", f>> : f \in bundle.axes[d].evidence_required}

EvidenceRefs(d, by) ==
  {<<"bundle", bundle.sha256>>,
   <<"calibration_corpus", bundle.trace_events_sha256>>,
   <<"corpus_trace_events", corpus>>}
    \cup (IF prior # NoHash THEN {<<"bundle", prior>>} ELSE {})
    \cup Delineated(by)
    \cup {<<"evidence_required", f>> : f \in bundle.axes[d].evidence_required}

----------------------------------------------------------------------------
AxisInit ==
  /\ corpus = [a \in Agents |-> Absent]
  /\ bundle = NoBundle
  /\ prior = NoHash
  /\ verdict = NoVerdict
  /\ envelope = NoVerdict

(* External: Pass A writes an agent's aggregate.                           *)
Aggregate(a, r) ==
  /\ corpus[a] # r
  /\ corpus' = [corpus EXCEPT ![a] = r]
  /\ envelope' = NoVerdict
  /\ UNCHANGED <<bundle, prior, verdict>>

(* A bundle that does not parse or has another version is refused, and the *)
(* one in use stays; a new one is cited along with the one it replaces.    *)
LoadBundle(b) ==
  /\ bundle # b
  /\ Valid(b)
  /\ bundle' = b
  /\ prior' = bundle.sha256
  /\ verdict' = NoVerdict
  /\ envelope' = NoVerdict
  /\ UNCHANGED corpus

(* External: the transition window closes, the caller gives no prior.      *)
EndTransition ==
  /\ prior # NoHash
  /\ prior' = NoHash
  /\ verdict' = NoVerdict
  /\ envelope' = NoVerdict
  /\ UNCHANGED <<corpus, bundle>>

Attest(d, by) ==
  /\ verdict' = [dimension |-> d, conformity |-> ScoreCalibrated(d),
                 metric |-> Metric(d), bundle |-> bundle.sha256]
  /\ envelope' = [verdict |-> verdict', prior |-> prior, cohort |-> corpus,
                  delineated |-> by,
                  refs |-> IF d \notin DOMAIN bundle.axes THEN {}
                           ELSE EvidenceRefs(d, by)]
  /\ UNCHANGED <<corpus, bundle, prior>>

AxisNext ==
  \/ \E a \in Agents, r \in Records \cup {Absent} : Aggregate(a, r)
  \/ \E b \in Bundles : LoadBundle(b)
  \/ EndTransition
  \/ \E d \in Dimensions, by \in Delineations : Attest(d, by)

AxisSpec == AxisInit /\ [][AxisNext]_axisVars

----------------------------------------------------------------------------
(* Properties.                                                             *)

IsNumber(v) == v # NoVerdict /\ v.conformity.kind = "Numeric"

Sent == envelope # NoVerdict /\ IsNumber(envelope.verdict)

Applied(v) == CHOOSE b \in Bundles : b.sha256 = v.bundle

AxisTypeOK ==
  /\ corpus \in [Agents -> Records \cup {Absent}]
  /\ \/ bundle = NoBundle
     \/ bundle \in Bundles /\ bundle.parses /\ bundle.projection_version = "crc-v2"
  /\ prior \in {b.sha256 : b \in Bundles} \cup {NoHash}
  /\ verdict # NoVerdict => verdict.dimension \in Dimensions

(* Some agent of a cohort has more than nothing in the field that the      *)
(* dimension measures.                                                     *)
Shows(cohort, f, silent) ==
  \E a \in Agents : cohort[a] # Absent /\ f \in DOMAIN cohort[a] /\ cohort[a][f] # silent

ShowsModels(cohort) ==
  \E a \in Agents :
    /\ cohort[a] # Absent
    /\ "llm_model_counts" \in DOMAIN cohort[a]
    /\ \E k \in DOMAIN cohort[a]["llm_model_counts"] : cohort[a]["llm_model_counts"][k] > 0

Signal(cohort, d) ==
  CASE d = "compute" -> Shows(cohort, "cost_usd_sum", 0)
    [] d = "models" -> ShowsModels(cohort)
    [] d = "federation_membership" -> Shows(cohort, "federation_member", TRUE)
    [] d = "rights_asymmetry" -> Shows(cohort, "pdma_conflict_count", 0)
    [] d = "agent_capabilities" ->
         Shows(cohort, "cognitive_state_dominant", "") \/ Shows(cohort, "agent_role", "")
    [] d = "participation_exclusion" -> Shows(cohort, "n_distinct_domains", 0)
    [] d = "informational_asymmetry" -> Shows(cohort, "dsdma_flags_count", 0)
    [] d = "aggregate_footprint" -> Shows(cohort, "n_action", 0)
    [] OTHER -> FALSE

(* A silent cohort measures nothing, and one that tells no capabilities    *)
(* apart has a single one.                                                 *)
MeasuresNothing(cohort, d, m) ==
  IF d = "agent_capabilities"
  THEN m = Ratio(1, Cardinality({a \in Agents : cohort[a] # Absent}))
  ELSE m.n = 0

(* What the code keeps of MISSION.md anti-pattern #9 (no signal is not a   *)
(* number, as axis_metrics.rs:364-368 quotes it): a number is only given   *)
(* where a bundle of this build's version calibrates the axis; a cohort    *)
(* that shows nothing to measure, whatever fields its records lack, gets   *)
(* none of compute, models and informational asymmetry, nor where the      *)
(* bundle marks the axis as one without variance.  Where it does get one,  *)
(* that is the score of a measure of nothing.                              *)
NoSignalNoNumber ==
  Sent => LET v == envelope.verdict
              d == v.dimension
          IN  /\ Applied(v).projection_version = "crc-v2"
              /\ d \in DOMAIN Applied(v).axes
              /\ ~ Signal(envelope.cohort, d) =>
                   /\ d \notin {"compute", "models", "informational_asymmetry"}
                   /\ Applied(v).axes[d].calibration_outcome = "zero_variance_baseline"
                        => d = "agent_capabilities"
                   /\ MeasuresNothing(envelope.cohort, d, v.metric)

(* axis_metrics.rs:307-315: a concern is scored between the anchor of the  *)
(* axis and twice the anchor, however far the measure runs; anything else  *)
(* is zero.                                                                *)
ConcernIsAnchored ==
  IsNumber(verdict) /\ verdict.conformity.score # Zero =>
    LET s0 == Applied(verdict).axes[verdict.dimension].score_at_threshold
    IN  /\ Leq(Ratio(2 * s0, 1), verdict.conformity.score)
        /\ Leq(verdict.conformity.score, Ratio(s0, 1))

(* y lies further out than x, and x not at the other pole of the corridor. *)
Further(x, y, e) ==
  IF ConcernDirection(e) = "at_or_below" THEN Leq(y, x)
  ELSE Leq(x, y) /\ (e.lower_bound = NoBound \/ ~ Leq(x, e.lower_bound))

(* axis_metrics.rs:320: between two verdicts of one axis and one bundle,   *)
(* the cohort that lies further out on the side of concern, and not at the *)
(* other pole of a corridor, is never scored the milder.                   *)
NeverMilder ==
  /\ IsNumber(verdict) /\ IsNumber(verdict')
  /\ verdict'.dimension = verdict.dimension /\ verdict'.bundle = verdict.bundle
  /\ Further(verdict.metric, verdict'.metric, Applied(verdict).axes[verdict.dimension])
  => Leq(verdict'.conformity.score, verdict.conformity.score)

WorseIsNeverMilder == [][NeverMilder]_verdict

(* Both, of every verdict and of every two of them.                        *)
SeverityIsARamp == []ConcernIsAnchored /\ WorseIsNeverMilder

(* The ramp's table of ceilings takes these measures for fractions: no     *)
(* cohort may push one out of its range, and at most half of a cohort is   *)
(* below its median.                                                       *)
MeasuresKeepTheirRange ==
  LET n == Cardinality(Cohort)
      Within(d, low, high) ==
        Metric(d) # NoMetric => Leq(low, Metric(d)) /\ Leq(Metric(d), high)
  IN  /\ AxisTypeOK
      /\ n > 0 => Within("compute", Zero, Ratio(n - 1, n))
      /\ Len(PooledModels) > 0 => Within("models", Ratio(1, Len(PooledModels)), One)
      /\ Within("participation_exclusion", Zero, Ratio(1, 2))
      /\ n > 0 => Within("agent_capabilities", Ratio(1, n), One)
      /\ Within("federation_membership", Zero, One)
      /\ \A d \in Resources \ {"training_data"} : Metric(d) # NoMetric => n > 0

(* signing/event.rs:67-101: a verdict that leaves the lens names the bundle*)
(* whose thresholds it applied (and, in a transition, the one before), and *)
(* the cohort it looked at: its members and no other agent, or how to      *)
(* derive them, never both.                                                *)
EvidenceNamesItsSources ==
  Sent =>
    /\ {r[2] : r \in {q \in envelope.refs : q[1] = "bundle"}}
         = {envelope.verdict.bundle} \cup ({envelope.prior} \ {NoHash})
    /\ {r[2] : r \in {q \in envelope.refs : q[1] = "cohort_member"}}
         = {a \in Agents : envelope.delineated = "members" /\ envelope.cohort[a] # Absent}
    /\ envelope.delineated = "algorithm" <=> \E r \in envelope.refs : r[1] = "cohort_derivation"
    /\ envelope.prior # envelope.verdict.bundle
=============================================================================
