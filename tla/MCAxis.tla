------------------------------- MODULE MCAxis -------------------------------
(* A cohort of up to three agents, eight axes, two bundles to use (one does *)
(* not mark the axis of rights as one without variance) and two that must   *)
(* be refused, beside one capacity attestation.                             *)
EXTENDS AxisScoring, Capacity, TLC

CONSTANTS m1, m2

axisAllVars == <<corpus, bundle, prior, verdict, envelope, attested>>

MCRecords ==
  {"n_action" :> 0,
   [cost_usd_sum |-> 1, llm_model_counts |-> m1 :> 2, federation_member |-> TRUE,
    agent_role |-> "a", cognitive_state_dominant |-> "work", pdma_total |-> 2,
    pdma_conflict_count |-> 0, n_distinct_domains |-> 1, dsdma_flags_count |-> 0,
    n_action |-> 1],
   [cost_usd_sum |-> 3, llm_model_counts |-> m1 :> 1 @@ m2 :> 2,
    federation_member |-> FALSE, agent_role |-> "b",
    cognitive_state_dominant |-> "work", pdma_total |-> 3,
    pdma_conflict_count |-> 2, n_distinct_domains |-> 2, dsdma_flags_count |-> 3,
    n_action |-> 4]}

Axis(metric, t, direction, pctile, upper, lower, outcome) ==
  [metric |-> metric, threshold |-> Ratio(t, 100), concern_direction |-> direction,
   pctile |-> pctile, score_at_threshold |-> -40, upper_bound |-> upper,
   lower_bound |-> lower, calibration_outcome |-> outcome,
   evidence_required |-> {metric}]

Rights(outcome) ==
  Axis("pdma_rate_within", 1, "outside_corridor", 75, NoBound, NoBound, outcome)

Axes ==
  "compute" :> Axis("compute_gini", 20, "outside_corridor", 75, Ratio(20, 100), NoBound, NoBound)
  @@ "models" :> Axis("models_hhi", 100, "outside_corridor", 75, NoBound, Ratio(40, 100), NoBound)
  @@ "agent_capabilities" :> Axis("cap_diversity", 60, NoBound, 25, NoBound, NoBound, NoBound)
  @@ "federation_membership" :>
       Axis("nonmember_frac", 1, NoBound, 75, NoBound, NoBound, "zero_variance_baseline")
  @@ "rights_asymmetry" :> Rights("zero_variance_baseline")
  @@ "participation_exclusion" :> Axis("part_excl_frac", 30, "at_or_above", 75, NoBound, NoBound, NoBound)
  @@ "informational_asymmetry" :>
       Axis("info_asym_cv", 60, "outside_corridor", 75, Ratio(60, 100), NoBound, NoBound)
  @@ "aggregate_footprint" :> Axis("agg_fp", 60, "at_or_above", 75, NoBound, NoBound, NoBound)

Bundle(parses, version, stamp, sha, axes) ==
  [parses |-> parses, projection_version |-> version,
   ratchet_calibration_version |-> stamp, sha256 |-> sha,
   trace_events_sha256 |-> "corpus", axes |-> axes]

MCBundles ==
  {Bundle(TRUE, "crc-v2", 2, "sha-a", Axes),
   Bundle(TRUE, "crc-v2", 2, "sha-b",
          "compute" :> Axes["compute"] @@ "rights_asymmetry" :> Rights(NoBound)),
   Bundle(TRUE, "crc-v1", 2, "sha-old", Axes),
   Bundle(FALSE, "crc-v2", 2, "sha-bad", Axes)}

(* The two components do not meet: a behaviour is of one or of the other.   *)
AllInit == AxisInit /\ CapacityInit

AllNext ==
  \/ AxisNext /\ attested = NoAttestation /\ UNCHANGED attested
  \/ CapacityNext /\ corpus = [a \in Agents |-> Absent] /\ UNCHANGED axisVars

AllSpec == AllInit /\ [][AllNext]_axisAllVars

MCLog10 == <<0, 30, 48, 60>>

Symmetry == Permutations(Agents)
=============================================================================
