---------------------------- MODULE MCDetection ----------------------------
(* Calibration rows: one that scores, one under its gate with a cohort it   *)
(* lists twice, one that must be refused; traces: complete, incomplete,     *)
(* without a feature that must be there.                                    *)
EXTENDS Detection, TLC

CONSTANTS planner, F1, F2

MCFieldOrder == <<F1, F2>>
Cell(role, region) == ("role" :> role) @@ ("region" :> region)

Centroid(cell, fields, var, n) ==
  [cohort |-> cell, centroid |-> [f \in fields |-> 3],
   variance |-> [f \in fields |-> var], sample_count |-> n]

Row(v, gate, imputed, retained, centroids) ==
  [ratchet_calibration_version |-> v, projection_version |-> "crc-v1",
   sample_size_gate |-> gate, field_order |-> MCFieldOrder,
   imputation |-> [f \in imputed |-> 7],
   means |-> [f \in {F1, F2} |-> 5], stds |-> [f \in {F1, F2} |-> 1],
   retention_mask |-> [f \in {F1, F2} |-> f \in retained],
   cohort_centroids |-> centroids]

Full == Cell(planner, "eu")

Good == Row(1, 2, {F1}, {F1, F2}, <<Centroid(Full, {F1, F2}, 1, 2)>>)
Under == Row(2, 2, {F1}, {F1}, <<Centroid(Full, {F1}, 1, 1), Centroid(Full, {F1}, 1, 2)>>)
Ragged == Row(3, 2, {F1}, {F1},
              <<[Centroid(Full, {F1}, 1, 2) EXCEPT !.centroid = F1 :> 3 @@ F2 :> 3]>>)

MCRows == {Good, Under, Ragged}

Body(profile, features) == [profile |-> profile, features |-> features]
MCBodies ==
  {Body(Full, F1 :> 1 @@ F2 :> 1), Body("role" :> planner, F2 :> 1),
   Body(Full, F1 :> 1)}
=============================================================================
