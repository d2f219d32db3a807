---------------------------- MODULE Correlation ----------------------------
(***************************************************************************)
(* src/capture/correlation.rs: the correlation block of an outbound batch. *)
(*                                                                         *)
(* A coordinate is a whole number of 1/Grain degrees (Grain a power of     *)
(* two, so that every one of them is an f64); a text is a model value.     *)
(* The block is a function on the fields it carries: a field that is None  *)
(* is not serialized.                                                      *)
(***************************************************************************)
EXTENDS Integers

CONSTANTS
  MetaFields,    \* deployment_region, deployment_type, agent_role, agent_template
  PlaceFields,   \* user_location, user_timezone
  CoordFields,   \* user_latitude, user_longitude
  Grain,         \* raw coordinates per degree
  Empty,         \* the empty string
  NoCoord,       \* a coordinate that was not given
  NoBlock        \* a batch without correlation metadata

ASSUME CorrelationAssumption ==
  /\ Grain \in Nat \ {0}
  /\ MetaFields \cap PlaceFields = {}
  /\ CoordFields \cap (MetaFields \cup PlaceFields) = {}

Abs(x) == IF x < 0 THEN -x ELSE x

(* format!("{:.1}", x): nearest, ties to even, and the sign is kept.       *)
NearestTenth(x) ==
  LET down == (10 * x) \div Grain
      rest == 2 * ((10 * x) % Grain)
  IN  IF rest > Grain \/ (rest = Grain /\ down % 2 = 1) THEN down + 1 ELSE down

FuzzLocationToRegion(x) ==
  [negative |-> x < 0, tenths |-> NearestTenth(Abs(x))]

Given(in) == {f \in MetaFields : in.text[f] # Empty}

(* Mutant: the consent gate covers the texts, not the coordinates.         *)
SharedTextsOnly(in) ==
  (IF in.share_location THEN {f \in PlaceFields : in.text[f] # Empty} ELSE {})
    \cup {f \in CoordFields : in.coord[f] # NoCoord}

(* Each location field on its own, and none without consent.               *)
Shared(in) ==
  IF in.share_location
  THEN {f \in PlaceFields : in.text[f] # Empty}
         \cup {f \in CoordFields : in.coord[f] # NoCoord}
  ELSE {}

Build(in) ==
  [f \in Given(in) \cup Shared(in) |->
     IF f \in CoordFields THEN FuzzLocationToRegion(in.coord[f]) ELSE in.text[f]]

(* What the batch carries: an empty block is left out altogether.          *)
BlockOf(in) == IF DOMAIN Build(in) = {} THEN NoBlock ELSE Build(in)
=============================================================================
