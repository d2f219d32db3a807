----------------------------- MODULE MCEgress -----------------------------
(* Two traces, filters that differ in one argument each, up to three hops.  *)
EXTENDS Egress, TLC

CONSTANTS t1, t2, agent, text

Component(type, data) ==
  [component_type |-> type, agent_id_hash |-> Empty, data |-> data]

Body(level, major, cs) ==
  [agent_id_hash |-> agent, trace_level |-> level, schema_major |-> major,
   components |-> cs]

(* A conscience result with a score; a model call with its prompt; a call   *)
(* whose prompt is empty; data that strips away.                            *)
MCBodies ==
  {Body("full_traces", 3,
        <<Component("conscience", "conformity" :> "zero" @@ "note" :> "holed")>>),
   Body("detailed", 2,
        <<Component("conscience", "user_prompt" :> "text" @@ "note" :> "null"),
          Component("llm_call", "llm_completion" :> "text" @@ "user_prompt" :> "list")>>),
   Body("generic", 3,
        <<Component("action", "user_prompt" :> "blank" @@ "llm_completion" :> "hollow")>>),
   Body("generic", 3,
        <<Component("llm_call", "user_prompt" :> "blank" @@ "note" :> "text")>>)}

Open(level) ==
  "trace_level" :> level @@ "redact_user_prompts" :> FALSE
    @@ "redact_completions" :> FALSE

MCFilterArgs ==
  {"trace_level" :> "generic",
   "trace_level" :> "everything",
   Open("full_traces"),
   "min_severity" :> "warning" @@ Open("detailed"),
   "min_severity" :> "critical" @@ Open("detailed"),
   "min_severity" :> "loud" @@ Open("detailed"),
   "include_scores" :> FALSE @@ Open("detailed"),
   "include_detection_events" :> FALSE @@ Open("full_traces")}

MCMetaFields  == {"deployment_region"}
MCPlaceFields == {"user_location"}
MCCoordFields == {"user_latitude"}

Input(share, region, place, lat) ==
  [share_location |-> share,
   text  |-> "deployment_region" :> region @@ "user_location" :> place,
   coord |-> "user_latitude" :> lat]

MCInputs ==
  {Input(FALSE, Empty, text, 7), Input(TRUE, Empty, Empty, NoCoord),
   Input(FALSE, text, Empty, NoCoord)}
    \cup {Input(TRUE, Empty, text, lat) : lat \in {0, -6, 6, 32, -32, 96}}
=============================================================================
