------------------------- MODULE MCPyEngineCapture -------------------------
(* Two Python threads and one thought.                                      *)
EXTENDS PyEngineCapture, TLC

CONSTANTS LLM_CALL

MCInbound ==
  [thought_id : Thoughts, event_type : EventTypes \cup UnknownTypes,
   task_id : {None}, trace_level : {None}]
  \cup [thought_id : Thoughts, event_type : {LLM_CALL},
        task_id : {None}, trace_level : Levels \ {ProcessLevel}]

Symmetry == Permutations(Calls)
=============================================================================
