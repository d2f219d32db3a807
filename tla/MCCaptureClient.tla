-------------------------- MODULE MCCaptureClient --------------------------
(* Two callers, one thought whose events seal, repeat or do not parse.      *)
EXTENDS CaptureClient, TLC

CONSTANTS LLM_CALL

MCInbound ==
  [thought_id : Thoughts, event_type : EventTypes \cup UnknownTypes,
   task_id : {None}, trace_level : {None}]
  \cup [thought_id : Thoughts, event_type : {LLM_CALL},
        task_id : {None}, trace_level : Levels \ {ClientLevel}]

Symmetry == Permutations(Calls)
=============================================================================
