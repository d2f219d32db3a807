------------------------ MODULE MCPartialTraceStore ------------------------
(* Small instance of the two machines a capture call reads: the store, with *)
(* two thoughts, a repeatable event type, the sealing one and one that does *)
(* not parse; and the directory, with three attestations of known and       *)
(* unknown types, of which two may carry the same time.                     *)
EXTENDS PartialTraceStore, Consent

CONSTANTS t1, t2, LLM_CALL, ACTION_RESULT, NOT_AN_EVENT, generic, detailed, bad

(* One thought names its trace level early, late or never, the other never. *)
MCInbound ==
  [thought_id : Thoughts, event_type : EventTypes \cup UnknownTypes,
   task_id : {None}, trace_level : {None}]
  \cup [thought_id : {t1}, event_type : {LLM_CALL},
        task_id : {None}, trace_level : Levels]

(* The two share nothing: a behaviour is of one or of the other.            *)
CaptureInit == StoreInit /\ ConsentInit

CaptureNext ==
  \/ StoreNext /\ rows = <<>> /\ config = NoStamp /\ UNCHANGED consentVars
  \/ ConsentNext /\ StoreInit /\ UNCHANGED storeVars

CaptureSpec == CaptureInit /\ [][CaptureNext]_<<storeVars, consentVars>>
=============================================================================
