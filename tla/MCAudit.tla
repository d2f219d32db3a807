------------------------------ MODULE MCAudit ------------------------------
(* Two threads, one LensAudit each, one host Engine.                        *)
EXTENDS Audit, TLC

CONSTANTS thought, stream

MCRequests ==
  {[fn |-> "log_action", action_type |-> a, thought_id |-> t] :
     a \in {"speak", Empty}, t \in {thought}}
  \cup {[fn |-> "log_consent_event", event_type |-> e, stream_id |-> stream] :
     e \in {"revoke", "pause"}}
  \cup {[fn |-> "log_wbd"],
        [fn |-> "log_identity_change", field |-> "agent_role"]}

Symmetry == Permutations(Callers)
=============================================================================
