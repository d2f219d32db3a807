---------------------------- MODULE MCRetention ----------------------------
(* Every mix of an age cap and a disk cap; two overlapping passes that      *)
(* delete two rows at a time.                                               *)
EXTENDS Retention

Policy(age, size, log_age) ==
  [max_age_days |-> age, max_disk |-> size, audit_log_max_age_days |-> log_age]

MCPolicies ==
  {Policy(age, size, None) : age \in {None, 0, 1}, size \in {None, 3}}
  \cup {Policy(None, None, 0)}
=============================================================================
