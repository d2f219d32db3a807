----------------------------- MODULE Retention -----------------------------
(***************************************************************************)
(* src/retention/eviction.rs: a pass reads a storage summary, plans from   *)
(* it and the clock, and deletes in batches, while traces keep arriving.   *)
(* The Engine (ciris_persist, external) answers each call atomically; a    *)
(* pass may end at any of them with an error.  Time counts in days, disk   *)
(* in rows; freed_bytes_estimate is reporting only and left out.           *)
(***************************************************************************)
EXTENDS Integers, FiniteSets, FiniteSetsExt

CONSTANTS
  Passes,        \* callers of evict_per_retention_policy
  Policies,      \* the retention policies an operator may have configured
  BatchSize,     \* DEFAULT_TRACE_BATCH_SIZE
  None,          \* Option::None
  MaxClock,      \* bound: last day
  MaxIngested    \* bound: trace rows ever stored

ASSUME RetentionAssumption ==
  /\ None \notin Int
  /\ Policies \subseteq [max_age_days : Nat \cup {None}, max_disk : Nat \cup {None},
                        audit_log_max_age_days : Nat \cup {None}]
  /\ BatchSize \in Nat \ {0}
  /\ {MaxClock, MaxIngested} \subseteq Nat

VARIABLES
  store,      \* the trace rows: [id, ts]
  audit,      \* timestamps of the live audit-log entries
  disk,       \* total_disk_bytes as the Engine reports it
  ingested,   \* history: rows ever stored
  clock,
  pass,       \* what each pass is doing
  policy      \* the RetentionPolicy in force, fixed at start

engineVars == <<store, audit, disk, ingested, clock>>
retentionVars == <<engineVars, pass, policy>>

Idle == [pc |-> "idle"]

RetentionInit ==
  /\ store = {}
  /\ audit = {}
  /\ disk = 0
  /\ ingested = 0
  /\ clock = 0
  /\ pass = [p \in Passes |-> Idle]
  /\ policy \in Policies

----------------------------------------------------------------------------
(* plan_eviction.                                                          *)

StorageSummary ==
  LET times == {r.ts : r \in store} IN
  [disk         |-> disk,
   oldest       |-> IF store = {} THEN None ELSE Min(times),
   newest       |-> IF store = {} THEN None ELSE Max(times),
   audit_oldest |-> IF audit = {} THEN None ELSE Min(audit)]

(* A cap that is not configured is None.                                   *)
MaxAge == policy.max_age_days
MaxDisk == policy.max_disk
AuditMaxAge == policy.audit_log_max_age_days

AgeCutoff(now) == IF MaxAge = None THEN None ELSE now - MaxAge

(* At or above 90% of the cap.                                             *)
Pressured(s) == MaxDisk # None /\ 10 * s.disk >= 9 * MaxDisk

(* Mutant: everything up to now goes.                                      *)
MidpointIsNow(s) == IF Pressured(s) /\ s.newest # None THEN clock + 1 ELSE None

(* The middle of the window, under pressure.                               *)
Midpoint(s) ==
  IF Pressured(s) /\ s.oldest # None /\ s.newest # None
  THEN s.oldest + (s.newest - s.oldest) \div 2
  ELSE None

(* Mutant: the less aggressive cutoff wins.                                *)
LooserOf(a, b) == IF a = None THEN b ELSE IF b = None THEN a ELSE Min({a, b})

(* The more aggressive of two cutoffs.                                     *)
TighterOf(a, b) == IF a = None THEN b ELSE IF b = None THEN a ELSE Max({a, b})

ArchiveRange(s, now) ==
  IF AuditMaxAge # None /\ s.audit_oldest # None
     /\ s.audit_oldest < now - AuditMaxAge
  THEN <<s.audit_oldest, now - AuditMaxAge>>
  ELSE None

----------------------------------------------------------------------------
(* evict_per_retention_policy and execute_plan.                            *)

ReadSummary(p) ==
  /\ pass[p].pc = "idle"
  /\ pass' = [pass EXCEPT ![p] = [pc |-> "plan", summary |-> StorageSummary]]
  /\ UNCHANGED <<engineVars, policy>>

Plan(p) ==
  /\ pass[p].pc = "plan"
  /\ LET s == pass[p].summary
         cutoff == TighterOf(AgeCutoff(clock), Midpoint(s))
     IN pass' = [pass EXCEPT ![p] =
          [pc      |-> IF cutoff = None THEN "drained" ELSE "delete",
           summary |-> s, now |-> clock, cutoff |-> cutoff,
           archive |-> ArchiveRange(s, clock)]]
  /\ UNCHANGED <<engineVars, policy>>

Eligible(cutoff) == {r \in store : r.ts < cutoff}

(* Mutant: a short batch goes on.                                          *)
DrainedWhenFull(deleted) == deleted = BatchSize

(* A short batch means that nothing was left.                              *)
Drained(deleted) == deleted < BatchSize

(* One delete_traces_older_than: any BatchSize of the eligible rows.  The  *)
(* space may or may not come back.                                         *)
DeleteBatch(p) ==
  /\ pass[p].pc = "delete"
  /\ LET old == Eligible(pass[p].cutoff)
         n   == Min({BatchSize, Cardinality(old)})
     IN /\ \E gone \in kSubset(n, old) : store' = store \ gone
        /\ disk' \in {disk, disk - n}
        /\ pass' = [pass EXCEPT ![p].pc = IF Drained(n) THEN "drained" ELSE "delete"]
  /\ UNCHANGED <<audit, ingested, clock, policy>>

(* The archive range, if planned, is logged and not acted on.              *)
EndPass(p) ==
  /\ pass[p].pc = "drained"
  /\ pass' = [pass EXCEPT ![p] = Idle]
  /\ UNCHANGED <<engineVars, policy>>

(* An Engine call fails: EvictionError; what was deleted stays deleted.    *)
PassFails(p) ==
  /\ pass[p].pc # "idle"
  /\ pass' = [pass EXCEPT ![p] = Idle]
  /\ UNCHANGED <<engineVars, policy>>

----------------------------------------------------------------------------
(* Meanwhile: traces, relayed ones late, and audit entries are stored.     *)

Ingest(ts) ==
  /\ ingested < MaxIngested
  /\ ingested' = ingested + 1
  /\ store' = store \cup {[id |-> ingested', ts |-> ts]}
  /\ disk' = disk + 1
  /\ UNCHANGED <<audit, clock, pass, policy>>

AppendAudit ==
  /\ AuditMaxAge # None
  /\ audit' = audit \cup {clock}
  /\ UNCHANGED <<store, disk, ingested, clock, pass, policy>>

NextDay ==
  /\ clock < MaxClock
  /\ clock' = clock + 1
  /\ UNCHANGED <<store, audit, disk, ingested, pass, policy>>

Step(p) == ReadSummary(p) \/ Plan(p) \/ DeleteBatch(p) \/ EndPass(p)

RetentionNext ==
  \/ \E p \in Passes : Step(p) \/ PassFails(p)
  \/ \E ts \in 0..clock : Ingest(ts)
  \/ AppendAudit
  \/ NextDay

(* A pass that was started is driven on; none has to be started.           *)
RetentionFairness == \A p \in Passes : WF_retentionVars(Plan(p) \/ DeleteBatch(p) \/ EndPass(p))

RetentionSpec == RetentionInit /\ [][RetentionNext]_retentionVars
RetentionFairSpec == RetentionSpec /\ RetentionFairness

----------------------------------------------------------------------------
(* Properties.                                                             *)

Row == [id : 1..MaxIngested, ts : 0..MaxClock]

(* Every variable has its type, and the Engine reports no less disk than   *)
(* there are rows; a deleting pass has a cutoff.                           *)
RetentionTypeOK ==
  /\ policy \in Policies
  /\ clock \in 0..MaxClock
  /\ store \subseteq Row /\ IsFiniteSet(store)
  /\ audit \subseteq 0..MaxClock
  /\ ingested \in 0..MaxIngested
  /\ disk \in Cardinality(store)..ingested
  /\ DOMAIN pass = Passes
  /\ \A p \in Passes :
       /\ pass[p].pc \in {"idle", "plan", "delete", "drained"}
       /\ pass[p].pc = "delete" => pass[p].cutoff \in Int

(* A pass that ends its deletions has left no row that was over age when   *)
(* it planned, however many there were, whatever arrived or was deleted    *)
(* by another pass meanwhile, and whether or not the disk was pressed too  *)
(* (eviction.rs:53-78, 127-133).                                           *)
AgedRowsAreGone ==
  [][\A p \in Passes :
       (pass[p].pc = "delete" /\ pass'[p].pc = "drained" /\ MaxAge # None) =>
         \A r \in store' : r.ts >= pass[p].now - MaxAge]_retentionVars

(* A row is deleted only if it is over age, or in the older half of the    *)
(* window of a summary that showed disk pressure.  Pressure never costs    *)
(* the newest trace, not even when the Engine goes on reporting a full     *)
(* disk, summaries are stale and passes overlap (eviction.rs:47-78).       *)
OnlyDueRowsAreDeleted ==
  [][\A r \in store \ store' :
       \/ MaxAge # None /\ r.ts < clock - MaxAge
       \/ /\ \E q \in store : q.ts > r.ts
          /\ \E p \in Passes :
               /\ pass[p].pc = "delete" /\ Pressured(pass[p].summary)
               /\ 2 * r.ts < pass[p].summary.oldest + pass[p].summary.newest]_retentionVars

(* A pass ends, as the arrivals do (eviction.rs:127-136).                  *)
PassesEnd == \A p \in Passes : pass[p].pc # "idle" ~> pass[p].pc = "idle"
=============================================================================
