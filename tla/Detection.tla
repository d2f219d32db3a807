----------------------------- MODULE Detection -----------------------------
(***************************************************************************)
(* Traces become signed detection events, two ways at once:                *)
(*   - workers of the deployed lens call LensCore::process                 *)
(*     (pipeline/lifecycle.rs, signing/event.rs) and put what it returns;  *)
(*   - Python calls process_trace_batch (ffi/pyo3.rs), which drives the    *)
(*     Engine's own methods and skips a trace when one of them fails.      *)
(* Meanwhile bundles are published and the lens is redeployed with them.   *)
(* Persist is external: it verifies an event before it stores it.          *)
(***************************************************************************)
EXTENDS Scoring

CONSTANTS
  Workers, Batches,  \* concurrent calls of the two kinds
  Bodies,            \* the traces
  Malformed,         \* a body that does not parse, or has no trace_id
  Rows,              \* calibration rows that may be published
  Faults,            \* what fails, subset of FaultKinds
  MaxEvents,         \* bound: events prepared
  MaxBatch,          \* bound: traces per batch
  MaxReports         \* bound: batches begun

FaultKinds == {"sign", "short", "forged", "put", "timeout"}

ASSUME DetectionAssumption ==
  /\ Malformed \notin Bodies
  /\ \A r \in Rows : r.ratchet_calibration_version # DefaultVersion
  /\ \A r, s \in Rows :
       r.ratchet_calibration_version = s.ratchet_calibration_version => r = s
  /\ Faults \subseteq FaultKinds
  /\ {MaxEvents, MaxBatch, MaxReports} \subseteq Nat

VARIABLES
  published,  \* calibration rows in persist
  bundle,     \* the bundle of the current LensCore
  minted,     \* detection ids handed out
  job,        \* what each worker is doing
  batch,      \* what each process_trace_batch is doing
  events,     \* detection_events in persist, in order
  reports     \* what the batches returned

detectionVars == <<published, bundle, minted, job, batch, events, reports>>

IdleJob == [pc |-> "idle", env |-> None, ed |-> None, pqc |-> None]

(* A batch adds what it was given, what is left and what came of it.       *)
IdleBatch ==
  [pc |-> "idle", env |-> None, ed |-> None, pqc |-> None,
   all |-> <<>>, todo |-> <<>>, processed |-> <<>>, failed |-> 0]

DetectionInit ==
  /\ published = {}
  /\ bundle = None
  /\ minted = 0
  /\ job = [w \in Workers |-> IdleJob]
  /\ batch = [b \in Batches |-> IdleBatch]
  /\ events = <<>>
  /\ reports = <<>>

----------------------------------------------------------------------------
(* signing/event.rs.  A signature is what it signs; one of the wrong       *)
(* length is Short, one of the right length and the wrong content Forged.  *)

Envelope(id, body, b) ==
  [id |-> id, trace |-> body, version |-> EffectiveVersion(b),
   cohort_cell |-> CohortCell(body), conformity |-> Conformity(b, body),
   severity |-> SeverityFrom(Conformity(b, body))]

(* What an envelope can be: Versions and verdicts of rows or of no bundle. *)
Versions == {r.ratchet_calibration_version : r \in Rows} \cup {DefaultVersion}
Bundles == {None} \cup {FromPersistRow(r) : r \in Rows}

DetectionEvent ==
  [id : Nat, trace : Bodies, version : Versions,
   cohort_cell : {CohortCell(body) : body \in Bodies},
   conformity : {Conformity(b, body) : b \in Bundles, body \in Bodies},
   severity : {"warning", "info"}]

(* No envelope is not an envelope.                                         *)
ASSUME EnvelopeAssumption == None \notin DetectionEvent

Short == [kind |-> "short"]
Forged == [kind |-> "forged"]
Ed25519(env) == [kind |-> "ed25519", over |-> env]

(* Mutant: the second signature does not cover the first.                  *)
MlDsaUnbound(env, ed) == [kind |-> "ml_dsa_65", over |-> <<env>>]

MlDsa65(env, ed) == [kind |-> "ml_dsa_65", over |-> <<env, ed>>]

Answers(signature) ==
  {signature} \cup {s \in {Short} : "short" \in Faults}
              \cup {s \in {Forged} : "forged" \in Faults}

(* assemble_event looks at the lengths only.                               *)
Assembles(j) == j.ed # Short /\ j.pqc # Short

(* put_detection_event: HybridPolicy::Strict.                              *)
Verifies(j) ==
  j.ed = Ed25519(j.env) /\ j.pqc = [kind |-> "ml_dsa_65", over |-> <<j.env, j.ed>>]

----------------------------------------------------------------------------
(* Calibration and deployment.                                             *)

Publish(row) ==
  /\ row \notin published
  /\ published' = published \cup {row}
  /\ UNCHANGED <<bundle, minted, job, batch, events, reports>>

(* A LensCore built from a published row, or without one; calls in flight  *)
(* keep the LensCore they were made on.                                    *)
Redeploy ==
  /\ bundle' \in {None} \cup ({FromPersistRow(r) : r \in published} \ {None})
  /\ UNCHANGED <<published, minted, job, batch, events, reports>>

----------------------------------------------------------------------------
(* LensCore::process by a worker, which then puts the event.               *)

EndCall(j) == IdleJob

(* Everything up to the first await; sign_ed25519 is not async.            *)
Process(w, body) ==
  /\ job[w].pc = "idle" /\ minted < MaxEvents
  /\ minted' = minted + 1
  /\ LET env == Envelope(minted', body, bundle)
     IN job' = [job EXCEPT ![w] =
          [@ EXCEPT !.pc = "pqc", !.env = env, !.ed = Ed25519(env)]]
  /\ UNCHANGED <<published, bundle, batch, events, reports>>

SignMlDsa65(w) ==
  /\ job[w].pc = "pqc"
  /\ job' = [job EXCEPT ![w] =
       [@ EXCEPT !.pc = "put", !.pqc = MlDsa65(job[w].env, job[w].ed)]]
  /\ UNCHANGED <<published, bundle, minted, batch, events, reports>>

PutEvent(w) ==
  /\ job[w].pc = "put" /\ Verifies(job[w])
  /\ events' = Append(events, job[w].env)
  /\ job' = [job EXCEPT ![w] = EndCall(@)]
  /\ UNCHANGED <<published, bundle, minted, batch, reports>>

(* ProcessError::Sign, the caller's timeout, or a put that is refused or   *)
(* fails: the event is gone.                                               *)
ProcessFails(w) ==
  /\ \/ job[w].pc = "pqc" /\ Faults \cap {"sign", "timeout"} # {}
     \/ job[w].pc = "put" /\ ("put" \in Faults \/ ~Verifies(job[w]))
  /\ job' = [job EXCEPT ![w] = EndCall(@)]
  /\ UNCHANGED <<published, bundle, minted, batch, events, reports>>

----------------------------------------------------------------------------
(* process_trace_batch.                                                    *)

BatchStart(b, bodies) ==
  /\ batch[b].pc = "idle"
  /\ Len(reports) + Cardinality({c \in Batches : batch[c].pc # "idle"}) < MaxReports
  /\ batch' = [batch EXCEPT ![b] =
       [@ EXCEPT !.pc = "next", !.all = bodies, !.todo = bodies]]
  /\ UNCHANGED <<published, bundle, minted, job, events, reports>>

(* The trace at the head is done with.                                     *)
NextTrace(t) ==
  [t EXCEPT !.pc = "next", !.todo = Tail(@), !.env = None, !.ed = None, !.pqc = None]

(* Mutant: one failure ends the batch.                                     *)
StopAtFailure(t) == [NextTrace(t) EXCEPT !.todo = <<>>, !.failed = @ + 1]

(* process_one returned Err: the trace is skipped, the batch goes on.      *)
SkipAndContinue(t) == [NextTrace(t) EXCEPT !.failed = @ + 1]

(* Mutant: a stored trace stays at the head.                               *)
DetectedStays(t) == t

Detected(t) == [NextTrace(t) EXCEPT !.processed = Append(@, t.env.id)]

SkipMalformed(b) ==
  /\ batch[b].pc = "next" /\ batch[b].todo # <<>>
  /\ Head(batch[b].todo) = Malformed
  /\ batch' = [batch EXCEPT ![b] = SkipAndContinue(@)]
  /\ UNCHANGED <<published, bundle, minted, job, events, reports>>

(* Scored against no bundle, prepared, and signed by local_sign.           *)
LocalSign(b) ==
  /\ batch[b].pc = "next" /\ batch[b].todo # <<>>
  /\ Head(batch[b].todo) # Malformed
  /\ minted' = minted + 1
  /\ LET env == Envelope(minted', Head(batch[b].todo), None)
     IN \E sig \in Answers(Ed25519(env)) :
          batch' = [batch EXCEPT ![b] =
            [@ EXCEPT !.pc = "pqc", !.env = env, !.ed = sig]]
  /\ UNCHANGED <<published, bundle, job, events, reports>>

(* local_pqc_sign and assemble_event.                                      *)
LocalPqcSign(b) ==
  /\ batch[b].pc = "pqc"
  /\ \E sig \in Answers(MlDsa65(batch[b].env, batch[b].ed)) :
       LET t == [batch[b] EXCEPT !.pc = "put", !.pqc = sig]
       IN batch' = [batch EXCEPT ![b] = IF Assembles(t) THEN t ELSE SkipAndContinue(t)]
  /\ UNCHANGED <<published, bundle, minted, job, events, reports>>

PutFromBatch(b) ==
  /\ batch[b].pc = "put" /\ Verifies(batch[b])
  /\ events' = Append(events, batch[b].env)
  /\ batch' = [batch EXCEPT ![b] = Detected(@)]
  /\ UNCHANGED <<published, bundle, minted, job, reports>>

(* An Engine method raises, or put refuses what does not verify.           *)
EngineRaises(b) ==
  /\ \/ batch[b].pc = "pqc" /\ "sign" \in Faults
     \/ batch[b].pc = "put" /\ ("put" \in Faults \/ ~Verifies(batch[b]))
  /\ batch' = [batch EXCEPT ![b] = SkipAndContinue(@)]
  /\ UNCHANGED <<published, bundle, minted, job, events, reports>>

(* put raises after it stored.                                             *)
RaisesLate(b) ==
  /\ batch[b].pc = "put" /\ "put" \in Faults /\ Verifies(batch[b])
  /\ events' = Append(events, batch[b].env)
  /\ batch' = [batch EXCEPT ![b] = SkipAndContinue(@)]
  /\ UNCHANGED <<published, bundle, minted, job, reports>>

(* Mutant: a batch with a failed trace never ends.                         *)
ExhaustedCleanly(t) == t.todo = <<>> /\ t.failed = 0

Exhausted(t) == t.todo = <<>>

BatchReturns(b) ==
  /\ batch[b].pc = "next" /\ Exhausted(batch[b])
  /\ reports' = Append(reports,
       [bodies |-> batch[b].all, detections |-> batch[b].processed,
        failed |-> batch[b].failed])
  /\ batch' = [batch EXCEPT ![b] = IdleBatch]
  /\ UNCHANGED <<published, bundle, minted, job, events>>

BatchStep(b) ==
  \/ SkipMalformed(b)
  \/ LocalSign(b)
  \/ LocalPqcSign(b)
  \/ PutFromBatch(b)
  \/ EngineRaises(b)
  \/ RaisesLate(b)
  \/ BatchReturns(b)

DetectionNext ==
  \/ \E row \in Rows : Publish(row)
  \/ Redeploy
  \/ \E w \in Workers : \/ \E body \in Bodies : Process(w, body)
                        \/ SignMlDsa65(w) \/ PutEvent(w) \/ ProcessFails(w)
  \/ \E b \in Batches :
       \/ \E bodies \in BoundedSeq(Bodies \cup {Malformed}, MaxBatch) : BatchStart(b, bodies)
       \/ BatchStep(b)

(* A batch is a loop on the caller's own thread.                           *)
DetectionFairness == \A b \in Batches : WF_detectionVars(BatchStep(b))

DetectionSpec == DetectionInit /\ [][DetectionNext]_detectionVars
DetectionFairSpec == DetectionSpec /\ DetectionFairness

----------------------------------------------------------------------------
(* Properties.                                                             *)

EventSet == {events[i] : i \in 1..Len(events)}

(* Every variable has its type; a call that is not idle has an envelope    *)
(* exactly while it signs or puts.                                         *)
DetectionTypeOK ==
  /\ published \subseteq Rows
  /\ bundle = None \/ bundle \in published
  /\ \A w \in Workers : /\ job[w].pc \in {"idle", "pqc", "put"}
                        /\ (job[w].env = None) = (job[w].pc = "idle")
  /\ \A b \in Batches : /\ batch[b].pc \in {"idle", "next", "pqc", "put"}
                        /\ (batch[b].env = None) = (batch[b].pc \in {"idle", "next"})
  /\ \A e \in EventSet : e.id \in 1..minted /\ e.version \in Versions

(* LC-AV-18: a number is earned.  Under the version the event names, a     *)
(* bundle was published that has the event's very cohort with enough       *)
(* samples, and each retained feature came from the trace or from that     *)
(* bundle's imputation (scoring/assembly.rs:5-11, lifecycle.rs:335-373).   *)
NumericIsEarned ==
  \A e \in EventSet : e.conformity.variant = "numeric" =>
    \E r \in published :
      /\ r.ratchet_calibration_version = e.version
      /\ r.projection_version = PROJECTION_VERSION
      /\ \E i \in 1..Len(r.cohort_centroids) :
           /\ r.cohort_centroids[i].cohort = e.cohort_cell
           /\ r.cohort_centroids[i].sample_count >= r.sample_size_gate
      /\ \A f \in RetainedFields(r) :
           \/ f \in DOMAIN e.trace.features
           \/ f \in DOMAIN r.imputation

(* LC-AV-19: an event can be reproduced.  Scoring its trace again with the *)
(* row published under the version it names gives the same verdict, though *)
(* the lens was redeployed in the middle of the call (lifecycle.rs:197).   *)
Reproducible ==
  \A e \in EventSet :
    IF e.version = DefaultVersion
    THEN e.conformity = Conformity(None, e.trace)
    ELSE \E r \in published : /\ r.ratchet_calibration_version = e.version
                             /\ e.conformity = Conformity(FromPersistRow(r), e.trace)

(* An event that process returns passes the hybrid check of persist: the   *)
(* ML-DSA signature covers the Ed25519 one (signing/event.rs:19-30).       *)
ReturnedEventsVerify == \A w \in Workers : job[w].pc = "put" => Verifies(job[w])

(* No event is stored twice, whichever path it takes, and what             *)
(* process_trace_batch reports is in persist, each event once and for a    *)
(* trace of that batch; a trace is counted as failed or reported, never  *)
(* both or neither, so one bad trace costs only itself (pyo3.rs:207-236).  *)
ReportsAreTrue ==
  /\ DetectionTypeOK
  /\ \A i, j \in 1..Len(events) : i # j => events[i].id # events[j].id
  /\ \A n \in 1..Len(reports) :
       LET r == reports[n]
           found == {e \in EventSet : e.id \in ToSet(r.detections)} IN
       /\ Len(r.detections) + r.failed = Len(r.bodies)
       /\ Cardinality(found) = Len(r.detections)
       /\ \A e \in found : e.trace \in ToSet(r.bodies)

(* A batch returns to Python, whatever the Engine does to single traces    *)
(* (pyo3.rs:210-229).                                                      *)
BatchesReturn == \A b \in Batches : batch[b].pc # "idle" ~> batch[b].pc = "idle"

(* The inductive invariant behind Reproducible and NumericIsEarned: an     *)
(* envelope is the verdict of one published bundle, or of none, on its     *)
(* trace, from the step that made it to the row in persist.                *)
Hydrated == {None} \cup ({FromPersistRow(r) : r \in published} \ {None})

Sound(env, bundles) ==
  \E b \in bundles : /\ env.version = EffectiveVersion(b)
                    /\ env.cohort_cell = CohortCell(env.trace)
                    /\ env.conformity = Conformity(b, env.trace)

Slots == {"pc", "env", "ed", "pqc"}
BatchSlots == Slots \cup {"all", "todo", "processed", "failed"}

DetectionInv ==
  /\ published \subseteq Rows
  /\ bundle \in Hydrated
  /\ DOMAIN job = Workers /\ DOMAIN batch = Batches
  /\ \A w \in Workers : /\ DOMAIN job[w] = Slots
                        /\ job[w].pc # "idle" => Sound(job[w].env, Hydrated)
  /\ \A b \in Batches : /\ DOMAIN batch[b] = BatchSlots
                        /\ batch[b].pc \in {"pqc", "put"} => Sound(batch[b].env, Hydrated)
  /\ events \in Seq(EventSet)
  /\ \A e \in EventSet : Sound(e, Hydrated)
=============================================================================
