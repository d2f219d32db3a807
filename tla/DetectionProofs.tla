-------------------------- MODULE DetectionProofs --------------------------
(***************************************************************************)
(* LC-AV-18 and LC-AV-19, the signatures of what is put and the accounts   *)
(* of process_trace_batch, for every set of workers, batches, traces and   *)
(* calibration rows.                                                       *)
(***************************************************************************)
EXTENDS Detection, FiniteSetTheorems, TLAPS

----------------------------------------------------------------------------
(* What a verdict says of its bundle.                                      *)

(* A bundle that was hydrated passed validation and is the row itself.     *)
LEMMA HydratedIsRow ==
  ASSUME NEW r, NEW b, b = FromPersistRow(r), b # None
  PROVE  b = r /\ Valid(r)
BY DEF FromPersistRow

(* Standardisation yields a vector only if every retained feature was in   *)
(* the trace or imputed.                                                   *)
LEMMA VectorIsComplete ==
  ASSUME NEW b, NEW body, NEW f \in RetainedFields(b),
         StandardizeAndRetain(b, Project(body)) # None
  PROVE  f \in DOMAIN body.features \/ f \in DOMAIN b.imputation
<1>1. Imputed(b, Project(body))[f] # None
  BY DEF StandardizeAndRetain
<1>2. f \in Fields
  BY DEF RetainedFields
<1>3. CASE Project(body)[f] # None
  BY <1>2, <1>3 DEF Project
<1>4. CASE Project(body)[f] = None
  BY <1>1, <1>4 DEF Imputed
<1>. QED
  BY <1>3, <1>4

(* A number comes from a centroid of the very cohort, at or above the      *)
(* gate, and from a complete vector.                                       *)
LEMMA NumericVerdict ==
  ASSUME NEW b, NEW body, b # None, Conformity(b, body).variant = "numeric"
  PROVE  /\ \E i \in 1..Len(b.cohort_centroids) :
              /\ b.cohort_centroids[i].cohort = CohortCell(body)
              /\ ~(b.cohort_centroids[i].sample_count < b.sample_size_gate)
         /\ StandardizeAndRetain(b, Project(body)) # None
<1>. DEFINE c == LookupCohort(b, CohortCell(body))
            d == ScoreMahalanobis(b, c, Project(body))
<1>1. ColdStart.variant # "numeric" /\ Degenerate.variant # "numeric"
  BY DEF ColdStart, Degenerate
<1>2. \A m, n : BelowGate(m, n).variant # "numeric"
  BY DEF BelowGate
<1>3. c # None
  BY <1>1 DEF Conformity
<1>4. ~(c.sample_count < b.sample_size_gate)
  BY <1>2, <1>3 DEF Conformity
<1>5. d # None
  BY <1>1, <1>3, <1>4 DEF Conformity
<1>6. StandardizeAndRetain(b, Project(body)) # None
  BY <1>5 DEF ScoreMahalanobis
<1>7. \E i \in 1..Len(b.cohort_centroids) :
        b.cohort_centroids[i].cohort = CohortCell(body) /\ c = b.cohort_centroids[i]
  <2>. DEFINE first == {i \in 1..Len(b.cohort_centroids) :
                          /\ b.cohort_centroids[i].cohort = CohortCell(body)
                          /\ \A j \in 1..(i - 1) :
                               b.cohort_centroids[j].cohort # CohortCell(body)}
  <2>1. first # {} /\ c = b.cohort_centroids[CHOOSE i \in first : TRUE]
    BY <1>3 DEF LookupCohort
  <2>2. (CHOOSE i \in first : TRUE) \in first
    BY <2>1
  <2>. QED
    BY <2>1, <2>2
<1>. QED
  BY <1>4, <1>6, <1>7

----------------------------------------------------------------------------
(* The inductive invariant.                                                *)

LEMMA SoundGrows ==
  ASSUME NEW env, NEW S, NEW T, S \subseteq T, Sound(env, S)
  PROVE  Sound(env, T)
BY DEF Sound

LEMMA EnvelopeIsSound ==
  ASSUME NEW id, NEW body, NEW S, NEW b \in S
  PROVE  Sound(Envelope(id, body, b), S)
BY DEF Sound, Envelope

LEMMA InitInv == DetectionInit => DetectionInv
<1>. SUFFICES ASSUME DetectionInit PROVE DetectionInv
  OBVIOUS
<1>1. EventSet = {}
  BY DEF DetectionInit, EventSet
<1>. QED
  BY <1>1 DEF DetectionInit, DetectionInv, Hydrated, IdleJob, IdleBatch, Slots, BatchSlots

(* The store grows by one sound event.                                     *)
LEMMA OneMoreEvent ==
  ASSUME DetectionInv, NEW e, Sound(e, Hydrated), events' = Append(events, e),
         UNCHANGED published
  PROVE  /\ events' \in Seq(EventSet')
         /\ \A x \in EventSet' : Sound(x, Hydrated')
<1>1. events \in Seq(EventSet) /\ \A x \in EventSet : Sound(x, Hydrated)
  BY DEF DetectionInv
<1>2. /\ Len(events') = Len(events) + 1 /\ Len(events) \in Nat
      /\ \A i \in 1..Len(events) : events'[i] = events[i]
      /\ events'[Len(events) + 1] = e
  BY <1>1
<1>3. EventSet' = EventSet \cup {e}
  BY <1>2 DEF EventSet
<1>4. Hydrated' = Hydrated
  BY DEF Hydrated
<1>. QED
  BY <1>1, <1>3, <1>4

(* A trace that is done with leaves a record of the same shape.            *)
LEMMA NextTraceShape ==
  ASSUME NEW t, DOMAIN t = BatchSlots
  PROVE  /\ DOMAIN SkipAndContinue(t) = BatchSlots /\ SkipAndContinue(t).pc = "next"
         /\ DOMAIN Detected(t) = BatchSlots /\ Detected(t).pc = "next"
<1>1. DOMAIN NextTrace(t) = BatchSlots /\ NextTrace(t).pc = "next"
  <2>1. "pc" \in DOMAIN t
    BY DEF BatchSlots, Slots
  <2>. QED
    BY <2>1 DEF NextTrace
<1>2. DOMAIN SkipAndContinue(t) = BatchSlots /\ SkipAndContinue(t).pc = "next"
  <2>1. "pc" \in DOMAIN NextTrace(t)
    BY <1>1 DEF BatchSlots, Slots
  <2>. QED
    BY <1>1, <2>1 DEF SkipAndContinue
<1>3. DOMAIN Detected(t) = BatchSlots /\ Detected(t).pc = "next"
  <2>1. "pc" \in DOMAIN NextTrace(t)
    BY <1>1 DEF BatchSlots, Slots
  <2>. QED
    BY <1>1, <2>1 DEF Detected
<1>. QED
  BY <1>2, <1>3

LEMMA StepInv == DetectionInv /\ [DetectionNext]_detectionVars => DetectionInv'
<1>. SUFFICES ASSUME DetectionInv, [DetectionNext]_detectionVars PROVE DetectionInv'
  OBVIOUS
<1>. USE DEF DetectionInv
<1>1. ASSUME NEW row \in Rows, Publish(row) PROVE DetectionInv'
  <2>1. Hydrated \subseteq Hydrated'
    BY <1>1 DEF Publish, Hydrated
  <2>2. EventSet' = EventSet
    BY <1>1 DEF Publish, EventSet
  <2>. QED
    BY <1>1, <2>1, <2>2, SoundGrows DEF Publish
<1>2. CASE Redeploy
  <2>1. Hydrated' = Hydrated /\ EventSet' = EventSet
    BY <1>2 DEF Redeploy, Hydrated, EventSet
  <2>2. bundle' \in Hydrated
    BY <1>2 DEF Redeploy, Hydrated
  <2>. QED
    BY <1>2, <2>1, <2>2 DEF Redeploy
<1>3. ASSUME NEW w \in Workers, NEW body \in Bodies, Process(w, body)
      PROVE  DetectionInv'
  <2>1. Hydrated' = Hydrated /\ EventSet' = EventSet
    BY <1>3 DEF Process, Hydrated, EventSet
  <2>2. Sound(Envelope(minted', body, bundle), Hydrated)
    BY EnvelopeIsSound
  <2>3. \A v \in Workers : /\ DOMAIN job'[v] = Slots
                           /\ job'[v].pc # "idle" => Sound(job'[v].env, Hydrated)
    BY <1>3, <2>2 DEF Process, Slots
  <2>. QED
    BY <1>3, <2>1, <2>3 DEF Process
<1>4. ASSUME NEW w \in Workers, SignMlDsa65(w) PROVE DetectionInv'
  <2>1. Hydrated' = Hydrated /\ EventSet' = EventSet
    BY <1>4 DEF SignMlDsa65, Hydrated, EventSet
  <2>2. \A v \in Workers : /\ DOMAIN job'[v] = Slots
                           /\ job'[v].pc # "idle" => Sound(job'[v].env, Hydrated)
    BY <1>4 DEF SignMlDsa65, Slots
  <2>. QED
    BY <1>4, <2>1, <2>2 DEF SignMlDsa65
<1>5. ASSUME NEW w \in Workers, PutEvent(w) PROVE DetectionInv'
  <2>1. Hydrated' = Hydrated
    BY <1>5 DEF PutEvent, Hydrated
  <2>2. \A v \in Workers : /\ DOMAIN job'[v] = Slots
                           /\ job'[v].pc # "idle" => Sound(job'[v].env, Hydrated)
    BY <1>5 DEF PutEvent, EndCall, IdleJob, Slots
  <2>3. events' \in Seq(EventSet') /\ \A x \in EventSet' : Sound(x, Hydrated')
    BY <1>5, OneMoreEvent DEF PutEvent
  <2>. QED
    BY <1>5, <2>1, <2>2, <2>3 DEF PutEvent
<1>6. ASSUME NEW w \in Workers, ProcessFails(w) PROVE DetectionInv'
  <2>1. Hydrated' = Hydrated /\ EventSet' = EventSet
    BY <1>6 DEF ProcessFails, Hydrated, EventSet
  <2>2. \A v \in Workers : /\ DOMAIN job'[v] = Slots
                           /\ job'[v].pc # "idle" => Sound(job'[v].env, Hydrated)
    BY <1>6 DEF ProcessFails, EndCall, IdleJob, Slots
  <2>. QED
    BY <1>6, <2>1, <2>2 DEF ProcessFails
<1>7. ASSUME NEW c \in Batches,
             \/ \E bodies \in BoundedSeq(Bodies \cup {Malformed}, MaxBatch) :
                  BatchStart(c, bodies)
             \/ SkipMalformed(c) \/ LocalPqcSign(c) \/ EngineRaises(c) \/ BatchReturns(c)
      PROVE  DetectionInv'
  <2>1. /\ UNCHANGED <<published, bundle, job, events>>
        /\ Hydrated' = Hydrated /\ EventSet' = EventSet
    BY <1>7 DEF BatchStart, SkipMalformed, LocalPqcSign, EngineRaises, BatchReturns,
                Hydrated, EventSet
  <2>. DEFINE Kept == /\ DOMAIN batch' = Batches
                      /\ \A b \in Batches : b # c => batch'[b] = batch[b]
                      /\ DOMAIN batch'[c] = BatchSlots
                      /\ batch'[c].pc \in {"pqc", "put"} =>
                           batch[c].pc \in {"pqc", "put"} /\ batch'[c].env = batch[c].env
  <2>a. DOMAIN batch[c] = BatchSlots /\ DOMAIN batch = Batches
    OBVIOUS
  <2>2. ASSUME NEW bodies, BatchStart(c, bodies) PROVE Kept
    BY <2>a, <2>2 DEF BatchStart, BatchSlots, Slots
  <2>3. ASSUME SkipMalformed(c) \/ EngineRaises(c) PROVE Kept
    BY <2>a, <2>3, NextTraceShape DEF SkipMalformed, EngineRaises
  <2>4. ASSUME LocalPqcSign(c) PROVE Kept
    <3>1. PICK sig : batch' = [batch EXCEPT ![c] =
             LET t == [batch[c] EXCEPT !.pc = "put", !.pqc = sig]
             IN IF Assembles(t) THEN t ELSE SkipAndContinue(t)]
      BY <2>4 DEF LocalPqcSign
    <3>. DEFINE t == [batch[c] EXCEPT !.pc = "put", !.pqc = sig]
    <3>2. DOMAIN t = BatchSlots /\ t.env = batch[c].env /\ batch[c].pc = "pqc"
      BY <2>a, <2>4 DEF LocalPqcSign, BatchSlots, Slots
    <3>3. batch' = [batch EXCEPT ![c] = IF Assembles(t) THEN t ELSE SkipAndContinue(t)]
      BY <3>1
    <3>. HIDE DEF t
    <3>. QED
      BY <2>a, <3>2, <3>3, NextTraceShape
  <2>5. ASSUME BatchReturns(c) PROVE Kept
    BY <2>a, <2>5 DEF BatchReturns, IdleBatch, BatchSlots, Slots
  <2>6. Kept
    BY <1>7, <2>2, <2>3, <2>4, <2>5
  <2>. QED
    BY <2>1, <2>6
<1>8. ASSUME NEW c \in Batches, LocalSign(c) PROVE DetectionInv'
  <2>1. Hydrated' = Hydrated /\ EventSet' = EventSet
    BY <1>8 DEF LocalSign, Hydrated, EventSet
  <2>2. Sound(Envelope(minted', Head(batch[c].todo), None), Hydrated)
    BY EnvelopeIsSound DEF Hydrated
  <2>3. /\ DOMAIN batch' = Batches
        /\ \A b \in Batches : b # c => batch'[b] = batch[b]
        /\ DOMAIN batch'[c] = BatchSlots
        /\ batch'[c].env = Envelope(minted', Head(batch[c].todo), None)
    BY <1>8 DEF LocalSign, BatchSlots, Slots
  <2>. QED
    BY <1>8, <2>1, <2>2, <2>3 DEF LocalSign
<1>9. ASSUME NEW c \in Batches, PutFromBatch(c) \/ RaisesLate(c) PROVE DetectionInv'
  <2>1. Hydrated' = Hydrated
    BY <1>9 DEF PutFromBatch, RaisesLate, Hydrated
  <2>2. events' \in Seq(EventSet') /\ \A x \in EventSet' : Sound(x, Hydrated')
    BY <1>9, OneMoreEvent DEF PutFromBatch, RaisesLate
  <2>3. /\ DOMAIN batch' = Batches
        /\ \A b \in Batches : b # c => batch'[b] = batch[b]
        /\ DOMAIN batch'[c] = BatchSlots
        /\ batch'[c].pc = "next"
    BY <1>9, NextTraceShape DEF PutFromBatch, RaisesLate
  <2>. QED
    BY <1>9, <2>1, <2>2, <2>3 DEF PutFromBatch, RaisesLate
<1>10. CASE UNCHANGED detectionVars
  <2>1. Hydrated' = Hydrated /\ EventSet' = EventSet
    BY <1>10 DEF detectionVars, Hydrated, EventSet
  <2>. QED
    BY <1>10, <2>1 DEF detectionVars
<1>. QED
  BY <1>1, <1>2, <1>3, <1>4, <1>5, <1>6, <1>7, <1>8, <1>9, <1>10
  DEF DetectionNext, BatchStep

LEMMA InvHolds == DetectionSpec => []DetectionInv
BY InitInv, StepInv, PTL DEF DetectionSpec

----------------------------------------------------------------------------
(* LC-AV-19: every event of persist can be reproduced from the row that    *)
(* was published under the version it names (lifecycle.rs:197, 264-272).   *)
THEOREM EventsAreReproducible == DetectionSpec => []Reproducible
<1>1. DetectionInv => Reproducible
  <2>. SUFFICES ASSUME DetectionInv, NEW e \in EventSet
                PROVE  IF e.version = DefaultVersion
                       THEN e.conformity = Conformity(None, e.trace)
                       ELSE \E r \in published :
                              /\ r.ratchet_calibration_version = e.version
                              /\ e.conformity = Conformity(FromPersistRow(r), e.trace)
    BY DEF Reproducible
  <2>1. PICK b \in Hydrated : /\ e.version = EffectiveVersion(b)
                              /\ e.conformity = Conformity(b, e.trace)
    BY DEF DetectionInv, Sound
  <2>2. CASE b = None
    BY <2>1, <2>2 DEF EffectiveVersion
  <2>3. CASE b # None
    <3>1. PICK r \in published : b = FromPersistRow(r)
      BY <2>3 DEF Hydrated
    <3>2. b = r
      BY <2>3, <3>1, HydratedIsRow
    <3>3. e.version = r.ratchet_calibration_version /\ e.version # DefaultVersion
      BY <2>1, <2>3, <3>2, DetectionAssumption DEF EffectiveVersion, DetectionInv
    <3>. QED
      BY <2>1, <3>1, <3>3
  <2>. QED
    BY <2>2, <2>3
<1>. QED
  BY <1>1, InvHolds, PTL

(* LC-AV-18: a numeric verdict in persist is earned under a published      *)
(* bundle (lifecycle.rs:335-373, scoring/assembly.rs:78-107).              *)
THEOREM NumbersAreEarned ==
  ASSUME \A r \in Rows : /\ r.sample_size_gate \in Int
                         /\ \A i \in 1..Len(r.cohort_centroids) :
                              r.cohort_centroids[i].sample_count \in Nat
  PROVE  DetectionSpec => []NumericIsEarned
<1>1. DetectionInv => NumericIsEarned
  <2>. SUFFICES ASSUME DetectionInv, NEW e \in EventSet,
                       e.conformity.variant = "numeric"
                PROVE  \E r \in published :
                         /\ r.ratchet_calibration_version = e.version
                         /\ r.projection_version = PROJECTION_VERSION
                         /\ \E i \in 1..Len(r.cohort_centroids) :
                              /\ r.cohort_centroids[i].cohort = e.cohort_cell
                              /\ r.cohort_centroids[i].sample_count >= r.sample_size_gate
                         /\ \A f \in RetainedFields(r) :
                              \/ f \in DOMAIN e.trace.features
                              \/ f \in DOMAIN r.imputation
    BY DEF NumericIsEarned
  <2>1. PICK b \in Hydrated : /\ e.version = EffectiveVersion(b)
                              /\ e.cohort_cell = CohortCell(e.trace)
                              /\ e.conformity = Conformity(b, e.trace)
    BY DEF DetectionInv, Sound
  <2>2. b # None
    BY <2>1 DEF Conformity, ColdStart
  <2>3. PICK r \in published : b = FromPersistRow(r)
    BY <2>2 DEF Hydrated
  <2>4. b = r /\ Valid(r)
    BY <2>2, <2>3, HydratedIsRow
  <2>5. PICK i \in 1..Len(r.cohort_centroids) :
          /\ r.cohort_centroids[i].cohort = e.cohort_cell
          /\ ~(r.cohort_centroids[i].sample_count < r.sample_size_gate)
    BY <2>1, <2>2, <2>4, NumericVerdict
  <2>6. r.cohort_centroids[i].sample_count >= r.sample_size_gate
    BY <2>5 DEF DetectionInv
  <2>7. \A f \in RetainedFields(r) : f \in DOMAIN e.trace.features \/ f \in DOMAIN r.imputation
    BY <2>1, <2>2, <2>4, NumericVerdict, VectorIsComplete
  <2>8. e.version = r.ratchet_calibration_version /\ r.projection_version = PROJECTION_VERSION
    BY <2>1, <2>2, <2>4 DEF EffectiveVersion, Valid
  <2>. QED
    BY <2>5, <2>6, <2>7, <2>8
<1>. QED
  BY <1>1, InvHolds, PTL
----------------------------------------------------------------------------
(* Signatures.  A worker signs with the lens's own keys, so what it is     *)
(* about to put verifies.                                                  *)

SigningInv ==
  /\ DOMAIN job = Workers
  /\ \A w \in Workers :
       /\ DOMAIN job[w] = Slots
       /\ job[w].pc = "pqc" => job[w].ed = Ed25519(job[w].env)
       /\ job[w].pc = "put" => Verifies(job[w])

LEMMA SigningNext ==
  ASSUME SigningInv, [DetectionNext]_detectionVars
  PROVE  SigningInv'
<1>. USE DEF SigningInv, Verifies
<1>1. CASE UNCHANGED job
  BY <1>1
<1>2. ASSUME NEW w \in Workers, NEW body \in Bodies, Process(w, body)
      PROVE  SigningInv'
  BY <1>2 DEF Process, Slots
<1>3. ASSUME NEW w \in Workers, SignMlDsa65(w)
      PROVE  SigningInv'
  <2>1. /\ DOMAIN job' = Workers
        /\ \A v \in Workers \ {w} : job'[v] = job[v]
        /\ DOMAIN job'[w] = Slots /\ job'[w].pc = "put"
        /\ job'[w].env = job[w].env /\ job'[w].ed = job[w].ed
        /\ job'[w].pqc = MlDsa65(job[w].env, job[w].ed)
        /\ job[w].ed = Ed25519(job[w].env)
    BY <1>3 DEF SignMlDsa65, Slots
  <2>. QED
    BY <2>1 DEF MlDsa65
<1>4. ASSUME NEW w \in Workers, PutEvent(w) \/ ProcessFails(w)
      PROVE  SigningInv'
  <2>1. /\ DOMAIN job' = Workers /\ job'[w] = IdleJob
        /\ \A v \in Workers \ {w} : job'[v] = job[v]
    BY <1>4 DEF PutEvent, ProcessFails, EndCall
  <2>2. DOMAIN IdleJob = Slots /\ IdleJob.pc = "idle"
    BY DEF IdleJob, Slots
  <2>. QED
    BY <2>1, <2>2
<1>. QED
  BY <1>1, <1>2, <1>3, <1>4
  DEF DetectionNext, Publish, Redeploy, BatchStart, BatchStep, SkipMalformed, LocalSign,
      LocalPqcSign, PutFromBatch, EngineRaises, RaisesLate, BatchReturns, detectionVars

(* An event that process returns passes the hybrid check of persist        *)
(* (signing/event.rs:19-30).                                               *)
THEOREM ReturnedEventsAlwaysVerify == DetectionSpec => []ReturnedEventsVerify
<1>1. DetectionInit => SigningInv
  BY DEF DetectionInit, SigningInv, IdleJob, Slots
<1>2. SigningInv /\ [DetectionNext]_detectionVars => SigningInv'
  BY SigningNext
<1>3. SigningInv => ReturnedEventsVerify
  BY DEF SigningInv, ReturnedEventsVerify
<1>. QED
  BY <1>1, <1>2, <1>3, PTL DEF DetectionSpec

----------------------------------------------------------------------------
(* Accounts.  An id is with one worker or one batch, or in persist once;   *)
(* what a batch has reported so far is in persist, and with what it has    *)
(* failed and what is left it makes up the batch.                          *)

Holders == ({"worker"} \X Workers) \cup ({"batch"} \X Batches)

Busy(h) == IF h[1] = "worker" THEN job[h[2]].pc # "idle"
                              ELSE batch[h[2]].pc \in {"pqc", "put"}

Carried(h) == IF h[1] = "worker" THEN job[h[2]].env ELSE batch[h[2]].env

IdInv ==
  /\ minted \in Nat
  /\ events \in Seq(DetectionEvent)
  /\ \A i \in 1..Len(events) : events[i].id \in 1..minted
  /\ \A h \in Holders : Busy(h) => /\ Carried(h) \in DetectionEvent
                                   /\ Carried(h).id \in 1..minted
  /\ \A i, j \in 1..Len(events) : i # j => events[i].id # events[j].id
  /\ \A g, h \in Holders :
       (g # h /\ Busy(g) /\ Busy(h)) => Carried(g).id # Carried(h).id
  /\ \A h \in Holders, i \in 1..Len(events) :
       Busy(h) => Carried(h).id # events[i].id

(* Each id once, and each the id of an event of one of the bodies.         *)
Found(ids, bodies) ==
  /\ \A i, j \in 1..Len(ids) : i # j => ids[i] # ids[j]
  /\ \A i \in 1..Len(ids) : \E k \in 1..Len(events) :
       events[k].id = ids[i] /\ events[k].trace \in ToSet(bodies)

Traces == Bodies \cup {Malformed}

JobsInv ==
  \A w \in Workers : /\ job[w].pc \in {"idle", "pqc", "put"}
                     /\ job[w].pc = "idle" => job[w].env = None

BatchInv(t) ==
  /\ DOMAIN t = BatchSlots
  /\ t.pc \in {"idle", "next", "pqc", "put"}
  /\ t.pc \in {"idle", "next"} => t.env = None
  /\ t.pc = "idle" => t.processed = <<>> /\ t.failed = 0
  /\ t.all \in Seq(Traces) /\ t.todo \in Seq(Traces)
  /\ t.processed \in Seq(Nat) /\ t.failed \in Nat
  /\ Len(t.processed) + t.failed + Len(t.todo) = Len(t.all)
  /\ \A i \in 1..Len(t.todo) : t.todo[i] \in ToSet(t.all)
  /\ t.pc \in {"pqc", "put"} => t.todo # <<>> /\ t.env.trace \in ToSet(t.all)
  /\ Found(t.processed, t.all)

Report == [bodies : Seq(Traces), detections : Seq(Nat), failed : Nat]

ReportInv(r) ==
  /\ r \in Report
  /\ Len(r.detections) + r.failed = Len(r.bodies)
  /\ Found(r.detections, r.bodies)

AccountInv ==
  /\ DetectionInv
  /\ JobsInv
  /\ IdInv
  /\ \A b \in Batches : BatchInv(batch[b])
  /\ reports \in Seq(Report)
  /\ \A n \in 1..Len(reports) : ReportInv(reports[n])

(* A new id is minted for one holder.                                      *)
LEMMA IdMint ==
  ASSUME IdInv, NEW h \in Holders, minted' = minted + 1, UNCHANGED events,
         \A g \in Holders : Busy(g)' =>
           \/ /\ g = h
              /\ Carried(g)' \in DetectionEvent
              /\ Carried(g)'.id = minted + 1
           \/ g # h /\ Busy(g) /\ Carried(g)' = Carried(g)
  PROVE  IdInv'
<1>1. /\ minted' \in Nat /\ minted < minted' /\ 1..minted \subseteq 1..minted'
      /\ minted' \in 1..minted' /\ minted' \notin 1..minted
  BY DEF IdInv
<1>2. \A i \in 1..Len(events) : events[i].id \in 1..minted
  BY DEF IdInv
<1>3. \A g \in Holders : Busy(g)' =>
         /\ Carried(g)' \in DetectionEvent
         /\ g = h => Carried(g)'.id = minted'
         /\ g # h => /\ Busy(g) /\ Carried(g)' = Carried(g)
                     /\ Carried(g)'.id \in 1..minted
  BY DEF IdInv
<1>4. \A g \in Holders : Busy(g)' => Carried(g)'.id \in 1..minted'
  BY <1>1, <1>3
<1>5. \A g, k \in Holders :
        (g # k /\ Busy(g)' /\ Busy(k)') => Carried(g)'.id # Carried(k)'.id
  BY <1>1, <1>3 DEF IdInv
<1>6. \A g \in Holders, i \in 1..Len(events) :
        Busy(g)' => Carried(g)'.id # events[i].id
  BY <1>1, <1>2, <1>3 DEF IdInv
<1>. QED
  BY <1>1, <1>2, <1>3, <1>4, <1>5, <1>6 DEF IdInv

(* The holder of an id lets go of it, and its event is stored.             *)
LEMMA IdPut ==
  ASSUME IdInv, NEW h \in Holders, Busy(h), events' = Append(events, Carried(h)),
         UNCHANGED minted,
         \A g \in Holders : Busy(g)' => g # h /\ Busy(g) /\ Carried(g)' = Carried(g)
  PROVE  IdInv'
<1>1. PICK e \in DetectionEvent : e = Carried(h)
  BY DEF IdInv
<1>2. /\ events' \in Seq(DetectionEvent) /\ Len(events) \in Nat
      /\ Len(events') = Len(events) + 1 /\ events'[Len(events) + 1] = e
      /\ \A i \in 1..Len(events) : events'[i] = events[i]
      /\ 1..Len(events') = (1..Len(events)) \cup {Len(events) + 1}
  BY <1>1 DEF IdInv
<1>3. /\ e.id \in 1..minted
      /\ \A i \in 1..Len(events) : events[i].id # e.id
      /\ \A g \in Holders : Busy(g)' => Carried(g)'.id # e.id
  BY <1>1 DEF IdInv
<1>4. \A i, j \in 1..Len(events') : i # j => events'[i].id # events'[j].id
  BY <1>2, <1>3 DEF IdInv
<1>5. \A g \in Holders, i \in 1..Len(events') :
        Busy(g)' => Carried(g)'.id # events'[i].id
  BY <1>2, <1>3 DEF IdInv
<1>. QED
  BY <1>2, <1>3, <1>4, <1>5 DEF IdInv

LEMMA IdKeep ==
  ASSUME IdInv, UNCHANGED <<minted, events>>,
         \A g \in Holders : Busy(g)' => Busy(g) /\ Carried(g)' = Carried(g)
  PROVE  IdInv'
  BY DEF IdInv

(* A step of one worker, or of one batch, leaves the others as they are.   *)
LEMMA OneWorker ==
  ASSUME NEW w \in Workers, UNCHANGED batch,
         \A v \in Workers \ {w} : job'[v] = job[v]
  PROVE  \A g \in Holders : g # <<"worker", w>> =>
           (Busy(g)' <=> Busy(g)) /\ Carried(g)' = Carried(g)
<1>. SUFFICES ASSUME NEW g \in Holders, g # <<"worker", w>>
              PROVE  (Busy(g)' <=> Busy(g)) /\ Carried(g)' = Carried(g)
  OBVIOUS
<1>1. CASE g[1] = "worker"
  <2>1. g[2] \in Workers \ {w}
    BY <1>1 DEF Holders
  <2>. QED
    BY <1>1, <2>1 DEF Busy, Carried
<1>2. CASE g[1] # "worker"
  BY <1>2 DEF Busy, Carried
<1>. QED
  BY <1>1, <1>2

LEMMA OneBatch ==
  ASSUME NEW b \in Batches, UNCHANGED job,
         \A c \in Batches \ {b} : batch'[c] = batch[c]
  PROVE  \A g \in Holders : g # <<"batch", b>> =>
           (Busy(g)' <=> Busy(g)) /\ Carried(g)' = Carried(g)
<1>. SUFFICES ASSUME NEW g \in Holders, g # <<"batch", b>>
              PROVE  (Busy(g)' <=> Busy(g)) /\ Carried(g)' = Carried(g)
  OBVIOUS
<1>1. CASE g[1] # "worker"
  <2>1. g[2] \in Batches \ {b}
    BY <1>1 DEF Holders
  <2>. QED
    BY <1>1, <2>1 DEF Busy, Carried
<1>2. CASE g[1] = "worker"
  BY <1>2 DEF Busy, Carried
<1>. QED
  BY <1>1, <1>2

LEMMA WorkerHolds ==
  ASSUME NEW w \in Workers
  PROVE  /\ <<"worker", w>> \in Holders
         /\ Busy(<<"worker", w>>) <=> job[w].pc # "idle"
         /\ Carried(<<"worker", w>>) = job[w].env
  BY DEF Holders, Busy, Carried

LEMMA BatchHolds ==
  ASSUME NEW b \in Batches
  PROVE  /\ <<"batch", b>> \in Holders
         /\ Busy(<<"batch", b>>) <=> batch[b].pc \in {"pqc", "put"}
         /\ Carried(<<"batch", b>>) = batch[b].env
  BY DEF Holders, Busy, Carried

LEMMA EnvelopeType ==
  ASSUME NEW id \in Nat, NEW body \in Bodies, NEW b \in Bundles
  PROVE  Envelope(id, body, b) \in DetectionEvent
<1>1. EffectiveVersion(b) \in Versions
  BY HydratedIsRow DEF EffectiveVersion, Versions, Bundles
<1>2. SeverityFrom(Conformity(b, body)) \in {"warning", "info"}
  BY DEF SeverityFrom
<1>. QED
  BY <1>1, <1>2 DEF Envelope, DetectionEvent

LEMMA BundleType ==
  ASSUME DetectionInv
  PROVE  bundle \in Bundles
  BY DEF DetectionInv, Hydrated, Bundles

(* What is done with a trace that is finished, slot by slot.               *)
LEMMA NextTraceSlots ==
  ASSUME NEW t, DOMAIN t = BatchSlots
  PROVE  LET s == SkipAndContinue(t)  d == Detected(t) IN
         /\ DOMAIN s = BatchSlots /\ s.pc = "next" /\ s.env = None
         /\ s.all = t.all /\ s.todo = Tail(t.todo)
         /\ s.processed = t.processed /\ s.failed = t.failed + 1
         /\ DOMAIN d = BatchSlots /\ d.pc = "next" /\ d.env = None
         /\ d.all = t.all /\ d.todo = Tail(t.todo)
         /\ d.processed = Append(t.processed, t.env.id) /\ d.failed = t.failed
<1>. DEFINE n == NextTrace(t)
<1>1. /\ DOMAIN n = BatchSlots /\ n.pc = "next" /\ n.env = None
      /\ n.all = t.all /\ n.todo = Tail(t.todo)
      /\ n.processed = t.processed /\ n.failed = t.failed
  BY DEF NextTrace, BatchSlots, Slots
<1>. HIDE DEF n
<1>2. SkipAndContinue(t) = [n EXCEPT !.failed = @ + 1]
  BY DEF SkipAndContinue, n
<1>3. Detected(t) = [n EXCEPT !.processed = Append(@, t.env.id)]
  BY DEF Detected, n
<1>. QED
  BY <1>1, <1>2, <1>3 DEF BatchSlots, Slots

LEMMA TailShrinks ==
  ASSUME NEW S, NEW s \in Seq(S), s # <<>>
  PROVE  /\ Tail(s) \in Seq(S) /\ Len(Tail(s)) = Len(s) - 1 /\ Len(s) \in Nat
         /\ \A i \in 1..Len(Tail(s)) : Tail(s)[i] = s[i + 1] /\ i + 1 \in 1..Len(s)
  OBVIOUS

LEMMA BatchCounts ==
  ASSUME NEW t, BatchInv(t)
  PROVE  /\ Len(t.processed) \in Nat /\ Len(t.todo) \in Nat /\ Len(t.all) \in Nat
         /\ t.failed \in Nat
         /\ Len(t.processed) + t.failed + Len(t.todo) = Len(t.all)
  BY DEF BatchInv

(* A failed trace is counted, and costs only itself.                       *)
LEMMA SkipKeeps ==
  ASSUME NEW t, BatchInv(t), t.todo # <<>>
  PROVE  BatchInv(SkipAndContinue(t))
<1>1. PICK s : s = SkipAndContinue(t)
  OBVIOUS
<1>2. /\ DOMAIN s = BatchSlots /\ s.pc = "next" /\ s.env = None
      /\ s.all = t.all /\ s.todo = Tail(t.todo)
      /\ s.processed = t.processed /\ s.failed = t.failed + 1
  BY <1>1, NextTraceSlots DEF BatchInv
<1>3. /\ Tail(t.todo) \in Seq(Traces) /\ Len(Tail(t.todo)) = Len(t.todo) - 1
      /\ Len(t.todo) \in Nat
      /\ \A i \in 1..Len(Tail(t.todo)) :
           Tail(t.todo)[i] = t.todo[i + 1] /\ i + 1 \in 1..Len(t.todo)
  BY TailShrinks DEF BatchInv
<1>4. Len(s.processed) + s.failed + Len(s.todo) = Len(s.all) /\ s.failed \in Nat
  <2>1. PICK p \in Nat, q \in Nat, f \in Nat :
          /\ p = Len(t.processed) /\ q = Len(t.todo) /\ f = t.failed
          /\ p + f + q = Len(t.all)
    BY BatchCounts
  <2>2. /\ Len(s.processed) = p /\ s.failed = f + 1 /\ Len(s.todo) = q - 1
        /\ Len(s.all) = Len(t.all)
    BY <1>2, <1>3, <2>1
  <2>3. p + (f + 1) + (q - 1) = p + f + q /\ f + 1 \in Nat
    OBVIOUS
  <2>. QED
    BY <2>1, <2>2, <2>3
<1>. QED
  BY <1>1, <1>2, <1>3, <1>4 DEF BatchInv

LEMMA FoundKeeps ==
  ASSUME NEW ids, NEW bodies, Found(ids, bodies),
         \A k \in 1..Len(events) : k \in 1..Len(events') /\ events'[k] = events[k]
  PROVE  Found(ids, bodies)'
<1>1. ASSUME NEW i \in 1..Len(ids)
      PROVE  \E k \in 1..Len(events') :
               events'[k].id = ids[i] /\ events'[k].trace \in ToSet(bodies)
  <2>1. PICK k \in 1..Len(events) :
          events[k].id = ids[i] /\ events[k].trace \in ToSet(bodies)
    BY DEF Found
  <2>. QED
    BY <2>1
<1>. QED
  BY <1>1 DEF Found

LEMMA BatchRests ==
  ASSUME NEW t, BatchInv(t),
         \A k \in 1..Len(events) : k \in 1..Len(events') /\ events'[k] = events[k]
  PROVE  BatchInv(t)'
  BY FoundKeeps DEF BatchInv

(* A stored event is reported once, and it is of this batch.               *)
LEMMA DetectedKeeps ==
  ASSUME NEW t, BatchInv(t), t.pc = "put", t.env \in DetectionEvent,
         events \in Seq(DetectionEvent),
         \A i \in 1..Len(events) : events[i].id # t.env.id,
         events' = Append(events, t.env)
  PROVE  BatchInv(Detected(t))'
<1>1. PICK d : d = Detected(t)
  OBVIOUS
<1>2. /\ DOMAIN d = BatchSlots /\ d.pc = "next" /\ d.env = None
      /\ d.all = t.all /\ d.todo = Tail(t.todo)
      /\ d.processed = Append(t.processed, t.env.id) /\ d.failed = t.failed
  BY <1>1, NextTraceSlots DEF BatchInv
<1>3. /\ t.todo # <<>> /\ Tail(t.todo) \in Seq(Traces)
      /\ Len(Tail(t.todo)) = Len(t.todo) - 1 /\ Len(t.todo) \in Nat
      /\ \A i \in 1..Len(Tail(t.todo)) :
           Tail(t.todo)[i] = t.todo[i + 1] /\ i + 1 \in 1..Len(t.todo)
  BY TailShrinks DEF BatchInv
<1>4. PICK ids \in Seq(Nat), id \in Nat, m \in Nat :
        /\ ids = t.processed /\ id = t.env.id /\ m = Len(t.processed)
  BY DEF BatchInv, DetectionEvent
<1>5. /\ Append(ids, id) \in Seq(Nat) /\ Len(Append(ids, id)) = m + 1
      /\ Append(ids, id)[m + 1] = id /\ \A i \in 1..m : Append(ids, id)[i] = ids[i]
      /\ 1..(m + 1) = (1..m) \cup {m + 1}
  BY <1>4
<1>6. Len(d.processed) + d.failed + Len(d.todo) = Len(d.all)
  <2>1. PICK q \in Nat, f \in Nat :
          q = Len(t.todo) /\ f = t.failed /\ m + f + q = Len(t.all)
    BY <1>4, BatchCounts
  <2>2. /\ Len(d.processed) = m + 1 /\ d.failed = f /\ Len(d.todo) = q - 1
        /\ Len(d.all) = Len(t.all)
    <3>1. Len(d.processed) = m + 1
      BY <1>2, <1>4, <1>5
    <3>2. d.failed = f /\ d.all = t.all
      BY <1>2, <2>1
    <3>3. Len(d.todo) = q - 1
      BY <1>2, <1>3, <2>1
    <3>. QED
      BY <3>1, <3>2, <3>3
  <2>3. (m + 1) + f + (q - 1) = m + f + q
    OBVIOUS
  <2>. QED
    BY <2>1, <2>2, <2>3
<1>7. /\ \A k \in 1..Len(events) : k \in 1..Len(events') /\ events'[k] = events[k]
      /\ Len(events) + 1 \in 1..Len(events') /\ events'[Len(events) + 1] = t.env
  OBVIOUS
<1>8. Found(d.processed, d.all)'
  <2>1. /\ \A i, j \in 1..m : i # j => ids[i] # ids[j]
        /\ \A i \in 1..m : \E k \in 1..Len(events) :
             events[k].id = ids[i] /\ events[k].trace \in ToSet(t.all)
    <3>1. Found(ids, t.all)
      BY <1>4 DEF BatchInv
    <3>. QED
      BY <1>4, <3>1 DEF Found
  <2>2. \A i \in 1..m : ids[i] # id
    BY <1>4, <2>1
  <2>3. \A i, j \in 1..(m + 1) :
          i # j => Append(ids, id)[i] # Append(ids, id)[j]
    BY <1>5, <2>1, <2>2
  <2>4. \A i \in 1..m : \E k \in 1..Len(events') :
          events'[k].id = ids[i] /\ events'[k].trace \in ToSet(t.all)
    <3>1. ASSUME NEW i \in 1..m
          PROVE  \E k \in 1..Len(events') :
                   events'[k].id = ids[i] /\ events'[k].trace \in ToSet(t.all)
      <4>1. PICK k \in 1..Len(events) :
              events[k].id = ids[i] /\ events[k].trace \in ToSet(t.all)
        BY <2>1
      <4>. QED
        BY <1>7, <4>1
    <3>. QED
      BY <3>1
  <2>5. \E k \in 1..Len(events') :
          events'[k].id = id /\ events'[k].trace \in ToSet(t.all)
    BY <1>4, <1>7 DEF BatchInv
  <2>6. ASSUME NEW i \in 1..(m + 1)
        PROVE  \E k \in 1..Len(events') :
                 events'[k].id = Append(ids, id)[i] /\ events'[k].trace \in ToSet(t.all)
    <3>1. CASE i \in 1..m
      <4>1. Append(ids, id)[i] = ids[i]
        BY <1>5, <3>1
      <4>2. PICK k \in 1..Len(events') :
              events'[k].id = ids[i] /\ events'[k].trace \in ToSet(t.all)
        BY <2>4, <3>1
      <4>. QED
        BY <4>1, <4>2
    <3>2. CASE i = m + 1
      <4>1. Append(ids, id)[i] = id
        BY <1>5, <3>2
      <4>. QED
        BY <2>5, <4>1
    <3>. QED
      BY <1>5, <3>1, <3>2
  <2>7. /\ d.processed = Append(ids, id) /\ d.all = t.all
        /\ 1..Len(d.processed) = 1..(m + 1)
    BY <1>2, <1>4, <1>5
  <2>8. \A i, j \in 1..Len(d.processed) : i # j => d.processed[i] # d.processed[j]
    BY <2>3, <2>7
  <2>9. \A i \in 1..Len(d.processed) : \E k \in 1..Len(events') :
          events'[k].id = d.processed[i] /\ events'[k].trace \in ToSet(d.all)
    <3>1. ASSUME NEW i \in 1..Len(d.processed)
          PROVE  \E k \in 1..Len(events') :
                   events'[k].id = d.processed[i] /\ events'[k].trace \in ToSet(d.all)
      <4>1. i \in 1..(m + 1) /\ d.processed[i] = Append(ids, id)[i] /\ d.all = t.all
        BY <2>7
      <4>2. PICK k \in 1..Len(events') :
              events'[k].id = Append(ids, id)[i] /\ events'[k].trace \in ToSet(t.all)
        BY <2>6, <4>1
      <4>. QED
        BY <4>1, <4>2
    <3>. QED
      BY <3>1
  <2>. QED
    BY <2>8, <2>9, Zenon DEF Found
<1>9. BatchInv(d)'
  BY <1>2, <1>3, <1>4, <1>5, <1>6, <1>8 DEF BatchInv
<1>. QED
  BY <1>1, <1>9

LEMMA EventsGrow ==
  ASSUME IdInv, [DetectionNext]_detectionVars
  PROVE  \A k \in 1..Len(events) : k \in 1..Len(events') /\ events'[k] = events[k]
<1>1. events \in Seq(DetectionEvent)
  BY DEF IdInv
<1>2. UNCHANGED events \/ \E e : events' = Append(events, e)
  BY DEF DetectionNext, Publish, Redeploy, Process, SignMlDsa65, PutEvent, ProcessFails,
         BatchStart, BatchStep, SkipMalformed, LocalSign, LocalPqcSign, PutFromBatch,
         EngineRaises, RaisesLate, BatchReturns, detectionVars
<1>. QED
  BY <1>1, <1>2

(* A worker's step.                                                        *)
LEMMA WorkerKeeps ==
  ASSUME AccountInv, NEW w \in Workers,
         \/ \E body \in Bodies : Process(w, body)
         \/ SignMlDsa65(w) \/ PutEvent(w) \/ ProcessFails(w)
  PROVE  JobsInv' /\ IdInv' /\ UNCHANGED <<batch, reports>>
<1>0. /\ DOMAIN job = Workers /\ DOMAIN job[w] = Slots /\ JobsInv /\ IdInv
      /\ bundle \in Bundles /\ minted \in Nat
  BY BundleType DEF AccountInv, DetectionInv, IdInv
<1>1. PICK j : job' = [job EXCEPT ![w] = j]
  BY DEF Process, SignMlDsa65, PutEvent, ProcessFails
<1>2. /\ UNCHANGED <<batch, reports>> /\ job'[w] = j
      /\ \A v \in Workers \ {w} : job'[v] = job[v]
  BY <1>0, <1>1 DEF Process, SignMlDsa65, PutEvent, ProcessFails
<1>3. PICK h : h = <<"worker", w>>
  OBVIOUS
<1>4. /\ h \in Holders /\ (Busy(h) <=> job[w].pc # "idle") /\ Carried(h) = job[w].env
      /\ (Busy(h)' <=> j.pc # "idle") /\ Carried(h)' = j.env
      /\ \A g \in Holders : g # h => (Busy(g)' <=> Busy(g)) /\ Carried(g)' = Carried(g)
  BY <1>2, <1>3, OneWorker, WorkerHolds DEF Busy, Carried
<1>5. ASSUME NEW body \in Bodies, Process(w, body)
      PROVE  JobsInv' /\ IdInv'
  <2>1. PICK env : env = Envelope(minted + 1, body, bundle)
    OBVIOUS
  <2>2. env \in DetectionEvent /\ env.id = minted + 1
    BY <1>0, <2>1, EnvelopeType DEF Envelope
  <2>3. /\ minted' = minted + 1 /\ UNCHANGED events
        /\ j = [job[w] EXCEPT !.pc = "pqc", !.env = env, !.ed = Ed25519(env)]
    BY <1>0, <1>2, <1>5, <2>1 DEF Process
  <2>4. j.pc = "pqc" /\ j.env = env
    BY <1>0, <2>3 DEF Slots
  <2>5. IdInv'
    BY <1>0, <1>4, <2>2, <2>3, <2>4, IdMint
  <2>. QED
    BY <1>0, <1>2, <2>4, <2>5 DEF JobsInv
<1>6. CASE SignMlDsa65(w)
  <2>1. j = [job[w] EXCEPT !.pc = "put", !.pqc = MlDsa65(job[w].env, job[w].ed)]
    BY <1>0, <1>2, <1>6 DEF SignMlDsa65
  <2>2. /\ j.pc = "put" /\ j.env = job[w].env /\ job[w].pc = "pqc"
        /\ UNCHANGED <<minted, events>>
    BY <1>0, <1>6, <2>1 DEF SignMlDsa65, Slots
  <2>3. IdInv'
    BY <1>0, <1>4, <2>2, IdKeep
  <2>. QED
    BY <1>0, <1>2, <2>2, <2>3 DEF JobsInv
<1>7. CASE PutEvent(w) \/ ProcessFails(w)
  <2>1. j = IdleJob /\ job[w].pc # "idle" /\ UNCHANGED minted
    BY <1>0, <1>2, <1>7 DEF PutEvent, ProcessFails, EndCall
  <2>2. j.pc = "idle" /\ j.env = None
    BY <2>1 DEF IdleJob
  <2>3. UNCHANGED events \/ events' = Append(events, Carried(h))
    BY <1>4, <1>7 DEF PutEvent, ProcessFails
  <2>4. IdInv'
    BY <1>0, <1>4, <2>1, <2>2, <2>3, IdKeep, IdPut
  <2>. QED
    BY <1>0, <1>2, <2>2, <2>4 DEF JobsInv
<1>. QED
  BY <1>2, <1>5, <1>6, <1>7

(* A batch's step; its own record is `t` before and `u` after it.          *)
LEMMA BatchMoves ==
  ASSUME AccountInv, NEW b \in Batches, NEW u, batch' = [batch EXCEPT ![b] = u],
         UNCHANGED job
  PROVE  LET h == <<"batch", b>> IN
         /\ batch'[b] = u /\ \A c \in Batches \ {b} : batch'[c] = batch[c]
         /\ h \in Holders /\ Carried(h) = batch[b].env /\ Carried(h)' = u.env
         /\ Busy(h) <=> batch[b].pc \in {"pqc", "put"}
         /\ Busy(h)' <=> u.pc \in {"pqc", "put"}
         /\ \A g \in Holders : g # h => (Busy(g)' <=> Busy(g)) /\ Carried(g)' = Carried(g)
<1>1. DOMAIN batch = Batches
  BY DEF AccountInv, DetectionInv
<1>2. batch'[b] = u /\ \A c \in Batches \ {b} : batch'[c] = batch[c]
  BY <1>1
<1>3. \A g \in Holders : g # <<"batch", b>> =>
        (Busy(g)' <=> Busy(g)) /\ Carried(g)' = Carried(g)
  BY <1>2, OneBatch
<1>4. PICK h : h = <<"batch", b>>
  OBVIOUS
<1>5. /\ Carried(h)' = u.env /\ (Busy(h)' <=> u.pc \in {"pqc", "put"})
  BY <1>2, <1>4 DEF Busy, Carried
<1>. QED
  BY <1>2, <1>3, <1>4, <1>5, BatchHolds

LEMMA LocalSignKeeps ==
  ASSUME AccountInv, NEW b \in Batches, LocalSign(b)
  PROVE  IdInv' /\ BatchInv(batch[b])' /\ \E u : batch' = [batch EXCEPT ![b] = u]
<1>1. PICK t : t = batch[b] /\ BatchInv(t)
  BY DEF AccountInv
<1>2. PICK body : body = Head(t.todo)
  OBVIOUS
<1>3. t.pc = "next" /\ body \in Bodies /\ body \in ToSet(t.all) /\ t.todo # <<>>
  <2>1. PICK s \in Seq(Traces) : s = t.todo
    BY <1>1 DEF BatchInv
  <2>2. s # <<>> /\ body = s[1] /\ 1 \in 1..Len(s) /\ body # Malformed /\ t.pc = "next"
    BY <1>1, <1>2, <2>1 DEF LocalSign
  <2>. QED
    BY <1>1, <2>1, <2>2 DEF BatchInv, Traces
<1>4. PICK env : env = Envelope(minted + 1, body, None)
  OBVIOUS
<1>5. /\ env \in DetectionEvent /\ env.id = minted + 1 /\ env.trace = body
      /\ minted' = minted + 1 /\ UNCHANGED <<events, job>>
  <2>1. minted + 1 \in Nat /\ None \in Bundles
    BY DEF AccountInv, IdInv, Bundles
  <2>2. env \in DetectionEvent
    BY <1>3, <1>4, <2>1, EnvelopeType
  <2>3. env.id = minted + 1 /\ env.trace = body
    BY <1>4 DEF Envelope
  <2>. QED
    BY <2>2, <2>3 DEF LocalSign
<1>6. PICK sig, u : /\ u = [t EXCEPT !.pc = "pqc", !.env = env, !.ed = sig]
                    /\ batch' = [batch EXCEPT ![b] = u]
  <2>1. PICK sig : batch' = [batch EXCEPT ![b] =
                     [@ EXCEPT !.pc = "pqc", !.env = env, !.ed = sig]]
    BY <1>1, <1>2, <1>4, <1>5 DEF LocalSign
  <2>. QED
    BY <1>1, <2>1
<1>7. /\ DOMAIN u = BatchSlots /\ u.pc = "pqc" /\ u.env = env /\ u.all = t.all
      /\ u.todo = t.todo /\ u.processed = t.processed /\ u.failed = t.failed
  BY <1>1, <1>6 DEF BatchInv, BatchSlots, Slots
<1>8. PICK h : h = <<"batch", b>>
  OBVIOUS
<1>9. /\ batch'[b] = u /\ h \in Holders /\ Carried(h)' = env
      /\ \A g \in Holders : g # h => (Busy(g)' <=> Busy(g)) /\ Carried(g)' = Carried(g)
  <2>1. /\ batch'[b] = u /\ h \in Holders /\ Carried(h)' = u.env
        /\ \A g \in Holders : g # h => (Busy(g)' <=> Busy(g)) /\ Carried(g)' = Carried(g)
    BY <1>5, <1>6, <1>8, BatchMoves
  <2>. QED
    BY <1>7, <2>1
<1>10. IdInv'
  BY <1>5, <1>9, IdMint DEF AccountInv
<1>11. BatchInv(u)
  BY <1>1, <1>3, <1>5, <1>7 DEF BatchInv
<1>12. BatchInv(u)'
  BY <1>5, <1>11, BatchRests
<1>. QED
  BY <1>6, <1>9, <1>10, <1>12

(* A step that goes on with the envelope, or lets go of it unstored.       *)
LEMMA QuietKeeps ==
  ASSUME AccountInv, NEW b \in Batches, NEW u, batch' = [batch EXCEPT ![b] = u],
         UNCHANGED <<job, minted, events>>, BatchInv(u),
         u.pc \in {"pqc", "put"} =>
           batch[b].pc \in {"pqc", "put"} /\ u.env = batch[b].env
  PROVE  IdInv' /\ BatchInv(batch[b])'
<1>1. PICK h : h = <<"batch", b>>
  OBVIOUS
<1>2. /\ batch'[b] = u /\ Carried(h) = batch[b].env /\ Carried(h)' = u.env
      /\ Busy(h) <=> batch[b].pc \in {"pqc", "put"}
      /\ Busy(h)' <=> u.pc \in {"pqc", "put"}
      /\ \A g \in Holders : g # h => (Busy(g)' <=> Busy(g)) /\ Carried(g)' = Carried(g)
  BY <1>1, BatchMoves
<1>3. \A g \in Holders : Busy(g)' => Busy(g) /\ Carried(g)' = Carried(g)
  BY <1>2
<1>4. IdInv'
  BY <1>3, IdKeep DEF AccountInv
<1>5. BatchInv(u)'
  BY BatchRests
<1>. QED
  BY <1>2, <1>4, <1>5

(* A step that stores the event.                                           *)
LEMMA PutKeeps ==
  ASSUME AccountInv, NEW b \in Batches, batch[b].pc = "put",
         events' = Append(events, batch[b].env), UNCHANGED <<job, minted>>,
         NEW u, batch' = [batch EXCEPT ![b] = u],
         u = Detected(batch[b]) \/ u = SkipAndContinue(batch[b])
  PROVE  IdInv' /\ BatchInv(batch[b])'
<1>1. PICK t : t = batch[b] /\ BatchInv(t) /\ t.pc = "put" /\ t.todo # <<>>
  BY DEF AccountInv, BatchInv
<1>2. PICK h : h = <<"batch", b>>
  OBVIOUS
<1>3. u.pc = "next"
  BY <1>1, NextTraceSlots DEF BatchInv
<1>4. /\ batch'[b] = u /\ h \in Holders /\ Carried(h) = t.env /\ Busy(h) /\ ~Busy(h)'
      /\ \A g \in Holders : g # h => (Busy(g)' <=> Busy(g)) /\ Carried(g)' = Carried(g)
  BY <1>1, <1>2, <1>3, BatchMoves
<1>5. IdInv'
  BY <1>1, <1>4, IdPut DEF AccountInv
<1>6. /\ t.env \in DetectionEvent /\ events \in Seq(DetectionEvent)
      /\ \A i \in 1..Len(events) : events[i].id # t.env.id
  BY <1>4 DEF AccountInv, IdInv
<1>7. \A k \in 1..Len(events) : k \in 1..Len(events') /\ events'[k] = events[k]
  BY <1>6
<1>8. BatchInv(u)'
  <2>1. CASE u = Detected(t)
    <3>1. events' = Append(events, t.env)
      BY <1>1
    <3>2. BatchInv(Detected(t))'
      BY <1>1, <1>6, <3>1, DetectedKeeps
    <3>3. PICK d : d = Detected(t)
      OBVIOUS
    <3>. QED
      BY <2>1, <3>2
  <2>2. CASE u = SkipAndContinue(t)
    BY <1>1, <1>7, <2>2, SkipKeeps, BatchRests
  <2>. QED
    BY <1>1, <2>1, <2>2
<1>. QED
  BY <1>4, <1>5, <1>8

LEMMA PqcSignKeeps ==
  ASSUME AccountInv, NEW b \in Batches, LocalPqcSign(b)
  PROVE  IdInv' /\ BatchInv(batch[b])' /\ \E u : batch' = [batch EXCEPT ![b] = u]
<1>1. PICK t : t = batch[b] /\ BatchInv(t) /\ t.pc = "pqc" /\ t.todo # <<>>
  BY DEF AccountInv, BatchInv, LocalPqcSign
<1>2. PICK sig : batch' = [batch EXCEPT ![b] =
           LET s == [batch[b] EXCEPT !.pc = "put", !.pqc = sig]
           IN IF Assembles(s) THEN s ELSE SkipAndContinue(s)]
  BY DEF LocalPqcSign
<1>3. PICK s : s = [t EXCEPT !.pc = "put", !.pqc = sig]
  OBVIOUS
<1>4. PICK u : /\ batch' = [batch EXCEPT ![b] = u]
               /\ u = s \/ u = SkipAndContinue(s)
  <2>1. batch' = [batch EXCEPT ![b] = IF Assembles(s) THEN s ELSE SkipAndContinue(s)]
    BY <1>1, <1>2, <1>3
  <2>. QED
    BY <2>1
<1>5. /\ DOMAIN s = BatchSlots /\ s.pc = "put" /\ s.env = t.env /\ s.all = t.all
      /\ s.todo = t.todo /\ s.processed = t.processed /\ s.failed = t.failed
  BY <1>1, <1>3 DEF BatchInv, BatchSlots, Slots
<1>6. BatchInv(s)
  BY <1>1, <1>5 DEF BatchInv
<1>7. BatchInv(SkipAndContinue(s)) /\ SkipAndContinue(s).pc = "next"
  BY <1>1, <1>5, <1>6, SkipKeeps, NextTraceSlots
<1>8. UNCHANGED <<job, minted, events>>
  BY DEF LocalPqcSign
<1>. QED
  BY <1>1, <1>4, <1>5, <1>6, <1>7, <1>8, QuietKeeps

LEMMA StartKeeps ==
  ASSUME AccountInv, NEW b \in Batches,
         NEW bodies \in BoundedSeq(Traces, MaxBatch), BatchStart(b, bodies)
  PROVE  IdInv' /\ BatchInv(batch[b])' /\ \E u : batch' = [batch EXCEPT ![b] = u]
<1>1. PICK t : t = batch[b] /\ BatchInv(t) /\ t.pc = "idle"
  BY DEF AccountInv, BatchStart
<1>2. PICK u : /\ u = [t EXCEPT !.pc = "next", !.all = bodies, !.todo = bodies]
               /\ batch' = [batch EXCEPT ![b] = u]
  BY <1>1 DEF BatchStart
<1>3. bodies \in Seq(Traces) /\ \A i \in 1..Len(bodies) : bodies[i] \in ToSet(bodies)
  BY DetectionAssumption DEF BoundedSeq, SeqOf, ToSet
<1>4. /\ DOMAIN u = BatchSlots /\ u.pc = "next" /\ u.env = t.env /\ u.all = bodies
      /\ u.todo = bodies /\ u.processed = t.processed /\ u.failed = t.failed
  BY <1>1, <1>2 DEF BatchInv, BatchSlots, Slots
<1>5. t.processed = <<>> /\ t.failed = 0
  BY <1>1 DEF BatchInv
<1>6. BatchInv(u)
  BY <1>1, <1>3, <1>4, <1>5 DEF BatchInv, Found
<1>7. UNCHANGED <<job, minted, events>>
  BY DEF BatchStart
<1>. QED
  BY <1>2, <1>4, <1>6, <1>7, QuietKeeps

LEMMA ReturnKeeps ==
  ASSUME AccountInv, NEW b \in Batches, BatchReturns(b)
  PROVE  /\ IdInv' /\ BatchInv(batch[b])' /\ \E u : batch' = [batch EXCEPT ![b] = u]
         /\ \E r : ReportInv(r) /\ reports' = Append(reports, r)
<1>1. PICK t : t = batch[b] /\ BatchInv(t) /\ t.todo = <<>>
  BY DEF AccountInv, BatchReturns, Exhausted
<1>2. /\ UNCHANGED <<job, minted, events>> /\ batch' = [batch EXCEPT ![b] = IdleBatch]
  BY DEF BatchReturns
<1>3. IdleBatch.pc = "idle" /\ BatchInv(IdleBatch)
  BY DEF IdleBatch, BatchInv, BatchSlots, Slots, Found
<1>4. PICK r : r = [bodies |-> t.all, detections |-> t.processed, failed |-> t.failed]
  OBVIOUS
<1>5. ReportInv(r)
  <2>1. r.detections = t.processed /\ r.failed = t.failed /\ r.bodies = t.all
    BY <1>4
  <2>2. Len(t.processed) + t.failed = Len(t.all)
    BY <1>1, BatchCounts
  <2>. QED
    BY <1>1, <1>4, <2>1, <2>2 DEF ReportInv, Report, BatchInv
<1>6. reports' = Append(reports, r)
  BY <1>1, <1>4 DEF BatchReturns
<1>7. IdInv' /\ BatchInv(batch[b])'
  BY <1>2, <1>3, QuietKeeps
<1>. QED
  BY <1>2, <1>5, <1>6, <1>7

(* What a batch's step does, whatever the step.                            *)
LEMMA BatchKeeps ==
  ASSUME AccountInv, NEW b \in Batches,
         \/ \E bodies \in BoundedSeq(Bodies \cup {Malformed}, MaxBatch) :
              BatchStart(b, bodies)
         \/ BatchStep(b)
  PROVE  /\ IdInv' /\ BatchInv(batch[b])' /\ \E u : batch' = [batch EXCEPT ![b] = u]
         /\ UNCHANGED job
         /\ UNCHANGED reports \/ BatchReturns(b)
<1>1. UNCHANGED job /\ (UNCHANGED reports \/ BatchReturns(b))
  BY DEF BatchStart, BatchStep, SkipMalformed, LocalSign, LocalPqcSign, PutFromBatch,
         EngineRaises, RaisesLate, BatchReturns
<1>2. PICK t : t = batch[b] /\ BatchInv(t)
  BY DEF AccountInv
<1>3. CASE SkipMalformed(b) \/ EngineRaises(b)
  <2>1. PICK u : u = SkipAndContinue(t) /\ batch' = [batch EXCEPT ![b] = u]
    BY <1>2, <1>3 DEF SkipMalformed, EngineRaises
  <2>2. t.todo # <<>> /\ UNCHANGED <<job, minted, events>>
    BY <1>2, <1>3 DEF SkipMalformed, EngineRaises, BatchInv
  <2>3. BatchInv(u) /\ u.pc = "next"
    BY <1>2, <2>1, <2>2, SkipKeeps, NextTraceSlots DEF BatchInv
  <2>. QED
    BY <1>1, <2>1, <2>2, <2>3, QuietKeeps
<1>4. CASE PutFromBatch(b) \/ RaisesLate(b)
  <2>1. PICK u : /\ u = Detected(batch[b]) \/ u = SkipAndContinue(batch[b])
                 /\ batch' = [batch EXCEPT ![b] = u]
    BY <1>4 DEF PutFromBatch, RaisesLate
  <2>2. /\ batch[b].pc = "put" /\ events' = Append(events, batch[b].env)
        /\ UNCHANGED <<job, minted>>
    BY <1>4 DEF PutFromBatch, RaisesLate
  <2>. QED
    BY <1>1, <2>1, <2>2, PutKeeps
<1>5. ASSUME NEW bodies \in BoundedSeq(Bodies \cup {Malformed}, MaxBatch),
             BatchStart(b, bodies)
      PROVE  IdInv' /\ BatchInv(batch[b])' /\ \E u : batch' = [batch EXCEPT ![b] = u]
  BY <1>5, StartKeeps DEF Traces
<1>. QED
  BY <1>1, <1>3, <1>4, <1>5, LocalSignKeeps, PqcSignKeeps, ReturnKeeps DEF BatchStep

LEMMA ReportRests ==
  ASSUME NEW r, ReportInv(r),
         \A k \in 1..Len(events) : k \in 1..Len(events') /\ events'[k] = events[k]
  PROVE  ReportInv(r)'
  BY FoundKeeps DEF ReportInv

LEMMA OthersRest ==
  ASSUME AccountInv, [DetectionNext]_detectionVars,
         NEW b \in Batches, batch'[b] = batch[b]
  PROVE  BatchInv(batch[b])'
<1>1. PICK t : t = batch[b] /\ BatchInv(t)
  BY DEF AccountInv
<1>2. BatchInv(t)'
  BY <1>1, EventsGrow, BatchRests DEF AccountInv
<1>. QED
  BY <1>1, <1>2

LEMMA ReportsNext ==
  ASSUME AccountInv, [DetectionNext]_detectionVars
  PROVE  reports' \in Seq(Report) /\ \A n \in 1..Len(reports') : ReportInv(reports[n])'
<1>0. reports \in Seq(Report) /\ Len(reports) \in Nat
  BY DEF AccountInv
<1>1. ASSUME NEW n \in 1..Len(reports), reports'[n] = reports[n]
      PROVE  ReportInv(reports[n])'
  <2>1. PICK r : r = reports[n] /\ ReportInv(r)
    BY DEF AccountInv
  <2>2. ReportInv(r)'
    BY <2>1, EventsGrow, ReportRests DEF AccountInv
  <2>. QED
    BY <1>1, <2>1, <2>2
<1>2. CASE UNCHANGED reports
  BY <1>0, <1>1, <1>2
<1>3. ASSUME NEW b \in Batches, BatchReturns(b)
      PROVE  /\ reports' \in Seq(Report)
             /\ \A n \in 1..Len(reports') : ReportInv(reports[n])'
  <2>1. PICK r : ReportInv(r) /\ reports' = Append(reports, r)
    BY <1>3, ReturnKeeps
  <2>2. /\ r \in Report /\ reports' \in Seq(Report) /\ Len(reports') = Len(reports) + 1
        /\ reports'[Len(reports) + 1] = r
        /\ \A n \in 1..Len(reports) : reports'[n] = reports[n]
    BY <1>0, <2>1 DEF ReportInv
  <2>3. ReportInv(r)'
    BY <2>1, EventsGrow, ReportRests DEF AccountInv
  <2>4. PICK m : m = Len(reports) + 1
    OBVIOUS
  <2>5. ReportInv(reports[m])'
    BY <2>2, <2>3, <2>4
  <2>6. ASSUME NEW n \in 1..Len(reports'), n # m
        PROVE  ReportInv(reports[n])'
    BY <1>0, <1>1, <2>2, <2>4, <2>6
  <2>. QED
    BY <2>2, <2>5, <2>6
<1>4. UNCHANGED reports \/ \E b \in Batches : BatchReturns(b)
  BY DEF DetectionNext, Publish, Redeploy, Process, SignMlDsa65, PutEvent, ProcessFails,
         BatchStart, BatchStep, SkipMalformed, LocalSign, LocalPqcSign, PutFromBatch,
         EngineRaises, RaisesLate, detectionVars
<1>. QED
  BY <1>2, <1>3, <1>4

LEMMA AccountNext ==
  ASSUME AccountInv, [DetectionNext]_detectionVars
  PROVE  AccountInv'
<1>0. /\ DetectionInv' /\ JobsInv /\ IdInv /\ DOMAIN batch = Batches
      /\ reports' \in Seq(Report)
      /\ \A n \in 1..Len(reports') : ReportInv(reports[n])'
  BY StepInv, ReportsNext DEF AccountInv, DetectionInv
<1>1. CASE UNCHANGED <<minted, job, batch, events>>
  <2>1. JobsInv' /\ IdInv'
    BY <1>0, <1>1, IdKeep DEF JobsInv, Busy, Carried
  <2>2. \A b \in Batches : BatchInv(batch[b])'
    BY <1>1, OthersRest
  <2>. QED
    BY <1>0, <2>1, <2>2 DEF AccountInv
<1>2. ASSUME NEW w \in Workers,
             \/ \E body \in Bodies : Process(w, body)
             \/ SignMlDsa65(w) \/ PutEvent(w) \/ ProcessFails(w)
      PROVE  AccountInv'
  <2>1. JobsInv' /\ IdInv' /\ UNCHANGED batch
    BY <1>2, WorkerKeeps
  <2>2. \A b \in Batches : BatchInv(batch[b])'
    BY <2>1, OthersRest
  <2>. QED
    BY <1>0, <2>1, <2>2 DEF AccountInv
<1>3. ASSUME NEW b \in Batches,
             \/ \E bodies \in BoundedSeq(Bodies \cup {Malformed}, MaxBatch) :
                  BatchStart(b, bodies)
             \/ BatchStep(b)
      PROVE  AccountInv'
  <2>1. IdInv' /\ BatchInv(batch[b])' /\ UNCHANGED job
    BY <1>3, BatchKeeps
  <2>2. PICK u : batch' = [batch EXCEPT ![b] = u]
    BY <1>3, BatchKeeps
  <2>3. \A c \in Batches \ {b} : BatchInv(batch[c])'
    BY <1>0, <2>2, OthersRest
  <2>4. JobsInv'
    BY <1>0, <2>1 DEF JobsInv
  <2>. QED
    BY <1>0, <2>1, <2>3, <2>4 DEF AccountInv
<1>. QED
  BY <1>1, <1>2, <1>3 DEF DetectionNext, Publish, Redeploy, detectionVars

LEMMA AccountInit == DetectionInit => AccountInv
<1>. SUFFICES ASSUME DetectionInit PROVE AccountInv
  OBVIOUS
<1>1. DetectionInv
  BY InitInv
<1>2. JobsInv
  BY DEF DetectionInit, JobsInv, IdleJob
<1>3. \A h \in Holders : ~Busy(h)
  BY DEF DetectionInit, Holders, Busy, IdleJob, IdleBatch
<1>4. IdInv
  BY <1>3 DEF DetectionInit, IdInv
<1>5. \A b \in Batches : BatchInv(batch[b])
  <2>1. BatchInv(IdleBatch)
    BY DEF IdleBatch, BatchInv, BatchSlots, Slots, Found
  <2>. QED
    BY <2>1 DEF DetectionInit
<1>. QED
  BY <1>1, <1>2, <1>4, <1>5 DEF DetectionInit, AccountInv

LEMMA AccountInvariant == DetectionSpec => []AccountInv
<1>1. AccountInv /\ [DetectionNext]_detectionVars => AccountInv'
  BY AccountNext
<1>. QED
  BY <1>1, AccountInit, PTL DEF DetectionSpec

LEMMA DetectionShapesHold ==
  ASSUME AccountInv
  PROVE  DetectionTypeOK
<1>1. published \subseteq Rows /\ (bundle = None \/ bundle \in published)
  BY HydratedIsRow DEF AccountInv, DetectionInv, Hydrated
<1>2. ASSUME NEW w \in Workers
      PROVE  /\ job[w].pc \in {"idle", "pqc", "put"}
             /\ (job[w].env = None) = (job[w].pc = "idle")
  <2>1. job[w].pc # "idle" => job[w].env \in DetectionEvent
    BY WorkerHolds DEF AccountInv, IdInv
  <2>. QED
    BY <2>1, EnvelopeAssumption DEF AccountInv, JobsInv
<1>3. ASSUME NEW b \in Batches
      PROVE  /\ batch[b].pc \in {"idle", "next", "pqc", "put"}
             /\ (batch[b].env = None) = (batch[b].pc \in {"idle", "next"})
  <2>1. batch[b].pc \in {"pqc", "put"} => batch[b].env \in DetectionEvent
    BY BatchHolds DEF AccountInv, IdInv
  <2>. QED
    BY <2>1, EnvelopeAssumption DEF AccountInv, BatchInv
<1>4. ASSUME NEW e \in EventSet
      PROVE  e.id \in 1..minted /\ e.version \in Versions
  <2>1. PICK k \in 1..Len(events) : e = events[k]
    BY <1>4 DEF EventSet
  <2>2. e \in DetectionEvent /\ e.id \in 1..minted
    BY <2>1 DEF AccountInv, IdInv
  <2>. QED
    BY <2>2 DEF DetectionEvent
<1>. QED
  BY <1>1, <1>2, <1>3, <1>4 DEF DetectionTypeOK

(* A call has an envelope exactly while it signs or puts, and an event's   *)
(* id was minted (signing/event.rs:240-277, pyo3.rs:207-236).              *)
THEOREM DetectionTypeCorrect == DetectionSpec => []DetectionTypeOK
<1>1. AccountInv => DetectionTypeOK
  BY DetectionShapesHold
<1>. QED
  BY <1>1, AccountInvariant, PTL

(* As many events as ids, when each id is once in both.                    *)
LEMMA FoundIsCounted ==
  ASSUME NEW ids \in Seq(Nat), NEW bodies, Found(ids, bodies), IdInv
  PROVE  LET found == {e \in EventSet : e.id \in ToSet(ids)} IN
         Cardinality(found) = Len(ids) /\ \A e \in found : e.trace \in ToSet(bodies)
<1>. DEFINE found == {e \in EventSet : e.id \in ToSet(ids)}
            At(i) == CHOOSE k \in 1..Len(events) : events[k].id = ids[i]
            f     == [i \in 1..Len(ids) |-> events[At(i)]]
<1>1. \A i \in 1..Len(ids) : /\ At(i) \in 1..Len(events) /\ events[At(i)].id = ids[i]
                             /\ events[At(i)].trace \in ToSet(bodies)
  <2>1. ASSUME NEW i \in 1..Len(ids)
        PROVE  At(i) \in 1..Len(events) /\ events[At(i)].id = ids[i]
    BY DEF Found
  <2>2. ASSUME NEW i \in 1..Len(ids)
        PROVE  events[At(i)].trace \in ToSet(bodies)
    <3>1. PICK k \in 1..Len(events) :
            events[k].id = ids[i] /\ events[k].trace \in ToSet(bodies)
      BY DEF Found
    <3>. QED
      BY <2>1, <3>1 DEF IdInv
  <2>. QED
    BY <2>1, <2>2
<1>. HIDE DEF At
<1>2. ASSUME NEW e \in found
      PROVE  \E i \in 1..Len(ids) : e = f[i] /\ e.trace \in ToSet(bodies)
  <2>1. PICK k \in 1..Len(events) : e = events[k]
    BY DEF EventSet
  <2>2. PICK i \in 1..Len(ids) : e.id = ids[i]
    BY DEF ToSet
  <2>3. k = At(i)
    BY <1>1, <2>1, <2>2 DEF IdInv
  <2>. QED
    BY <1>1, <2>1, <2>3
<1>3. \A i \in 1..Len(ids) : f[i] \in found
  BY <1>1 DEF EventSet, ToSet
<1>4. ASSUME NEW i \in 1..Len(ids), NEW j \in 1..Len(ids), f[i] = f[j]
      PROVE  i = j
  <2>1. events[At(i)] = events[At(j)]
    BY <1>4
  <2>2. ids[i] = ids[j]
    BY <1>1, <2>1
  <2>. QED
    BY <2>2 DEF Found
<1>5. f \in Bijection(1..Len(ids), found)
  BY <1>2, <1>3, <1>4 DEF Bijection, Injection, Surjection, IsInjective
<1>6. Cardinality(found) = Len(ids)
  BY <1>5, FS_CountingElements DEF ExistsBijection
<1>. QED
  BY <1>2, <1>6

(* No event is stored twice, and a batch accounts for every trace: failed, *)
(* or reported once and in persist (pyo3.rs:207-236).                      *)
THEOREM ReportsAreAlwaysTrue == DetectionSpec => []ReportsAreTrue
<1>1. AccountInv => ReportsAreTrue
  <2>. SUFFICES ASSUME AccountInv PROVE ReportsAreTrue
    OBVIOUS
  <2>1. \A i, j \in 1..Len(events) : i # j => events[i].id # events[j].id
    BY DEF AccountInv, IdInv
  <2>2. ASSUME NEW n \in 1..Len(reports), NEW found,
               found = {e \in EventSet : e.id \in ToSet(reports[n].detections)}
        PROVE  /\ Len(reports[n].detections) + reports[n].failed = Len(reports[n].bodies)
               /\ Cardinality(found) = Len(reports[n].detections)
               /\ \A e \in found : e.trace \in ToSet(reports[n].bodies)
    <3>1. PICK r : r = reports[n] /\ ReportInv(r)
      BY DEF AccountInv
    <3>2. r.detections \in Seq(Nat) /\ Found(r.detections, r.bodies)
      BY <3>1 DEF ReportInv, Report
    <3>. QED
      BY <2>2, <3>1, <3>2, FoundIsCounted DEF ReportInv, AccountInv
  <2>. QED
    BY <2>1, <2>2, DetectionShapesHold DEF ReportsAreTrue
<1>. QED
  BY <1>1, AccountInvariant, PTL
=============================================================================
