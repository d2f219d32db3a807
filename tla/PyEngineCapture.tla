-------------------------- MODULE PyEngineCapture --------------------------
(***************************************************************************)
(* The cohabitation path: src/capture/py_engine.rs driven by the binding   *)
(* LensClient.capture_event of src/ffi/pyo3.rs.  The host's Engine is a    *)
(* Python object (external): each of its three methods may raise, answer   *)
(* wrongly, or let other Python threads in, so a step ends at each call.   *)
(* Consent is the operator's configuration alone; attestations are not     *)
(* read here and `rows` stays empty.                                       *)
(***************************************************************************)
EXTENDS PartialTraceStore, Consent

CONSTANTS
  Calls,        \* Python threads in capture_event
  ProcessLevel, \* PyEngineCapture.trace_level
  EngineFaults  \* what the host Engine does wrong, subset of FaultKinds

FaultKinds == {"key_id", "sign", "short", "wrong", "persist", "summary"}

ASSUME PyEngineAssumption ==
  /\ ProcessLevel \in Levels
  /\ EngineFaults \subseteq FaultKinds
  /\ None \notin {"consent_blocked", "sealed_and_persisted", "error"}

VARIABLES
  call,        \* what each thread is doing
  mirrored,    \* the batches the tee wrote, as [trace, signature]
  persisted,   \* the batches the host Engine stored, in order
  told         \* per sealed trace: what its caller was told, None so far

pyVars == <<storeVars, consentVars, call, mirrored, persisted, told>>

Idle == [pc |-> "idle", seal |-> 0, level |-> None, signature |-> None]

PyInit ==
  /\ StoreInit
  /\ ConsentInit
  /\ call = [c \in Calls |-> Idle]
  /\ mirrored = {}
  /\ persisted = <<>>
  /\ told = <<>>

(* Mutant: the call answers and goes on.                                   *)
ReturnKeepsTrace(c, answer) ==
  /\ UNCHANGED call
  /\ told' = [told EXCEPT ![call[c].seal] = answer]

(* The call returns `answer` to Python; its trace goes out of scope.       *)
Return(c, answer) ==
  /\ call' = [call EXCEPT ![c] = Idle]
  /\ told' = [told EXCEPT ![call[c].seal] = answer]

----------------------------------------------------------------------------
(* PyEngineCapture::prepare: store, consent and stamping without a break.  *)

PrepareInFlight(c, ev, ts) ==
  /\ call[c].pc = "idle"
  /\ CaptureOpen(ev, ts)
  /\ UNCHANGED <<consentVars, call, mirrored, persisted, told>>

PrepareRejected(c, ev) ==
  /\ call[c].pc = "idle"
  /\ CaptureUnknown(ev)
  /\ UNCHANGED <<consentVars, call, mirrored, persisted, told>>

PrepareBlocked(c, ev, ts) ==
  /\ call[c].pc = "idle"
  /\ CaptureSeal(ev, ts)
  /\ ~Permits(ResolveConsent(Absent, config))
  /\ told' = Append(told, "consent_blocked")
  /\ UNCHANGED <<consentVars, call, mirrored, persisted>>

PrepareSeal(c, ev, ts) ==
  /\ call[c].pc = "idle"
  /\ CaptureSeal(ev, ts)
  /\ Permits(ResolveConsent(Absent, config))
  /\ call' = [call EXCEPT ![c] =
                [pc |-> "key_id", seal |-> Len(sealed) + 1, signature |-> None,
                 level |-> FirstKnown(Assembled(ev, ts).trace_level, ProcessLevel)]]
  /\ told' = Append(told, None)
  /\ UNCHANGED <<consentVars, mirrored, persisted>>

----------------------------------------------------------------------------
(* capture_event after prepare.                                            *)

Content(job) == [seal |-> job.seal, level |-> job.level]
Batch(job) == [trace |-> Content(job), signature |-> job.signature]

(* The canonical bytes and local_key_id; either may fail.                  *)
LocalKeyId(c) ==
  /\ call[c].pc = "key_id"
  /\ \/ /\ call' = [call EXCEPT ![c].pc = "sign"]
        /\ UNCHANGED told
     \/ "key_id" \in EngineFaults /\ Return(c, "error")
  /\ UNCHANGED <<storeVars, consentVars, mirrored, persisted>>

(* What local_sign may answer to the bytes it was asked to sign: their     *)
(* signature, too few bytes, or 64 others.                                 *)
Signatures(job) ==
  [asked : {Content(job)}, kind : {"signed"} \cup ({"short", "wrong"} \cap EngineFaults)]

(* Mutant: any answer is taken for a signature.                            *)
AnySignature(sig) == TRUE

(* sig.len() == 64; nothing else is looked at.                             *)
WellFormed(sig) == sig.kind # "short"

(* Mutant: the level is stamped with the signature, not before it.         *)
StampWithSignature(job, sig) ==
  [job EXCEPT !.pc = "persist", !.signature = sig, !.level = ProcessLevel]

(* apply_signature_and_batch.                                              *)
Signed(job, sig) == [job EXCEPT !.pc = "persist", !.signature = sig]

(* local_sign, and in one go apply_signature_and_batch and the tee, whose  *)
(* write may fail unnoticed.                                               *)
LocalSign(c) ==
  /\ call[c].pc = "sign"
  /\ \E sig \in Signatures(call[c]) :
       LET signed == Signed(call[c], sig) IN
       /\ WellFormed(sig)
       /\ call' = [call EXCEPT ![c] = signed]
       /\ mirrored' \in {mirrored, mirrored \cup {Batch(signed)}}
  /\ UNCHANGED <<storeVars, consentVars, persisted, told>>

(* local_sign raises or answers too few bytes, or the batch is not built.  *)
LocalSignFails(c) ==
  /\ call[c].pc = "sign"
  /\ \/ "sign" \in EngineFaults
     \/ \E sig \in Signatures(call[c]) : ~WellFormed(sig)
  /\ Return(c, "error")
  /\ UNCHANGED <<storeVars, consentVars, mirrored, persisted>>

(* Mutant: success is reported whatever the Engine did.                    *)
AnswerAlways(summary) == "sealed_and_persisted"

(* A summary whose two counters can be read, or a RuntimeError.            *)
Answer(summary) == IF summary = "ok" THEN "sealed_and_persisted" ELSE "error"

(* receive_and_persist raises, before or after it committed, or returns a  *)
(* summary, readable or not.                                               *)
ReceiveAndPersist(c) ==
  /\ call[c].pc = "persist"
  /\ \/ /\ persisted' = Append(persisted, Batch(call[c]))
        /\ \E s \in {"ok"} \cup ({"summary", "persist"} \cap EngineFaults) :
             Return(c, Answer(s))
     \/ /\ "persist" \in EngineFaults
        /\ Return(c, Answer("persist"))
        /\ UNCHANGED persisted
  /\ UNCHANGED <<storeVars, consentVars, mirrored>>

(* LensClient.orphan_sweep, and time passing.                              *)
Sweep ==
  /\ OrphanSweep \/ Tick
  /\ UNCHANGED <<consentVars, call, mirrored, persisted, told>>

(* The interpreter exits and starts again.                                 *)
Exit ==
  /\ Restart
  /\ call' = [c \in Calls |-> Idle]
  /\ UNCHANGED <<consentVars, mirrored, persisted, told>>

Proceed(c) ==
  \/ LocalKeyId(c)
  \/ LocalSign(c)
  \/ LocalSignFails(c)
  \/ ReceiveAndPersist(c)

PyNext ==
  \/ \E c \in Calls, ev \in Inbound, ts \in Stamp : PrepareInFlight(c, ev, ts)
  \/ \E c \in Calls, ev \in Inbound, ts \in Stamp : PrepareBlocked(c, ev, ts)
  \/ \E c \in Calls, ev \in Inbound, ts \in Stamp : PrepareSeal(c, ev, ts)
  \/ \E c \in Calls, ev \in Inbound : PrepareRejected(c, ev)
  \/ \E c \in Calls : Proceed(c)
  \/ Sweep
  \/ Exit

PySpec == PyInit /\ [][PyNext]_pyVars

----------------------------------------------------------------------------
(* Properties.                                                             *)

Held(n) == \E c \in Calls : call[c].pc # "idle" /\ call[c].seal = n
Stored(n) == \E i \in 1..Len(persisted) : persisted[i].trace.seal = n
Left(n) == Stored(n) \/ \E b \in mirrored : b.trace.seal = n

(* Every variable has its type, and a caller still in the call has not     *)
(* been answered (py_engine.rs:74-140).                                    *)
PyTypeOK ==
  /\ StoreTypeOK
  /\ \A c \in Calls :
       /\ call[c].pc \in {"idle", "key_id", "sign", "persist"}
       /\ call[c].level \in Levels \cup {None}
       /\ call[c].pc # "idle" => told[call[c].seal] = None
  /\ Len(told) = Len(sealed)
  /\ \A n \in 1..Len(told) :
       told[n] \in {None, "consent_blocked", "sealed_and_persisted", "error"}

(* What Python is told is true: a trace reported as persisted was stored   *)
(* once; a blocked one never reached Engine or tee; and whatever was       *)
(* answered, no trace is stored twice (pyo3.rs:847-967).                   *)
AnswersAreTrue ==
  /\ PyTypeOK
  /\ \A n \in 1..Len(told) :
       /\ told[n] = "sealed_and_persisted" => Stored(n)
       /\ told[n] = "consent_blocked" => ~Left(n)
  /\ \A i, j \in 1..Len(persisted) :
       i # j => persisted[i].trace.seal # persisted[j].trace.seal

(* However the Engine misbehaves and threads interleave, tee and Engine    *)
(* get a batch only with the 64 bytes the host answered when it was asked  *)
(* to sign that very trace, level included; what the tee keeps of a trace  *)
(* is what the Engine got.  Whether the 64 bytes are a signature nobody    *)
(* asks before the host does: of a host that signs, they are               *)
(* (pyo3.rs:887-911).                                                      *)
NothingLeavesUnsigned ==
  LET left == mirrored \cup {persisted[i] : i \in 1..Len(persisted)} IN
  /\ \A b \in left :
       /\ b.signature.asked = b.trace /\ b.trace.level # None
       /\ b.signature.kind \in {"signed"} \cup ({"wrong"} \cap EngineFaults)
  /\ \A b, d \in left : b.trace.seal = d.trace.seal => b = d

Delivery == INSTANCE TraceDelivery WITH
  Ids     <- 1..MaxDelivered,
  pending <- [t \in Thoughts |-> Components(t)],
  emitted <- [n \in 1..Len(sealed) |->
                [thought_id |-> sealed[n].thought_id,
                 items      |-> sealed[n].components]],
  outcome <- [n \in 1..Len(sealed) |->
                IF Stored(n) THEN "stored"
                ELSE IF Held(n) THEN "open" ELSE "dropped"]

(* The Python path delivers traces as the Rust path does                   *)
(* (py_engine.rs:187-264, pyo3.rs:847-967).                                *)
PyImplementsDelivery == Delivery!DeliverySpec
=============================================================================
