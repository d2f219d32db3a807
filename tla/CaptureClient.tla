--------------------------- MODULE CaptureClient ---------------------------
(***************************************************************************)
(* src/capture/client.rs: client mode.  Concurrent capture_event calls     *)
(* share one PartialTraceStore behind a mutex; the call whose event seals  *)
(* a trace carries it, with the mutex released, through consent, signing,  *)
(* the forensic tee and Engine::receive_and_persist.                       *)
(*                                                                         *)
(* One action per stretch between two suspension points.  `Failures` says  *)
(* which external calls may fail in the instance at hand.                  *)
(***************************************************************************)
EXTENDS PartialTraceStore, Consent

CONSTANTS
  Calls,         \* concurrent callers of capture_event
  HasKey,        \* consent_attesting_key_id is Some
  HasTee,        \* local_copy_dir is Some
  ClientLevel,   \* CaptureClient.trace_level
  Failures       \* subset of FailureKinds

FailureKinds == {"directory", "sign", "tee", "persist", "cancel"}

ASSUME ClientAssumption ==
  /\ HasKey \in BOOLEAN /\ HasTee \in BOOLEAN
  /\ ClientLevel \in Levels
  /\ Failures \subseteq FailureKinds

VARIABLES
  call,         \* what each caller is doing
  tee_seq,      \* the tee's file counter: process-local
  tee_files,    \* the tee directory: file number -> the trace in the file, or Unwritten
  batches       \* the batches the Engine stored, in order

clientVars == <<storeVars, consentVars, call, tee_seq, tee_files, batches>>

(* A trace on its way out: `seal` is its position in `sealed`, `heard` the *)
(* number of attestations at that moment (history).                        *)
Idle == [pc |-> "idle", seal |-> 0, heard |-> 0, stamp |-> NoStamp,
         level |-> None, signature |-> None]

ClientInit ==
  /\ StoreInit
  /\ ConsentInit
  /\ call = [c \in Calls |-> Idle]
  /\ tee_seq = 0
  /\ tee_files = <<>>
  /\ batches = <<>>

(* Mutant: the call keeps its trace and goes on with it.                   *)
FinishKeepsTrace(c) == UNCHANGED call

(* The call returns; the trace it carried goes out of scope.               *)
Finish(c) == call' = [call EXCEPT ![c] = Idle]

----------------------------------------------------------------------------
(* prepare_for_seal: the store under the mutex, then consent.              *)

(* Opened / Appended: the call returns at once.                            *)
CaptureInFlight(c, ev, ts) ==
  /\ call[c].pc = "idle"
  /\ CaptureOpen(ev, ts)
  /\ UNCHANGED <<consentVars, call, tee_seq, tee_files, batches>>

(* Rejected.                                                               *)
CaptureRejected(c, ev) ==
  /\ call[c].pc = "idle"
  /\ CaptureUnknown(ev)
  /\ UNCHANGED <<consentVars, call, tee_seq, tee_files, batches>>

CaptureSealing(c, ev, ts) ==
  /\ call[c].pc = "idle"
  /\ CaptureSeal(ev, ts)
  /\ call' = [call EXCEPT ![c] =
                [pc |-> "consent", seal |-> Len(sealed) + 1,
                 heard |-> Len(rows), stamp |-> NoStamp,
                 level |-> Assembled(ev, ts).trace_level, signature |-> None]]
  /\ UNCHANGED <<consentVars, tee_seq, tee_files, batches>>

(* Mutant: the directory is read once and the answer kept.                 *)
ConsentReadOnce ==
  IF HasKey THEN ResolutionAt(IF Len(rows) = 0 THEN 0 ELSE 1)
  ELSE ResolveConsent(Absent, config)

(* The consent gate of one seal: the directory if a key is configured,     *)
(* the operator's configuration alone otherwise.                           *)
ConsentNow ==
  IF HasKey THEN Resolution ELSE ResolveConsent(Absent, config)

ConsentGranted(c) ==
  /\ call[c].pc = "consent"
  /\ Permits(ConsentNow)
  /\ call' = [call EXCEPT ![c].pc = "sign", ![c].stamp = ConsentNow.stamp]
  /\ UNCHANGED <<storeVars, consentVars, tee_seq, tee_files, batches>>

(* ConsentBlocked: the trace is dropped.                                   *)
ConsentBlocked(c) ==
  /\ call[c].pc = "consent"
  /\ ~Permits(ConsentNow)
  /\ Finish(c)
  /\ UNCHANGED <<storeVars, consentVars, tee_seq, tee_files, batches>>

(* The directory cannot be read: Err, fail closed, the trace is gone.      *)
ConsentUnreadable(c) ==
  /\ call[c].pc = "consent"
  /\ HasKey /\ "directory" \in Failures
  /\ Finish(c)
  /\ UNCHANGED <<storeVars, consentVars, tee_seq, tee_files, batches>>

----------------------------------------------------------------------------
(* capture_event after prepare_for_seal: sign, tee, persist.               *)

Canonical(job) == [seal |-> job.seal, level |-> job.level]

Stamped(job) == [job EXCEPT !.level = FirstKnown(@, ClientLevel)]

(* Mutant: the level is stamped after the signature is made.               *)
SignThenStamp(job) == [Stamped(job) EXCEPT !.signature = Canonical(job)]

(* seal_sign_wrap: stamp what is missing, then sign the canonical bytes.   *)
StampThenSign(job) == [Stamped(job) EXCEPT !.signature = Canonical(Stamped(job))]

SealSignWrap(c) ==
  /\ call[c].pc = "sign"
  /\ call' = [call EXCEPT ![c] = [StampThenSign(@) EXCEPT !.pc = "tee"]]
  /\ UNCHANGED <<storeVars, consentVars, tee_seq, tee_files, batches>>

SignFails(c) ==
  /\ call[c].pc = "sign"
  /\ "sign" \in Failures
  /\ Finish(c)
  /\ UNCHANGED <<storeVars, consentVars, tee_seq, tee_files, batches>>

(* A number whose write failed.                                            *)
Unwritten == 0

(* The tee directory with file n holding trace s.                          *)
Written(n, s) ==
  [m \in DOMAIN tee_files \cup {n} |-> IF m = n THEN s ELSE tee_files[m]]

(* fetch_add.                                                              *)
TeeSeqNext == tee_seq + 1

(* Mutant: a failed tee write fails the call.                              *)
TeeWriteOrFail(c) ==
  /\ call[c].pc = "tee"
  /\ tee_seq' = TeeSeqNext
  /\ \/ /\ call' = [call EXCEPT ![c].pc = "persist"]
        /\ tee_files' = Written(tee_seq, call[c].seal)
     \/ "tee" \in Failures /\ Finish(c) /\ tee_files' = Written(tee_seq, Unwritten)
  /\ UNCHANGED <<storeVars, consentVars, batches>>

(* tee_write_if_configured: the number is used up, written or not.         *)
TeeWrite(c) ==
  /\ call[c].pc = "tee"
  /\ call' = [call EXCEPT ![c].pc = "persist"]
  /\ IF HasTee
     THEN /\ tee_seq' = TeeSeqNext
          /\ \/ tee_files' = Written(tee_seq, call[c].seal)
             \/ "tee" \in Failures /\ tee_files' = Written(tee_seq, Unwritten)
     ELSE UNCHANGED <<tee_seq, tee_files>>
  /\ UNCHANGED <<storeVars, consentVars, batches>>

(* build_batch_bytes' envelope as the Engine stored it; `heard` and        *)
(* `stored` bracket the attestations of the call's lifetime (history).     *)
BatchOf(job) ==
  [seal |-> job.seal, stamp |-> job.stamp, trace_level |-> ClientLevel,
   level |-> job.level, signature |-> job.signature,
   heard |-> job.heard, stored |-> Len(rows)]

(* SealedAndPersisted.                                                     *)
Persist(c) ==
  /\ call[c].pc = "persist"
  /\ batches' = Append(batches, BatchOf(call[c]))
  /\ Finish(c)
  /\ UNCHANGED <<storeVars, consentVars, tee_seq, tee_files>>

(* ClientError::Persist.  The engine may have failed before or after it    *)
(* committed; either way the caller gets an error and the trace is gone.   *)
PersistFails(c) ==
  /\ call[c].pc = "persist"
  /\ "persist" \in Failures
  /\ \/ UNCHANGED batches
     \/ batches' = Append(batches, BatchOf(call[c]))
  /\ Finish(c)
  /\ UNCHANGED <<storeVars, consentVars, tee_seq, tee_files>>

(* The future is dropped at an await; a persist in progress may or may not *)
(* have committed.                                                         *)
Cancel(c) ==
  /\ "cancel" \in Failures
  /\ \/ call[c].pc \in {"consent", "sign", "persist"} /\ UNCHANGED batches
     \/ call[c].pc = "persist" /\ batches' = Append(batches, BatchOf(call[c]))
  /\ Finish(c)
  /\ UNCHANGED <<storeVars, consentVars, tee_seq, tee_files>>

----------------------------------------------------------------------------
(* The rest of the process and of the world.                               *)

(* CaptureClient::orphan_sweep, under the same mutex, and time passing.    *)
Housekeeping ==
  /\ OrphanSweep \/ Tick
  /\ UNCHANGED <<consentVars, call, tee_seq, tee_files, batches>>

(* The process restarts: CaptureClient::new() with an empty store and the  *)
(* tee counter at 0; directory, tee files and stored batches survive.      *)
Crash ==
  /\ Restart
  /\ call' = [c \in Calls |-> Idle]
  /\ tee_seq' = 0
  /\ UNCHANGED <<consentVars, tee_files, batches>>

Attestations ==
  /\ ConsentNext
  /\ UNCHANGED <<storeVars, call, tee_seq, tee_files, batches>>

(* What a call does once it holds a sealed trace.                          *)
Advance(c) ==
  \/ ConsentGranted(c)
  \/ ConsentBlocked(c)
  \/ ConsentUnreadable(c)
  \/ SealSignWrap(c)
  \/ SignFails(c)
  \/ TeeWrite(c)
  \/ Persist(c)
  \/ PersistFails(c)

ClientNext ==
  \/ \E c \in Calls, ev \in Inbound, ts \in Stamp : CaptureInFlight(c, ev, ts)
  \/ \E c \in Calls, ev \in Inbound, ts \in Stamp : CaptureSealing(c, ev, ts)
  \/ \E c \in Calls, ev \in Inbound : CaptureRejected(c, ev)
  \/ \E c \in Calls : Advance(c)
  \/ \E c \in Calls : Cancel(c)
  \/ Housekeeping
  \/ Crash
  \/ Attestations

(* The runtime keeps polling a call that holds a trace, and every engine   *)
(* call it awaits completes, one way or the other.                         *)
ClientFairness == \A c \in Calls : WF_clientVars(Advance(c))

ClientSafetySpec == ClientInit /\ [][ClientNext]_clientVars
ClientSpec == ClientSafetySpec /\ ClientFairness

----------------------------------------------------------------------------
(* Properties.                                                             *)

PCs == {"idle", "consent", "sign", "tee", "persist"}
Signature == [seal : Nat, level : Levels \cup {None}]

(* No signature is not a signature.                                        *)
ASSUME SignatureAssumption == None \notin Signature

StampOrNot == ConfigStamps \cup Nat \cup {NoStamp}

Job == [pc : PCs, seal : Nat, heard : Nat, stamp : StampOrNot,
        level : Levels \cup {None}, signature : Signature \cup {None}]

Batch == [seal : Nat, stamp : StampOrNot, trace_level : Levels,
          level : Levels \cup {None}, signature : Signature \cup {None},
          heard : Nat, stored : Nat]

Held(n) == \E c \in Calls : call[c].pc # "idle" /\ call[c].seal = n
Stored(n) == \E i \in 1..Len(batches) : batches[i].seal = n
Mirrored(n) == \E m \in DOMAIN tee_files : tee_files[m] = n

(* Shapes, and: a call past the consent gate holds a consent timestamp,    *)
(* a call past signing a signature, an idle call nothing (client.rs).      *)
ClientTypeOK ==
  /\ StoreTypeOK
  /\ ConsentTypeOK
  /\ call \in [Calls -> Job]
  /\ tee_seq \in Nat
  /\ DOMAIN tee_files \subseteq Nat
  /\ \A m \in DOMAIN tee_files : tee_files[m] \in {Unwritten} \cup 1..Len(sealed)
  /\ batches \in Seq(Batch)
  /\ \A c \in Calls :
       /\ call[c].pc = "idle" <=> call[c].seal = 0
       /\ call[c].pc \in {"sign", "tee", "persist"} => call[c].stamp # NoStamp
       /\ call[c].pc \in {"tee", "persist"} => call[c].signature # None

(* However calls interleave, fail, are cancelled or restarted, no sealed   *)
(* trace is stored twice, no two calls carry the same one, and none is     *)
(* carried on after it was stored (client.rs:622-675).                     *)
AtMostOnce ==
  /\ ClientTypeOK
  /\ \A i, j \in 1..Len(batches) : i # j => batches[i].seal # batches[j].seal
  /\ \A c, d \in Calls : (c # d /\ call[c].pc # "idle" /\ call[d].pc # "idle")
                           => call[c].seal # call[d].seal
  /\ \A n \in 1..Len(sealed) : ~(Held(n) /\ Stored(n))

(* No batch is stored unless the gate was open at some moment between its  *)
(* seal and its storage, and its consent_timestamp is the one that moment  *)
(* gave: nothing is emitted on consent read for an earlier trace           *)
(* (client.rs:513-545).                                                    *)
ConsentAt(n) ==
  IF HasKey THEN ResolutionAt(n) ELSE ResolveConsent(Absent, config)

ConsentCovers ==
  \A i \in 1..Len(batches) :
    \E n \in batches[i].heard..batches[i].stored :
      Permits(ConsentAt(n)) /\ batches[i].stamp = ConsentAt(n).stamp

(* What the Engine verifies is what was signed: the level in the stored    *)
(* trace is the one the signature covers (client.rs:290-305).              *)
SignedAsStored ==
  \A i \in 1..Len(batches) :
    batches[i].signature = Canonical(batches[i]) /\ batches[i].level # None

(* The tee is a "forensic mirror" of each sealed batch (client.rs:389-396): *)
(* every stored batch is in the directory, but for those whose own write   *)
(* failed; no batch displaces another.                                     *)
MirrorIsComplete ==
  Cardinality({i \in 1..Len(batches) : ~Mirrored(batches[i].seal)})
    <= Cardinality({m \in DOMAIN tee_files : tee_files[m] = Unwritten})

(* The trace delivery of TraceDelivery.tla, implemented here.              *)
Delivery == INSTANCE TraceDelivery WITH
  Ids     <- 1..MaxDelivered,
  pending <- [t \in Thoughts |-> Components(t)],
  emitted <- [n \in 1..Len(sealed) |->
                [thought_id |-> sealed[n].thought_id,
                 items      |-> sealed[n].components]],
  outcome <- [n \in 1..Len(sealed) |->
                IF Stored(n) THEN "stored"
                ELSE IF Held(n) THEN "open" ELSE "dropped"]

(* Every step of the client is a step of the abstract delivery.            *)
ImplementsDelivery == Delivery!DeliverySpec

(* Under configured consent, when the engine does not fail, every sealed     *)
(* trace is stored in the end; a tee that fails does not stop it           *)
(* (client.rs:584-602).                                                    *)
SealedIsStored ==
  \A n \in 1..MaxDelivered :
    (config # NoStamp /\ Len(sealed) >= n) ~> Stored(n)
=============================================================================
