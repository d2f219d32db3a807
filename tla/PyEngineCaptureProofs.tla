----------------------- MODULE PyEngineCaptureProofs -----------------------
(***************************************************************************)
(* What holds of the cohabitation path of PyEngineCapture.tla for every    *)
(* set of Python threads, every host Engine that misbehaves in the ways    *)
(* EngineFaults lists, and every value of the other constants.             *)
(***************************************************************************)
EXTENDS PyEngineCapture, PartialTraceStoreProofs

LEMMA PyStoreStep ==
  ASSUME [PyNext]_pyVars
  PROVE  [StoreNext]_storeVars
<1>1. CASE UNCHANGED pyVars
  BY <1>1 DEF pyVars
<1>2. ASSUME NEW c \in Calls, Proceed(c)
      PROVE  UNCHANGED storeVars
  BY <1>2 DEF Proceed, LocalKeyId, LocalSign, LocalSignFails, ReceiveAndPersist
<1>3. ASSUME NEW c \in Calls, NEW ev \in Inbound, NEW ts \in Stamp,
             \/ PrepareInFlight(c, ev, ts)
             \/ PrepareBlocked(c, ev, ts)
             \/ PrepareSeal(c, ev, ts)
      PROVE  StoreNext
  BY <1>3 DEF PrepareInFlight, PrepareBlocked, PrepareSeal, StoreNext
<1>4. ASSUME NEW c \in Calls, NEW ev \in Inbound, PrepareRejected(c, ev)
      PROVE  StoreNext
  BY <1>4 DEF PrepareRejected, StoreNext
<1>5. CASE Sweep \/ Exit
  BY <1>5 DEF Sweep, Exit, StoreNext
<1>. QED
  BY <1>1, <1>2, <1>3, <1>4, <1>5 DEF PyNext

(* Whatever is proved of the store alone holds of it behind the binding    *)
(* (py_engine.rs:187-264).                                                 *)
LEMMA PyIsAStore == PySpec => StoreSpec
<1>1. PyInit => StoreInit
  BY DEF PyInit
<1>2. [PyNext]_pyVars => [StoreNext]_storeVars
  BY PyStoreStep
<1>. QED
  BY <1>1, <1>2, PTL DEF PySpec, StoreSpec

----------------------------------------------------------------------------
(* The inductive invariant.  A thread past prepare has a trace of its own, *)
(* not yet answered for; what left the process carries the 64 bytes that   *)
(* the host answered for it as it stands, and is not of a trace that       *)
(* consent blocked; a trace is with one thread or stored once; and what    *)
(* the tee has of a trace is what its thread is about to store, or has.    *)

Mark == [seal : Nat, level : Levels \cup {None}]

(* 64 bytes from the host: the signature, or others if it answers wrongly. *)
SignedAnswer ==
  [asked : Mark, kind : {"signed"} \cup ({"wrong"} \cap EngineFaults)]

Job == [pc : {"idle", "key_id", "sign", "persist"}, seal : Nat,
        level : Levels \cup {None}, signature : SignedAnswer \cup {None}]

SignedBatch == [trace : Mark, signature : SignedAnswer]

JobInv(j) ==
  /\ j \in Job
  /\ j.pc # "idle" => /\ j.seal \in 1..Len(sealed)
                      /\ told[j.seal] = None
                      /\ j.level # None
  /\ j.pc = "persist" => /\ j.signature \in SignedAnswer
                         /\ j.signature.asked = Content(j)

BatchInv(b) ==
  /\ b \in SignedBatch
  /\ b.signature.asked = b.trace
  /\ b.trace.level # None
  /\ b.trace.seal \in 1..Len(sealed)
  /\ told[b.trace.seal] # "consent_blocked"

Exclusive ==
  /\ \A c, d \in Calls :
       (c # d /\ call[c].pc # "idle" /\ call[d].pc # "idle")
         => call[c].seal # call[d].seal
  /\ \A c \in Calls, i \in 1..Len(persisted) :
       call[c].pc # "idle" => call[c].seal # persisted[i].trace.seal
  /\ \A i, j \in 1..Len(persisted) :
       i # j => persisted[i].trace.seal # persisted[j].trace.seal

Agree ==
  /\ \A b \in mirrored, c \in Calls :
       call[c].pc # "idle" /\ call[c].seal = b.trace.seal
         => call[c].pc = "persist" /\ b = Batch(call[c])
  /\ \A b \in mirrored, i \in 1..Len(persisted) :
       b.trace.seal = persisted[i].trace.seal => b = persisted[i]
  /\ \A b, d \in mirrored : b.trace.seal = d.trace.seal => b = d

ToldInv ==
  /\ told \in Seq({None, "consent_blocked", "sealed_and_persisted", "error"})
  /\ Len(told) = Len(sealed)
  /\ \A n \in 1..Len(told) : told[n] = "sealed_and_persisted" => Stored(n)

PyInv ==
  /\ StoreTypeOK
  /\ call \in [Calls -> Job]
  /\ \A c \in Calls : JobInv(call[c])
  /\ ToldInv
  /\ persisted \in Seq(SignedBatch)
  /\ \A i \in 1..Len(persisted) : BatchInv(persisted[i])
  /\ \A b \in mirrored : BatchInv(b)
  /\ Exclusive
  /\ Agree

----------------------------------------------------------------------------
(* The shapes a step can have.                                             *)

Rests == UNCHANGED <<call, told, sealed, mirrored, persisted>>

Blocks ==
  /\ Len(sealed') = Len(sealed) + 1
  /\ told' = Append(told, "consent_blocked")
  /\ UNCHANGED <<call, mirrored, persisted>>

Takes(c) ==
  /\ call[c].pc = "idle"
  /\ \E j : /\ call' = [call EXCEPT ![c] = j]
            /\ j.pc # "idle" /\ j.seal = Len(sealed) + 1
  /\ Len(sealed') = Len(sealed) + 1
  /\ told' = Append(told, None)
  /\ UNCHANGED <<mirrored, persisted>>

Moves(c) ==
  /\ call[c].pc # "idle" /\ call[c].pc # "persist"
  /\ \E j : /\ call' = [call EXCEPT ![c] = j]
            /\ j.pc # "idle" /\ j.seal = call[c].seal
            /\ \/ UNCHANGED mirrored
               \/ j.pc = "persist" /\ mirrored' = mirrored \cup {Batch(j)}
  /\ \A b \in mirrored' : b \in mirrored \/ BatchInv(b)
  /\ UNCHANGED <<storeVars, told, persisted>>

Returns(c) ==
  /\ call[c].pc # "idle"
  /\ Return(c, "error")
  /\ UNCHANGED <<storeVars, mirrored, persisted>>

Stores(c) ==
  /\ call[c].pc = "persist"
  /\ \E answer \in {"sealed_and_persisted", "error"} : Return(c, answer)
  /\ persisted' = Append(persisted, Batch(call[c]))
  /\ UNCHANGED <<storeVars, mirrored>>

Exits ==
  /\ call' = [c \in Calls |-> Idle]
  /\ UNCHANGED <<told, sealed, mirrored, persisted>>

LEMMA IdleIsFine == Idle \in Job /\ Idle.pc = "idle"
  BY DEF Idle, Job

LEMMA KeyIdShape ==
  ASSUME PyInv, NEW c \in Calls, LocalKeyId(c)
  PROVE  (Moves(c) /\ JobInv(call[c])') \/ Returns(c)
<1>1. PICK j \in Job : j = call[c] /\ JobInv(j)
  BY DEF PyInv
<1>2. CASE Return(c, "error")
  BY <1>2 DEF LocalKeyId, Returns
<1>3. CASE call' = [call EXCEPT ![c].pc = "sign"] /\ UNCHANGED told
  <2>1. PICK k : k = [j EXCEPT !.pc = "sign"]
    OBVIOUS
  <2>2. /\ k \in Job /\ k.pc = "sign" /\ k.seal = j.seal /\ k.level = j.level
        /\ j.pc = "key_id"
    BY <1>1, <2>1 DEF LocalKeyId, Job
  <2>3. call' = [call EXCEPT ![c] = k] /\ call'[c] = k /\ UNCHANGED <<sealed, told>>
    BY <1>1, <1>3, <2>1 DEF LocalKeyId, PyInv, storeVars
  <2>4. JobInv(k)'
    BY <1>1, <2>2, <2>3 DEF JobInv
  <2>5. Moves(c)
    BY <1>1, <1>3, <2>2, <2>3 DEF Moves, LocalKeyId
  <2>. QED
    BY <2>3, <2>4, <2>5
<1>. QED
  BY <1>2, <1>3 DEF LocalKeyId

(* Only 64 bytes are taken for a signature, and they are the host's answer *)
(* to the trace as it stands.                                              *)
LEMMA SignShape ==
  ASSUME PyInv, NEW c \in Calls, LocalSign(c)
  PROVE  Moves(c) /\ JobInv(call[c])'
<1>1. PICK j \in Job : j = call[c] /\ JobInv(j)
  BY DEF PyInv
<1>2. PICK sig, k :
        /\ sig \in Signatures(j)
        /\ k = [j EXCEPT !.pc = "persist", !.signature = sig]
        /\ WellFormed(sig)
        /\ call' = [call EXCEPT ![c] = k]
        /\ mirrored' \in {mirrored, mirrored \cup {Batch(k)}}
  BY <1>1 DEF LocalSign, Signed
<1>3. sig \in SignedAnswer /\ sig.asked = Content(j) /\ Content(j) \in Mark
  <2>1. Content(j) \in Mark
    BY DEF Content, Mark, Job
  <2>. QED
    BY <1>2, <2>1 DEF Signatures, WellFormed, SignedAnswer
<1>4. /\ k \in Job /\ k.pc = "persist" /\ k.seal = j.seal /\ k.level = j.level
      /\ k.signature = sig /\ Content(k) = Content(j) /\ j.pc = "sign"
  BY <1>1, <1>2, <1>3 DEF LocalSign, Job, Content
<1>5. call'[c] = k /\ UNCHANGED <<storeVars, sealed, told, persisted>>
  BY <1>2 DEF LocalSign, PyInv, storeVars
<1>6. JobInv(k)'
  BY <1>1, <1>3, <1>4, <1>5 DEF JobInv, Content
<1>7. BatchInv(Batch(k))
  <2>1. /\ Batch(k) \in SignedBatch /\ Batch(k).signature.asked = Batch(k).trace
        /\ Batch(k).trace.level = j.level /\ Batch(k).trace.seal = j.seal
    BY <1>3, <1>4 DEF Batch, SignedBatch, Content
  <2>2. j.level # None /\ j.seal \in 1..Len(sealed) /\ told[j.seal] = None
    BY <1>1, <1>4 DEF JobInv
  <2>. QED
    BY <2>1, <2>2, PyEngineAssumption DEF BatchInv
<1>8. Moves(c)
  BY <1>1, <1>2, <1>4, <1>5, <1>7 DEF Moves
<1>. QED
  BY <1>5, <1>6, <1>8

LEMMA PrepareShape ==
  ASSUME PyInv, NEW c \in Calls, NEW ev \in Inbound, NEW ts \in Stamp,
         PrepareSeal(c, ev, ts)
  PROVE  Takes(c) /\ JobInv(call[c])'
<1>. DEFINE lv == FirstKnown(Assembled(ev, ts).trace_level, ProcessLevel)
<1>1. PICK k : k = [pc |-> "key_id", seal |-> Len(sealed) + 1, signature |-> None,
                    level |-> lv]
  OBVIOUS
<1>2. /\ call' = [call EXCEPT ![c] = k] /\ call'[c] = k
      /\ call[c].pc = "idle" /\ CaptureSeal(ev, ts)
      /\ told' = Append(told, None) /\ UNCHANGED <<mirrored, persisted>>
  BY <1>1 DEF PrepareSeal, PyInv
<1>3. StoreTypeOK /\ ts \in Stamps /\ Known(ev) /\ Len(sealed) \in Nat
  BY <1>2, StampsType DEF PyInv, CaptureSeal, Accept, StoreTypeOK
<1>4. lv \in Levels /\ lv # None
  BY <1>3, AssembledTrace, PyEngineAssumption, StoreAssumption
  DEF CompleteTrace, FirstKnown
<1>5. Len(sealed') = Len(sealed) + 1
  BY <1>2, <1>3, SealEffect
<1>. HIDE DEF lv
<1>6. /\ k \in Job /\ k.pc = "key_id" /\ k.seal = Len(sealed') /\ k.level # None
  BY <1>1, <1>3, <1>4, <1>5 DEF Job
<1>7. told'[k.seal] = None
  BY <1>2, <1>3, <1>5, <1>6 DEF PyInv, ToldInv
<1>8. JobInv(k)'
  BY <1>3, <1>5, <1>6, <1>7 DEF JobInv
<1>9. Takes(c)
  BY <1>2, <1>5, <1>6 DEF Takes
<1>. QED
  BY <1>2, <1>8, <1>9

LEMMA ProceedShape ==
  ASSUME PyInv, NEW c \in Calls, Proceed(c)
  PROVE  (Moves(c) /\ JobInv(call[c])') \/ Returns(c) \/ Stores(c)
<1>1. CASE LocalSignFails(c)
  BY <1>1 DEF LocalSignFails, Returns
<1>2. CASE ReceiveAndPersist(c)
  <2>1. Answer("persist") = "error"
    BY DEF Answer
  <2>2. \A s : Answer(s) \in {"sealed_and_persisted", "error"}
    BY DEF Answer
  <2>. QED
    BY <1>2, <2>1, <2>2 DEF ReceiveAndPersist, Returns, Stores
<1>. QED
  BY <1>1, <1>2, KeyIdShape, SignShape DEF Proceed

LEMMA PyShape ==
  ASSUME PyInv, [PyNext]_pyVars
  PROVE  \/ Rests
         \/ Blocks
         \/ \E c \in Calls : (Takes(c) \/ Moves(c)) /\ JobInv(call[c])'
         \/ \E c \in Calls : Returns(c) \/ Stores(c)
         \/ Exits
<1>1. CASE UNCHANGED pyVars
  BY <1>1 DEF pyVars, storeVars, Rests
<1>2. ASSUME NEW c \in Calls, Proceed(c)
      PROVE  (Moves(c) /\ JobInv(call[c])') \/ Returns(c) \/ Stores(c)
  BY <1>2, ProceedShape
<1>3. ASSUME NEW c \in Calls, NEW ev \in Inbound, NEW ts \in Stamp,
             PrepareSeal(c, ev, ts)
      PROVE  Takes(c) /\ JobInv(call[c])'
  BY <1>3, PrepareShape
<1>4. ASSUME NEW c \in Calls, NEW ev \in Inbound, NEW ts \in Stamp,
             PrepareInFlight(c, ev, ts)
      PROVE  Rests
  BY <1>4 DEF PrepareInFlight, CaptureOpen, Rests
<1>5. ASSUME NEW c \in Calls, NEW ev \in Inbound, NEW ts \in Stamp,
             PrepareBlocked(c, ev, ts)
      PROVE  Blocks
  <2>1. StoreTypeOK /\ ts \in Stamps
    BY StampsType DEF PyInv
  <2>. QED
    BY <1>5, <2>1, SealEffect DEF PrepareBlocked, Blocks
<1>6. ASSUME NEW c \in Calls, NEW ev \in Inbound, PrepareRejected(c, ev)
      PROVE  Rests
  BY <1>6 DEF PrepareRejected, CaptureUnknown, storeVars, Rests
<1>7. CASE Sweep
  BY <1>7 DEF Sweep, OrphanSweep, Tick, Rests
<1>8. CASE Exit
  BY <1>8 DEF Exit, Restart, Exits
<1>. QED
  BY <1>1, <1>2, <1>3, <1>4, <1>5, <1>6, <1>7, <1>8 DEF PyNext

----------------------------------------------------------------------------
(* Every shape keeps the invariant.                                        *)

LEMMA JobRests ==
  ASSUME NEW j, JobInv(j), Len(sealed) \in Nat, Len(sealed') \in Nat,
         Len(sealed) <= Len(sealed'),
         j.pc # "idle" => told'[j.seal] = told[j.seal]
  PROVE  JobInv(j)'
  BY DEF JobInv

LEMMA BatchRests ==
  ASSUME NEW b, BatchInv(b), Len(sealed) \in Nat, Len(sealed') \in Nat,
         Len(sealed) <= Len(sealed'),
         told'[b.trace.seal] # "consent_blocked"
  PROVE  BatchInv(b)'
  BY DEF BatchInv

(* The trace of a thread is answered for by that thread only.              *)
LEMMA JobsNext ==
  ASSUME PyInv, [PyNext]_pyVars
  PROVE  call' \in [Calls -> Job] /\ \A c \in Calls : JobInv(call[c])'
<1>0. /\ call \in [Calls -> Job] /\ \A c \in Calls : JobInv(call[c])
      /\ StoreTypeOK /\ ToldInv /\ Exclusive
  BY DEF PyInv
<1>s. Len(sealed) \in Nat /\ Len(sealed') \in Nat /\ Len(sealed) <= Len(sealed')
  BY <1>0, PyStoreStep, SealedGrows
<1>1. ASSUME NEW c \in Calls, call'[c] = call[c],
             call[c].pc # "idle" => told'[call[c].seal] = told[call[c].seal]
      PROVE  JobInv(call[c])'
  <2>1. PICK j : j = call[c]
    OBVIOUS
  <2>2. JobInv(j)'
    BY <1>0, <1>s, <1>1, <2>1, JobRests
  <2>. QED
    BY <1>1, <2>1, <2>2
<1>2. ASSUME NEW c \in Calls, call'[c] = Idle
      PROVE  JobInv(call[c])'
  <2>1. JobInv(Idle)'
    BY IdleIsFine DEF JobInv, Idle
  <2>. QED
    BY <1>2, <2>1
<1>3. ASSUME NEW x, told' = Append(told, x)
      PROVE  \A n \in 1..Len(sealed) : told'[n] = told[n]
  BY <1>0, <1>s, <1>3 DEF ToldInv
<1>4. \A c \in Calls : call[c].pc # "idle" => call[c].seal \in 1..Len(sealed)
  BY <1>0 DEF JobInv
<1>5. CASE Rests
  BY <1>0, <1>1, <1>5 DEF Rests
<1>6. CASE Blocks
  BY <1>0, <1>1, <1>3, <1>4, <1>6 DEF Blocks
<1>7. ASSUME NEW c \in Calls, Takes(c) \/ Moves(c), JobInv(call[c])'
      PROVE  call' \in [Calls -> Job] /\ \A d \in Calls : JobInv(call[d])'
  <2>1. PICK j : call' = [call EXCEPT ![c] = j]
    BY <1>7 DEF Takes, Moves
  <2>2. j \in Job
    BY <1>0, <1>7, <2>1 DEF JobInv
  <2>3. \A d \in Calls \ {c} : call'[d] = call[d]
    BY <1>0, <2>1
  <2>4. \A n \in 1..Len(sealed) : told'[n] = told[n]
    BY <1>3, <1>7 DEF Takes, Moves
  <2>5. \A d \in Calls \ {c} : JobInv(call[d])'
    BY <1>1, <1>4, <2>3, <2>4
  <2>. QED
    BY <1>0, <1>7, <2>1, <2>2, <2>5
<1>8. ASSUME NEW c \in Calls, Returns(c) \/ Stores(c)
      PROVE  call' \in [Calls -> Job] /\ \A d \in Calls : JobInv(call[d])'
  <2>1. PICK answer : Return(c, answer) /\ call[c].pc # "idle"
    BY <1>8 DEF Returns, Stores
  <2>2. /\ call'[c] = Idle /\ call' \in [Calls -> Job]
        /\ \A d \in Calls \ {c} : call'[d] = call[d]
    BY <1>0, <2>1, IdleIsFine DEF Return
  <2>3. \A d \in Calls \ {c} :
          call[d].pc # "idle" => told'[call[d].seal] = told[call[d].seal]
    BY <1>0, <1>4, <2>1 DEF Return, ToldInv, Exclusive
  <2>4. \A d \in Calls \ {c} : JobInv(call[d])'
    BY <1>1, <2>2, <2>3
  <2>. QED
    BY <1>2, <2>2, <2>4
<1>9. CASE Exits
  BY <1>2, <1>9, IdleIsFine DEF Exits
<1>. QED
  BY <1>5, <1>6, <1>7, <1>8, <1>9, PyShape

(* An answer once given is not turned into a refusal for lack of consent.  *)
LEMMA ToldNext ==
  ASSUME PyInv, [PyNext]_pyVars
  PROVE  /\ ToldInv'
         /\ \A n \in 1..Len(sealed) :
              told'[n] = "consent_blocked" => told[n] = "consent_blocked"
<1>. DEFINE Answers == {None, "consent_blocked", "sealed_and_persisted", "error"}
<1>0. /\ told \in Seq(Answers) /\ Len(told) = Len(sealed) /\ Len(sealed) \in Nat
      /\ \A n \in 1..Len(told) : told[n] = "sealed_and_persisted" => Stored(n)
      /\ persisted \in Seq(SignedBatch) /\ Len(persisted) \in Nat
      /\ \A c \in Calls : call[c].pc # "idle" => call[c].seal \in 1..Len(sealed)
  BY DEF PyInv, ToldInv, JobInv, StoreTypeOK
<1>1. ASSUME UNCHANGED persisted
      PROVE  \A n : Stored(n)' <=> Stored(n)
  BY <1>1 DEF Stored
<1>2. CASE Rests \/ Exits \/ \E c \in Calls : Moves(c)
  <2>1. UNCHANGED <<told, sealed, persisted>>
    BY <1>2 DEF Rests, Exits, Moves, storeVars
  <2>. QED
    BY <1>0, <1>1, <2>1 DEF ToldInv
<1>3. CASE Blocks \/ \E c \in Calls : Takes(c)
  <2>1. PICK x \in {None, "consent_blocked"} :
          /\ told' = Append(told, x)
          /\ Len(sealed') = Len(sealed) + 1
          /\ UNCHANGED persisted
    BY <1>3 DEF Blocks, Takes
  <2>2. /\ told' \in Seq(Answers) /\ Len(told') = Len(sealed')
        /\ \A n \in 1..Len(sealed) : told'[n] = told[n]
        /\ told'[Len(sealed) + 1] = x
    BY <1>0, <2>1
  <2>3. x # "sealed_and_persisted"
    BY <2>1, PyEngineAssumption
  <2>4. \A n \in 1..Len(told') : told'[n] = "sealed_and_persisted" => Stored(n)'
    BY <1>0, <1>1, <2>1, <2>2, <2>3
  <2>. QED
    BY <2>2, <2>4 DEF ToldInv
<1>4. ASSUME NEW c \in Calls, Returns(c) \/ Stores(c)
      PROVE  /\ ToldInv'
             /\ \A n \in 1..Len(sealed) :
                  told'[n] = "consent_blocked" => told[n] = "consent_blocked"
  <2>1. PICK answer \in {"sealed_and_persisted", "error"} :
          /\ Return(c, answer) /\ call[c].pc # "idle"
          /\ answer = "sealed_and_persisted" => Stores(c)
    BY <1>4 DEF Returns, Stores
  <2>2. PICK s : s = call[c].seal
    OBVIOUS
  <2>3. /\ s \in 1..Len(sealed) /\ told' = [told EXCEPT ![s] = answer]
        /\ UNCHANGED sealed
    BY <1>0, <1>4, <2>1, <2>2 DEF Return, Returns, Stores, storeVars
  <2>4. /\ told' \in Seq(Answers) /\ Len(told') = Len(told) /\ told'[s] = answer
        /\ \A n \in 1..Len(sealed) : n # s => told'[n] = told[n]
    BY <1>0, <2>1, <2>3
  <2>5. \A n : Stored(n) => Stored(n)'
    <3>1. UNCHANGED persisted \/ persisted' = Append(persisted, Batch(call[c]))
      BY <1>4 DEF Returns, Stores
    <3>2. PICK b : b = Batch(call[c])
      OBVIOUS
    <3>3. \A i \in 1..Len(persisted) :
            persisted'[i] = persisted[i] /\ i \in 1..Len(persisted')
      BY <1>0, <3>1, <3>2
    <3>. QED
      BY <3>3 DEF Stored
  <2>6. Stores(c) => Stored(s)'
    BY <1>0, <2>2 DEF Stores, Stored, Batch, Content
  <2>7. \A n \in 1..Len(told') : told'[n] = "sealed_and_persisted" => Stored(n)'
    BY <1>0, <2>1, <2>4, <2>5, <2>6
  <2>. QED
    BY <1>0, <2>1, <2>3, <2>4, <2>7 DEF ToldInv
<1>. QED
  BY <1>2, <1>3, <1>4, PyShape

(* What is stored carries the signature of its job.                        *)
LEMMA StoredIsFine ==
  ASSUME PyInv, NEW c \in Calls, Stores(c)
  PROVE  BatchInv(Batch(call[c])) /\ Batch(call[c]).trace.seal = call[c].seal
<1>1. PICK j \in Job : j = call[c] /\ JobInv(j) /\ j.pc = "persist"
  BY DEF PyInv, Stores
<1>2. /\ j.seal \in 1..Len(sealed) /\ told[j.seal] = None /\ j.level # None
      /\ j.signature \in SignedAnswer /\ j.signature.asked = Content(j)
      /\ Len(sealed) \in Nat
  BY <1>1 DEF JobInv, PyInv, StoreTypeOK
<1>3. Content(j) \in Mark /\ Content(j).seal = j.seal /\ Content(j).level = j.level
  BY <1>1 DEF Content, Mark, Job
<1>4. PICK b : b = Batch(j)
  OBVIOUS
<1>5. b \in SignedBatch /\ b.trace = Content(j) /\ b.signature.asked = Content(j)
  BY <1>2, <1>3, <1>4 DEF Batch, SignedBatch
<1>6. BatchInv(b) /\ b.trace.seal = j.seal
  BY <1>2, <1>3, <1>5, PyEngineAssumption DEF BatchInv
<1>. QED
  BY <1>1, <1>4, <1>6

LEMMA BatchesNext ==
  ASSUME PyInv, [PyNext]_pyVars
  PROVE  /\ persisted' \in Seq(SignedBatch)
         /\ \A i \in 1..Len(persisted') : BatchInv(persisted[i])'
         /\ \A b \in mirrored' : BatchInv(b)'
<1>0. /\ persisted \in Seq(SignedBatch) /\ Len(persisted) \in Nat
      /\ Len(sealed) \in Nat /\ Len(sealed') \in Nat /\ Len(sealed) <= Len(sealed')
  BY PyStoreStep, SealedGrows DEF PyInv
<1>1. ASSUME NEW b, BatchInv(b)
      PROVE  BatchInv(b)'
  BY <1>0, <1>1, ToldNext, BatchRests DEF BatchInv
<1>2. \A b \in mirrored' : BatchInv(b)
  BY PyShape DEF PyInv, Rests, Blocks, Takes, Moves, Returns, Stores, Exits
<1>3. \A b \in mirrored' : BatchInv(b)'
  BY <1>1, <1>2
<1>4. ASSUME NEW i \in 1..Len(persisted), persisted'[i] = persisted[i]
      PROVE  BatchInv(persisted[i])'
  <2>1. PICK b : b = persisted[i] /\ BatchInv(b)
    BY DEF PyInv
  <2>2. BatchInv(b)'
    BY <1>1, <2>1
  <2>. QED
    BY <1>4, <2>1, <2>2
<1>5. CASE UNCHANGED persisted
  BY <1>0, <1>3, <1>4, <1>5
<1>6. ASSUME NEW c \in Calls, Stores(c)
      PROVE  /\ persisted' \in Seq(SignedBatch)
             /\ \A i \in 1..Len(persisted') : BatchInv(persisted[i])'
  <2>1. PICK b : b = Batch(call[c])
    OBVIOUS
  <2>2. BatchInv(b) /\ b \in SignedBatch
    BY <1>6, <2>1, StoredIsFine DEF BatchInv
  <2>3. /\ persisted' = Append(persisted, b) /\ persisted' \in Seq(SignedBatch)
        /\ Len(persisted') = Len(persisted) + 1
        /\ persisted'[Len(persisted) + 1] = b
        /\ \A i \in 1..Len(persisted) : persisted'[i] = persisted[i]
    BY <1>0, <1>6, <2>1, <2>2 DEF Stores
  <2>4. BatchInv(b)'
    BY <1>1, <2>2
  <2>5. PICK n : n = Len(persisted) + 1
    OBVIOUS
  <2>6. BatchInv(persisted[n])'
    BY <2>3, <2>4, <2>5
  <2>7. ASSUME NEW i \in 1..Len(persisted'), i # n
        PROVE  BatchInv(persisted[i])'
    BY <1>0, <1>4, <2>3, <2>5, <2>7
  <2>. QED
    BY <2>3, <2>6, <2>7
<1>7. UNCHANGED persisted \/ \E c \in Calls : Stores(c)
  BY PyShape DEF Rests, Blocks, Takes, Moves, Returns, Exits
<1>. QED
  BY <1>3, <1>5, <1>6, <1>7

LEMMA ExclusiveNext ==
  ASSUME PyInv, [PyNext]_pyVars
  PROVE  Exclusive'
<1>0. /\ Exclusive /\ call \in [Calls -> Job] /\ Len(persisted) \in Nat
      /\ persisted \in Seq(SignedBatch) /\ Len(sealed) \in Nat
      /\ \A c \in Calls : call[c].pc # "idle" => call[c].seal \in 1..Len(sealed)
      /\ \A i \in 1..Len(persisted) : persisted[i].trace.seal \in 1..Len(sealed)
  BY DEF PyInv, JobInv, BatchInv, StoreTypeOK
<1>1. CASE Rests \/ Blocks
  BY <1>0, <1>1 DEF Exclusive, Rests, Blocks
<1>2. ASSUME NEW c \in Calls, Takes(c)
      PROVE  Exclusive'
  <2>1. PICK j : /\ call' = [call EXCEPT ![c] = j]
                 /\ j.pc # "idle" /\ j.seal = Len(sealed) + 1
    BY <1>2 DEF Takes
  <2>2. /\ call'[c] = j /\ persisted' = persisted
        /\ \A d \in Calls \ {c} : call'[d] = call[d]
    BY <1>0, <1>2, <2>1 DEF Takes
  <2>3. /\ \A d \in Calls : call[d].pc # "idle" => call[d].seal # j.seal
        /\ \A i \in 1..Len(persisted) : persisted[i].trace.seal # j.seal
    BY <1>0, <2>1
  <2>. QED
    BY <1>0, <2>1, <2>2, <2>3 DEF Exclusive
<1>3. ASSUME NEW c \in Calls, Moves(c)
      PROVE  Exclusive'
  <2>1. PICK j : /\ call' = [call EXCEPT ![c] = j]
                 /\ j.pc # "idle" /\ j.seal = call[c].seal
    BY <1>3 DEF Moves
  <2>2. /\ call'[c] = j /\ persisted' = persisted /\ call[c].pc # "idle"
        /\ \A d \in Calls \ {c} : call'[d] = call[d]
    BY <1>0, <1>3, <2>1 DEF Moves
  <2>. QED
    BY <1>0, <2>1, <2>2 DEF Exclusive
<1>4. ASSUME NEW c \in Calls, Returns(c)
      PROVE  Exclusive'
  <2>1. /\ call'[c].pc = "idle" /\ persisted' = persisted
        /\ \A d \in Calls \ {c} : call'[d] = call[d]
    BY <1>0, <1>4, IdleIsFine DEF Returns, Return
  <2>. QED
    BY <1>0, <2>1 DEF Exclusive
<1>5. ASSUME NEW c \in Calls, Stores(c)
      PROVE  Exclusive'
  <2>1. /\ call'[c].pc = "idle" /\ call[c].pc # "idle"
        /\ \A d \in Calls \ {c} : call'[d] = call[d]
    BY <1>0, <1>5, IdleIsFine DEF Stores, Return
  <2>2. PICK b : b = Batch(call[c])
    OBVIOUS
  <2>3. b \in SignedBatch /\ b.trace.seal = call[c].seal
    BY <1>5, <2>2, StoredIsFine DEF BatchInv
  <2>4. /\ Len(persisted') = Len(persisted) + 1 /\ persisted'[Len(persisted) + 1] = b
        /\ \A i \in 1..Len(persisted) : persisted'[i] = persisted[i]
    BY <1>0, <1>5, <2>2, <2>3 DEF Stores
  <2>5. 1..Len(persisted') = (1..Len(persisted)) \cup {Len(persisted) + 1}
    BY <1>0, <2>4
  <2>6. \A i \in 1..Len(persisted) : persisted[i].trace.seal # b.trace.seal
    BY <1>0, <2>1, <2>3 DEF Exclusive
  <2>7. \A d \in Calls \ {c} : call[d].pc # "idle" => call[d].seal # b.trace.seal
    BY <1>0, <2>1, <2>3 DEF Exclusive
  <2>8. \A i, j \in 1..Len(persisted') :
          i # j => persisted'[i].trace.seal # persisted'[j].trace.seal
    BY <1>0, <2>4, <2>5, <2>6 DEF Exclusive
  <2>9. \A d \in Calls, i \in 1..Len(persisted') :
          call'[d].pc # "idle" => call'[d].seal # persisted'[i].trace.seal
    BY <1>0, <2>1, <2>4, <2>5, <2>7 DEF Exclusive
  <2>10. \A d, e \in Calls : (d # e /\ call'[d].pc # "idle" /\ call'[e].pc # "idle")
                               => call'[d].seal # call'[e].seal
    BY <1>0, <2>1 DEF Exclusive
  <2>. QED
    BY <2>8, <2>9, <2>10 DEF Exclusive
<1>6. CASE Exits
  <2>1. persisted' = persisted /\ \A c \in Calls : call'[c].pc = "idle"
    BY <1>6, IdleIsFine DEF Exits
  <2>. QED
    BY <1>0, <2>1 DEF Exclusive
<1>. QED
  BY <1>1, <1>2, <1>3, <1>4, <1>5, <1>6, PyShape

(* The tee and the Engine are handed the same batch of a trace.            *)
LEMMA AgreeNext ==
  ASSUME PyInv, [PyNext]_pyVars
  PROVE  Agree'
<1>0. /\ Exclusive /\ Agree /\ call \in [Calls -> Job] /\ Len(persisted) \in Nat
      /\ persisted \in Seq(SignedBatch) /\ Len(sealed) \in Nat
      /\ \A b \in mirrored : b.trace.seal \in 1..Len(sealed)
  BY DEF PyInv, BatchInv, StoreTypeOK
<1>1. CASE Rests \/ Blocks
  BY <1>0, <1>1 DEF Agree, Rests, Blocks
<1>2. ASSUME NEW c \in Calls, Takes(c)
      PROVE  Agree'
  <2>1. PICK j : /\ call' = [call EXCEPT ![c] = j]
                 /\ j.pc # "idle" /\ j.seal = Len(sealed) + 1
    BY <1>2 DEF Takes
  <2>2. /\ call'[c] = j /\ UNCHANGED <<mirrored, persisted>>
        /\ \A d \in Calls \ {c} : call'[d] = call[d]
    BY <1>0, <1>2, <2>1 DEF Takes
  <2>3. \A b \in mirrored : b.trace.seal # j.seal
    BY <1>0, <2>1
  <2>. QED
    BY <1>0, <2>2, <2>3 DEF Agree, Batch, Content
<1>3. ASSUME NEW c \in Calls, Moves(c)
      PROVE  Agree'
  <2>1. PICK j : /\ call' = [call EXCEPT ![c] = j]
                 /\ j.pc # "idle" /\ j.seal = call[c].seal
                 /\ \/ UNCHANGED mirrored
                    \/ j.pc = "persist" /\ mirrored' = mirrored \cup {Batch(j)}
    BY <1>3 DEF Moves
  <2>2. /\ call'[c] = j /\ UNCHANGED persisted
        /\ call[c].pc # "idle" /\ call[c].pc # "persist"
        /\ \A d \in Calls \ {c} : call'[d] = call[d]
    BY <1>0, <1>3, <2>1 DEF Moves
  <2>3. \A b \in mirrored : b.trace.seal # j.seal
    BY <1>0, <2>1, <2>2 DEF Agree
  <2>4. PICK new : new = Batch(j) /\ new.trace.seal = j.seal
    <3>1. Batch(j).trace.seal = j.seal
      BY DEF Batch, Content
    <3>. QED
      BY <3>1
  <2>5. /\ \A i \in 1..Len(persisted) : new.trace.seal # persisted[i].trace.seal
        /\ \A d \in Calls \ {c} : call[d].pc # "idle" => call[d].seal # new.trace.seal
    BY <1>0, <2>1, <2>2, <2>4 DEF Exclusive
  <2>6. \A b \in mirrored' : b \in mirrored \/ (b = new /\ j.pc = "persist")
    BY <2>1, <2>4
  <2>7. ASSUME NEW b \in mirrored', NEW d \in Calls,
               call'[d].pc # "idle", call'[d].seal = b.trace.seal
        PROVE  call'[d].pc = "persist" /\ b = Batch(call'[d])
    BY <1>0, <2>2, <2>3, <2>4, <2>5, <2>6, <2>7 DEF Agree
  <2>8. \A b \in mirrored', i \in 1..Len(persisted) :
          b.trace.seal = persisted[i].trace.seal => b = persisted[i]
    BY <1>0, <2>5, <2>6 DEF Agree
  <2>9. \A b, d \in mirrored' : b.trace.seal = d.trace.seal => b = d
    BY <1>0, <2>3, <2>4, <2>6 DEF Agree
  <2>10. \A b : Batch(b)' = Batch(b)
    BY DEF Batch, Content
  <2>. QED
    BY <2>2, <2>7, <2>8, <2>9, <2>10 DEF Agree, Batch, Content
<1>4. ASSUME NEW c \in Calls, Returns(c) \/ Stores(c)
      PROVE  Agree'
  <2>1. /\ call'[c].pc = "idle" /\ call[c].pc # "idle" /\ UNCHANGED mirrored
        /\ \A d \in Calls \ {c} : call'[d] = call[d]
    BY <1>0, <1>4, IdleIsFine DEF Returns, Stores, Return
  <2>2. PICK b : b = Batch(call[c])
    OBVIOUS
  <2>3. ASSUME NEW e \in mirrored, NEW i \in 1..Len(persisted'),
               e.trace.seal = persisted'[i].trace.seal
        PROVE  e = persisted'[i]
    <3>1. CASE UNCHANGED persisted
      BY <1>0, <2>3, <3>1 DEF Agree
    <3>2. CASE Stores(c)
      <4>1. b \in SignedBatch /\ b.trace.seal = call[c].seal
        BY <2>2, <3>2, StoredIsFine DEF BatchInv
      <4>2. /\ Len(persisted') = Len(persisted) + 1
            /\ persisted'[Len(persisted) + 1] = b
            /\ \A k \in 1..Len(persisted) : persisted'[k] = persisted[k]
        BY <1>0, <2>2, <3>2, <4>1 DEF Stores
      <4>3. CASE i \in 1..Len(persisted)
        BY <1>0, <2>3, <4>2, <4>3 DEF Agree
      <4>4. CASE i = Len(persisted) + 1
        BY <1>0, <2>1, <2>2, <2>3, <4>1, <4>2, <4>4 DEF Agree
      <4>. QED
        BY <1>0, <2>3, <4>2, <4>3, <4>4
    <3>. QED
      BY <1>4, <3>1, <3>2 DEF Returns
  <2>. QED
    BY <1>0, <2>1, <2>3 DEF Agree, Batch, Content
<1>5. CASE Exits
  <2>1. UNCHANGED <<mirrored, persisted>> /\ \A c \in Calls : call'[c].pc = "idle"
    BY <1>5, IdleIsFine DEF Exits
  <2>. QED
    BY <1>0, <2>1 DEF Agree
<1>. QED
  BY <1>1, <1>2, <1>3, <1>4, <1>5, PyShape

LEMMA PyInvNext ==
  ASSUME PyInv, [PyNext]_pyVars
  PROVE  PyInv'
<1>1. StoreTypeOK'
  BY PyStoreStep, TypeNext DEF PyInv
<1>. QED
  BY <1>1, JobsNext, ToldNext, BatchesNext, ExclusiveNext, AgreeNext DEF PyInv

LEMMA PyInvInit == PyInit => PyInv
<1>. SUFFICES ASSUME PyInit PROVE PyInv
  OBVIOUS
<1>1. StoreTypeOK /\ sealed = <<>> /\ told = <<>> /\ persisted = <<>>
  BY TypeInit DEF PyInit, StoreInit
<1>2. call \in [Calls -> Job] /\ \A c \in Calls : JobInv(call[c])
  BY IdleIsFine DEF PyInit, JobInv
<1>3. Exclusive
  BY <1>1, IdleIsFine DEF PyInit, Exclusive
<1>. QED
  BY <1>1, <1>2, <1>3 DEF PyInv, PyInit, ToldInv, Agree

LEMMA PyInvariant == PySpec => []PyInv
<1>1. PyInv /\ [PyNext]_pyVars => PyInv'
  BY PyInvNext
<1>. QED
  BY <1>1, PyInvInit, PTL DEF PySpec

LEMMA PyShapesHold ==
  ASSUME PyInv
  PROVE  PyTypeOK
<1>1. ASSUME NEW c \in Calls
      PROVE  /\ call[c].pc \in {"idle", "key_id", "sign", "persist"}
             /\ call[c].level \in Levels \cup {None}
             /\ call[c].pc # "idle" => told[call[c].seal] = None
  BY DEF PyInv, JobInv, Job
<1>. QED
  BY <1>1 DEF PyInv, PyTypeOK, ToldInv

(* A caller still in the call has not been answered                        *)
(* (py_engine.rs:74-140).                                                  *)
THEOREM PyTypeCorrect == PySpec => []PyTypeOK
<1>1. PyInv => PyTypeOK
  BY PyShapesHold
<1>. QED
  BY <1>1, PyInvariant, PTL

(* What Python is told is true: a trace reported as persisted was stored,  *)
(* a blocked one left no trace, and no trace is stored twice               *)
(* (pyo3.rs:847-967).                                                      *)
THEOREM AnswersAreAlwaysTrue == PySpec => []AnswersAreTrue
<1>1. PyInv => AnswersAreTrue
  <2>. SUFFICES ASSUME PyInv PROVE AnswersAreTrue
    OBVIOUS
  <2>1. \A n \in 1..Len(told) : told[n] = "consent_blocked" => ~Left(n)
    BY DEF PyInv, BatchInv, Left, Stored
  <2>. QED
    BY <2>1, PyShapesHold DEF PyInv, ToldInv, Exclusive, AnswersAreTrue
<1>. QED
  BY <1>1, PyInvariant, PTL

(* However threads interleave, and whatever the host Engine raises or      *)
(* answers, wrong signatures among it, tee and Engine get a batch only     *)
(* with the 64 bytes answered for that very trace, level included, and     *)
(* both get the same one (pyo3.rs:887-911).                                *)
THEOREM NothingEverLeavesUnsigned == PySpec => []NothingLeavesUnsigned
<1>1. PyInv => NothingLeavesUnsigned
  <2>. SUFFICES ASSUME PyInv PROVE NothingLeavesUnsigned
    OBVIOUS
  <2>. DEFINE left == mirrored \cup {persisted[i] : i \in 1..Len(persisted)}
  <2>1. ASSUME NEW b \in left
        PROVE  /\ b.signature.asked = b.trace /\ b.trace.level # None
               /\ b.signature.kind \in {"signed"} \cup ({"wrong"} \cap EngineFaults)
    <3>1. BatchInv(b)
      BY DEF PyInv
    <3>. QED
      BY <3>1 DEF BatchInv, SignedBatch, SignedAnswer
  <2>2. \A b, d \in left : b.trace.seal = d.trace.seal => b = d
    BY DEF PyInv, Agree, Exclusive
  <2>. QED
    BY <2>1, <2>2 DEF NothingLeavesUnsigned
<1>. QED
  BY <1>1, PyInvariant, PTL

----------------------------------------------------------------------------
(* The cohabitation path implements the abstract delivery of               *)
(* TraceDelivery.tla, as client mode does; a trace blocked by consent is   *)
(* handed over and dropped in one step.                                    *)

OutcomeBar == [n \in 1..Len(sealed) |-> IF Stored(n) THEN "stored"
                                        ELSE IF Held(n) THEN "open" ELSE "dropped"]

LEMMA DeliveryCounts ==
  ASSUME NEW items, NEW n, NEW e
  PROVE  Delivery!CountOf(items, n, e) = Assembly!CountOf(items, n, e)
<1>1. Delivery!CountOf(items, n, e) = CountOf(items, n, e)
  BY DEF CountOf, Delivery!CountOf, Delivery!Cardinality, Cardinality
<1>. QED
  BY <1>1, CountsAgree

LEMMA DeliveryItems ==
  ASSUME NEW t, NEW e, NEW id
  PROVE  Delivery!NextItem(t, e, id) = Assembly!NextItem(t, e, id)
  BY DeliveryCounts DEF Delivery!NextItem, Assembly!NextItem

(* Gathering and losing are the same in both abstract specifications.      *)
LEMMA DeliveryAssembles ==
  /\ \A t, e, id : Assembly!Gather(t, e, id) => Delivery!Gather(t, e, id)
  /\ \A S : Assembly!Lose(S) => Delivery!Lose(S)
<1>1. ASSUME NEW t, NEW e, NEW id, Assembly!Gather(t, e, id)
      PROVE  Delivery!Gather(t, e, id)
  BY <1>1, DeliveryItems DEF Delivery!Gather, Assembly!Gather
<1>2. ASSUME NEW S, Assembly!Lose(S)
      PROVE  Delivery!Lose(S)
  BY <1>2 DEF Delivery!Lose, Assembly!Lose
<1>. QED
  BY <1>1, <1>2

LEMMA OutcomeRests ==
  ASSUME UNCHANGED <<call, persisted, sealed>>
  PROVE  OutcomeBar' = OutcomeBar
  BY DEF OutcomeBar, Stored, Held

LEMMA OutcomeMoves ==
  ASSUME PyInv, NEW c \in Calls, Moves(c)
  PROVE  OutcomeBar' = OutcomeBar
<1>1. PICK j : /\ call' = [call EXCEPT ![c] = j]
               /\ j.pc # "idle" /\ j.seal = call[c].seal
  BY DEF Moves
<1>2. /\ call \in [Calls -> Job] /\ call[c].pc # "idle"
      /\ UNCHANGED <<sealed, persisted>>
  BY DEF Moves, PyInv, storeVars
<1>3. \A n : Held(n)' <=> Held(n)
  BY <1>1, <1>2 DEF Held
<1>4. \A n : Stored(n)' <=> Stored(n)
  BY <1>2 DEF Stored
<1>. QED
  BY <1>2, <1>3, <1>4 DEF OutcomeBar

(* A trace that is handed over starts open, or already dropped.            *)
LEMMA OutcomeBegins ==
  ASSUME PyInv, NEW new, new = Len(sealed) + 1, Len(sealed') = new,
         \A n \in 1..Len(sealed) : Held(n)' <=> Held(n), UNCHANGED persisted,
         NEW o, o = IF Held(new)' THEN "open" ELSE "dropped"
  PROVE  OutcomeBar' = Append(OutcomeBar, o)
<1>1. /\ Len(sealed) \in Nat /\ Len(OutcomeBar) = Len(sealed)
      /\ \A i \in 1..Len(persisted) : persisted[i].trace.seal \in 1..Len(sealed)
  BY DEF PyInv, BatchInv, StoreTypeOK, OutcomeBar
<1>2. \A n : Stored(n)' <=> Stored(n)
  BY DEF Stored
<1>3. new = Len(sealed) + 1
  OBVIOUS
<1>4. ~Stored(new)'
  BY <1>1, <1>2, <1>3 DEF Stored
<1>5. Append(OutcomeBar, o) =
        [n \in 1..new |-> IF n = new THEN o ELSE OutcomeBar[n]]
  BY <1>1, <1>3 DEF OutcomeBar
<1>6. OutcomeBar' = [n \in 1..new |-> IF Stored(n)' THEN "stored"
                                      ELSE IF Held(n)' THEN "open" ELSE "dropped"]
  BY <1>3 DEF OutcomeBar
<1>7. ASSUME NEW n \in 1..new
      PROVE  (IF Stored(n)' THEN "stored" ELSE IF Held(n)' THEN "open" ELSE "dropped")
               = IF n = new THEN o ELSE OutcomeBar[n]
  <2>1. CASE n = new
    BY <1>4, <2>1
  <2>2. CASE n \in 1..Len(sealed)
    BY <1>1, <1>2, <1>3, <2>2 DEF OutcomeBar
  <2>. QED
    BY <1>1, <1>3, <2>1, <2>2
<1>. QED
  BY <1>5, <1>6, <1>7

LEMMA OutcomeTakes ==
  ASSUME PyInv, NEW c \in Calls, Takes(c)
  PROVE  OutcomeBar' = Append(OutcomeBar, "open")
<1>1. PICK j : /\ call' = [call EXCEPT ![c] = j]
               /\ j.pc # "idle" /\ j.seal = Len(sealed) + 1
  BY DEF Takes
<1>2. /\ call \in [Calls -> Job] /\ call[c].pc = "idle" /\ UNCHANGED persisted
      /\ Len(sealed) \in Nat /\ Len(sealed') = Len(sealed) + 1
  BY DEF Takes, PyInv, StoreTypeOK
<1>3. \A n \in 1..Len(sealed) : Held(n)' <=> Held(n)
  BY <1>1, <1>2 DEF Held
<1>4. PICK new : new = Len(sealed) + 1
  OBVIOUS
<1>5. Held(new)'
  <2>1. call'[c].pc # "idle" /\ call'[c].seal = new
    BY <1>1, <1>2, <1>4
  <2>. QED
    BY <2>1 DEF Held
<1>. QED
  BY <1>2, <1>3, <1>4, <1>5, OutcomeBegins

LEMMA OutcomeBlocks ==
  ASSUME PyInv, Blocks
  PROVE  OutcomeBar' = Append(OutcomeBar, "dropped")
<1>1. /\ Len(sealed') = Len(sealed) + 1 /\ UNCHANGED <<call, persisted>>
      /\ Len(sealed) \in Nat
      /\ \A c \in Calls : call[c].pc # "idle" => call[c].seal \in 1..Len(sealed)
  BY DEF Blocks, PyInv, JobInv, StoreTypeOK
<1>2. \A n : Held(n)' <=> Held(n)
  BY <1>1 DEF Held
<1>3. PICK new : new = Len(sealed) + 1
  OBVIOUS
<1>4. ~Held(new)'
  BY <1>1, <1>2, <1>3 DEF Held
<1>. QED
  BY <1>1, <1>2, <1>3, <1>4, OutcomeBegins

(* The trace of a call that ends, or stores it, was open until now.        *)
LEMMA HeldIsOpen ==
  ASSUME PyInv, NEW c \in Calls, call[c].pc # "idle"
  PROVE  /\ call[c].seal \in 1..Len(sealed)
         /\ OutcomeBar[call[c].seal] = "open"
         /\ \A n : Held(n) => n = call[c].seal
                     \/ \E d \in Calls \ {c} : call[d].pc # "idle" /\ call[d].seal = n
         /\ \A d \in Calls \ {c} : call[d].pc # "idle" => call[d].seal # call[c].seal
<1>1. call[c].seal \in 1..Len(sealed)
  BY DEF PyInv, JobInv
<1>2. Held(call[c].seal) /\ ~Stored(call[c].seal)
  BY DEF Held, Stored, PyInv, Exclusive
<1>3. \A d \in Calls \ {c} : call[d].pc # "idle" => call[d].seal # call[c].seal
  BY DEF PyInv, Exclusive
<1>. QED
  BY <1>1, <1>2, <1>3 DEF OutcomeBar, Held

LEMMA ReturnLetsGo ==
  ASSUME PyInv, NEW c \in Calls, call[c].pc # "idle", NEW answer, Return(c, answer)
  PROVE  \A n : Held(n)' <=> Held(n) /\ n # call[c].seal
<1>1. /\ call'[c].pc = "idle"
      /\ \A d \in Calls \ {c} : call'[d] = call[d]
  BY IdleIsFine DEF Return, PyInv
<1>. QED
  BY <1>1, HeldIsOpen DEF Held

LEMMA OutcomeReturns ==
  ASSUME PyInv, NEW c \in Calls, Returns(c)
  PROVE  /\ OutcomeBar' = [OutcomeBar EXCEPT ![call[c].seal] = "dropped"]
         /\ call[c].seal \in 1..Len(sealed) /\ OutcomeBar[call[c].seal] = "open"
<1>1. call[c].pc # "idle" /\ Return(c, "error") /\ UNCHANGED <<sealed, persisted>>
  BY DEF Returns, storeVars
<1>2. \A n : Held(n)' <=> Held(n) /\ n # call[c].seal
  BY <1>1, ReturnLetsGo
<1>3. \A n : Stored(n)' <=> Stored(n)
  BY <1>1 DEF Stored
<1>4. call[c].seal \in 1..Len(sealed) /\ OutcomeBar[call[c].seal] = "open"
  BY <1>1, HeldIsOpen
<1>5. ~Stored(call[c].seal)
  BY <1>4 DEF OutcomeBar
<1>. QED
  BY <1>1, <1>2, <1>3, <1>4, <1>5 DEF OutcomeBar

LEMMA OutcomeStores ==
  ASSUME PyInv, NEW c \in Calls, Stores(c)
  PROVE  /\ OutcomeBar' = [OutcomeBar EXCEPT ![call[c].seal] = "stored"]
         /\ call[c].seal \in 1..Len(sealed) /\ OutcomeBar[call[c].seal] = "open"
<1>1. /\ call[c].pc # "idle" /\ UNCHANGED sealed
      /\ \E answer : Return(c, answer)
      /\ persisted \in Seq(SignedBatch) /\ Len(persisted) \in Nat
  BY DEF Stores, storeVars, PyInv
<1>2. \A n : Held(n)' <=> Held(n) /\ n # call[c].seal
  BY <1>1, ReturnLetsGo
<1>3. \A n : Stored(n)' <=> Stored(n) \/ n = call[c].seal
  <2>1. PICK b : b = Batch(call[c])
    OBVIOUS
  <2>2. b \in SignedBatch /\ b.trace.seal = call[c].seal
    BY <2>1, StoredIsFine DEF BatchInv
  <2>3. /\ Len(persisted') = Len(persisted) + 1 /\ persisted'[Len(persisted) + 1] = b
        /\ \A i \in 1..Len(persisted) : persisted'[i] = persisted[i]
    BY <1>1, <2>1, <2>2 DEF Stores
  <2>4. 1..Len(persisted') = (1..Len(persisted)) \cup {Len(persisted) + 1}
    BY <1>1, <2>3
  <2>. QED
    BY <2>2, <2>3, <2>4 DEF Stored
<1>4. call[c].seal \in 1..Len(sealed) /\ OutcomeBar[call[c].seal] = "open"
  BY <1>1, HeldIsOpen
<1>. QED
  BY <1>1, <1>2, <1>3, <1>4 DEF OutcomeBar

(* A crash drops what was open.                                            *)
LEMMA OutcomeCrash ==
  ASSUME PyInv, call' = [c \in Calls |-> Idle], UNCHANGED <<sealed, persisted>>
  PROVE  OutcomeBar' = [n \in 1..Len(OutcomeBar) |->
                          IF OutcomeBar[n] = "open" THEN "dropped" ELSE OutcomeBar[n]]
<1>1. Len(sealed) \in Nat
  BY DEF PyInv, StoreTypeOK
<1>2. Len(OutcomeBar) = Len(sealed)
  BY <1>1 DEF OutcomeBar
<1>3. \A n : ~Held(n)'
  BY DEF Held, Idle
<1>4. \A n : Stored(n)' <=> Stored(n)
  BY DEF Stored
<1>. QED
  BY <1>2, <1>3, <1>4 DEF OutcomeBar

LEMMA DeliveryNothing ==
  ASSUME UNCHANGED <<active, sealed, call, persisted>>
  PROVE  UNCHANGED Delivery!deliveryVars
<1>1. OutcomeBar' = OutcomeBar
  BY OutcomeRests
<1>. QED
  BY <1>1 DEF Delivery!deliveryVars, Components, OutcomeBar

LEMMA ProceedRefines ==
  ASSUME PyInv, NEW c \in Calls, Proceed(c)
  PROVE  [Delivery!DeliveryNext]_(Delivery!deliveryVars)
<1>0. Len(OutcomeBar) = Len(sealed)
  BY DEF PyInv, StoreTypeOK, OutcomeBar
<1>1. CASE Moves(c)
  <2>1. OutcomeBar' = OutcomeBar /\ UNCHANGED <<active, sealed>>
    BY <1>1, OutcomeMoves DEF Moves, storeVars
  <2>. QED
    BY <2>1 DEF Delivery!deliveryVars, Components, OutcomeBar
<1>2. CASE Returns(c)
  <2>1. UNCHANGED <<active, sealed>>
    BY <1>2 DEF Returns, storeVars
  <2>2. PICK n : n = call[c].seal
    OBVIOUS
  <2>3. /\ OutcomeBar' = [OutcomeBar EXCEPT ![n] = "dropped"]
        /\ OutcomeBar[n] = "open" /\ n \in 1..Len(OutcomeBar)
    BY <1>0, <1>2, <2>2, OutcomeReturns
  <2>4. Delivery!Drop(n)
    BY <2>1, <2>3 DEF Delivery!Drop, Components, OutcomeBar
  <2>. QED
    BY <2>3, <2>4 DEF Delivery!DeliveryNext, OutcomeBar
<1>3. CASE Stores(c)
  <2>1. UNCHANGED <<active, sealed>>
    BY <1>3 DEF Stores, storeVars
  <2>2. PICK n : n = call[c].seal
    OBVIOUS
  <2>3. /\ OutcomeBar' = [OutcomeBar EXCEPT ![n] = "stored"]
        /\ OutcomeBar[n] = "open" /\ n \in 1..Len(OutcomeBar)
    BY <1>0, <1>3, <2>2, OutcomeStores
  <2>4. Delivery!Store(n)
    BY <2>1, <2>3 DEF Delivery!Store, Components, OutcomeBar
  <2>. QED
    BY <2>3, <2>4 DEF Delivery!DeliveryNext, OutcomeBar
<1>. QED
  BY <1>1, <1>2, <1>3, ProceedShape

(* An event that seals hands its trace over, open or dropped at once.      *)
LEMMA SealBegins ==
  ASSUME PyInv, IndexInv, NEW ev \in Inbound, NEW ts \in Stamp, CaptureSeal(ev, ts),
         NEW o \in {"open", "dropped"}, OutcomeBar' = Append(OutcomeBar, o)
  PROVE  Delivery!Begin
<1>1. StoreTypeOK /\ Accept(ev)
  BY DEF PyInv, CaptureSeal
<1>2. Assembly!HandOver(ev.thought_id, Len(delivered) + 1)
  BY <1>1, SealHandsOver, StampsType
<1>3. Delivery!HandOver(ev.thought_id, Len(delivered) + 1)
  BY <1>2, DeliveryItems DEF Delivery!HandOver, Assembly!HandOver
<1>4. ev.thought_id \in Thoughts /\ Len(delivered) + 1 \in 1..MaxDelivered
  BY <1>1, AcceptedId
<1>5. \E t \in Thoughts, id \in 1..MaxDelivered : Delivery!HandOver(t, id)
  BY <1>3, <1>4 DEF Delivery!HandOver
<1>. QED
  BY <1>5 DEF Delivery!Begin, OutcomeBar

LEMMA PyRefines ==
  ASSUME PyInv, IndexInv, [PyNext]_pyVars
  PROVE  [Delivery!DeliveryNext]_(Delivery!deliveryVars)
<1>0. StoreTypeOK
  BY DEF PyInv
<1>1. ASSUME NEW c \in Calls, NEW ev \in Inbound, NEW ts \in Stamp,
             PrepareInFlight(c, ev, ts)
      PROVE  Delivery!DeliveryNext
  <2>1. CaptureOpen(ev, ts) /\ Accept(ev) /\ UNCHANGED <<call, persisted, sealed>>
    BY <1>1 DEF PrepareInFlight, CaptureOpen
  <2>2. Delivery!Gather(ev.thought_id, ev.event_type, Len(delivered) + 1)
    BY <1>0, <2>1, OpenGathers, DeliveryAssembles, StampsType
  <2>3. /\ ev.thought_id \in Thoughts /\ ev.event_type \in EventTypes
        /\ Len(delivered) + 1 \in 1..MaxDelivered
    BY <1>0, <2>1, AcceptedId
  <2>4. OutcomeBar' = OutcomeBar
    BY <2>1, OutcomeRests
  <2>5. Delivery!Assemble
    BY <2>2, <2>3, <2>4 DEF Delivery!Assemble, OutcomeBar
  <2>. QED
    BY <2>5 DEF Delivery!DeliveryNext
<1>2. ASSUME NEW c \in Calls, NEW ev \in Inbound, NEW ts \in Stamp,
             PrepareSeal(c, ev, ts)
      PROVE  Delivery!DeliveryNext
  <2>1. OutcomeBar' = Append(OutcomeBar, "open")
    BY <1>2, PrepareShape, OutcomeTakes
  <2>2. Delivery!Begin
    BY <1>2, <2>1, SealBegins DEF PrepareSeal
  <2>. QED
    BY <2>2 DEF Delivery!DeliveryNext
<1>3. ASSUME NEW c \in Calls, NEW ev \in Inbound, NEW ts \in Stamp,
             PrepareBlocked(c, ev, ts)
      PROVE  Delivery!DeliveryNext
  <2>1. Blocks
    BY <1>0, <1>3, SealEffect, StampsType DEF PrepareBlocked, Blocks
  <2>2. OutcomeBar' = Append(OutcomeBar, "dropped")
    BY <2>1, OutcomeBlocks
  <2>3. Delivery!Begin
    BY <1>3, <2>2, SealBegins DEF PrepareBlocked
  <2>. QED
    BY <2>3 DEF Delivery!DeliveryNext
<1>4. ASSUME NEW c \in Calls, NEW ev \in Inbound, PrepareRejected(c, ev)
      PROVE  UNCHANGED Delivery!deliveryVars
  BY <1>4, DeliveryNothing DEF PrepareRejected, CaptureUnknown, storeVars
<1>5. CASE Sweep
  <2>1. CASE OrphanSweep
    <3>1. Purged(clock) \in SUBSET Thoughts /\ UNCHANGED <<call, persisted, sealed>>
      BY <1>5, <2>1 DEF Purged, Sweep, OrphanSweep
    <3>2. Delivery!Lose(Purged(clock))
      BY <2>1, ForgetLoses, DeliveryAssembles DEF OrphanSweep
    <3>3. OutcomeBar' = OutcomeBar
      BY <3>1, OutcomeRests
    <3>4. Delivery!Assemble
      BY <3>1, <3>2, <3>3 DEF Delivery!Assemble, OutcomeBar
    <3>. QED
      BY <3>4 DEF Delivery!DeliveryNext
  <2>2. CASE Tick
    BY <1>5, <2>2, DeliveryNothing DEF Sweep, Tick
  <2>. QED
    BY <1>5, <2>1, <2>2 DEF Sweep
<1>6. CASE Exit
  <2>1. /\ Forget(Thoughts) /\ UNCHANGED <<sealed, persisted>>
        /\ call' = [c \in Calls |-> Idle]
    BY <1>6, RestartForgets DEF Exit, Restart
  <2>2. Delivery!Lose(Thoughts)
    BY <2>1, ForgetLoses, DeliveryAssembles
  <2>3. OutcomeBar' = [n \in 1..Len(OutcomeBar) |->
                         IF OutcomeBar[n] = "open" THEN "dropped" ELSE OutcomeBar[n]]
    BY <2>1, OutcomeCrash
  <2>4. Delivery!Crash
    BY <2>2, <2>3 DEF Delivery!Crash, OutcomeBar
  <2>. QED
    BY <2>4 DEF Delivery!DeliveryNext
<1>7. CASE UNCHANGED pyVars
  BY <1>7, DeliveryNothing DEF pyVars, storeVars
<1>. QED
  BY <1>1, <1>2, <1>3, <1>4, <1>5, <1>6, <1>7, ProceedRefines DEF PyNext

LEMMA PyInitRefines == PyInit => Delivery!DeliveryInit
<1>. SUFFICES ASSUME PyInit PROVE Delivery!DeliveryInit
  OBVIOUS
<1>1. StoreInit /\ Len(sealed) = 0
  BY DEF PyInit, StoreInit
<1>2. Assembly!AssemblyInit
  BY <1>1, InitRefines
<1>3. OutcomeBar = <<>>
  BY <1>1 DEF OutcomeBar
<1>. QED
  BY <1>2, <1>3
  DEF Assembly!AssemblyInit, Delivery!AssemblyInit, Delivery!DeliveryInit, OutcomeBar

(* The Python path hands every trace over once and then stores it once or  *)
(* drops it, for good (py_engine.rs:187-264, pyo3.rs:847-967).             *)
THEOREM PythonImplementsDelivery == PySpec => PyImplementsDelivery
<1>1. PyInv /\ IndexInv /\ [PyNext]_pyVars
        => [Delivery!DeliveryNext]_(Delivery!deliveryVars)
  BY PyRefines
<1>. QED
  BY <1>1, PyInitRefines, PyInvariant, PyIsAStore, IndexInvariant, PTL
  DEF PySpec, PyImplementsDelivery, Delivery!DeliverySpec
=============================================================================
