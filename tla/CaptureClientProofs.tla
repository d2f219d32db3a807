-------------------------- MODULE CaptureClientProofs --------------------------
(***************************************************************************)
(* What holds of client mode, and of the consent gate in it, for every set *)
(* of callers, every inbound alphabet, every content of the directory and  *)
(* every combination of failing external calls.                            *)
(***************************************************************************)
EXTENDS CaptureClient, PartialTraceStoreProofs, WellFoundedInduction

----------------------------------------------------------------------------
(* The newest row.  A bounded set of numbers has a greatest one; hence so  *)
(* has a set of rows, by time and then by id.                              *)

LEMMA GreatestExists ==
  ASSUME NEW n \in Nat, NEW T, T \subseteq 1..n, T # {}
  PROVE  \E x \in T : \A y \in T : x >= y
<1> DEFINE R == OpToRel(<, Nat)
           U == {n - t : t \in T}
<1>1. IsWellFoundedOn(R, Nat)
  BY NatLessThanWellFounded
<1>2. U \subseteq Nat /\ U # {}
  <2>1. \A t \in T : n - t \in Nat
    OBVIOUS
  <2>. QED
    BY <2>1
<1>3. PICK u \in U : \A v \in U : ~ (<<v, u>> \in R)
  <2> HIDE DEF R, U
  <2>. QED
    BY <1>1, <1>2, WFMin
<1>4. PICK x \in T : u = n - x
  BY <1>3
<1>5. ASSUME NEW y \in T
      PROVE  x >= y
  <2>1. /\ n - y \in U
        /\ x \in Int /\ y \in Int
    OBVIOUS
  <2>2. <<n - y, u>> \in Nat \X Nat
    <3>. HIDE DEF U
    <3>. QED
      BY <1>2, <2>1
  <2>3. <<n - y, u>> \notin R
    <3>. HIDE DEF R, U
    <3>. QED
      BY <1>3, <2>1
  <2>4. ~ (n - y < n - x)
    BY <1>4, <2>2, <2>3 DEF OpToRel
  <2>. QED
    BY <2>1, <2>4
<1>. QED
  BY <1>5

(* resolve_grant's sort puts a row first that no other one beats.          *)
LEMMA NewestIsFirst ==
  ASSUME NEW rs, rs \subseteq Attestation, Matching(rs) # {}
  PROVE  /\ Newest(rs) \in Matching(rs)
         /\ \A q \in Matching(rs) : Beats(Newest(rs), q)
<1>. DEFINE M     == Matching(rs)
            times == {r.asserted_at : r \in M}
<1>1. /\ M \subseteq Attestation /\ MaxAsserted \in Nat /\ MaxRows \in Nat
  BY ConsentAssumption DEF Matching
<1>2. times \subseteq 1..MaxAsserted /\ times # {}
  BY <1>1 DEF Attestation
<1>3. PICK at \in times : \A y \in times : at >= y
  <2>. HIDE DEF times
  <2>. QED
    BY <1>1, <1>2, GreatestExists
<1>. DEFINE last == {r \in M : r.asserted_at = at}
            ids  == {r.attestation_id : r \in last}
<1>4. ids \subseteq 1..MaxRows /\ ids # {}
  BY <1>1, <1>3 DEF Attestation
<1>5. PICK id \in ids : \A y \in ids : id >= y
  <2>. HIDE DEF ids
  <2>. QED
    BY <1>1, <1>4, GreatestExists
<1>6. PICK r \in last : r.attestation_id = id
  BY <1>5
<1>7. ASSUME NEW q \in M
      PROVE  Beats(r, q)
  <2>1. /\ r.asserted_at = at /\ at >= q.asserted_at
        /\ at \in Nat /\ q.asserted_at \in Nat
    BY <1>1, <1>2, <1>3, <1>6 DEF Attestation
  <2>2. CASE q.asserted_at = at
    <3>1. q.attestation_id \in ids
      BY <2>2
    <3>. QED
      BY <1>5, <1>6, <2>1, <2>2, <3>1 DEF Beats
  <2>3. CASE q.asserted_at # at
    BY <2>1, <2>3 DEF Beats
  <2>. QED
    BY <2>2, <2>3
<1>8. \E p \in M : \A q \in M : Beats(p, q)
  BY <1>6, <1>7
<1>. QED
  BY <1>8 DEF Newest

----------------------------------------------------------------------------
(* The consent gate.  No two rows have the same id, which is what makes    *)
(* the newest row unique.                                                  *)

ConsentInv ==
  /\ ConsentTypeOK
  /\ \A i, j \in 1..Len(rows) :
       i # j => rows[i].attestation_id # rows[j].attestation_id

LEMMA ConsentInvInit == ConsentInit => ConsentInv
  BY DEF ConsentInit, ConsentInv, ConsentTypeOK

(* What an attestation does to the rows.                                   *)
LEMMA AttestEffect ==
  ASSUME ConsentTypeOK, NEW r \in Attestation, Attest(r)
  PROVE  /\ Len(rows) \in Nat /\ Len(rows') = Len(rows) + 1
         /\ rows'[Len(rows) + 1] = r
         /\ \A i \in 1..Len(rows) : rows'[i] = rows[i]
         /\ \A i \in 1..Len(rows) : rows[i].attestation_id # r.attestation_id
         /\ Rows' = Rows \cup {r}
<1>1. /\ Len(rows) \in Nat /\ Len(rows') = Len(rows) + 1
      /\ rows'[Len(rows) + 1] = r
      /\ \A i \in 1..Len(rows) : rows'[i] = rows[i]
  BY DEF ConsentTypeOK, Attest
<1>2. \A i \in 1..Len(rows) : rows[i].attestation_id # r.attestation_id
  BY DEF Attest, Rows, RowsUpTo
<1>3. 1..Len(rows') = (1..Len(rows)) \cup {Len(rows) + 1}
  BY <1>1
<1>4. Rows' = Rows \cup {r}
  BY <1>1, <1>3 DEF Rows, RowsUpTo
<1>. QED
  BY <1>1, <1>2, <1>4

LEMMA ConsentInvNext ==
  ASSUME ConsentInv, [ConsentNext]_consentVars
  PROVE  ConsentInv'
<1>. ConsentTypeOK
  BY DEF ConsentInv
<1>1. ASSUME NEW r \in Attestation, Attest(r)
      PROVE  ConsentInv'
  <2>1. ConsentTypeOK'
    BY <1>1 DEF ConsentTypeOK, Attest
  <2>. QED
    BY <1>1, <2>1, AttestEffect DEF ConsentInv
<1>2. CASE UNCHANGED consentVars
  BY <1>2 DEF ConsentInv, ConsentTypeOK, consentVars
<1>. QED
  BY <1>1, <1>2 DEF ConsentNext

LEMMA RowsAreAttestations ==
  ASSUME ConsentTypeOK, NEW n \in 0..Len(rows)
  PROVE  RowsUpTo(n) \subseteq Attestation
  BY DEF ConsentTypeOK, RowsUpTo

(* Rows with the same id are the same row.                                 *)
LEMMA IdsAreUnique ==
  ASSUME ConsentInv, NEW r \in Rows, NEW q \in Rows, r # q
  PROVE  r.attestation_id # q.attestation_id
  BY DEF ConsentInv, Rows, RowsUpTo

(* Of two rows of the dimension, one comes strictly after the other.       *)
LEMMA BeatsIsLater ==
  ASSUME ConsentInv, NEW r \in Rows, NEW q \in Rows, r # q, Beats(r, q)
  PROVE  Later(r, q) /\ ~Later(q, r)
<1>1. r \in Attestation /\ q \in Attestation
  BY RowsAreAttestations DEF ConsentInv, ConsentTypeOK, Rows
<1>2. r.attestation_id # q.attestation_id
  BY IdsAreUnique
<1>. QED
  BY <1>1, <1>2 DEF Beats, Later, Attestation

LEMMA AllRowsAreAttestations ==
  ASSUME ConsentTypeOK
  PROVE  Rows \subseteq Attestation
  BY RowsAreAttestations DEF ConsentTypeOK, Rows

LEMMA GateNamesNewest ==
  ASSUME ConsentInv
  PROVE  GrantIsNewest
<1>. SUFFICES ASSUME Resolution.kind = "CegGrant"
              PROVE  \E r \in Rows :
                       /\ r.dimension = ConsentDim
                       /\ r.attestation_type \in GrantTypes
                       /\ r.asserted_at = Resolution.stamp
                       /\ \A q \in Rows :
                            (q.dimension = ConsentDim
                               /\ q.attestation_type \in WithdrawTypes)
                              => Later(r, q)
  BY DEF GrantIsNewest
<1>. DEFINE g == ResolveGrant(Rows)
            m == Newest(Rows)
<1>1. /\ g.kind = "InForce"
      /\ Resolution.stamp = g.at
  BY DEF Resolution, ResolutionAt, ResolveConsent, Rows
<1>2. /\ Matching(Rows) # {}
      /\ m.attestation_type \in GrantTypes
      /\ g.at = m.asserted_at
  BY <1>1 DEF ResolveGrant, Absent, InForce, Withdrawn
<1>3. m \in Matching(Rows) /\ \A q \in Matching(Rows) : Beats(m, q)
  BY <1>2, NewestIsFirst, AllRowsAreAttestations DEF ConsentInv
<1>4. m \in Rows /\ m.dimension = ConsentDim
  BY <1>3 DEF Matching
<1>. HIDE DEF m, g
<1>5. ASSUME NEW q \in Rows, q.dimension = ConsentDim,
             q.attestation_type \in WithdrawTypes
      PROVE  Later(m, q)
  <2>1. q # m
    BY <1>2, <1>5, ConsentAssumption
  <2>2. Beats(m, q)
    BY <1>3, <1>5 DEF Matching
  <2>. QED
    BY <1>4, <2>1, <2>2, BeatsIsLater
<1>. QED
  BY <1>1, <1>2, <1>4, <1>5

(* One step of the directory under a withdrawal that is the last word.     *)
StaysWithdrawn ==
  \A w \in Rows : (LastWord(w) /\ Permits(Resolution')) =>
    LET r == rows'[Len(rows')] IN r.dimension = ConsentDim /\ Later(r, w)

LEMMA AttestKeepsWithdrawal ==
  ASSUME ConsentInv, ConsentInv', NEW r \in Attestation, Attest(r)
  PROVE  StaysWithdrawn
<1>. SUFFICES ASSUME NEW w \in Rows, LastWord(w), Permits(Resolution')
              PROVE  r.dimension = ConsentDim /\ Later(r, w)
  BY AttestEffect DEF StaysWithdrawn, ConsentInv
<1>. DEFINE m == Newest(Rows')
<1>1. /\ Rows' = Rows \cup {r} /\ Rows' \subseteq Attestation
      /\ Rows \subseteq Attestation
      /\ \A q \in Rows : q.attestation_id # r.attestation_id
  BY AttestEffect, AllRowsAreAttestations DEF ConsentInv, Attest
<1>2. /\ w.dimension = ConsentDim /\ w.attestation_type \in WithdrawTypes
      /\ w \in Matching(Rows')
  BY <1>1 DEF LastWord, Matching
<1>3. m \in Matching(Rows') /\ \A q \in Matching(Rows') : Beats(m, q)
  BY <1>1, <1>2, NewestIsFirst
<1>4. m # w
  <2>. SUFFICES ASSUME m = w PROVE FALSE
    OBVIOUS
  <2>1. m.attestation_type \in WithdrawTypes /\ m.attestation_type \notin GrantTypes
    BY <1>2, ConsentAssumption
  <2>2. ResolveGrant(Rows').kind = "Withdrawn"
    BY <1>2, <2>1 DEF ResolveGrant, Withdrawn
  <2>3. Resolution' = ResolveConsent(ResolveGrant(Rows'), config')
    BY DEF Resolution, ResolutionAt, Rows
  <2>. QED
    BY <2>2, <2>3 DEF ResolveConsent, Permits
<1>5. m \notin Rows
  <2>. SUFFICES ASSUME m \in Rows PROVE FALSE
    OBVIOUS
  <2>1. Later(w, m)
    BY <1>3, <1>4 DEF LastWord, Matching
  <2>2. Beats(m, w)
    BY <1>2, <1>3
  <2>. QED
    BY <1>4, <2>1, <2>2, BeatsIsLater
<1>6. m = r
  BY <1>1, <1>3, <1>5 DEF Matching
<1>7. Beats(r, w) /\ r.dimension = ConsentDim
  BY <1>2, <1>3, <1>6 DEF Matching
<1>. QED
  BY <1>1, <1>7 DEF Beats, Later, Attestation

----------------------------------------------------------------------------
(* Client mode is the store and the directory, each going its own way.     *)

LEMMA ClientStoreStep ==
  ASSUME [ClientNext]_clientVars
  PROVE  [StoreNext]_storeVars
<1>1. CASE UNCHANGED clientVars
  BY <1>1 DEF clientVars
<1>2. ASSUME NEW c \in Calls, Advance(c) \/ Cancel(c)
      PROVE  UNCHANGED storeVars
  BY <1>2 DEF Advance, Cancel, ConsentGranted, ConsentBlocked, ConsentUnreadable,
              SealSignWrap, SignFails, TeeWrite, Persist, PersistFails
<1>3. ASSUME NEW c \in Calls, NEW ev \in Inbound, NEW ts \in Stamp,
             CaptureInFlight(c, ev, ts) \/ CaptureSealing(c, ev, ts)
                \/ CaptureRejected(c, ev)
      PROVE  StoreNext
  BY <1>3 DEF CaptureInFlight, CaptureSealing, CaptureRejected, StoreNext
<1>4. CASE Housekeeping \/ Crash \/ Attestations
  BY <1>4 DEF Housekeeping, Crash, Attestations, StoreNext
<1>5. ASSUME NEW c \in Calls, NEW ev \in Inbound, CaptureRejected(c, ev)
      PROVE  StoreNext
  BY <1>5 DEF CaptureRejected, StoreNext
<1>. QED
  BY <1>1, <1>2, <1>3, <1>4, <1>5 DEF ClientNext

LEMMA ClientConsentStep ==
  ASSUME [ClientNext]_clientVars
  PROVE  [ConsentNext]_consentVars
<1>1. CASE UNCHANGED clientVars
  BY <1>1 DEF clientVars
<1>2. ASSUME NEW c \in Calls, Advance(c) \/ Cancel(c)
      PROVE  UNCHANGED consentVars
  BY <1>2 DEF Advance, Cancel, ConsentGranted, ConsentBlocked, ConsentUnreadable,
              SealSignWrap, SignFails, TeeWrite, Persist, PersistFails
<1>3. ASSUME NEW c \in Calls, NEW ev \in Inbound, NEW ts \in Stamp,
             CaptureInFlight(c, ev, ts) \/ CaptureSealing(c, ev, ts)
      PROVE  UNCHANGED consentVars
  BY <1>3 DEF CaptureInFlight, CaptureSealing
<1>4. CASE Housekeeping \/ Crash \/ Attestations
  BY <1>4 DEF Housekeeping, Crash, Attestations
<1>5. ASSUME NEW c \in Calls, NEW ev \in Inbound, CaptureRejected(c, ev)
      PROVE  UNCHANGED consentVars
  BY <1>5 DEF CaptureRejected
<1>. QED
  BY <1>1, <1>2, <1>3, <1>4, <1>5 DEF ClientNext

(* Whatever is proved of the store alone, or of the directory alone, holds *)
(* of them inside client mode (client.rs:96-140).                          *)
THEOREM ClientComposes == ClientSafetySpec => StoreSpec /\ ConsentSpec
<1>1. ClientInit => StoreInit /\ ConsentInit
  BY DEF ClientInit
<1>2. [ClientNext]_clientVars => [StoreNext]_storeVars /\ [ConsentNext]_consentVars
  BY ClientStoreStep, ClientConsentStep
<1>. QED
  BY <1>1, <1>2, PTL DEF ClientSafetySpec, StoreSpec, ConsentSpec

LEMMA ClientConsentInv == ClientSafetySpec => []ConsentInv
<1>1. ConsentInv /\ [ConsentNext]_consentVars => ConsentInv'
  BY ConsentInvNext
<1>. QED
  BY <1>1, ConsentInvInit, ClientComposes, PTL DEF ConsentSpec

(* Emission under CEG authority names a grant the key really issued, and   *)
(* no withdrawal is newer than it (consent.rs:176-192).                    *)
THEOREM GrantIsAlwaysNewest == ClientSafetySpec => []GrantIsNewest
<1>1. ConsentInv => GrantIsNewest
  BY GateNamesNewest
<1>. QED
  BY <1>1, ClientConsentInv, PTL

(* Once the newest word is a withdrawal, emission stays blocked until a    *)
(* newer row of the dimension arrives (consent.rs:161-199, 216-230).       *)
THEOREM WithdrawalsStick == ClientSafetySpec => WithdrawalSticks
<1>1. ConsentInv /\ ConsentInv' /\ [ConsentNext]_consentVars
        => [StaysWithdrawn]_consentVars
  BY AttestKeepsWithdrawal DEF ConsentNext
<1>. QED
  BY <1>1, ClientConsentInv, ClientComposes, PTL
  DEF ConsentSpec, WithdrawalSticks, StaysWithdrawn

----------------------------------------------------------------------------
(* Attestations are only ever added.  What the gate said at an earlier     *)
(* moment is therefore never said differently.                             *)

LEMMA RowsGrow ==
  ASSUME ConsentTypeOK, [ConsentNext]_consentVars
  PROVE  /\ Len(rows) \in Nat /\ Len(rows') \in Nat /\ Len(rows) <= Len(rows')
         /\ \A n \in 0..Len(rows) : ConsentAt(n)' = ConsentAt(n)
<1>1. Len(rows) \in Nat
  BY DEF ConsentTypeOK
<1>2. /\ Len(rows') \in Nat /\ Len(rows) <= Len(rows') /\ config' = config
      /\ \A i \in 1..Len(rows) : rows'[i] = rows[i]
  BY <1>1, AttestEffect DEF ConsentNext, Attest, consentVars
<1>3. ASSUME NEW n \in 0..Len(rows)
      PROVE  RowsUpTo(n)' = RowsUpTo(n)
  BY <1>1, <1>2 DEF RowsUpTo
<1>4. \A n \in 0..Len(rows) : ConsentAt(n)' = ConsentAt(n)
  BY <1>2, <1>3 DEF ConsentAt, ResolutionAt
<1>. QED
  BY <1>1, <1>2, <1>4

LEMMA ConsentAtType ==
  ASSUME ConsentTypeOK, NEW n \in 0..Len(rows)
  PROVE  /\ ConsentAt(n).stamp \in StampOrNot
         /\ Permits(ConsentAt(n)) => ConsentAt(n).stamp # NoStamp
<1>. DEFINE rs == RowsUpTo(n)
            g  == ResolveGrant(rs)
<1>1. config \in ConfigStamps \cup {NoStamp}
  BY DEF ConsentTypeOK
<1>2. g.kind = "InForce" => g.at \in Nat
  <2>1. g.kind = "InForce" => Matching(rs) # {} /\ g.at = Newest(rs).asserted_at
    BY DEF ResolveGrant, Absent, InForce, Withdrawn
  <2>2. rs \subseteq Attestation
    BY RowsAreAttestations
  <2>. HIDE DEF rs
  <2>3. Matching(rs) # {} => Newest(rs) \in Attestation
    BY <2>2, NewestIsFirst DEF Matching
  <2>. QED
    BY <2>1, <2>3 DEF Attestation
<1>. HIDE DEF g
<1>3. ASSUME NEW h, h.kind = "InForce" => h.at \in Nat
      PROVE  /\ ResolveConsent(h, config).stamp \in StampOrNot
             /\ Permits(ResolveConsent(h, config))
                  => ResolveConsent(h, config).stamp # NoStamp
  BY <1>1, <1>3, ConsentAssumption DEF ResolveConsent, Permits, StampOrNot
<1>4. ConsentAt(n) = IF HasKey THEN ResolveConsent(g, config)
                     ELSE ResolveConsent(Absent, config)
  BY DEF ConsentAt, ResolutionAt, g
<1>5. Absent.kind = "InForce" => Absent.at \in Nat
  BY DEF Absent
<1>. QED
  BY <1>2, <1>3, <1>4, <1>5

LEMMA GateNow ==
  ASSUME ConsentTypeOK
  PROVE  Len(rows) \in 0..Len(rows) /\ ConsentNow = ConsentAt(Len(rows))
  BY DEF ConsentTypeOK, ConsentNow, ConsentAt, Resolution

----------------------------------------------------------------------------
(* The inductive invariant.  A call on its way out remembers a moment of   *)
(* its own lifetime at which the gate was open; a stored batch, likewise.  *)
(* A seal is carried by one call or stored in one batch, and was handed    *)
(* over.                                                                   *)

OpenMoment(lo, hi, stamp) ==
  \E n \in lo..hi : Permits(ConsentAt(n)) /\ stamp = ConsentAt(n).stamp

JobInv(j) ==
  /\ j \in Job
  /\ j.pc = "idle" <=> j.seal = 0
  /\ j.pc # "idle" => j.seal \in 1..Len(sealed) /\ j.heard \in 0..Len(rows)
  /\ j.pc \in {"sign", "tee", "persist"} => OpenMoment(j.heard, Len(rows), j.stamp)
  /\ j.pc \in {"tee", "persist"} => j.signature = Canonical(j) /\ j.level # None

BatchInv(b) ==
  /\ b \in Batch
  /\ b.seal \in 1..Len(sealed)
  /\ b.stored <= Len(rows)
  /\ OpenMoment(b.heard, b.stored, b.stamp)
  /\ b.signature = Canonical(b) /\ b.level # None

TeeInv ==
  /\ tee_seq \in Nat
  /\ DOMAIN tee_files \subseteq Nat
  /\ \A m \in DOMAIN tee_files : tee_files[m] \in {Unwritten} \cup 1..Len(sealed)

Exclusive ==
  /\ \A i, j \in 1..Len(batches) : i # j => batches[i].seal # batches[j].seal
  /\ \A c, d \in Calls : (c # d /\ call[c].pc # "idle" /\ call[d].pc # "idle")
                           => call[c].seal # call[d].seal
  /\ \A c \in Calls, i \in 1..Len(batches) :
       call[c].pc # "idle" => call[c].seal # batches[i].seal

ClientInv ==
  /\ StoreTypeOK
  /\ ConsentInv
  /\ TeeInv
  /\ call \in [Calls -> Job]
  /\ \A c \in Calls : JobInv(call[c])
  /\ batches \in Seq(Batch)
  /\ \A i \in 1..Len(batches) : BatchInv(batches[i])
  /\ Exclusive

(* The store and the directory take a step of theirs or none.              *)
World == [StoreNext]_storeVars /\ [ConsentNext]_consentVars

LEMMA MomentStays ==
  ASSUME ConsentTypeOK, World, NEW lo \in Nat, NEW hi \in Nat, hi <= Len(rows),
         NEW stamp, OpenMoment(lo, hi, stamp)
  PROVE  \A h \in hi..Len(rows') : OpenMoment(lo, h, stamp)'
<1>1. /\ Len(rows) \in Nat /\ Len(rows') \in Nat /\ Len(rows) <= Len(rows')
      /\ \A n \in 0..Len(rows) : ConsentAt(n)' = ConsentAt(n)
  BY RowsGrow DEF World
<1>2. PICK n \in lo..hi : Permits(ConsentAt(n)) /\ stamp = ConsentAt(n).stamp
  BY DEF OpenMoment
<1>3. ConsentAt(n)' = ConsentAt(n)
  BY <1>1
<1>4. Permits(ConsentAt(n)') /\ stamp = ConsentAt(n)'.stamp
  BY <1>2, <1>3
<1>. QED
  BY <1>1, <1>4 DEF OpenMoment

(* What is true of a call or of a batch stays true while it rests.         *)
LEMMA JobRests ==
  ASSUME StoreTypeOK, ConsentTypeOK, World, NEW j, JobInv(j)
  PROVE  JobInv(j)'
<1>1. /\ Len(sealed) \in Nat /\ Len(sealed') \in Nat /\ Len(sealed) <= Len(sealed')
      /\ Len(rows) \in Nat /\ Len(rows') \in Nat /\ Len(rows) <= Len(rows')
  BY SealedGrows, RowsGrow DEF World
<1>2. j \in Job /\ j.heard \in Nat
  BY DEF JobInv, Job
<1>3. j.pc \in {"sign", "tee", "persist"} => OpenMoment(j.heard, Len(rows), j.stamp)
  BY DEF JobInv
<1>4. PICK hi \in Nat : hi = Len(rows)
  BY <1>1
<1>5. j.pc \in {"sign", "tee", "persist"} => OpenMoment(j.heard, hi, j.stamp)
  BY <1>3, <1>4
<1>6. j.pc \in {"sign", "tee", "persist"}
        => \A h \in hi..Len(rows') : OpenMoment(j.heard, h, j.stamp)'
  BY <1>1, <1>2, <1>4, <1>5, MomentStays
<1>7. PICK top \in Nat : top = Len(rows')
  BY <1>1
<1>8. j.pc \in {"sign", "tee", "persist"} => OpenMoment(j.heard, top, j.stamp)'
  BY <1>1, <1>4, <1>6, <1>7
<1>9. j.pc \in {"sign", "tee", "persist"} => OpenMoment(j.heard, Len(rows), j.stamp)'
  BY <1>7, <1>8 DEF OpenMoment
<1>. QED
  BY <1>1, <1>9 DEF JobInv

LEMMA BatchRests ==
  ASSUME StoreTypeOK, ConsentTypeOK, World, NEW b, BatchInv(b)
  PROVE  BatchInv(b)'
<1>1. /\ Len(sealed) \in Nat /\ Len(sealed') \in Nat /\ Len(sealed) <= Len(sealed')
      /\ Len(rows) \in Nat /\ Len(rows') \in Nat /\ Len(rows) <= Len(rows')
  BY SealedGrows, RowsGrow DEF World
<1>2. b.heard \in Nat /\ b.stored \in Nat /\ b.stored <= Len(rows)
  BY DEF BatchInv, Batch
<1>3. \A h \in b.stored..Len(rows') : OpenMoment(b.heard, h, b.stamp)'
  BY <1>2, MomentStays DEF BatchInv
<1>4. OpenMoment(b.heard, b.stored, b.stamp)'
  BY <1>1, <1>2, <1>3
<1>. QED
  BY <1>1, <1>2, <1>4 DEF BatchInv

LEMMA IdleIsFine == JobInv(Idle) /\ JobInv(Idle)'
  BY StoreAssumption, ConsentAssumption
  DEF JobInv, Idle, Job, PCs, StampOrNot, Signature

(* What a step does with the calls and the batches, apart from the rest.   *)
Takes(c) ==
  /\ call[c].pc = "idle"
  /\ \E j : /\ call' = [call EXCEPT ![c] = j]
            /\ j.pc # "idle" /\ j.seal = Len(sealed) + 1
  /\ Len(sealed') = Len(sealed) + 1
  /\ UNCHANGED batches

Moves(c) ==
  /\ call[c].pc # "idle"
  /\ \E j : /\ call' = [call EXCEPT ![c] = j]
            /\ j.pc # "idle" /\ j.seal = call[c].seal
  /\ UNCHANGED <<storeVars, batches>>

Ends(c) ==
  /\ call[c].pc # "idle"
  /\ Finish(c)
  /\ UNCHANGED <<storeVars, consentVars, tee_seq, tee_files, batches>>

Stores(c) ==
  /\ call[c].pc = "persist"
  /\ Finish(c)
  /\ batches' = Append(batches, BatchOf(call[c]))
  /\ UNCHANGED <<storeVars, consentVars, tee_seq, tee_files>>

LEMMA AdvanceShape ==
  ASSUME NEW c \in Calls, Advance(c) \/ Cancel(c)
  PROVE  \/ ConsentGranted(c) \/ SealSignWrap(c) \/ TeeWrite(c)
         \/ Ends(c) \/ Stores(c)
<1>1. CASE ConsentBlocked(c) \/ ConsentUnreadable(c) \/ SignFails(c)
  BY <1>1 DEF ConsentBlocked, ConsentUnreadable, SignFails, Ends
<1>2. CASE Persist(c) \/ PersistFails(c)
  BY <1>2 DEF Persist, PersistFails, Ends, Stores
<1>3. CASE Cancel(c)
  BY <1>3 DEF Cancel, Ends, Stores
<1>. QED
  BY <1>1, <1>2, <1>3 DEF Advance

(* The three steps that move a call on, each with what it must preserve.   *)
LEMMA GrantedMoves ==
  ASSUME ClientInv, NEW c \in Calls, ConsentGranted(c)
  PROVE  Moves(c) /\ JobInv(call[c])'
<1>. DEFINE res == ConsentNow
<1>1. PICK j \in Job : j = call[c]
  BY DEF ClientInv
<1>2. PICK k : k = [j EXCEPT !.pc = "sign", !.stamp = res.stamp]
  OBVIOUS
<1>3. /\ j.pc = "consent" /\ JobInv(j) /\ Permits(res)
      /\ call' = [call EXCEPT ![c] = k] /\ call \in [Calls -> Job]
      /\ UNCHANGED <<sealed, rows, config, storeVars, batches>>
  BY <1>1, <1>2 DEF ConsentGranted, ClientInv, storeVars, consentVars
<1>4. /\ Len(rows) \in Nat /\ res = ConsentAt(Len(rows)) /\ res.stamp \in StampOrNot
  BY GateNow, ConsentAtType DEF ClientInv, ConsentInv, ConsentTypeOK
<1>5. /\ k \in Job /\ k.pc = "sign" /\ k.seal = j.seal /\ k.heard = j.heard
      /\ k.stamp = res.stamp
  BY <1>2, <1>4 DEF Job, PCs
<1>6. call'[c] = k
  BY <1>3
<1>7. OpenMoment(k.heard, Len(rows), k.stamp)
  BY <1>3, <1>4, <1>5 DEF OpenMoment, JobInv
<1>8. JobInv(k)
  BY <1>3, <1>5, <1>7 DEF JobInv
<1>9. JobInv(k)'
  BY <1>3, <1>8
  DEF JobInv, OpenMoment, ConsentAt, ResolutionAt, RowsUpTo
<1>10. Moves(c)
  BY <1>1, <1>3, <1>5 DEF Moves
<1>. QED
  BY <1>6, <1>9, <1>10

LEMMA SigningKeeps ==
  ASSUME NEW j \in Job, NEW k, k = [StampThenSign(j) EXCEPT !.pc = "tee"]
  PROVE  /\ k \in Job /\ k.pc = "tee" /\ k.seal = j.seal /\ k.heard = j.heard
         /\ k.stamp = j.stamp
         /\ k.signature = Canonical(k) /\ k.level # None
<1>. DEFINE lv == FirstKnown(j.level, ClientLevel)
            s  == [seal |-> j.seal, level |-> lv]
<1>1. lv \in Levels
  BY StoreAssumption, ClientAssumption DEF FirstKnown, Job
<1>2. s \in Signature
  BY <1>1 DEF Signature, Job
<1>3. Stamped(j) = [j EXCEPT !.level = lv]
  BY DEF Stamped, Job
<1>4. Canonical(Stamped(j)) = s
  BY <1>3 DEF Canonical, Job
<1>. HIDE DEF lv, s
<1>5. k = [[[j EXCEPT !.level = lv] EXCEPT !.signature = s] EXCEPT !.pc = "tee"]
  BY <1>3, <1>4 DEF StampThenSign
<1>6. /\ k \in Job /\ k.pc = "tee" /\ k.seal = j.seal /\ k.heard = j.heard
      /\ k.stamp = j.stamp /\ k.level = lv /\ k.signature = s
  BY <1>1, <1>2, <1>5 DEF Job, PCs
<1>. QED
  BY <1>1, <1>6, StoreAssumption DEF Canonical, s

LEMMA SignMoves ==
  ASSUME ClientInv, NEW c \in Calls, SealSignWrap(c)
  PROVE  Moves(c) /\ JobInv(call[c])'
<1>1. PICK j \in Job : j = call[c]
  BY DEF ClientInv
<1>2. PICK k : k = [StampThenSign(j) EXCEPT !.pc = "tee"]
  OBVIOUS
<1>3. /\ j.pc = "sign" /\ JobInv(j)
      /\ call' = [call EXCEPT ![c] = k] /\ call \in [Calls -> Job]
      /\ UNCHANGED <<sealed, rows, config, storeVars, batches>>
  BY <1>1, <1>2 DEF SealSignWrap, ClientInv, storeVars, consentVars
<1>4. /\ k \in Job /\ k.pc = "tee" /\ k.seal = j.seal /\ k.heard = j.heard
      /\ k.stamp = j.stamp
      /\ k.signature = Canonical(k) /\ k.level # None
  BY <1>2, SigningKeeps
<1>5. call'[c] = k
  BY <1>3
<1>6. JobInv(k)
  BY <1>3, <1>4 DEF JobInv
<1>7. JobInv(k)'
  BY <1>3, <1>6
  DEF JobInv, OpenMoment, ConsentAt, ResolutionAt, RowsUpTo
<1>8. Moves(c)
  BY <1>1, <1>3, <1>4 DEF Moves
<1>. QED
  BY <1>5, <1>7, <1>8

LEMMA TeeMoves ==
  ASSUME ClientInv, NEW c \in Calls, TeeWrite(c)
  PROVE  Moves(c) /\ JobInv(call[c])'
<1>1. PICK j \in Job : j = call[c]
  BY DEF ClientInv
<1>2. PICK k : k = [j EXCEPT !.pc = "persist"]
  OBVIOUS
<1>3. /\ j.pc = "tee" /\ JobInv(j)
      /\ call' = [call EXCEPT ![c] = k] /\ call \in [Calls -> Job]
      /\ UNCHANGED <<sealed, rows, config, storeVars, batches>>
  BY <1>1, <1>2 DEF TeeWrite, ClientInv, storeVars, consentVars
<1>4. /\ k \in Job /\ k.pc = "persist" /\ k.seal = j.seal /\ k.heard = j.heard
      /\ k.stamp = j.stamp /\ k.signature = j.signature /\ k.level = j.level
  BY <1>2 DEF Job, PCs
<1>5. call'[c] = k
  BY <1>3
<1>6. JobInv(k)
  BY <1>3, <1>4 DEF JobInv, Canonical
<1>7. JobInv(k)'
  BY <1>3, <1>6
  DEF JobInv, OpenMoment, ConsentAt, ResolutionAt, RowsUpTo
<1>8. Moves(c)
  BY <1>1, <1>3, <1>4 DEF Moves
<1>. QED
  BY <1>5, <1>7, <1>8

(* The call whose event sealed a trace starts with the one it sealed.      *)
LEMMA SealingTakes ==
  ASSUME ClientInv, World, NEW c \in Calls, NEW ev \in Inbound, NEW ts \in Stamp,
         CaptureSealing(c, ev, ts)
  PROVE  Takes(c) /\ JobInv(call[c])'
<1>. DEFINE lv == Assembled(ev, ts).trace_level
<1>1. PICK k : k = [pc |-> "consent", seal |-> Len(sealed) + 1,
                    heard |-> Len(rows), stamp |-> NoStamp,
                    level |-> lv, signature |-> None]
  OBVIOUS
<1>2. /\ call' = [call EXCEPT ![c] = k] /\ call \in [Calls -> Job]
      /\ call[c].pc = "idle" /\ CaptureSeal(ev, ts)
      /\ UNCHANGED <<rows, config, batches>>
  BY <1>1 DEF CaptureSealing, ClientInv, consentVars
<1>3. StoreTypeOK /\ ConsentTypeOK /\ ts \in Stamps /\ Known(ev)
  BY <1>2, StampsType DEF ClientInv, ConsentInv, CaptureSeal, Accept
<1>4. lv \in Levels \cup {None}
  BY <1>3, AssembledTrace DEF CompleteTrace
<1>5. /\ Len(sealed) \in Nat /\ Len(sealed') = Len(sealed) + 1 /\ Len(rows) \in Nat
  BY <1>2, <1>3, SealEffect DEF StoreTypeOK, ConsentTypeOK
<1>. HIDE DEF lv
<1>6. /\ k \in Job /\ k.pc = "consent" /\ k.seal = Len(sealed')
      /\ k.heard = Len(rows')
  BY <1>1, <1>2, <1>4, <1>5 DEF Job, PCs, StampOrNot
<1>7. JobInv(k)'
  BY <1>2, <1>5, <1>6 DEF JobInv
<1>8. call'[c] = k
  BY <1>2
<1>9. Takes(c)
  BY <1>2, <1>5, <1>6 DEF Takes
<1>. QED
  BY <1>7, <1>8, <1>9

(* Every step of client mode has one of these shapes.                      *)
LEMMA ClientShape ==
  ASSUME ClientInv, World, [ClientNext]_clientVars
  PROVE  \/ UNCHANGED <<call, batches>>
         \/ \E c \in Calls : (Takes(c) \/ Moves(c)) /\ JobInv(call[c])'
         \/ \E c \in Calls : Ends(c)
         \/ \E c \in Calls : Stores(c)
         \/ call' = [c \in Calls |-> Idle] /\ UNCHANGED batches
<1>1. CASE UNCHANGED clientVars
  BY <1>1 DEF clientVars
<1>2. ASSUME NEW c \in Calls, Advance(c) \/ Cancel(c)
      PROVE  Ends(c) \/ Stores(c) \/ (Moves(c) /\ JobInv(call[c])')
  BY <1>2, AdvanceShape, GrantedMoves, SignMoves, TeeMoves
<1>3. ASSUME NEW c \in Calls, NEW ev \in Inbound, NEW ts \in Stamp,
             CaptureSealing(c, ev, ts)
      PROVE  Takes(c) /\ JobInv(call[c])'
  BY <1>3, SealingTakes
<1>4. ASSUME NEW c \in Calls, NEW ev \in Inbound, NEW ts \in Stamp,
             CaptureInFlight(c, ev, ts)
      PROVE  UNCHANGED <<call, batches>>
  BY <1>4 DEF CaptureInFlight
<1>5. ASSUME NEW c \in Calls, NEW ev \in Inbound, CaptureRejected(c, ev)
      PROVE  UNCHANGED <<call, batches>>
  BY <1>5 DEF CaptureRejected
<1>6. CASE Housekeeping \/ Attestations
  BY <1>6 DEF Housekeeping, Attestations
<1>7. CASE Crash
  BY <1>7 DEF Crash
<1>. QED
  BY <1>1, <1>2, <1>3, <1>4, <1>5, <1>6, <1>7 DEF ClientNext

LEMMA JobsNext ==
  ASSUME ClientInv, World, [ClientNext]_clientVars
  PROVE  call' \in [Calls -> Job] /\ \A c \in Calls : JobInv(call[c])'
<1>0. /\ StoreTypeOK /\ ConsentTypeOK /\ call \in [Calls -> Job]
      /\ \A c \in Calls : JobInv(call[c])
  BY DEF ClientInv, ConsentInv
<1>1. ASSUME NEW c \in Calls, call'[c] = call[c]
      PROVE  JobInv(call[c])'
  <2>1. PICK j : j = call[c]
    OBVIOUS
  <2>2. JobInv(j)'
    BY <1>0, <2>1, JobRests
  <2>. QED
    BY <1>1, <2>1, <2>2
<1>2. ASSUME NEW c \in Calls, call'[c] = Idle
      PROVE  JobInv(call[c])'
  BY <1>2, IdleIsFine
<1>3. ASSUME NEW c \in Calls, NEW j, call' = [call EXCEPT ![c] = j], JobInv(call[c])'
      PROVE  \A d \in Calls : JobInv(call[d])'
  <2>1. \A d \in Calls \ {c} : call'[d] = call[d]
    BY <1>3
  <2>. QED
    BY <1>1, <1>3, <2>1
<1>4. ASSUME \A c \in Calls : JobInv(call[c])', NEW g, call' = [c \in Calls |-> g[c]]
      PROVE  call' \in [Calls -> Job]
  BY <1>4 DEF JobInv
<1>5. CASE UNCHANGED <<call, batches>>
  BY <1>0, <1>1, <1>5
<1>6. ASSUME NEW c \in Calls, Takes(c) \/ Moves(c), JobInv(call[c])'
      PROVE  call' \in [Calls -> Job] /\ \A d \in Calls : JobInv(call[d])'
  <2>1. PICK j : call' = [call EXCEPT ![c] = j]
    BY <1>6 DEF Takes, Moves
  <2>2. \A d \in Calls : JobInv(call[d])'
    BY <1>3, <1>6, <2>1
  <2>3. j \in Job
    BY <1>0, <1>6, <2>1 DEF JobInv
  <2>. QED
    BY <1>0, <2>1, <2>2, <2>3
<1>7. ASSUME NEW c \in Calls, Ends(c) \/ Stores(c)
      PROVE  call' \in [Calls -> Job] /\ \A d \in Calls : JobInv(call[d])'
  <2>1. call' = [call EXCEPT ![c] = Idle]
    BY <1>7 DEF Ends, Stores, Finish
  <2>2. JobInv(call[c])'
    BY <1>0, <1>2, <2>1
  <2>3. Idle \in Job
    BY IdleIsFine DEF JobInv
  <2>. QED
    BY <1>0, <1>3, <2>1, <2>2, <2>3
<1>8. CASE call' = [c \in Calls |-> Idle]
  BY <1>2, <1>8, IdleIsFine DEF JobInv
<1>. QED
  BY <1>5, <1>6, <1>7, <1>8, ClientShape

(* A batch that is stored is what its call had signed, under its stamp.    *)
LEMMA StoredIsFine ==
  ASSUME ClientInv, NEW c \in Calls, Stores(c)
  PROVE  BatchInv(BatchOf(call[c]))
<1>1. PICK j \in Job : j = call[c]
  BY DEF ClientInv
<1>2. JobInv(j) /\ j.pc = "persist" /\ Len(rows) \in Nat
  BY <1>1 DEF ClientInv, Stores, ConsentInv, ConsentTypeOK
<1>3. /\ j.seal \in 1..Len(sealed) /\ OpenMoment(j.heard, Len(rows), j.stamp)
      /\ j.signature = Canonical(j) /\ j.level # None
  BY <1>2 DEF JobInv
<1>4. PICK b : b = BatchOf(j)
  OBVIOUS
<1>5. b = [seal |-> j.seal, stamp |-> j.stamp, trace_level |-> ClientLevel,
           level |-> j.level, signature |-> j.signature,
           heard |-> j.heard, stored |-> Len(rows)]
  BY <1>4 DEF BatchOf
<1>6. /\ b \in Batch /\ b.seal = j.seal /\ b.stamp = j.stamp /\ b.level = j.level
      /\ b.signature = j.signature /\ b.heard = j.heard /\ b.stored = Len(rows)
  BY <1>2, <1>5, ClientAssumption DEF Batch, Job
<1>7. BatchInv(b)
  BY <1>2, <1>3, <1>6 DEF BatchInv, Canonical
<1>. QED
  BY <1>1, <1>4, <1>7

LEMMA BatchesNext ==
  ASSUME ClientInv, World, [ClientNext]_clientVars
  PROVE  batches' \in Seq(Batch) /\ \A i \in 1..Len(batches') : BatchInv(batches[i])'
<1>0. /\ StoreTypeOK /\ ConsentTypeOK /\ batches \in Seq(Batch)
      /\ Len(batches) \in Nat
  BY DEF ClientInv, ConsentInv
<1>1. ASSUME NEW i \in 1..Len(batches), batches'[i] = batches[i]
      PROVE  BatchInv(batches[i])'
  <2>1. PICK b : b = batches[i] /\ BatchInv(b)
    BY DEF ClientInv
  <2>2. BatchInv(b)'
    BY <1>0, <2>1, BatchRests
  <2>. QED
    BY <1>1, <2>1, <2>2
<1>2. CASE UNCHANGED batches
  BY <1>0, <1>1, <1>2
<1>3. ASSUME NEW c \in Calls, Stores(c)
      PROVE  batches' \in Seq(Batch)
               /\ \A i \in 1..Len(batches') : BatchInv(batches[i])'
  <2>1. PICK b : b = BatchOf(call[c])
    OBVIOUS
  <2>2. b \in Batch /\ BatchInv(b)
    BY <1>3, <2>1, StoredIsFine DEF BatchInv
  <2>3. /\ batches' = Append(batches, b) /\ batches' \in Seq(Batch)
        /\ Len(batches') = Len(batches) + 1 /\ batches'[Len(batches) + 1] = b
        /\ \A i \in 1..Len(batches) : batches'[i] = batches[i]
    BY <1>0, <1>3, <2>1, <2>2 DEF Stores
  <2>4. BatchInv(b)'
    BY <1>0, <2>2, BatchRests
  <2>5. PICK n : n = Len(batches) + 1
    OBVIOUS
  <2>6. BatchInv(batches[n])'
    BY <2>3, <2>4, <2>5
  <2>7. ASSUME NEW i \in 1..Len(batches'), i # n
        PROVE  BatchInv(batches[i])'
    BY <1>0, <1>1, <2>3, <2>5, <2>7
  <2>. QED
    BY <2>3, <2>6, <2>7
<1>4. UNCHANGED batches \/ \E c \in Calls : Stores(c)
  BY ClientShape DEF Takes, Moves, Ends
<1>. QED
  BY <1>2, <1>3, <1>4

LEMMA TeeNext ==
  ASSUME ClientInv, World, [ClientNext]_clientVars
  PROVE  TeeInv'
<1>0. /\ TeeInv /\ Len(sealed) \in Nat /\ Len(sealed') \in Nat
      /\ Len(sealed) <= Len(sealed')
  BY SealedGrows DEF ClientInv, World
<1>1. CASE UNCHANGED <<tee_seq, tee_files>>
  BY <1>0, <1>1 DEF TeeInv
<1>2. CASE tee_seq' = 0 /\ UNCHANGED tee_files
  BY <1>0, <1>2 DEF TeeInv
<1>3. ASSUME NEW c \in Calls, TeeWrite(c), HasTee
      PROVE  TeeInv'
  <2>1. call[c].seal \in 1..Len(sealed) /\ UNCHANGED sealed
    BY <1>3 DEF ClientInv, JobInv, TeeWrite, storeVars
  <2>2. PICK x \in {Unwritten} \cup 1..Len(sealed) : tee_files' = Written(tee_seq, x)
    BY <1>3, <2>1 DEF TeeWrite
  <2>3. tee_seq' = tee_seq + 1
    BY <1>3 DEF TeeWrite, TeeSeqNext
  <2>. QED
    BY <1>0, <2>1, <2>2, <2>3 DEF TeeInv, Written
<1>4. ASSUME NEW c \in Calls, Advance(c) \/ Cancel(c)
      PROVE  UNCHANGED <<tee_seq, tee_files>> \/ (TeeWrite(c) /\ HasTee)
  BY <1>4, AdvanceShape DEF ConsentGranted, SealSignWrap, TeeWrite, Ends, Stores
<1>5. ASSUME NEW c \in Calls, NEW ev \in Inbound, NEW ts \in Stamp,
             CaptureInFlight(c, ev, ts) \/ CaptureSealing(c, ev, ts)
      PROVE  UNCHANGED <<tee_seq, tee_files>>
  BY <1>5 DEF CaptureInFlight, CaptureSealing
<1>6. ASSUME NEW c \in Calls, NEW ev \in Inbound, CaptureRejected(c, ev)
      PROVE  UNCHANGED <<tee_seq, tee_files>>
  BY <1>6 DEF CaptureRejected
<1>. QED
  BY <1>1, <1>2, <1>3, <1>4, <1>5, <1>6
  DEF ClientNext, Housekeeping, Attestations, Crash, clientVars

(* A seal that was not there before is nobody else's; one that a call let  *)
(* go of is at most in the batch it stored.                                *)
LEMMA ExclusiveNext ==
  ASSUME ClientInv, World, [ClientNext]_clientVars
  PROVE  Exclusive'
<1>0. /\ Exclusive /\ call \in [Calls -> Job] /\ Len(batches) \in Nat
      /\ batches \in Seq(Batch) /\ Len(sealed) \in Nat
      /\ \A c \in Calls : call[c].pc # "idle" => call[c].seal \in 1..Len(sealed)
      /\ \A i \in 1..Len(batches) : batches[i].seal \in 1..Len(sealed)
  BY DEF ClientInv, JobInv, BatchInv, StoreTypeOK
<1>1. CASE UNCHANGED <<call, batches>>
  BY <1>0, <1>1 DEF Exclusive
<1>2. ASSUME NEW c \in Calls, Takes(c)
      PROVE  Exclusive'
  <2>1. PICK j : /\ call' = [call EXCEPT ![c] = j]
                 /\ j.pc # "idle" /\ j.seal = Len(sealed) + 1
    BY <1>2 DEF Takes
  <2>2. /\ call'[c] = j /\ batches' = batches
        /\ \A d \in Calls \ {c} : call'[d] = call[d]
    BY <1>0, <1>2, <2>1 DEF Takes
  <2>3. /\ \A d \in Calls : call[d].pc # "idle" => call[d].seal # j.seal
        /\ \A i \in 1..Len(batches) : batches[i].seal # j.seal
    BY <1>0, <2>1
  <2>. QED
    BY <1>0, <2>1, <2>2, <2>3 DEF Exclusive
<1>3. ASSUME NEW c \in Calls, Moves(c)
      PROVE  Exclusive'
  <2>1. PICK j : /\ call' = [call EXCEPT ![c] = j]
                 /\ j.pc # "idle" /\ j.seal = call[c].seal
    BY <1>3 DEF Moves
  <2>2. /\ call'[c] = j /\ batches' = batches /\ call[c].pc # "idle"
        /\ \A d \in Calls \ {c} : call'[d] = call[d]
    BY <1>0, <1>3, <2>1 DEF Moves
  <2>. QED
    BY <1>0, <2>1, <2>2 DEF Exclusive
<1>4. ASSUME NEW c \in Calls, Ends(c)
      PROVE  Exclusive'
  <2>1. /\ call'[c].pc = "idle" /\ batches' = batches
        /\ \A d \in Calls \ {c} : call'[d] = call[d]
    BY <1>0, <1>4 DEF Ends, Finish, Idle
  <2>. QED
    BY <1>0, <2>1 DEF Exclusive
<1>5. ASSUME NEW c \in Calls, Stores(c)
      PROVE  Exclusive'
  <2>1. /\ call'[c].pc = "idle" /\ call[c].pc # "idle"
        /\ \A d \in Calls \ {c} : call'[d] = call[d]
    BY <1>0, <1>5 DEF Stores, Finish, Idle
  <2>2. PICK b : b = BatchOf(call[c])
    OBVIOUS
  <2>3. b \in Batch /\ b.seal = call[c].seal
    BY <1>5, <2>2, StoredIsFine DEF BatchInv, BatchOf
  <2>4. /\ Len(batches') = Len(batches) + 1 /\ batches'[Len(batches) + 1] = b
        /\ \A i \in 1..Len(batches) : batches'[i] = batches[i]
    BY <1>0, <1>5, <2>2, <2>3 DEF Stores
  <2>5. 1..Len(batches') = (1..Len(batches)) \cup {Len(batches) + 1}
    BY <1>0, <2>4
  <2>6. \A i \in 1..Len(batches) : batches[i].seal # b.seal
    BY <2>1, <2>3 DEF ClientInv, Exclusive
  <2>7. \A d \in Calls \ {c} : call[d].pc # "idle" => call[d].seal # b.seal
    BY <2>1, <2>3 DEF ClientInv, Exclusive
  <2>8. \A i, j \in 1..Len(batches') :
          i # j => batches'[i].seal # batches'[j].seal
    BY <1>0, <2>4, <2>5, <2>6 DEF Exclusive
  <2>9. \A d \in Calls, i \in 1..Len(batches') :
          call'[d].pc # "idle" => call'[d].seal # batches'[i].seal
    BY <1>0, <2>1, <2>4, <2>5, <2>7 DEF Exclusive
  <2>10. \A d, e \in Calls : (d # e /\ call'[d].pc # "idle" /\ call'[e].pc # "idle")
                               => call'[d].seal # call'[e].seal
    BY <1>0, <2>1 DEF Exclusive
  <2>. QED
    BY <2>8, <2>9, <2>10 DEF Exclusive
<1>6. CASE call' = [c \in Calls |-> Idle] /\ UNCHANGED batches
  <2>1. \A c \in Calls : call'[c].pc = "idle"
    BY <1>6 DEF Idle
  <2>. QED
    BY <1>0, <1>6, <2>1 DEF Exclusive
<1>. QED
  BY <1>1, <1>2, <1>3, <1>4, <1>5, <1>6, ClientShape

LEMMA ClientInvNext ==
  ASSUME ClientInv, [ClientNext]_clientVars
  PROVE  ClientInv'
<1>1. World
  BY ClientStoreStep, ClientConsentStep DEF World
<1>2. StoreTypeOK' /\ ConsentInv'
  BY <1>1, TypeNext, ConsentInvNext DEF ClientInv, World
<1>. QED
  BY <1>1, <1>2, JobsNext, BatchesNext, TeeNext, ExclusiveNext DEF ClientInv

LEMMA ClientInvInit == ClientInit => ClientInv
<1>. SUFFICES ASSUME ClientInit PROVE ClientInv
  OBVIOUS
<1>1. StoreTypeOK /\ ConsentInv
  BY TypeInit, ConsentInvInit DEF ClientInit
<1>2. call \in [Calls -> Job] /\ \A c \in Calls : JobInv(call[c])
  BY IdleIsFine DEF ClientInit, JobInv
<1>3. TeeInv
  BY DEF ClientInit, TeeInv
<1>4. batches = <<>>
  BY DEF ClientInit
<1>5. Exclusive
  BY <1>4 DEF ClientInit, Exclusive, Idle
<1>. QED
  BY <1>1, <1>2, <1>3, <1>4, <1>5 DEF ClientInv

LEMMA ClientInvariant == ClientSafetySpec => []ClientInv
<1>1. ClientInv /\ [ClientNext]_clientVars => ClientInv'
  BY ClientInvNext
<1>. QED
  BY <1>1, ClientInvInit, PTL DEF ClientSafetySpec

LEMMA ClientShapesHold ==
  ASSUME ClientInv
  PROVE  ClientTypeOK
<1>1. ASSUME NEW c \in Calls
      PROVE  /\ call[c].pc = "idle" <=> call[c].seal = 0
             /\ call[c].pc \in {"sign", "tee", "persist"} => call[c].stamp # NoStamp
             /\ call[c].pc \in {"tee", "persist"} => call[c].signature # None
  <2>1. PICK j \in Job : j = call[c] /\ JobInv(j)
    BY DEF ClientInv
  <2>2. j.pc \in {"sign", "tee", "persist"} => j.stamp # NoStamp
    <3>1. j.heard \in Nat /\ Len(rows) \in Nat /\ ConsentTypeOK
      BY DEF Job, ClientInv, ConsentInv, ConsentTypeOK
    <3>2. ASSUME j.pc \in {"sign", "tee", "persist"}
          PROVE  j.stamp # NoStamp
      <4>1. PICK n \in j.heard..Len(rows) :
              Permits(ConsentAt(n)) /\ j.stamp = ConsentAt(n).stamp
        BY <2>1, <3>2 DEF JobInv, OpenMoment
      <4>. QED
        BY <3>1, <4>1, ConsentAtType
    <3>. QED
      BY <3>2
  <2>3. j.pc \in {"tee", "persist"} => j.signature # None
    <3>1. Canonical(j) \in Signature
      BY DEF Canonical, Signature, Job
    <3>. QED
      BY <2>1, <3>1, SignatureAssumption DEF JobInv
  <2>. QED
    BY <2>1, <2>2, <2>3 DEF JobInv
<1>. QED
  BY <1>1 DEF ClientInv, ClientTypeOK, ConsentInv, TeeInv

(* Every variable of client mode keeps its shape, and a call past a stage  *)
(* holds what the stage gave it (client.rs:96-140, 513-675).               *)
THEOREM ClientTypeCorrect == ClientSafetySpec => []ClientTypeOK
<1>1. ClientInv => ClientTypeOK
  BY ClientShapesHold
<1>. QED
  BY <1>1, ClientInvariant, PTL

(* However calls interleave, fail, are cancelled or restarted, no sealed   *)
(* trace is stored twice, no two calls carry the same one, and none is     *)
(* carried on after it was stored (client.rs:622-675).                     *)
THEOREM EachSealAtMostOnce == ClientSafetySpec => []AtMostOnce
<1>1. ClientInv => AtMostOnce
  <2>. SUFFICES ASSUME ClientInv PROVE AtMostOnce
    OBVIOUS
  <2>. QED
    BY ClientShapesHold DEF ClientInv, Exclusive, AtMostOnce, Held, Stored
<1>. QED
  BY <1>1, ClientInvariant, PTL

(* No batch is stored unless the gate was open at some moment between its  *)
(* seal and its storage, and it carries the stamp of that moment           *)
(* (client.rs:513-545).                                                    *)
THEOREM ConsentAlwaysCovers == ClientSafetySpec => []ConsentCovers
<1>1. ClientInv => ConsentCovers
  BY DEF ClientInv, BatchInv, OpenMoment, ConsentCovers
<1>. QED
  BY <1>1, ClientInvariant, PTL

(* What the Engine verifies is what was signed (client.rs:290-305).        *)
THEOREM StoredAsSigned == ClientSafetySpec => []SignedAsStored
<1>1. ClientInv => SignedAsStored
  BY DEF ClientInv, BatchInv, SignedAsStored
<1>. QED
  BY <1>1, ClientInvariant, PTL

----------------------------------------------------------------------------
(* Client mode implements the abstract delivery of TraceDelivery.tla.  The *)
(* outcome of a trace is read off the calls and the batches; that a seal   *)
(* is in one place only (Exclusive) is what keeps an outcome once decided. *)

OutcomeBar == [n \in 1..Len(sealed) |-> IF Stored(n) THEN "stored"
                                        ELSE IF Held(n) THEN "open" ELSE "dropped"]

LEMMA DeliveryCounts ==
  ASSUME NEW items, NEW n, NEW e
  PROVE  Delivery!CountOf(items, n, e) = Assembly!CountOf(items, n, e)
<1>1. Delivery!CountOf(items, n, e) = CountOf(items, n, e)
  BY DEF CountOf, Delivery!CountOf, Delivery!Cardinality, Cardinality
<1>. QED
  BY <1>1, CountsAgree

LEMMA DeliveryItems ==
  ASSUME NEW t, NEW e, NEW id
  PROVE  Delivery!NextItem(t, e, id) = Assembly!NextItem(t, e, id)
  BY DeliveryCounts DEF Delivery!NextItem, Assembly!NextItem

(* Gathering and losing are the same in both abstract specifications.      *)
LEMMA DeliveryAssembles ==
  /\ \A t, e, id : Assembly!Gather(t, e, id) => Delivery!Gather(t, e, id)
  /\ \A S : Assembly!Lose(S) => Delivery!Lose(S)
<1>1. ASSUME NEW t, NEW e, NEW id, Assembly!Gather(t, e, id)
      PROVE  Delivery!Gather(t, e, id)
  BY <1>1, DeliveryItems DEF Delivery!Gather, Assembly!Gather
<1>2. ASSUME NEW S, Assembly!Lose(S)
      PROVE  Delivery!Lose(S)
  BY <1>2 DEF Delivery!Lose, Assembly!Lose
<1>. QED
  BY <1>1, <1>2

LEMMA OutcomeRests ==
  ASSUME UNCHANGED <<call, batches, sealed>>
  PROVE  OutcomeBar' = OutcomeBar
  BY DEF OutcomeBar, Stored, Held

LEMMA OutcomeMoves ==
  ASSUME ClientInv, NEW c \in Calls, Moves(c)
  PROVE  OutcomeBar' = OutcomeBar
<1>1. PICK j : /\ call' = [call EXCEPT ![c] = j]
               /\ j.pc # "idle" /\ j.seal = call[c].seal
  BY DEF Moves
<1>2. /\ call \in [Calls -> Job] /\ call[c].pc # "idle"
      /\ UNCHANGED <<sealed, batches>>
  BY DEF Moves, ClientInv, storeVars
<1>3. \A n : Held(n)' <=> Held(n)
  BY <1>1, <1>2 DEF Held
<1>4. \A n : Stored(n)' <=> Stored(n)
  BY <1>2 DEF Stored
<1>. QED
  BY <1>2, <1>3, <1>4 DEF OutcomeBar

(* A new trace starts open.                                                *)
LEMMA OutcomeTakes ==
  ASSUME ClientInv, NEW c \in Calls, Takes(c)
  PROVE  OutcomeBar' = Append(OutcomeBar, "open")
<1>1. PICK j : /\ call' = [call EXCEPT ![c] = j]
               /\ j.pc # "idle" /\ j.seal = Len(sealed) + 1
  BY DEF Takes
<1>2. /\ call \in [Calls -> Job] /\ call[c].pc = "idle" /\ UNCHANGED batches
      /\ Len(sealed) \in Nat /\ Len(sealed') = Len(sealed) + 1
      /\ \A i \in 1..Len(batches) : batches[i].seal \in 1..Len(sealed)
  BY DEF Takes, ClientInv, BatchInv, StoreTypeOK
<1>3. \A n : Stored(n)' <=> Stored(n)
  BY <1>2 DEF Stored
<1>4. \A n \in 1..Len(sealed) : Held(n)' <=> Held(n)
  BY <1>1, <1>2 DEF Held
<1>5. PICK new : new = Len(sealed) + 1
  OBVIOUS
<1>6. Held(new)' /\ ~Stored(new)'
  <2>1. call'[c].pc # "idle" /\ call'[c].seal = new
    BY <1>1, <1>2, <1>5
  <2>. QED
    BY <1>2, <1>5, <2>1 DEF Held, Stored
<1>7. /\ Len(OutcomeBar) = Len(sealed)
      /\ Append(OutcomeBar, "open") =
           [n \in 1..new |-> IF n = new THEN "open" ELSE OutcomeBar[n]]
  <2>1. Len(OutcomeBar) = Len(sealed)
    BY <1>2 DEF OutcomeBar
  <2>. QED
    BY <1>2, <1>5, <2>1 DEF OutcomeBar
<1>8. OutcomeBar' = [n \in 1..new |-> IF Stored(n)' THEN "stored"
                                      ELSE IF Held(n)' THEN "open" ELSE "dropped"]
  BY <1>2, <1>5 DEF OutcomeBar
<1>9. ASSUME NEW n \in 1..new
      PROVE  (IF Stored(n)' THEN "stored" ELSE IF Held(n)' THEN "open" ELSE "dropped")
               = IF n = new THEN "open" ELSE OutcomeBar[n]
  <2>1. CASE n = new
    BY <1>6, <2>1
  <2>2. CASE n \in 1..Len(sealed)
    BY <1>2, <1>3, <1>4, <1>5, <2>2 DEF OutcomeBar
  <2>. QED
    BY <1>2, <1>5, <2>1, <2>2
<1>. QED
  BY <1>7, <1>8, <1>9

(* The trace of a call that ends, or stores it, was open until now.        *)
LEMMA HeldIsOpen ==
  ASSUME ClientInv, NEW c \in Calls, call[c].pc # "idle"
  PROVE  /\ call[c].seal \in 1..Len(sealed)
         /\ OutcomeBar[call[c].seal] = "open"
         /\ \A n : Held(n) => n = call[c].seal
                     \/ \E d \in Calls \ {c} : call[d].pc # "idle" /\ call[d].seal = n
         /\ \A d \in Calls \ {c} : call[d].pc # "idle" => call[d].seal # call[c].seal
<1>1. call[c].seal \in 1..Len(sealed)
  BY DEF ClientInv, JobInv
<1>2. Held(call[c].seal) /\ ~Stored(call[c].seal)
  BY DEF Held, Stored, ClientInv, Exclusive
<1>3. \A d \in Calls \ {c} : call[d].pc # "idle" => call[d].seal # call[c].seal
  BY DEF ClientInv, Exclusive
<1>. QED
  BY <1>1, <1>2, <1>3 DEF OutcomeBar, Held

LEMMA FinishLetsGo ==
  ASSUME ClientInv, NEW c \in Calls, call[c].pc # "idle", Finish(c)
  PROVE  \A n : Held(n)' <=> Held(n) /\ n # call[c].seal
<1>1. /\ call'[c].pc = "idle"
      /\ \A d \in Calls \ {c} : call'[d] = call[d]
  BY DEF Finish, Idle, ClientInv
<1>. QED
  BY <1>1, HeldIsOpen DEF Held

LEMMA OutcomeEnds ==
  ASSUME ClientInv, NEW c \in Calls, Ends(c)
  PROVE  /\ OutcomeBar' = [OutcomeBar EXCEPT ![call[c].seal] = "dropped"]
         /\ call[c].seal \in 1..Len(sealed) /\ OutcomeBar[call[c].seal] = "open"
<1>1. call[c].pc # "idle" /\ Finish(c) /\ UNCHANGED <<sealed, batches>>
  BY DEF Ends, storeVars
<1>2. \A n : Held(n)' <=> Held(n) /\ n # call[c].seal
  BY <1>1, FinishLetsGo
<1>3. \A n : Stored(n)' <=> Stored(n)
  BY <1>1 DEF Stored
<1>4. call[c].seal \in 1..Len(sealed) /\ OutcomeBar[call[c].seal] = "open"
  BY <1>1, HeldIsOpen
<1>5. ~Stored(call[c].seal)
  BY <1>4 DEF OutcomeBar
<1>. QED
  BY <1>1, <1>2, <1>3, <1>4, <1>5 DEF OutcomeBar

LEMMA OutcomeStores ==
  ASSUME ClientInv, NEW c \in Calls, Stores(c)
  PROVE  /\ OutcomeBar' = [OutcomeBar EXCEPT ![call[c].seal] = "stored"]
         /\ call[c].seal \in 1..Len(sealed) /\ OutcomeBar[call[c].seal] = "open"
<1>1. /\ call[c].pc # "idle" /\ Finish(c) /\ UNCHANGED sealed
      /\ batches \in Seq(Batch) /\ Len(batches) \in Nat
  BY DEF Stores, storeVars, ClientInv
<1>2. \A n : Held(n)' <=> Held(n) /\ n # call[c].seal
  BY <1>1, FinishLetsGo
<1>3. \A n : Stored(n)' <=> Stored(n) \/ n = call[c].seal
  <2>1. PICK b : b = BatchOf(call[c])
    OBVIOUS
  <2>2. b \in Batch /\ b.seal = call[c].seal
    BY <2>1, StoredIsFine DEF BatchInv, BatchOf
  <2>3. /\ Len(batches') = Len(batches) + 1 /\ batches'[Len(batches) + 1] = b
        /\ \A i \in 1..Len(batches) : batches'[i] = batches[i]
    BY <1>1, <2>1, <2>2 DEF Stores
  <2>4. 1..Len(batches') = (1..Len(batches)) \cup {Len(batches) + 1}
    BY <1>1, <2>3
  <2>. QED
    BY <2>2, <2>3, <2>4 DEF Stored
<1>4. call[c].seal \in 1..Len(sealed) /\ OutcomeBar[call[c].seal] = "open"
  BY <1>1, HeldIsOpen
<1>. QED
  BY <1>1, <1>2, <1>3, <1>4 DEF OutcomeBar

(* A crash drops what was open.                                            *)
LEMMA OutcomeCrash ==
  ASSUME ClientInv, call' = [c \in Calls |-> Idle], UNCHANGED <<sealed, batches>>
  PROVE  OutcomeBar' = [n \in 1..Len(OutcomeBar) |->
                          IF OutcomeBar[n] = "open" THEN "dropped" ELSE OutcomeBar[n]]
<1>1. Len(sealed) \in Nat
  BY DEF ClientInv, StoreTypeOK
<1>2. Len(OutcomeBar) = Len(sealed)
  BY <1>1 DEF OutcomeBar
<1>3. \A n : ~Held(n)'
  BY DEF Held, Idle
<1>4. \A n : Stored(n)' <=> Stored(n)
  BY DEF Stored
<1>. QED
  BY <1>2, <1>3, <1>4 DEF OutcomeBar

LEMMA DeliveryNothing ==
  ASSUME UNCHANGED <<active, sealed, call, batches>>
  PROVE  UNCHANGED Delivery!deliveryVars
<1>1. OutcomeBar' = OutcomeBar
  BY OutcomeRests
<1>. QED
  BY <1>1 DEF Delivery!deliveryVars, Components, OutcomeBar

LEMMA AdvanceRefines ==
  ASSUME ClientInv, NEW c \in Calls, Advance(c) \/ Cancel(c)
  PROVE  [Delivery!DeliveryNext]_(Delivery!deliveryVars)
<1>0. Len(OutcomeBar) = Len(sealed)
  BY DEF ClientInv, StoreTypeOK, OutcomeBar
<1>1. CASE Moves(c)
  <2>1. OutcomeBar' = OutcomeBar /\ UNCHANGED <<active, sealed>>
    BY <1>1, OutcomeMoves DEF Moves, storeVars
  <2>. QED
    BY <2>1 DEF Delivery!deliveryVars, Components, OutcomeBar
<1>2. CASE Ends(c)
  <2>1. UNCHANGED <<active, sealed>>
    BY <1>2 DEF Ends, storeVars
  <2>2. PICK n : n = call[c].seal
    OBVIOUS
  <2>3. /\ OutcomeBar' = [OutcomeBar EXCEPT ![n] = "dropped"]
        /\ OutcomeBar[n] = "open" /\ n \in 1..Len(OutcomeBar)
    BY <1>0, <1>2, <2>2, OutcomeEnds
  <2>4. Delivery!Drop(n)
    BY <2>1, <2>3 DEF Delivery!Drop, Components, OutcomeBar
  <2>. QED
    BY <2>3, <2>4 DEF Delivery!DeliveryNext, OutcomeBar
<1>3. CASE Stores(c)
  <2>1. UNCHANGED <<active, sealed>>
    BY <1>3 DEF Stores, storeVars
  <2>2. PICK n : n = call[c].seal
    OBVIOUS
  <2>3. /\ OutcomeBar' = [OutcomeBar EXCEPT ![n] = "stored"]
        /\ OutcomeBar[n] = "open" /\ n \in 1..Len(OutcomeBar)
    BY <1>0, <1>3, <2>2, OutcomeStores
  <2>4. Delivery!Store(n)
    BY <2>1, <2>3 DEF Delivery!Store, Components, OutcomeBar
  <2>. QED
    BY <2>3, <2>4 DEF Delivery!DeliveryNext, OutcomeBar
<1>. QED
  BY <1>1, <1>2, <1>3, AdvanceShape, GrantedMoves, SignMoves, TeeMoves

LEMMA ClientRefines ==
  ASSUME ClientInv, IndexInv, [ClientNext]_clientVars
  PROVE  [Delivery!DeliveryNext]_(Delivery!deliveryVars)
<1>0. World /\ StoreTypeOK
  BY ClientStoreStep, ClientConsentStep DEF World, ClientInv
<1>1. ASSUME NEW c \in Calls, NEW ev \in Inbound, NEW ts \in Stamp,
             CaptureInFlight(c, ev, ts)
      PROVE  Delivery!DeliveryNext
  <2>1. CaptureOpen(ev, ts) /\ Accept(ev) /\ UNCHANGED <<call, batches, sealed>>
    BY <1>1 DEF CaptureInFlight, CaptureOpen
  <2>2. Delivery!Gather(ev.thought_id, ev.event_type, Len(delivered) + 1)
    BY <1>0, <2>1, OpenGathers, DeliveryAssembles, StampsType
  <2>3. /\ ev.thought_id \in Thoughts /\ ev.event_type \in EventTypes
        /\ Len(delivered) + 1 \in 1..MaxDelivered
    BY <1>0, <2>1, AcceptedId
  <2>4. OutcomeBar' = OutcomeBar
    BY <2>1, OutcomeRests
  <2>5. Delivery!Assemble
    BY <2>2, <2>3, <2>4 DEF Delivery!Assemble, OutcomeBar
  <2>. QED
    BY <2>5 DEF Delivery!DeliveryNext
<1>2. ASSUME NEW c \in Calls, NEW ev \in Inbound, NEW ts \in Stamp,
             CaptureSealing(c, ev, ts)
      PROVE  Delivery!DeliveryNext
  <2>1. CaptureSeal(ev, ts) /\ Accept(ev)
    BY <1>2 DEF CaptureSealing, CaptureSeal
  <2>2. Delivery!HandOver(ev.thought_id, Len(delivered) + 1)
    <3>1. Assembly!HandOver(ev.thought_id, Len(delivered) + 1)
      BY <1>0, <2>1, SealHandsOver, StampsType
    <3>. QED
      BY <3>1, DeliveryItems DEF Delivery!HandOver, Assembly!HandOver
  <2>3. ev.thought_id \in Thoughts /\ Len(delivered) + 1 \in 1..MaxDelivered
    BY <1>0, <2>1, AcceptedId
  <2>4. OutcomeBar' = Append(OutcomeBar, "open")
    BY <1>0, <1>2, SealingTakes, OutcomeTakes
  <2>5. \E t \in Thoughts, id \in 1..MaxDelivered : Delivery!HandOver(t, id)
    BY <2>2, <2>3 DEF Delivery!HandOver
  <2>6. Delivery!Begin
    BY <2>4, <2>5 DEF Delivery!Begin, OutcomeBar
  <2>. QED
    BY <2>6 DEF Delivery!DeliveryNext
<1>3. ASSUME NEW c \in Calls, NEW ev \in Inbound, CaptureRejected(c, ev)
      PROVE  UNCHANGED Delivery!deliveryVars
  BY <1>3, DeliveryNothing DEF CaptureRejected, CaptureUnknown, storeVars
<1>4. CASE Housekeeping
  <2>1. CASE OrphanSweep
    <3>1. Purged(clock) \in SUBSET Thoughts /\ UNCHANGED <<call, batches, sealed>>
      BY <1>4, <2>1 DEF Purged, Housekeeping, OrphanSweep
    <3>2. Delivery!Lose(Purged(clock))
      BY <2>1, ForgetLoses, DeliveryAssembles DEF OrphanSweep
    <3>3. OutcomeBar' = OutcomeBar
      BY <3>1, OutcomeRests
    <3>4. Delivery!Assemble
      BY <3>1, <3>2, <3>3 DEF Delivery!Assemble, OutcomeBar
    <3>. QED
      BY <3>4 DEF Delivery!DeliveryNext
  <2>2. CASE Tick
    BY <1>4, <2>2, DeliveryNothing DEF Housekeeping, Tick
  <2>. QED
    BY <1>4, <2>1, <2>2 DEF Housekeeping
<1>5. CASE Crash
  <2>1. /\ Forget(Thoughts) /\ UNCHANGED <<sealed, batches>>
        /\ call' = [c \in Calls |-> Idle]
    BY <1>5, RestartForgets DEF Crash, Restart
  <2>2. Delivery!Lose(Thoughts)
    BY <2>1, ForgetLoses, DeliveryAssembles
  <2>3. OutcomeBar' = [n \in 1..Len(OutcomeBar) |->
                         IF OutcomeBar[n] = "open" THEN "dropped" ELSE OutcomeBar[n]]
    BY <2>1, OutcomeCrash
  <2>4. Delivery!Crash
    BY <2>2, <2>3 DEF Delivery!Crash, OutcomeBar
  <2>. QED
    BY <2>4 DEF Delivery!DeliveryNext
<1>6. CASE Attestations
  BY <1>6, DeliveryNothing DEF Attestations, storeVars
<1>7. CASE UNCHANGED clientVars
  BY <1>7, DeliveryNothing DEF clientVars, storeVars
<1>. QED
  BY <1>1, <1>2, <1>3, <1>4, <1>5, <1>6, <1>7, AdvanceRefines DEF ClientNext

LEMMA ClientInitRefines == ClientInit => Delivery!DeliveryInit
<1>. SUFFICES ASSUME ClientInit PROVE Delivery!DeliveryInit
  OBVIOUS
<1>1. StoreInit /\ Len(sealed) = 0
  BY DEF ClientInit, StoreInit
<1>2. Assembly!AssemblyInit
  BY <1>1, InitRefines
<1>3. OutcomeBar = <<>>
  BY <1>1 DEF OutcomeBar
<1>. QED
  BY <1>2, <1>3
  DEF Assembly!AssemblyInit, Delivery!AssemblyInit, Delivery!DeliveryInit, OutcomeBar

(* Every trace client mode assembles is handed over once, and is then      *)
(* stored once or dropped, for good (client.rs:500-675).                   *)
THEOREM ClientImplementsDelivery == ClientSafetySpec => ImplementsDelivery
<1>1. ClientInv /\ IndexInv /\ [ClientNext]_clientVars
        => [Delivery!DeliveryNext]_(Delivery!deliveryVars)
  BY ClientRefines
<1>. QED
  BY <1>1, ClientInitRefines, ClientInvariant, ClientComposes, IndexInvariant, PTL
  DEF ClientSafetySpec, ImplementsDelivery, Delivery!DeliverySpec
=============================================================================
