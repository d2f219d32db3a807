------------------------- MODULE AttestationProofs -------------------------
(***************************************************************************)
(* What holds of what the lens signs.  First the audit chain, for every    *)
(* set of threads and requests and every bound: its entries are sealed, and*)
(* it is the log its callers were promised.  Then the verdicts on a cohort *)
(* and the capacity attestations, for every corpus and every bundle: the   *)
(* measures keep their range, a number shows a signal and names its        *)
(* sources, the severity is a ramp, and correlation never adds capacity.   *)
(***************************************************************************)
EXTENDS Audit, AxisScoring, Capacity, SequenceTheorems, FiniteSetTheorems,
        WellFoundedInduction, TLAPS

----------------------------------------------------------------------------
(* The forms an entry goes through on its way to the chain.  What is not   *)
(* said of an entry follows from its id, its request and its time.         *)

Form(id, req, at, n, actor, hash, sig) ==
  [entry_id |-> id, sequence_number |-> n, actor_id |-> actor,
   action_type |-> ActionType(req), subject |-> Subject(req), payload |-> req,
   recorded_at |-> at, entry_hash |-> hash, signature |-> sig]

Anonymous(id, req, at) == Form(id, req, at, 0, Empty, Empty, Empty)
Keyed(id, req, at) == Form(id, req, at, 0, HostKey, Empty, Empty)
Hashed(id, req, at) == Form(id, req, at, 0, HostKey, Keyed(id, req, at), Empty)
Signed(id, req, at, n) ==
  Form(id, req, at, n, HostKey, Keyed(id, req, at), <<HostKey, Hashed(id, req, at)>>)

FormAt(pc, id, req, at) ==
  CASE pc = "local_key_id" -> Anonymous(id, req, at)
    [] pc = "hash"         -> Keyed(id, req, at)
    [] pc = "sign"         -> Hashed(id, req, at)
    [] OTHER               -> Signed(id, req, at, 0)

Entries == {Signed(id, req, at, n) : id \in Nat, req \in Requests, at \in Nat, n \in Nat}

(* Every draft has the form of its step, under an id that was given out;   *)
(* every entry of the chain is a signed one in its place.                  *)
DraftsInv ==
  \A c \in Callers : step[c] # "idle" =>
    \E id \in 1..minted, req \in Requests, at \in Nat :
      draft[c] = FormAt(step[c], id, req, at)

ChainInv ==
  /\ chain \in Seq(Entries)
  /\ \A i \in 1..Len(chain) :
       /\ chain[i].sequence_number = i
       /\ chain[i].entry_id \in 1..minted

AuditInv == AuditTypeOK /\ DraftsInv /\ ChainInv

----------------------------------------------------------------------------
(* What the stamps make of these forms.                                    *)

LEMMA BuildsAnonymous ==
  ASSUME NEW id, NEW req, NEW at
  PROVE  BuildEntryDraft(id, req, at, Empty) = Anonymous(id, req, at)
BY DEF BuildEntryDraft, Anonymous, Form

LEMMA KeyIsStamped ==
  ASSUME NEW id, NEW req, NEW at
  PROVE  [Anonymous(id, req, at) EXCEPT !.actor_id = HostKey] = Keyed(id, req, at)
BY DEF Anonymous, Keyed, Form

LEMMA HashIsStamped ==
  ASSUME NEW id, NEW req, NEW at
  PROVE  StampEntryHash(Keyed(id, req, at)) = Hashed(id, req, at)
<1> DEFINE e == Keyed(id, req, at)
<1>1. Unplaced(e) = e
  BY DEF Unplaced, Keyed, Form
<1>2. CanonicalForHash(e) = e
  <2>1. [e EXCEPT !.entry_hash = Empty] = e
    BY DEF Keyed, Form
  <2>2. [e EXCEPT !.signature = Empty] = e
    BY DEF Keyed, Form
  <2>. QED
    BY <1>1, <2>1, <2>2 DEF CanonicalForHash
<1>3. ASSUME NEW h PROVE [e EXCEPT !.entry_hash = h] = Form(id, req, at, 0, HostKey, h, Empty)
  BY DEF Keyed, Form
<1>4. StampEntryHash(e) = [e EXCEPT !.entry_hash = e]
  BY <1>2 DEF StampEntryHash
<1>. QED
  BY <1>3, <1>4 DEF Hashed

(* The bytes signed are those of the hashed entry, wherever it stands, and *)
(* the bytes hashed those of the keyed one.                                *)
LEMMA CanonicalForms ==
  ASSUME NEW id, NEW req, NEW at, NEW n, NEW sig
  PROVE  LET e == Form(id, req, at, n, HostKey, Keyed(id, req, at), sig)
         IN  /\ CanonicalForSigning(e) = Hashed(id, req, at)
             /\ CanonicalForHash(e) = Keyed(id, req, at)
<1> DEFINE k == Keyed(id, req, at)
           e == Form(id, req, at, n, HostKey, k, sig)
           u == Form(id, req, at, 0, HostKey, k, sig)
<1>1. Unplaced(e) = u
  <2> HIDE DEF k
  <2>. QED  BY DEF Unplaced, Form
<1>2. [u EXCEPT !.signature = Empty] = Form(id, req, at, 0, HostKey, k, Empty)
  <2> HIDE DEF k
  <2>. QED  BY DEF Form
<1>3. [[u EXCEPT !.entry_hash = Empty] EXCEPT !.signature = Empty]
        = Form(id, req, at, 0, HostKey, Empty, Empty)
  <2>1. [u EXCEPT !.entry_hash = Empty] = Form(id, req, at, 0, HostKey, Empty, sig)
    <3> HIDE DEF k
    <3>. QED  BY DEF Form
  <2>2. [Form(id, req, at, 0, HostKey, Empty, sig) EXCEPT !.signature = Empty]
          = Form(id, req, at, 0, HostKey, Empty, Empty)
    BY DEF Form
  <2>. QED
    BY <2>1, <2>2
<1>. QED
  BY <1>1, <1>2, <1>3 DEF CanonicalForSigning, CanonicalForHash, Hashed, Keyed

LEMMA SignatureIsStamped ==
  ASSUME NEW id, NEW req, NEW at
  PROVE  LET e == Hashed(id, req, at)
         IN  StampSignature(e, CanonicalForSigning(e)) = Signed(id, req, at, 0)
<1> DEFINE k == Keyed(id, req, at)
           e == Form(id, req, at, 0, HostKey, k, Empty)
<1>1. CanonicalForSigning(e) = Hashed(id, req, at)
  BY CanonicalForms
<1>2. ASSUME NEW s PROVE [e EXCEPT !.signature = s] = Form(id, req, at, 0, HostKey, k, s)
  <2> HIDE DEF k
  <2>. QED  BY DEF Form
<1>3. e = Hashed(id, req, at)
  BY DEF Hashed
<1>. QED
  BY <1>1, <1>2, <1>3 DEF StampSignature, Signed

LEMMA PlaceIsStamped ==
  ASSUME NEW id, NEW req, NEW at, NEW n
  PROVE  [Signed(id, req, at, 0) EXCEPT !.sequence_number = n] = Signed(id, req, at, n)
<1> DEFINE k == Keyed(id, req, at)
           s == <<HostKey, Hashed(id, req, at)>>
<1>1. [Form(id, req, at, 0, HostKey, k, s) EXCEPT !.sequence_number = n]
        = Form(id, req, at, n, HostKey, k, s)
  <2> HIDE DEF k, s
  <2>. QED  BY DEF Form
<1>. QED
  BY <1>1 DEF Signed

(* A stored entry carries the hash and the signature of what it says.      *)
LEMMA SignedIsSealed ==
  ASSUME NEW id, NEW req, NEW at, NEW n
  PROVE  LET e == Signed(id, req, at, n)
         IN  /\ e.actor_id = HostKey
             /\ e.entry_hash = CanonicalForHash(e)
             /\ e.signature = <<HostKey, CanonicalForSigning(e)>>
             /\ e.sequence_number = n
<1> DEFINE k == Keyed(id, req, at)
           s == <<HostKey, Hashed(id, req, at)>>
           e == Form(id, req, at, n, HostKey, k, s)
<1>1. /\ e.actor_id = HostKey /\ e.entry_hash = k
      /\ e.signature = s /\ e.sequence_number = n
  <2> HIDE DEF k, s
  <2>. QED  BY DEF Form
<1>2. CanonicalForSigning(e) = Hashed(id, req, at) /\ CanonicalForHash(e) = k
  BY CanonicalForms
<1>. QED
  BY <1>1, <1>2 DEF Signed

(* In every form the entry says which request it is about.                 *)
LEMMA FormNamesEntry ==
  ASSUME NEW pc, NEW id, NEW req, NEW at
  PROVE  LET e == FormAt(pc, id, req, at)
         IN  Entry(e) = <<id, req>> /\ e.entry_id = id
<1>1. ASSUME NEW n, NEW actor, NEW hash, NEW sig
      PROVE  LET e == Form(id, req, at, n, actor, hash, sig)
             IN  Entry(e) = <<id, req>> /\ e.entry_id = id
  BY DEF Form, Entry
<1>. QED
  BY <1>1 DEF FormAt, Anonymous, Keyed, Hashed, Signed

LEMMA SignedNamesEntry ==
  ASSUME NEW id, NEW req, NEW at, NEW n
  PROVE  LET e == Signed(id, req, at, n)
         IN  Entry(e) = <<id, req>> /\ e.entry_id = id
BY DEF Form, Entry, Signed

----------------------------------------------------------------------------
(* The invariant, action by action.                                        *)

LEMMA AuditInvInit == AuditInit => AuditInv
<1>. SUFFICES ASSUME AuditInit PROVE AuditInv
  OBVIOUS
<1>1. AuditTypeOK
  BY AuditAssumption DEF AuditInit, AuditTypeOK
<1>2. DraftsInv
  BY DEF AuditInit, DraftsInv
<1>3. ChainInv
  BY DEF AuditInit, ChainInv
<1>. QED
  BY <1>1, <1>2, <1>3 DEF AuditInv

(* A call of the Engine that leaves the chain alone: types and chain stay, *)
(* and the draft takes its next form.                                      *)
LEMMA ProceedKeepsInv ==
  ASSUME AuditInv, NEW c \in Callers, NEW from, NEW to, NEW e,
         Proceed(c, from, to, e), from # "idle",
         to \in {"hash", "sign", "record", "answer"},
         NEW id \in 1..minted, NEW req \in Requests, NEW at \in Nat,
         e = FormAt(to, id, req, at)
  PROVE  AuditTypeOK' /\ DraftsInv'
<1>. USE DEF AuditInv
<1>0. e.entry_id = id
  BY FormNamesEntry
<1>1. AuditTypeOK'
  BY <1>0 DEF AuditTypeOK, Proceed
<1>2. DraftsInv'
  <2>. SUFFICES ASSUME NEW d \in Callers, step'[d] # "idle"
                PROVE  \E i \in 1..minted', r \in Requests, a \in Nat :
                         draft'[d] = FormAt(step'[d], i, r, a)
    BY DEF DraftsInv
  <2>1. CASE d = c
    <3>1. draft'[c] = e /\ step'[c] = to
      BY DEF Proceed, AuditTypeOK
    <3>. QED
      BY <2>1, <3>1 DEF Proceed
  <2>2. CASE d # c
    <3>1. draft'[d] = draft[d] /\ step'[d] = step[d]
      BY <2>2 DEF Proceed, AuditTypeOK
    <3>. QED
      BY <3>1 DEF Proceed, DraftsInv
  <2>. QED
    BY <2>1, <2>2
<1>. QED
  BY <1>1, <1>2

(* A call that ends, whatever it answers.                                  *)
LEMMA ReturnKeepsInv ==
  ASSUME AuditInv, NEW c \in Callers, NEW a \in {"none", "ok", "error"}, Return(c, a),
         UNCHANGED <<inner, clock>>, minted' \in minted..MaxCalls
  PROVE  AuditTypeOK' /\ DraftsInv'
<1>. USE DEF AuditInv
<1>1. AuditTypeOK'
  BY AuditAssumption DEF AuditTypeOK, Return
<1>2. DraftsInv'
  <2>. SUFFICES ASSUME NEW d \in Callers, step'[d] # "idle"
                PROVE  \E i \in 1..minted', r \in Requests, t \in Nat :
                         draft'[d] = FormAt(step'[d], i, r, t)
    BY DEF DraftsInv
  <2>1. draft'[d] = draft[d] /\ step'[d] = step[d]
    BY DEF Return, AuditTypeOK
  <2>2. 1..minted \subseteq 1..minted'
    BY AuditAssumption DEF AuditTypeOK
  <2>. QED
    BY <2>1, <2>2 DEF DraftsInv
<1>. QED
  BY <1>1, <1>2

LEMMA ChainUnchanged ==
  ASSUME AuditInv, UNCHANGED chain, minted' \in minted..MaxCalls
  PROVE  ChainInv'
BY AuditAssumption DEF AuditInv, ChainInv, AuditTypeOK

(* What a caller's draft is before the step it is about to make.           *)
LEMMA DraftForm ==
  ASSUME AuditInv, NEW c \in Callers, step[c] # "idle"
  PROVE  \E id \in 1..minted, req \in Requests, at \in Nat :
           draft[c] = FormAt(step[c], id, req, at)
BY DEF AuditInv, DraftsInv

LEMMA InvNew ==
  ASSUME AuditInv, NEW c \in Callers, New(c)
  PROVE  AuditInv'
<1>1. AuditTypeOK'
  BY DEF AuditInv, AuditTypeOK, New
<1>2. DraftsInv'
  BY DEF AuditInv, DraftsInv, New
<1>3. ChainInv'
  BY DEF AuditInv, ChainInv, New
<1>. QED
  BY <1>1, <1>2, <1>3 DEF AuditInv

LEMMA InvTick ==
  ASSUME AuditInv, Tick
  PROVE  AuditInv'
<1>1. AuditTypeOK'
  BY AuditAssumption DEF AuditInv, AuditTypeOK, Tick
<1>2. DraftsInv'
  BY DEF AuditInv, DraftsInv, Tick
<1>3. ChainInv'
  BY DEF AuditInv, ChainInv, Tick
<1>. QED
  BY <1>1, <1>2, <1>3 DEF AuditInv

LEMMA InvLog ==
  ASSUME AuditInv, NEW c \in Callers, NEW req \in Requests, Log(c, req)
  PROVE  AuditInv'
<1>. USE DEF AuditInv
<1>0. minted' \in minted..MaxCalls
  BY AuditAssumption DEF AuditTypeOK, Log
<1>1. ChainInv'
  BY <1>0, ChainUnchanged DEF Log
<1>2. CASE Accepts(req) /\ inner[c] = "Cohabitation"
  <2> DEFINE e == Anonymous(minted', req, clock)
  <2>1. /\ step' = [step EXCEPT ![c] = "local_key_id"]
        /\ draft' = [draft EXCEPT ![c] = e]
        /\ answer' = [answer EXCEPT ![c] = "none"]
        /\ minted' = minted + 1 /\ UNCHANGED <<inner, chain, clock>>
    BY <1>2, BuildsAnonymous DEF Log
  <2>2. e = FormAt("local_key_id", minted', req, clock)
    BY DEF FormAt
  <2>3. e.entry_id = minted'
    BY <2>2, FormNamesEntry
  <2>4. minted' \in 1..minted' /\ 1..minted \subseteq 1..minted' /\ clock \in Nat
    BY <2>1, AuditAssumption DEF AuditTypeOK
  <2> HIDE DEF e
  <2>5. AuditTypeOK'
    BY <1>0, <1>2, <2>1, <2>3, <2>4, AuditAssumption DEF AuditTypeOK
  <2>6. DraftsInv'
    <3>. SUFFICES ASSUME NEW d \in Callers, step'[d] # "idle"
                  PROVE  \E i \in 1..minted', r \in Requests, t \in Nat :
                           draft'[d] = FormAt(step'[d], i, r, t)
      BY DEF DraftsInv
    <3>1. CASE d = c
      <4>1. draft'[d] = e /\ step'[d] = "local_key_id"
        BY <2>1, <3>1 DEF AuditTypeOK
      <4>. QED
        BY <2>2, <2>4, <4>1
    <3>2. CASE d # c
      <4>1. draft'[d] = draft[d] /\ step'[d] = step[d]
        BY <2>1, <3>2 DEF AuditTypeOK
      <4>. QED
        BY <2>4, <4>1 DEF DraftsInv
    <3>. QED
      BY <3>1, <3>2
  <2>. QED
    BY <1>1, <2>5, <2>6
<1>3. CASE ~(Accepts(req) /\ inner[c] = "Cohabitation")
  BY <1>0, <1>1, <1>3, ReturnKeepsInv DEF Log
<1>. QED
  BY <1>2, <1>3

LEMMA InvRaise ==
  ASSUME AuditInv, NEW c \in Callers, Raise(c) \/ Answer(c)
  PROVE  AuditInv'
<1>1. minted' \in minted..MaxCalls /\ UNCHANGED <<inner, clock, chain>>
  BY AuditAssumption DEF AuditInv, AuditTypeOK, Raise, Answer
<1>2. \E a \in {"ok", "error"} : Return(c, a)
  BY DEF Raise, Answer
<1>. QED
  BY <1>1, <1>2, ReturnKeepsInv, ChainUnchanged DEF AuditInv

LEMMA InvLocalKeyId ==
  ASSUME AuditInv, NEW c \in Callers, LocalKeyId(c)
  PROVE  AuditInv'
<1>1. step[c] = "local_key_id"
  BY DEF LocalKeyId, Proceed
<1>2. PICK id \in 1..minted, req \in Requests, at \in Nat :
        draft[c] = Anonymous(id, req, at)
  BY <1>1, DraftForm DEF FormAt
<1>3. Proceed(c, "local_key_id", "hash", FormAt("hash", id, req, at))
  BY <1>2, KeyIsStamped DEF LocalKeyId, FormAt
<1>4. minted' \in minted..MaxCalls
  BY AuditAssumption DEF AuditInv, AuditTypeOK, LocalKeyId, Proceed
<1>5. ChainInv'
  BY <1>4, ChainUnchanged DEF LocalKeyId
<1>. QED
  BY <1>3, <1>5, ProceedKeepsInv DEF AuditInv

LEMMA InvCanonicalizeForHash ==
  ASSUME AuditInv, NEW c \in Callers, CanonicalizeForHash(c)
  PROVE  AuditInv'
<1>1. step[c] = "hash"
  BY DEF CanonicalizeForHash, Proceed
<1>2. PICK id \in 1..minted, req \in Requests, at \in Nat :
        draft[c] = Keyed(id, req, at)
  BY <1>1, DraftForm DEF FormAt
<1>3. Proceed(c, "hash", "sign", FormAt("sign", id, req, at))
  BY <1>2, HashIsStamped DEF CanonicalizeForHash, FormAt
<1>4. minted' \in minted..MaxCalls
  BY AuditAssumption DEF AuditInv, AuditTypeOK, CanonicalizeForHash, Proceed
<1>5. ChainInv'
  BY <1>4, ChainUnchanged DEF CanonicalizeForHash
<1>. QED
  BY <1>3, <1>5, ProceedKeepsInv DEF AuditInv

LEMMA InvLocalSign ==
  ASSUME AuditInv, NEW c \in Callers, LocalSign(c)
  PROVE  AuditInv'
<1>1. step[c] = "sign"
  BY DEF LocalSign, Proceed
<1>2. PICK id \in 1..minted, req \in Requests, at \in Nat :
        draft[c] = Hashed(id, req, at)
  BY <1>1, DraftForm DEF FormAt
<1>3. Proceed(c, "sign", "record", FormAt("record", id, req, at))
  BY <1>2, SignatureIsStamped DEF LocalSign, FormAt
<1>4. minted' \in minted..MaxCalls
  BY AuditAssumption DEF AuditInv, AuditTypeOK, LocalSign, Proceed
<1>5. ChainInv'
  BY <1>4, ChainUnchanged DEF LocalSign
<1>. QED
  BY <1>3, <1>5, ProceedKeepsInv DEF AuditInv

(* The chain grows by the signed form of the draft, in its place.          *)
LEMMA RecordEffect ==
  ASSUME AuditInv, NEW c \in Callers, RecordEntry(c)
  PROVE  \E id \in 1..minted, req \in Requests, at \in Nat :
           /\ draft[c] = Signed(id, req, at, 0)
           /\ chain' = Append(chain, Signed(id, req, at, Len(chain) + 1))
           /\ Signed(id, req, at, Len(chain) + 1) \in Entries
<1>1. step[c] = "record"
  BY DEF RecordEntry, Proceed
<1>2. PICK id \in 1..minted, req \in Requests, at \in Nat :
        draft[c] = Signed(id, req, at, 0)
  BY <1>1, DraftForm DEF FormAt
<1>3. Placed(c) = Signed(id, req, at, Len(chain) + 1)
  BY <1>2, PlaceIsStamped DEF Placed
<1>4. id \in Nat /\ Len(chain) + 1 \in Nat
  BY DEF AuditInv, ChainInv, AuditTypeOK
<1>5. Signed(id, req, at, Len(chain) + 1) \in Entries
  BY <1>4 DEF Entries
<1>. QED
  BY <1>2, <1>3, <1>5 DEF RecordEntry

LEMMA InvRecordEntry ==
  ASSUME AuditInv, NEW c \in Callers, RecordEntry(c)
  PROVE  AuditInv'
<1>. USE DEF AuditInv
<1>1. PICK id \in 1..minted, req \in Requests, at \in Nat :
        /\ draft[c] = Signed(id, req, at, 0)
        /\ chain' = Append(chain, Signed(id, req, at, Len(chain) + 1))
        /\ Signed(id, req, at, Len(chain) + 1) \in Entries
  BY RecordEffect
<1>2. FormAt("answer", id, req, at) = draft[c]
  BY <1>1 DEF FormAt
<1>3. AuditTypeOK' /\ DraftsInv'
  BY <1>2, ProceedKeepsInv DEF RecordEntry
<1>4. ChainInv'
  <2> DEFINE e == Signed(id, req, at, Len(chain) + 1)
  <2>1. e.sequence_number = Len(chain) + 1 /\ e.entry_id = id
    BY SignedIsSealed, SignedNamesEntry
  <2>2. minted' = minted /\ chain \in Seq(Entries)
    BY DEF RecordEntry, Proceed, ChainInv
  <2> HIDE DEF e
  <2>3. chain' = Append(chain, e) /\ e \in Entries
    BY <1>1 DEF e
  <2>4. chain' \in Seq(Entries) /\ Len(chain') = Len(chain) + 1
    BY <2>2, <2>3
  <2>5. ASSUME NEW i \in 1..Len(chain')
        PROVE  chain'[i].sequence_number = i /\ chain'[i].entry_id \in 1..minted'
    <3>1. CASE i = Len(chain) + 1
      BY <2>1, <2>2, <2>3, <3>1
    <3>2. CASE i # Len(chain) + 1
      <4>1. i \in 1..Len(chain) /\ chain'[i] = chain[i]
        BY <2>2, <2>3, <2>4, <3>2
      <4>. QED
        BY <2>2, <4>1 DEF ChainInv
    <3>. QED
      BY <3>1, <3>2
  <2>. QED
    BY <2>4, <2>5 DEF ChainInv
<1>. QED
  BY <1>3, <1>4

LEMMA AuditInvNext == AuditInv /\ [AuditNext]_auditVars => AuditInv'
<1>. SUFFICES ASSUME AuditInv, [AuditNext]_auditVars PROVE AuditInv'
  OBVIOUS
<1>1. CASE UNCHANGED auditVars
  BY <1>1 DEF auditVars, AuditInv, AuditTypeOK, DraftsInv, ChainInv
<1>2. ASSUME NEW c \in Callers, New(c) PROVE AuditInv'
  BY <1>2, InvNew
<1>3. ASSUME NEW c \in Callers, EngineStep(c) PROVE AuditInv'
  BY <1>3, InvLocalKeyId, InvCanonicalizeForHash, InvLocalSign, InvRecordEntry, InvRaise
  DEF EngineStep
<1>4. ASSUME NEW c \in Callers, NEW req \in Requests, Log(c, req) PROVE AuditInv'
  BY <1>4, InvLog
<1>5. CASE Tick
  BY <1>5, InvTick
<1>. QED
  BY <1>1, <1>2, <1>3, <1>4, <1>5 DEF AuditNext

LEMMA AuditInvariant == AuditSpec => []AuditInv
BY AuditInvInit, AuditInvNext, PTL DEF AuditSpec

(* However the threads interleave and wherever the Engine raises, each     *)
(* entry of the chain carries the hash and the signature of its own        *)
(* content, under the host's key (audit/delegate.rs:120-149).              *)
THEOREM EntriesAlwaysSealed == AuditSpec => []EntriesAreSealed
<1>1. AuditInv => EntriesAreSealed
  <2>. SUFFICES ASSUME AuditInv PROVE EntriesAreSealed
    OBVIOUS
  <2>1. ASSUME NEW i \in DOMAIN chain
        PROVE  /\ chain[i].sequence_number = i /\ chain[i].actor_id = HostKey
               /\ chain[i].entry_hash = CanonicalForHash(chain[i])
               /\ chain[i].signature = <<HostKey, CanonicalForSigning(chain[i])>>
    <3>1. i \in 1..Len(chain) /\ chain[i] \in Entries
      BY DEF AuditInv, ChainInv
    <3>2. PICK id \in Nat, req \in Requests, at \in Nat, n \in Nat :
            chain[i] = Signed(id, req, at, n)
      BY <3>1 DEF Entries
    <3>3. chain[i].sequence_number = i
      BY <3>1 DEF AuditInv, ChainInv
    <3>. QED
      BY <3>2, <3>3, SignedIsSealed
  <2>. QED
    BY <2>1 DEF AuditInv, EntriesAreSealed
<1>. QED
  BY <1>1, AuditInvariant, PTL

----------------------------------------------------------------------------
(* Each step of the chain and its callers is one of the log, or none.      *)

LEMMA OpenIsAsked ==
  ASSUME AuditInv, NEW c \in Callers, step[c] # "idle"
  PROVE  Entry(draft[c]) # NoEntry
<1>1. PICK id \in 1..minted, req \in Requests, at \in Nat :
        draft[c] = FormAt(step[c], id, req, at)
  BY DraftForm
<1>2. Entry(draft[c]) = <<id, req>>
  BY <1>1, FormNamesEntry
<1>3. id \in Nat
  BY DEF AuditInv, AuditTypeOK
<1>. QED
  BY <1>2, <1>3, AuditAssumption

(* Nothing the log can see moves.                                          *)
LEMMA StampsAreStutters ==
  ASSUME AuditInv, NEW c \in Callers, NEW from, NEW to, NEW e,
         Proceed(c, from, to, e), UNCHANGED chain,
         from \in {"local_key_id", "hash", "sign"}, to \in {"hash", "sign", "record"},
         Entry(e) = Entry(draft[c])
  PROVE  UNCHANGED AbstractLog!logVars
<1>. USE DEF AuditInv
<1>1. \A d \in Callers : (step'[d] = "idle" <=> step[d] = "idle")
                          /\ (step'[d] = "answer" <=> step[d] = "answer")
  BY DEF Proceed, AuditTypeOK
<1>2. \A d \in Callers : Entry(draft[d])' = Entry(draft[d])
  <2>. TAKE d \in Callers
  <2>1. CASE d = c
    <3>1. draft'[d] = e
      BY <2>1 DEF Proceed, AuditTypeOK
    <3>. QED
      BY <2>1, <3>1 DEF Entry
  <2>2. CASE d # c
    <3>1. draft'[d] = draft[d]
      BY <2>2 DEF Proceed, AuditTypeOK
    <3>. QED
      BY <3>1 DEF Entry
  <2>. QED
    BY <2>1, <2>2
<1>. QED
  BY <1>1, <1>2 DEF AbstractLog!logVars, Proceed

(* The end of a call, to the log: it answers, or refuses.                  *)
LEMMA ReturnResponds ==
  ASSUME AuditInv, NEW c \in Callers, NEW a \in {"ok", "error"}, Return(c, a),
         UNCHANGED chain, a = "ok" => step[c] = "answer", step[c] = "idle" => a = "error"
  PROVE  AbstractLog!LogNext
<1>. USE DEF AuditInv
<1>1. /\ step' = [step EXCEPT ![c] = "idle"] /\ answer' = [answer EXCEPT ![c] = a]
      /\ \A d \in Callers \ {c} : draft'[d] = draft[d] /\ step'[d] = step[d]
      /\ step'[c] = "idle"
  BY DEF Return, AuditTypeOK
<1>2. \A d \in Callers \ {c} : Entry(draft[d])' = Entry(draft[d])
  BY <1>1 DEF Entry
<1>3. [d \in Callers |-> IF step'[d] = "idle" THEN NoEntry ELSE Entry(draft[d])']
        = [[d \in Callers |-> IF step[d] = "idle" THEN NoEntry ELSE Entry(draft[d])]
             EXCEPT ![c] = NoEntry]
  BY <1>1, <1>2
<1>4. [d \in Callers |-> step'[d] = "answer"]
        = [[d \in Callers |-> step[d] = "answer"] EXCEPT ![c] = FALSE]
  BY <1>1
<1>5. CASE step[c] = "idle"
  <2>1. AbstractLog!Refuse(c)
    BY <1>1, <1>3, <1>4, <1>5 DEF AbstractLog!Refuse
  <2>. QED
    BY <2>1 DEF AbstractLog!LogNext
<1>6. CASE step[c] # "idle"
  <2>1. Entry(draft[c]) # NoEntry
    BY <1>6, OpenIsAsked
  <2>2. AbstractLog!Respond(c, a)
    BY <1>1, <1>3, <1>4, <1>6, <2>1 DEF AbstractLog!Respond
  <2>. QED
    BY <2>2 DEF AbstractLog!LogNext
<1>. QED
  BY <1>5, <1>6

LEMMA LogRefines ==
  ASSUME AuditInv, NEW c \in Callers, NEW req \in Requests, Log(c, req)
  PROVE  AbstractLog!LogNext
<1>. USE DEF AuditInv
<1>1. CASE Accepts(req) /\ inner[c] = "Cohabitation"
  <2> DEFINE e == Anonymous(minted', req, clock)
  <2>1. /\ step[c] = "idle"
        /\ step' = [step EXCEPT ![c] = "local_key_id"]
        /\ draft' = [draft EXCEPT ![c] = e]
        /\ answer' = [answer EXCEPT ![c] = "none"]
        /\ minted' = minted + 1 /\ UNCHANGED chain
    BY <1>1, BuildsAnonymous DEF Log
  <2>2. Entry(e) = <<minted', req>>
    <3>1. e = FormAt("local_key_id", minted', req, clock)
      BY DEF FormAt
    <3>. QED
      BY <3>1, FormNamesEntry
  <2> HIDE DEF e
  <2>3. minted' \in Nat /\ minted' \notin 1..minted
    BY <2>1, AuditAssumption DEF AuditTypeOK
  <2>4. Entry(e) # NoEntry
    BY <2>2, <2>3, AuditAssumption
  <2>5. /\ step'[c] = "local_key_id" /\ draft'[c] = e
        /\ \A d \in Callers \ {c} : draft'[d] = draft[d] /\ step'[d] = step[d]
    BY <2>1 DEF AuditTypeOK
  <2>6. Entry(draft[c])' = Entry(e) /\ \A d \in Callers \ {c} : Entry(draft[d])' = Entry(draft[d])
    BY <2>5 DEF Entry
  <2>7. [d \in Callers |-> IF step'[d] = "idle" THEN NoEntry ELSE Entry(draft[d])']
          = [[d \in Callers |-> IF step[d] = "idle" THEN NoEntry ELSE Entry(draft[d])]
               EXCEPT ![c] = Entry(e)]
    BY <2>5, <2>6
  <2>8. [d \in Callers |-> step'[d] = "answer"] = [d \in Callers |-> step[d] = "answer"]
    BY <2>1, <2>5
  <2>9. \A i \in DOMAIN chain : Entry(chain[i]) # Entry(e)
    <3>. SUFFICES ASSUME NEW i \in DOMAIN chain PROVE Entry(chain[i]) # Entry(e)
      OBVIOUS
    <3>1. i \in 1..Len(chain)
      BY DEF ChainInv
    <3>2. chain[i].entry_id \in 1..minted
      BY <3>1 DEF ChainInv
    <3>3. Entry(chain[i])[1] = chain[i].entry_id
      BY DEF Entry
    <3>. QED
      BY <2>2, <2>3, <3>2, <3>3
  <2>10. AbstractLog!Invoke(c)
    BY <2>1, <2>4, <2>5, <2>6, <2>7, <2>8, <2>9 DEF AbstractLog!Invoke
  <2>. QED
    BY <2>10 DEF AbstractLog!LogNext
<1>2. CASE ~(Accepts(req) /\ inner[c] = "Cohabitation")
  <2>1. Return(c, "error") /\ UNCHANGED chain /\ step[c] = "idle"
    BY <1>2 DEF Log
  <2>. QED
    BY <2>1, ReturnResponds
<1>. QED
  BY <1>1, <1>2

LEMMA EntriesAppend ==
  ASSUME NEW s \in Seq(Entries), NEW e \in Entries
  PROVE  [i \in DOMAIN Append(s, e) |-> Entry(Append(s, e)[i])]
           = Append([i \in DOMAIN s |-> Entry(s[i])], Entry(e))
<1> DEFINE T == {Entry(x) : x \in Entries}
           m == [i \in 1..Len(s) |-> Entry(s[i])]
           y == Entry(e)
           t == Append(s, e)
<1>1. \A i \in 1..Len(s) : s[i] \in Entries
  OBVIOUS
<1>2. m \in Seq(T) /\ Len(m) = Len(s) /\ y \in T
  BY <1>1
<1>3. \A i \in 1..Len(s) : Entry(t[i]) = m[i]
  OBVIOUS
<1>4. Entry(t[Len(s) + 1]) = y /\ DOMAIN t = 1..(Len(s) + 1) /\ DOMAIN s = 1..Len(s)
  OBVIOUS
<1> HIDE DEF T, m, y, t
<1>5. Append(m, y) = [i \in 1..(Len(s) + 1) |-> IF i = Len(s) + 1 THEN y ELSE m[i]]
  <2>1. /\ Append(m, y) \in Seq(T)
        /\ Len(Append(m, y)) = Len(m) + 1
        /\ \A i \in 1..Len(m) : Append(m, y)[i] = m[i]
        /\ Append(m, y)[Len(m) + 1] = y
    BY <1>2, AppendProperties
  <2>2. Append(m, y) \in [1..(Len(s) + 1) -> T]
    BY <1>2, <2>1, LenProperties
  <2> DEFINE a == Append(m, y)
             n == Len(s) + 1
  <2>3. \A i \in 1..n : a[i] = IF i = n THEN y ELSE m[i]
    BY <1>2, <2>1
  <2> HIDE DEF a
  <2>4. a = [i \in 1..n |-> a[i]]
    BY <2>2 DEF a
  <2>5. a = [i \in 1..n |-> IF i = n THEN y ELSE m[i]]
    BY <2>3, <2>4
  <2>. QED
    BY <2>5 DEF a
<1>6. [i \in DOMAIN t |-> Entry(t[i])] = Append(m, y)
  <2>1. \A i \in 1..(Len(s) + 1) : Entry(t[i]) = IF i = Len(s) + 1 THEN y ELSE m[i]
    BY <1>3, <1>4
  <2> HIDE DEF Entry
  <2>. QED
    BY <1>4, <1>5, <2>1
<1>. QED
  BY <1>4, <1>6 DEF m, y, t

LEMMA RecordAppends ==
  ASSUME AuditInv, NEW c \in Callers, RecordEntry(c)
  PROVE  AbstractLog!LogNext
<1>. USE DEF AuditInv
<1>1. PICK id \in 1..minted, req \in Requests, at \in Nat :
        /\ draft[c] = Signed(id, req, at, 0)
        /\ chain' = Append(chain, Signed(id, req, at, Len(chain) + 1))
        /\ Signed(id, req, at, Len(chain) + 1) \in Entries
  BY RecordEffect
<1> DEFINE e == Signed(id, req, at, Len(chain) + 1)
<1>2. Entry(e) = Entry(draft[c])
  BY <1>1, SignedNamesEntry
<1> HIDE DEF e
<1>3. /\ step[c] = "record" /\ answer' = answer
      /\ \A d \in Callers : draft'[d] = draft[d]
      /\ step' = [step EXCEPT ![c] = "answer"] /\ step'[c] = "answer"
      /\ \A d \in Callers \ {c} : step'[d] = step[d]
  BY DEF RecordEntry, Proceed, AuditTypeOK
<1>4. [d \in Callers |-> IF step'[d] = "idle" THEN NoEntry ELSE Entry(draft[d])']
        = [d \in Callers |-> IF step[d] = "idle" THEN NoEntry ELSE Entry(draft[d])]
  BY <1>3 DEF Entry
<1>5. [d \in Callers |-> step'[d] = "answer"]
        = [[d \in Callers |-> step[d] = "answer"] EXCEPT ![c] = TRUE]
  BY <1>3
<1>6. chain \in Seq(Entries) /\ chain' = Append(chain, e) /\ e \in Entries
  BY <1>1 DEF ChainInv, e
<1>7. [i \in DOMAIN chain' |-> Entry(chain[i])']
        = Append([i \in DOMAIN chain |-> Entry(chain[i])], Entry(draft[c]))
  BY <1>2, <1>6, EntriesAppend
<1>8. Entry(draft[c]) # NoEntry
  BY <1>3, OpenIsAsked
<1>9. AbstractLog!AppendEntry(c)
  BY <1>3, <1>4, <1>5, <1>7, <1>8 DEF AbstractLog!AppendEntry
<1>. QED
  BY <1>9 DEF AbstractLog!LogNext

LEMMA AuditStepRefines ==
  AuditInv /\ [AuditNext]_auditVars => [AbstractLog!LogNext]_(AbstractLog!logVars)
<1>. SUFFICES ASSUME AuditInv, [AuditNext]_auditVars
              PROVE  [AbstractLog!LogNext]_(AbstractLog!logVars)
  OBVIOUS
<1>1. ASSUME UNCHANGED <<step, draft, answer, chain>>
      PROVE  UNCHANGED AbstractLog!logVars
  BY <1>1 DEF AbstractLog!logVars, Entry
<1>2. ASSUME NEW c \in Callers, New(c) PROVE [AbstractLog!LogNext]_(AbstractLog!logVars)
  <2>1. CASE UNCHANGED answer
    BY <1>1, <1>2, <2>1 DEF New
  <2>2. CASE answer' = [answer EXCEPT ![c] = "error"]
    <3>1. step[c] = "idle"
      BY <1>2 DEF New, AuditInv, AuditTypeOK
    <3>2. AbstractLog!Refuse(c)
      BY <1>2, <2>2, <3>1 DEF New, AbstractLog!Refuse, Entry
    <3>. QED
      BY <3>2 DEF AbstractLog!LogNext
  <2>. QED
    BY <1>2, <2>1, <2>2 DEF New
<1>3. ASSUME NEW c \in Callers, EngineStep(c)
      PROVE  [AbstractLog!LogNext]_(AbstractLog!logVars)
  <2>1. CASE LocalKeyId(c)
    <3>1. step[c] = "local_key_id"
      BY <2>1 DEF LocalKeyId, Proceed
    <3>2. PICK id \in 1..minted, req \in Requests, at \in Nat :
            draft[c] = Anonymous(id, req, at)
      BY <3>1, DraftForm DEF FormAt
    <3>3. Entry([draft[c] EXCEPT !.actor_id = HostKey]) = Entry(draft[c])
      BY <3>2, KeyIsStamped, FormNamesEntry DEF FormAt
    <3>. QED
      BY <2>1, <3>3, StampsAreStutters DEF LocalKeyId
  <2>2. CASE CanonicalizeForHash(c)
    <3>1. Entry(StampEntryHash(draft[c])) = Entry(draft[c])
      BY DEF StampEntryHash, Entry
    <3>. QED
      BY <2>2, <3>1, StampsAreStutters DEF CanonicalizeForHash
  <2>3. CASE LocalSign(c)
    <3>1. Entry(StampSignature(draft[c], CanonicalForSigning(draft[c]))) = Entry(draft[c])
      BY DEF StampSignature, Entry
    <3>. QED
      BY <2>3, <3>1, StampsAreStutters DEF LocalSign
  <2>4. CASE RecordEntry(c)
    BY <2>4, RecordAppends
  <2>5. CASE Answer(c)
    BY <2>5, ReturnResponds DEF Answer
  <2>6. CASE Raise(c)
    BY <2>6, ReturnResponds DEF Raise
  <2>. QED
    BY <1>3, <2>1, <2>2, <2>3, <2>4, <2>5, <2>6 DEF EngineStep
<1>4. ASSUME NEW c \in Callers, NEW req \in Requests, Log(c, req)
      PROVE  [AbstractLog!LogNext]_(AbstractLog!logVars)
  BY <1>4, LogRefines
<1>5. CASE Tick \/ UNCHANGED auditVars
  BY <1>1, <1>5 DEF Tick, auditVars
<1>. QED
  BY <1>2, <1>3, <1>4, <1>5 DEF AuditNext

LEMMA AuditInitRefines == AuditInit => AbstractLog!LogInit
<1>. SUFFICES ASSUME AuditInit PROVE AbstractLog!LogInit
  OBVIOUS
<1>1. [i \in DOMAIN chain |-> Entry(chain[i])] = <<>>
  BY DEF AuditInit
<1>. QED
  BY <1>1 DEF AuditInit, AbstractLog!LogInit

(* A caller told "ok" has its entry in the chain, once; one told "error"   *)
(* may have it or not; nothing is there that nobody asked for              *)
(* (audit/pyo3.rs:335-447).                                                *)
THEOREM AuditIsALog == AuditSpec => AuditImplementsLog
<1>1. AuditInv /\ [AuditNext]_auditVars => [AbstractLog!LogNext]_(AbstractLog!logVars)
  BY AuditStepRefines
<1>. QED
  BY <1>1, AuditInitRefines, AuditInvariant, PTL
  DEF AuditSpec, AuditImplementsLog, AbstractLog!LogSpec

----------------------------------------------------------------------------
(* Products.                                                               *)

LEMMA ProductIsTyped == ASSUME NEW a \in Int, NEW b \in Int PROVE a * b \in Int
OBVIOUS

LEMMA ProductCommutes == ASSUME NEW a \in Int, NEW b \in Int PROVE a * b = b * a
OBVIOUS

LEMMA Rearranged ==
  ASSUME NEW a \in Int, NEW b \in Int, NEW c \in Int, NEW d \in Int
  PROVE  (a * b) * (c * d) = (a * c) * (b * d) /\ (a * b) * (c * d) = (a * d) * (b * c)
OBVIOUS

LEMMA TimesPositive ==
  ASSUME NEW a \in Nat \ {0}, NEW b \in Nat \ {0} PROVE a * b \in Nat \ {0}
OBVIOUS

LEMMA TimesNatural ==
  ASSUME NEW a \in Nat, NEW b \in Nat PROVE a * b \in Nat
OBVIOUS

LEMMA TimesIsMonotone ==
  ASSUME NEW a \in Int, NEW b \in Int, NEW k \in Nat, a <= b
  PROVE  a * k <= b * k
OBVIOUS

LEMMA TimesIsStrict ==
  ASSUME NEW a \in Int, NEW b \in Int, NEW k \in Nat \ {0}, a < b
  PROVE  a * k < b * k
OBVIOUS

LEMMA TimesCancels ==
  ASSUME NEW a \in Int, NEW b \in Int, NEW k \in Nat \ {0}
  PROVE  (a * k <= b * k <=> a <= b) /\ (a * k = b * k <=> a = b)
OBVIOUS

----------------------------------------------------------------------------
(* Division.                                                               *)

LEMMA DividesExactly ==
  ASSUME NEW a \in Int, NEW g \in Nat \ {0}, NEW q \in Int, a = g * q
  PROVE  a \div g = q
OBVIOUS

LEMMA Quotient ==
  ASSUME NEW a \in Nat, NEW g \in Nat \ {0}, a % g = 0
  PROVE  a \div g \in Nat /\ a = g * (a \div g)
OBVIOUS

LEMMA LargestNumber ==
  ASSUME NEW n \in Nat, NEW T, T \subseteq 0..n, T # {}
  PROVE  Max(T) \in T /\ \A t \in T : t <= Max(T)
<1>. DEFINE R == OpToRel(<, Nat)
            U == {n - t : t \in T}
<1>1. U \subseteq Nat /\ U # {}
  <2>1. \A t \in T : n - t \in Nat
    OBVIOUS
  <2>. QED
    BY <2>1
<1>2. IsWellFoundedOn(R, Nat)
  BY NatLessThanWellFounded
<1>3. PICK u \in U : \A w \in U : ~ (<<w, u>> \in R)
  <2>. HIDE DEF R, U
  <2>. QED
    BY <1>1, <1>2, WFMin
<1>4. PICK x \in T : u = n - x
  BY <1>3
<1>5. ASSUME NEW y \in T PROVE x >= y
  <2>1. x \in Nat /\ y \in Nat /\ n - y \in U /\ n - y \in Nat /\ n - x \in Nat
    OBVIOUS
  <2>2. <<n - y, n - x>> \notin R
    BY <1>3, <1>4, <2>1
  <2>3. ~ (n - y < n - x)
    BY <2>1, <2>2 DEF OpToRel
  <2>. QED
    BY <2>1, <2>3
<1>6. Max(T) \in T /\ \A y \in T : Max(T) >= y
  BY <1>5 DEF Max
<1>7. \A t \in T : t \in Int
  OBVIOUS
<1>. QED
  BY <1>6, <1>7

LEMMA GcdDivides ==
  ASSUME NEW d \in Nat \ {0}, NEW m \in Nat
  PROVE  Gcd(d, m) \in Nat \ {0} /\ d % Gcd(d, m) = 0 /\ m % Gcd(d, m) = 0
<1>. DEFINE T == {k \in 1..d : d % k = 0 /\ m % k = 0}
<1>1. 1 \in T
  OBVIOUS
<1>2. T \subseteq 0..d /\ T # {}
  BY <1>1
<1>3. Max(T) \in T
  <2>. HIDE DEF T
  <2>. QED
    BY <1>2, LargestNumber
<1>. QED
  BY <1>3 DEF Gcd

----------------------------------------------------------------------------
(* A ratio in lowest terms is the ratio of the numbers it was made of, and *)
(* ratios compare like these.                                              *)

LEMMA RatioIs ==
  ASSUME NEW n \in Int, NEW d \in Nat \ {0}
  PROVE  /\ Ratio(n, d) \in Ratios
         /\ Ratio(n, d).n * d = n * Ratio(n, d).d
         /\ Ratio(n, d).n <= 0 <=> n <= 0
         /\ Ratio(n, d).n = 0 <=> n = 0
<1>. DEFINE m == IF n < 0 THEN -n ELSE n
<1>1. m \in Nat
  OBVIOUS
<1>2. PICK g : g = Gcd(d, m)
  OBVIOUS
<1>3. g \in Nat \ {0} /\ d % g = 0 /\ m % g = 0
  <2>. HIDE DEF m
  <2>. QED
    BY <1>1, <1>2, GcdDivides
<1>4. PICK p, q : p = m \div g /\ q = d \div g
  OBVIOUS
<1>5. p \in Nat /\ m = g * p /\ q \in Nat /\ d = g * q
  <2>. HIDE DEF m
  <2>. QED
    BY <1>1, <1>3, <1>4, Quotient
<1>6. q # 0
  BY <1>3, <1>5
<1>7. PICK s \in Int : s = IF n < 0 THEN -p ELSE p
  BY <1>5
<1>8. n = g * s
  BY <1>3, <1>5, <1>7
<1>9. n \div g = s
  <2>. HIDE DEF m
  <2>. QED
    BY <1>3, <1>8, DividesExactly
<1>10. Ratio(n, d) = [n |-> s, d |-> q]
  BY <1>2, <1>4, <1>9 DEF Ratio
<1>11. s * d = n * q
  BY <1>3, <1>5, <1>8
<1>12. (s <= 0 <=> n <= 0) /\ (s = 0 <=> n = 0)
  BY <1>3, <1>8
<1>. QED
  BY <1>5, <1>6, <1>10, <1>11, <1>12 DEF Ratios

(* A ratio r is n by d.                                                    *)
Is(r, n, d) == r \in Ratios /\ r.n * d = n * r.d

LEMMA LeqIs ==
  ASSUME NEW r, NEW s, NEW a \in Int, NEW b \in Nat \ {0}, NEW c \in Int, NEW d \in Nat \ {0},
         Is(r, a, b), Is(s, c, d)
  PROVE  Leq(r, s) <=> a * d <= c * b
<1>1. PICK rn, rd, sn, sd : rn = r.n /\ rd = r.d /\ sn = s.n /\ sd = s.d
  OBVIOUS
<1>2. /\ rn \in Int /\ rd \in Nat \ {0} /\ sn \in Int /\ sd \in Nat \ {0}
      /\ rn * b = a * rd /\ sn * d = c * sd
  BY <1>1 DEF Is, Ratios
<1>3. (rn * sd) * (b * d) = (a * d) * (rd * sd)
  <2>1. (rn * sd) * (b * d) = (rn * b) * (sd * d)
    BY <1>2
  <2>2. (a * rd) * (sd * d) = (a * d) * (rd * sd)
    BY <1>2
  <2>. QED
    BY <1>2, <2>1, <2>2
<1>4. (sn * rd) * (b * d) = (c * b) * (rd * sd)
  <2>1. (sn * rd) * (b * d) = (sn * d) * (rd * b)
    BY <1>2
  <2>2. (c * sd) * (rd * b) = (c * b) * (rd * sd)
    BY <1>2
  <2>. QED
    BY <1>2, <2>1, <2>2
<1>5. PICK x, y, z, w, k, l : /\ x = rn * sd /\ y = sn * rd /\ z = a * d /\ w = c * b
                              /\ k = b * d /\ l = rd * sd
  OBVIOUS
<1>6. /\ x \in Int /\ y \in Int /\ z \in Int /\ w \in Int
      /\ k \in Nat \ {0} /\ l \in Nat \ {0}
  BY <1>2, <1>5, TimesPositive, ProductIsTyped
<1>7. x * k = z * l /\ y * k = w * l
  BY <1>3, <1>4, <1>5
<1>8. x <= y <=> z <= w
  <2>1. x <= y <=> x * k <= y * k
    BY <1>6, TimesCancels
  <2>2. z <= w <=> z * l <= w * l
    BY <1>6, TimesCancels
  <2>. QED
    BY <1>7, <2>1, <2>2
<1>. QED
  BY <1>1, <1>5, <1>8 DEF Leq

LEMMA MadeOf ==
  ASSUME NEW n \in Int, NEW d \in Nat \ {0} PROVE Is(Ratio(n, d), n, d)
BY RatioIs DEF Is

LEMMA ItsOwn ==
  ASSUME NEW r \in Ratios PROVE r.n \in Int /\ r.d \in Nat \ {0} /\ Is(r, r.n, r.d)
BY DEF Ratios, Is

LEMMA ZeroAndOne ==
  /\ Zero \in Ratios /\ Is(Zero, 0, 1) /\ Zero.n = 0
  /\ One \in Ratios /\ Is(One, 1, 1) /\ One.n > 0
BY RatioIs DEF Zero, One, Is, Ratios

LEMMA LeqIsTransitive ==
  ASSUME NEW r \in Ratios, NEW s \in Ratios, NEW t \in Ratios, Leq(r, s), Leq(s, t)
  PROVE  Leq(r, t)
<1>1. PICK a, b, c, d, e, f : /\ a = r.n /\ b = r.d /\ c = s.n /\ d = s.d
                              /\ e = t.n /\ f = t.d
  OBVIOUS
<1>2. /\ a \in Int /\ b \in Nat \ {0} /\ c \in Int /\ d \in Nat \ {0}
      /\ e \in Int /\ f \in Nat \ {0} /\ a * d <= c * b /\ c * f <= e * d
  BY <1>1 DEF Leq, Ratios
<1>3. (a * d) * f <= (c * b) * f /\ (c * f) * b <= (e * d) * b
  BY <1>2, ProductIsTyped, TimesIsMonotone
<1>4. (a * f) * d <= (e * b) * d
  <2>1. (a * d) * f = (a * f) * d /\ (c * b) * f = (c * f) * b /\ (e * d) * b = (e * b) * d
    BY <1>2
  <2>2. (a * f) * d \in Int /\ (c * b) * f \in Int /\ (e * b) * d \in Int
    BY <1>2, ProductIsTyped
  <2>. QED
    BY <1>3, <2>1, <2>2
<1>5. a * f <= e * b
  BY <1>2, <1>4, ProductIsTyped, TimesCancels
<1>. QED
  BY <1>1, <1>5 DEF Leq

LEMMA LeqIsTotal ==
  ASSUME NEW r \in Ratios, NEW s \in Ratios PROVE Leq(r, s) \/ Leq(s, r)
<1>1. r.n * s.d \in Int /\ s.n * r.d \in Int
  BY DEF Ratios
<1>. QED
  BY <1>1 DEF Leq

----------------------------------------------------------------------------
(* What a sample is worth.                                                 *)

LEMMA CorrelationCosts ==
  ASSUME NEW n \in Nat, NEW r1 \in Int, NEW r2 \in Int, r1 <= r2
  PROVE  /\ KishNEff(n, r1) \in Ratios /\ KishNEff(n, r2) \in Ratios
         /\ Leq(KishNEff(n, r2), KishNEff(n, r1))
         /\ Leq(KishNEff(n, r1), Ratio(n, 1))
         /\ n > 0 => Leq(One, KishNEff(n, r2))
<1>1. CASE n = 0
  <2>1. KishNEff(n, r1) = Zero /\ KishNEff(n, r2) = Zero /\ Ratio(n, 1) = Zero
    BY <1>1 DEF KishNEff, Zero
  <2>2. Leq(Zero, Zero)
    BY ZeroAndOne, LeqIs
  <2>. QED
    BY <1>1, <2>1, <2>2, ZeroAndOne
<1>2. CASE n > 0
  <2>1. Grain \in Nat \ {0}
    BY CapacityAssumption
  <2>2. PICK G : G = Grain
    OBVIOUS
  <2>3. PICK c1, c2 : /\ c1 = IF r1 < 0 THEN 0 ELSE IF r1 > G THEN G ELSE r1
                      /\ c2 = IF r2 < 0 THEN 0 ELSE IF r2 > G THEN G ELSE r2
    OBVIOUS
  <2>4. G \in Nat \ {0} /\ c1 \in Nat /\ c2 \in Nat /\ c1 <= c2 /\ c2 <= G
    BY <2>1, <2>2, <2>3
  <2>5. PICK k, N, D1, D2 : k = n - 1 /\ N = n * G /\ D1 = G + c1 * k /\ D2 = G + c2 * k
    OBVIOUS
  <2>6. k \in Nat /\ n = k + 1 /\ N \in Nat \ {0} /\ N = G + G * k
    BY <1>2, <2>4, <2>5
  <2>7. /\ c1 * k \in Nat /\ c2 * k \in Nat /\ G * k \in Nat
        /\ c1 * k <= c2 * k /\ c2 * k <= G * k
    BY <2>4, <2>6, TimesIsMonotone, TimesNatural
  <2>8. /\ D1 \in Nat \ {0} /\ D2 \in Nat \ {0} /\ D1 <= D2 /\ D2 <= N /\ G <= D1
    BY <2>4, <2>5, <2>6, <2>7
  <2>9. KishNEff(n, r1) = Ratio(N, D1) /\ KishNEff(n, r2) = Ratio(N, D2)
    BY <1>2, <2>2, <2>3, <2>5 DEF KishNEff
  <2>10. PICK n1, n2 : n1 = Ratio(N, D1) /\ n2 = Ratio(N, D2)
    OBVIOUS
  <2>11. Is(n1, N, D1) /\ Is(n2, N, D2) /\ n1 \in Ratios /\ n2 \in Ratios
    BY <2>6, <2>8, <2>10, MadeOf DEF Is
  <2>12. Leq(n2, n1)
    <3>1. N * D1 <= N * D2
      BY <2>6, <2>8, TimesIsMonotone, ProductCommutes
    <3>. QED
      BY <2>6, <2>8, <2>11, <3>1, LeqIs
  <2>13. Leq(n1, Ratio(n, 1))
    <3>1. N * 1 <= n * D1
      BY <2>4, <2>5, <2>8, TimesIsMonotone, ProductCommutes
    <3>2. Is(Ratio(n, 1), n, 1)
      BY MadeOf
    <3>. QED
      BY <2>6, <2>8, <2>11, <3>1, <3>2, LeqIs
  <2>14. Leq(One, n2)
    <3>1. 1 * D2 <= N * 1
      BY <2>6, <2>8
    <3>. QED
      BY <2>6, <2>8, <2>11, <3>1, ZeroAndOne, LeqIs
  <2>. QED
    BY <2>9, <2>10, <2>11, <2>12, <2>13, <2>14
<1>. QED
  BY <1>1, <1>2

(* The band of x, a ratio of a by b.                                       *)
LEMMA Bands ==
  ASSUME NEW x \in Ratios, NEW gate \in Nat, NEW target \in Nat
  PROVE  LET a == x.n
             b == x.d
             B == CapacityBand(x, gate, target)
         IN  /\ Leq(x, Ratio(gate, 1)) <=> a <= gate * b
             /\ a <= gate * b => B = Zero
             /\ gate * b < a /\ target * b <= a => B = One
             /\ gate * b < a /\ a < target * b =>
                  /\ a - gate * b \in Nat \ {0} /\ b * (target - gate) \in Nat \ {0}
                  /\ target - gate \in Nat \ {0}
                  /\ Is(B, a - gate * b, b * (target - gate)) /\ B.n > 0
<1>1. PICK a, b, B : a = x.n /\ b = x.d /\ B = CapacityBand(x, gate, target)
  OBVIOUS
<1>2. a \in Int /\ b \in Nat \ {0} /\ Is(x, a, b)
  BY <1>1, ItsOwn
<1>3. Leq(x, Ratio(gate, 1)) <=> a <= gate * b
  <2>1. Leq(x, Ratio(gate, 1)) <=> a * 1 <= gate * b
    BY <1>2, MadeOf, LeqIs
  <2>. QED
    BY <1>2, <2>1
<1>4. Leq(Ratio(target, 1), x) <=> target * b <= a
  <2>1. Leq(Ratio(target, 1), x) <=> target * b <= a * 1
    BY <1>2, MadeOf, LeqIs
  <2>. QED
    BY <1>2, <2>1
<1>5. gate * b \in Int /\ target * b \in Int
  BY <1>2
<1>6. a <= gate * b => B = Zero
  BY <1>1, <1>3 DEF CapacityBand
<1>7. gate * b < a /\ target * b <= a => B = One
  BY <1>1, <1>2, <1>3, <1>4, <1>5 DEF CapacityBand
<1>8. ASSUME gate * b < a, a < target * b
      PROVE  /\ a - gate * b \in Nat \ {0} /\ b * (target - gate) \in Nat \ {0}
             /\ target - gate \in Nat \ {0}
             /\ Is(B, a - gate * b, b * (target - gate)) /\ B.n > 0
  <2>1. B = Ratio(a - gate * b, b * (target - gate))
    BY <1>1, <1>2, <1>3, <1>4, <1>5, <1>8 DEF CapacityBand
  <2>2. a - gate * b \in Nat \ {0}
    BY <1>2, <1>5, <1>8
  <2>3. target - gate \in Nat \ {0}
    <3>1. gate * b < target * b
      BY <1>2, <1>5, <1>8
    <3>2. gate < target
      BY <1>2, <3>1
    <3>. QED
      BY <3>2
  <2>4. b * (target - gate) \in Nat \ {0}
    BY <1>2, <2>3, TimesPositive
  <2>5. PICK u, w : u = a - gate * b /\ w = b * (target - gate)
    OBVIOUS
  <2>6. B = Ratio(u, w) /\ u \in Nat \ {0} /\ w \in Nat \ {0}
    BY <2>1, <2>2, <2>4, <2>5
  <2>7. Is(B, u, w) /\ B.n > 0
    <3>1. B \in Ratios /\ ~ (B.n <= 0)
      BY <2>6, RatioIs
    <3>. QED
      BY <2>6, <3>1, MadeOf DEF Ratios
  <2>. QED
    BY <2>2, <2>3, <2>4, <2>5, <2>7
<1>. QED
  BY <1>1, <1>3, <1>6, <1>7, <1>8

LEMMA BandGrows ==
  ASSUME NEW x \in Ratios, NEW y \in Ratios, Leq(x, y), NEW gate \in Nat, NEW target \in Nat
  PROVE  /\ Leq(CapacityBand(x, gate, target), CapacityBand(y, gate, target))
         /\ CapacityBand(y, gate, target).n = 0 <=> Leq(y, Ratio(gate, 1))
         /\ Leq(CapacityBand(y, gate, target), One)
<1>1. PICK a, b, c, d, X, Y : /\ a = x.n /\ b = x.d /\ c = y.n /\ d = y.d
                              /\ X = CapacityBand(x, gate, target)
                              /\ Y = CapacityBand(y, gate, target)
  OBVIOUS
<1>2. a \in Int /\ b \in Nat \ {0} /\ c \in Int /\ d \in Nat \ {0} /\ a * d <= c * b
  BY <1>1, ItsOwn DEF Leq
<1>3. /\ gate * b \in Int /\ gate * d \in Int /\ target * b \in Int /\ target * d \in Int
      /\ a * d \in Int /\ c * b \in Int
  BY <1>2
<1>4. /\ a <= gate * b => X = Zero
      /\ gate * b < a /\ target * b <= a => X = One
      /\ gate * b < a /\ a < target * b =>
           /\ a - gate * b \in Nat \ {0} /\ b * (target - gate) \in Nat \ {0}
           /\ target - gate \in Nat \ {0}
           /\ Is(X, a - gate * b, b * (target - gate)) /\ X.n > 0
  BY <1>1, Bands
<1>5. /\ Leq(y, Ratio(gate, 1)) <=> c <= gate * d
      /\ c <= gate * d => Y = Zero
      /\ gate * d < c /\ target * d <= c => Y = One
      /\ gate * d < c /\ c < target * d =>
           /\ c - gate * d \in Nat \ {0} /\ d * (target - gate) \in Nat \ {0}
           /\ target - gate \in Nat \ {0}
           /\ Is(Y, c - gate * d, d * (target - gate)) /\ Y.n > 0
  BY <1>1, Bands
<1>6. gate * b < a => gate * d < c
  <2>1. ASSUME gate * b < a PROVE gate * d < c
    <3>1. (gate * b) * d < a * d
      BY <1>2, <1>3, <2>1, TimesIsStrict
    <3>2. (gate * d) * b < c * b
      <4>1. (gate * b) * d = (gate * d) * b /\ (gate * b) * d \in Int
        BY <1>2
      <4>. QED
        BY <1>2, <1>3, <3>1, <4>1
    <3>3. ~ (c <= gate * d)
      BY <1>2, <1>3, <3>2, TimesIsMonotone
    <3>. QED
      BY <1>2, <1>3, <3>3
  <2>. QED
    BY <2>1
<1>7. target * b <= a => target * d <= c
  <2>1. ASSUME target * b <= a PROVE target * d <= c
    <3>1. (target * b) * d <= a * d
      BY <1>2, <1>3, <2>1, TimesIsMonotone
    <3>2. (target * d) * b <= c * b
      <4>1. (target * b) * d = (target * d) * b /\ (target * b) * d \in Int
        BY <1>2
      <4>. QED
        BY <1>2, <1>3, <3>1, <4>1
    <3>. QED
      BY <1>2, <1>3, <3>2, TimesCancels
  <2>. QED
    BY <2>1
<1>8. Y \in Ratios /\ Leq(Zero, Y) /\ Leq(Y, One)
  <2>1. CASE c <= gate * d
    BY <1>5, <2>1, ZeroAndOne, LeqIs
  <2>2. CASE gate * d < c /\ target * d <= c
    BY <1>5, <2>2, ZeroAndOne, LeqIs
  <2>3. CASE gate * d < c /\ c < target * d
    <3>1. PICK u, w : u = c - gate * d /\ w = d * (target - gate)
      OBVIOUS
    <3>2. u \in Nat \ {0} /\ w \in Nat \ {0} /\ Is(Y, u, w)
      BY <1>5, <2>3, <3>1
    <3>3. u <= w
      BY <1>2, <1>3, <2>3, <3>1
    <3>4. 0 * w <= u * 1 /\ u * 1 <= 1 * w
      BY <3>2, <3>3
    <3>5. Leq(Zero, Y)
      BY <3>2, <3>4, ZeroAndOne, LeqIs
    <3>6. Leq(Y, One)
      BY <3>2, <3>4, ZeroAndOne, LeqIs
    <3>. QED
      BY <3>2, <3>5, <3>6 DEF Is
  <2>. QED
    BY <1>2, <1>3, <2>1, <2>2, <2>3
<1>9. Y.n = 0 <=> Leq(y, Ratio(gate, 1))
  <2>1. CASE c <= gate * d
    BY <1>5, <2>1, ZeroAndOne
  <2>2. CASE gate * d < c
    <3>1. Y.n > 0
      BY <1>2, <1>3, <1>5, <2>2, ZeroAndOne
    <3>2. Y.n # 0 /\ ~ (c <= gate * d)
      BY <1>2, <1>3, <1>8, <2>2, <3>1 DEF Ratios
    <3>. QED
      BY <1>5, <3>2
  <2>. QED
    BY <1>2, <1>3, <2>1, <2>2
<1>10. Leq(X, Y)
  <2>1. CASE a <= gate * b
    BY <1>4, <1>8, <2>1
  <2>2. CASE gate * b < a /\ target * d <= c
    <3>1. Y = One
      BY <1>5, <1>6, <2>2
    <3>2. CASE target * b <= a
      BY <1>4, <2>2, <3>1, <3>2, ZeroAndOne, LeqIs
    <3>3. CASE a < target * b
      <4>1. PICK u, w : u = a - gate * b /\ w = b * (target - gate)
        OBVIOUS
      <4>2. u \in Nat \ {0} /\ w \in Nat \ {0} /\ Is(X, u, w)
        BY <1>4, <2>2, <3>3, <4>1
      <4>3. u * 1 <= 1 * w
        BY <1>2, <1>3, <3>3, <4>1, <4>2
      <4>. QED
        BY <3>1, <4>2, <4>3, ZeroAndOne, LeqIs
    <3>. QED
      BY <1>2, <1>3, <3>2, <3>3
  <2>3. CASE gate * b < a /\ c < target * d
    <3>1. a < target * b /\ gate * d < c
      BY <1>2, <1>3, <1>6, <1>7, <2>3
    <3>2. PICK u, w, v, z, t : /\ u = a - gate * b /\ w = b * (target - gate)
                               /\ v = c - gate * d /\ z = d * (target - gate)
                               /\ t = target - gate
      OBVIOUS
    <3>3. /\ u \in Nat \ {0} /\ w \in Nat \ {0} /\ v \in Nat \ {0} /\ z \in Nat \ {0}
          /\ t \in Nat \ {0} /\ Is(X, u, w) /\ Is(Y, v, z)
      BY <1>4, <1>5, <2>3, <3>1, <3>2
    <3>4. u * d <= v * b
      <4>1. u * d = a * d - (gate * b) * d /\ v * b = c * b - (gate * d) * b
        BY <1>2, <3>2
      <4>2. (gate * b) * d = (gate * d) * b /\ (gate * b) * d \in Int
        BY <1>2
      <4>. QED
        BY <1>2, <1>3, <4>1, <4>2
    <3>5. (u * d) * t <= (v * b) * t
      BY <1>2, <3>3, <3>4, ProductIsTyped, TimesIsMonotone
    <3>6. u * z <= v * w
      BY <1>2, <3>2, <3>3, <3>5
    <3>. QED
      BY <3>3, <3>6, LeqIs
  <2>. QED
    BY <1>2, <1>3, <2>1, <2>2, <2>3
<1>. QED
  BY <1>1, <1>8, <1>9, <1>10

(* scoring/n_eff.rs:28 and scoring/capacity.rs: for any grain and any bound*)
(* on the sample, a sample is worth at most itself and at least one, less  *)
(* the more its members correlate, and the band it opens shrinks with it.  *)
THEOREM SamplesNeverInflated == SamplesAreNeverInflated
<1>1. ASSUME NEW n \in 0..MaxSample, NEW gate \in 0..MaxSample, NEW target \in 0..MaxSample,
             NEW r1 \in -1..(Grain + 1), NEW r2 \in -1..(Grain + 1), r1 <= r2
      PROVE  /\ Leq(KishNEff(n, r2), KishNEff(n, r1)) /\ Leq(KishNEff(n, r1), Ratio(n, 1))
             /\ n > 0 => Leq(One, KishNEff(n, r2))
             /\ Leq(CapacityBand(KishNEff(n, r2), gate, target),
                    CapacityBand(KishNEff(n, r1), gate, target))
             /\ CapacityBand(KishNEff(n, r1), gate, target).n = 0
                  <=> Leq(KishNEff(n, r1), Ratio(gate, 1))
             /\ Leq(CapacityBand(KishNEff(n, r1), gate, target), One)
  <2>1. n \in Nat /\ gate \in Nat /\ target \in Nat /\ r1 \in Int /\ r2 \in Int
    BY CapacityAssumption
  <2>2. PICK x, y : x = KishNEff(n, r2) /\ y = KishNEff(n, r1)
    OBVIOUS
  <2>3. /\ x \in Ratios /\ y \in Ratios /\ Leq(x, y) /\ Leq(y, Ratio(n, 1))
        /\ n > 0 => Leq(One, x)
    BY <1>1, <2>1, <2>2, CorrelationCosts
  <2>. QED
    BY <2>1, <2>2, <2>3, BandGrows
<1>. QED
  BY <1>1 DEF SamplesAreNeverInflated, SampleIsNeverInflated

----------------------------------------------------------------------------
(* Who attests, and how good a word it is.                                 *)

LEMMA TimesAtMost ==
  ASSUME NEW p \in Nat, NEW q \in Nat, NEW e \in Nat, NEW G \in Nat, p <= q, e <= G
  PROVE  p * e \in Nat /\ q * G \in Nat /\ p * e <= q * G
<1>1. p * e <= q * e
  BY TimesIsMonotone
<1>2. q * e <= q * G
  BY TimesIsMonotone, ProductCommutes
<1>. QED
  BY <1>1, <1>2, TimesNatural

LEMMA FirstOfFive ==
  ASSUME NEW G \in Nat, NEW a \in 0..G, NEW b \in 0..G, NEW c \in 0..G, NEW d \in 0..G,
         NEW e \in 0..G
  PROVE  a * b * c * d * e <= a * G * G * G * G
<1>1. PICK p2, p3, p4, q2, q3, q4 : /\ p2 = a * b /\ p3 = p2 * c /\ p4 = p3 * d
                                    /\ q2 = a * G /\ q3 = q2 * G /\ q4 = q3 * G
  OBVIOUS
<1>2. /\ a \in Nat /\ b \in Nat /\ c \in Nat /\ d \in Nat /\ e \in Nat
      /\ a <= a /\ b <= G /\ c <= G /\ d <= G /\ e <= G
  OBVIOUS
<1>3. p2 \in Nat /\ q2 \in Nat /\ p2 <= q2
  BY <1>1, <1>2, TimesAtMost
<1>4. p3 \in Nat /\ q3 \in Nat /\ p3 <= q3
  BY <1>1, <1>2, <1>3, TimesAtMost
<1>5. p4 \in Nat /\ q4 \in Nat /\ p4 <= q4
  BY <1>1, <1>2, <1>4, TimesAtMost
<1>6. p4 * e <= q4 * G
  BY <1>2, <1>5, TimesAtMost
<1>. QED
  BY <1>1, <1>6

LEMMA WeakestFactor ==
  ASSUME NEW f, ValidFactors(f), NEW k \in Factors
  PROVE  f[k] \in 0..Grain /\ Composite(f) <= f[k] * Grain * Grain * Grain * Grain
<1>1. PICK G, a, b, c, d, e :
        /\ G = Grain /\ a = f["core_identity"] /\ b = f["integrity"] /\ c = f["resilience"]
        /\ d = f["incompleteness_awareness"] /\ e = f["sustained_coherence"]
  OBVIOUS
<1>2. /\ G \in Nat /\ a \in 0..G /\ b \in 0..G /\ c \in 0..G /\ d \in 0..G /\ e \in 0..G
  BY <1>1, CapacityAssumption DEF ValidFactors, Factors
<1>3. Composite(f) = a * b * c * d * e
  BY <1>1 DEF Composite
<1>4. /\ a * b * c * d * e = b * a * c * d * e /\ a * b * c * d * e = c * a * b * d * e
      /\ a * b * c * d * e = d * a * b * c * e /\ a * b * c * d * e = e * a * b * c * d
  BY <1>2
<1>5. /\ Composite(f) <= a * G * G * G * G
      /\ Composite(f) <= b * G * G * G * G
      /\ Composite(f) <= c * G * G * G * G
      /\ Composite(f) <= d * G * G * G * G
      /\ Composite(f) <= e * G * G * G * G
  BY <1>2, <1>3, <1>4, FirstOfFive
<1>6. f[k] \in {a, b, c, d, e}
  BY <1>1 DEF Factors
<1>. QED
  BY <1>1, <1>2, <1>5, <1>6

LEMMA HeldIsValid ==
  ASSUME NEW by, NEW about, NEW f, Constructs(by, about, f),
         attested' = [by |-> by, about |-> about, factors |-> f]
  PROVE  NobodyAttestsThemselves'
<1>1. attested'.by # attested'.about /\ attested'.factors = f /\ ValidFactors(f)
  BY DEF Constructs
<1>2. \A k \in Factors : f[k] \in 0..Grain /\ Composite(f) <= f[k] * Grain * Grain * Grain * Grain
  BY <1>1, WeakestFactor
<1>. QED
  BY <1>1, <1>2 DEF NobodyAttestsThemselves

(* capacity/attestation.rs:58 and scoring/n_eff.rs: no constructor and no  *)
(* decoder lets an agent's word about itself in, or factors out of range,  *)
(* and no correlation makes a sample worth more than it is, for any keys,  *)
(* any grain of the factors and any sample, gate and target.               *)
THEOREM CapacityNeverInflated == CapacitySpec => []CapacityIsNeverInflated
<1>1. CapacityInit => NobodyAttestsThemselves
  BY DEF CapacityInit, NobodyAttestsThemselves
<1>2. ASSUME NobodyAttestsThemselves, [CapacityNext]_attested PROVE NobodyAttestsThemselves'
  <2>1. CASE CapacityNext
    <3>1. PICK by, about, f : Emit(by, about, f) \/ Receive(by, about, f)
      BY <2>1 DEF CapacityNext
    <3>2. Constructs(by, about, f) /\ attested' = [by |-> by, about |-> about, factors |-> f]
      BY <3>1 DEF Emit, Receive, Decodes
    <3>. QED
      BY <3>2, HeldIsValid
  <2>2. CASE UNCHANGED attested
    BY <1>2, <2>2 DEF NobodyAttestsThemselves
  <2>. QED
    BY <1>2, <2>1, <2>2
<1>3. NobodyAttestsThemselves => CapacityIsNeverInflated
  BY SamplesNeverInflated DEF CapacityIsNeverInflated
<1>. QED
  BY <1>1, <1>2, <1>3, PTL DEF CapacitySpec

----------------------------------------------------------------------------
(* Induction up to a number.  The induction theorems of the library take an *)
(* operator; a set of numbers does as well.                                 *)

LEMMA UpToN ==
  ASSUME NEW N \in Nat, NEW Good, 0 \in Good,
         \A n \in 0..N : n \in Good /\ n < N => n + 1 \in Good
  PROVE  \A n \in 0..N : n \in Good
<1>. SUFFICES ASSUME NEW k \in 0..N, k \notin Good PROVE FALSE
  OBVIOUS
<1>. DEFINE T == {i \in 0..N : \A n \in 0..i : n \in Good}
<1>1. 0 \in T
  OBVIOUS
<1>2. T \subseteq 0..N /\ T # {}
  BY <1>1
<1>3. PICK m : m = Max(T)
  OBVIOUS
<1>4. m \in T /\ \A t \in T : t <= m
  <2>. HIDE DEF T
  <2>. QED
    BY <1>2, <1>3, LargestNumber
<1>5. m \in 0..N /\ (\A n \in 0..m : n \in Good) /\ m < k
  BY <1>4
<1>6. m + 1 \in Good /\ m + 1 \in 0..N
  BY <1>5
<1>7. m + 1 \in T
  BY <1>5, <1>6
<1>. QED
  BY <1>4, <1>5, <1>7

----------------------------------------------------------------------------
(* Sums.                                                                   *)

SumStep(u, v, i) == IF i = 0 THEN 0 ELSE u[i - 1] + v[i]

Sums(u, v, N) == u = [i \in 0..N |-> SumStep(u, v, i)]

LEMMA SumsAreDefined ==
  ASSUME NEW v, NEW N \in Nat PROVE \E u : Sums(u, v, N)
<1>. DEFINE Good == {n \in 0..N : \E u : Sums(u, v, n)}
<1>1. 0 \in Good
  <2>1. Sums([n \in 0..0 |-> 0], v, 0)
    BY DEF Sums, SumStep
  <2>. QED
    BY <2>1
<1>2. ASSUME NEW m \in 0..N, m \in Good, m < N PROVE m + 1 \in Good
  <2>1. PICK u : Sums(u, v, m)
    BY <1>2
  <2>2. PICK w : w = [n \in 0..(m + 1) |-> IF n = m + 1 THEN SumStep(u, v, n) ELSE u[n]]
    OBVIOUS
  <2>3. ASSUME NEW n \in 0..m PROVE w[n] = SumStep(w, v, n)
    <3>1. w[n] = u[n] /\ u[n] = SumStep(u, v, n)
      BY <2>1, <2>2 DEF Sums
    <3>2. n # 0 => w[n - 1] = u[n - 1]
      BY <2>2
    <3>. QED
      BY <3>1, <3>2 DEF SumStep
  <2>4. w[m + 1] = SumStep(w, v, m + 1)
    <3>1. w[m + 1] = SumStep(u, v, m + 1) /\ w[m] = u[m]
      BY <2>2
    <3>. QED
      BY <3>1 DEF SumStep
  <2>5. w = [n \in 0..(m + 1) |-> SumStep(w, v, n)]
    <3>1. \A n \in 0..(m + 1) : w[n] = SumStep(w, v, n)
      BY <2>3, <2>4
    <3>2. w = [n \in 0..(m + 1) |-> w[n]]
      BY <2>2
    <3>. QED
      BY <3>1, <3>2
  <2>6. m + 1 \in 0..N
    BY <1>2
  <2>. QED
    BY <2>5, <2>6 DEF Sums
<1>. HIDE DEF Good
<1>3. N \in Good
  BY <1>1, <1>2, UpToN
<1>. QED
  BY <1>3 DEF Good

(* n numbers.                                                              *)
Series(v, n) == n \in Nat /\ v \in Seq(Int) /\ Len(v) = n

LEMMA SeriesOf ==
  ASSUME NEW n \in Nat, NEW v \in [1..n -> Int] PROVE Series(v, n)
BY DEF Series

LEMMA SumsUnfold ==
  ASSUME NEW n, NEW v, Series(v, n)
  PROVE  \E u : /\ u[0] = 0 /\ (\A i \in 0..n : u[i] \in Int)
                /\ (\A i \in 1..n : u[i] = u[i - 1] + v[i]) /\ Total(v) = u[n]
<1>1. n \in Nat /\ Len(v) = n /\ \A i \in 1..n : v[i] \in Int
  BY DEF Series
<1>. DEFINE u == CHOOSE f : f = [i \in 0..Len(v) |-> IF i = 0 THEN 0 ELSE f[i - 1] + v[i]]
<1>2. Total(v) = u[Len(v)]
  BY DEF Total
<1>3. \E f : f = [i \in 0..Len(v) |-> IF i = 0 THEN 0 ELSE f[i - 1] + v[i]]
  <2>1. PICK f : Sums(f, v, n)
    BY <1>1, SumsAreDefined
  <2>. QED
    BY <1>1, <2>1 DEF Sums, SumStep
<1>4. u = [i \in 0..Len(v) |-> IF i = 0 THEN 0 ELSE u[i - 1] + v[i]]
  BY <1>3
<1>5. PICK w : w = u
  OBVIOUS
<1>6. w[0] = 0 /\ \A i \in 1..n : w[i] = w[i - 1] + v[i]
  <2>. HIDE DEF u
  <2>. QED
    BY <1>1, <1>4, <1>5
<1>. DEFINE Good == {i \in 0..n : w[i] \in Int}
<1>7. 0 \in Good
  BY <1>1, <1>6
<1>8. ASSUME NEW i \in 0..n, i \in Good, i < n PROVE i + 1 \in Good
  <2>1. i + 1 \in 1..n /\ (i + 1) - 1 = i
    BY <1>1, <1>8
  <2>2. w[i + 1] = w[i] + v[i + 1] /\ w[i] \in Int /\ v[i + 1] \in Int
    BY <1>1, <1>6, <1>8, <2>1
  <2>. QED
    BY <2>1, <2>2
<1>9. \A i \in 0..n : i \in Good
  <2>. HIDE DEF Good
  <2>. QED
    BY <1>1, <1>7, <1>8, UpToN
<1>. HIDE DEF u
<1>. QED
  BY <1>1, <1>2, <1>5, <1>6, <1>9

LEMMA TotalIsTyped ==
  ASSUME NEW n, NEW v, Series(v, n)
  PROVE  Total(v) \in Int /\ (n = 0 => Total(v) = 0)
<1>1. PICK u : /\ u[0] = 0 /\ (\A i \in 0..n : u[i] \in Int) /\ Total(v) = u[n]
  BY SumsUnfold
<1>2. n \in Nat
  BY DEF Series
<1>. QED
  BY <1>1, <1>2

Linear(x, n, a, v, b, w, c) == \A i \in 1..n : x[i] = a * v[i] + b * w[i] + c

LEMMA TotalIsLinear ==
  ASSUME NEW n, NEW v, NEW w, NEW x, Series(v, n), Series(w, n), Series(x, n),
         NEW a \in Int, NEW b \in Int, NEW c \in Int, Linear(x, n, a, v, b, w, c)
  PROVE  Total(x) = a * Total(v) + b * Total(w) + c * n
<1>1. PICK p : /\ p[0] = 0 /\ (\A i \in 0..n : p[i] \in Int)
               /\ (\A i \in 1..n : p[i] = p[i - 1] + v[i]) /\ Total(v) = p[n]
  BY SumsUnfold
<1>2. PICK q : /\ q[0] = 0 /\ (\A i \in 0..n : q[i] \in Int)
               /\ (\A i \in 1..n : q[i] = q[i - 1] + w[i]) /\ Total(w) = q[n]
  BY SumsUnfold
<1>3. PICK r : /\ r[0] = 0 /\ (\A i \in 0..n : r[i] \in Int)
               /\ (\A i \in 1..n : r[i] = r[i - 1] + x[i]) /\ Total(x) = r[n]
  BY SumsUnfold
<1>4. /\ n \in Nat
      /\ \A i \in 1..n : v[i] \in Int /\ w[i] \in Int /\ x[i] \in Int
      /\ \A i \in 1..n : x[i] = a * v[i] + b * w[i] + c
  BY DEF Series, Linear
<1>. DEFINE Good == {i \in 0..n : r[i] = a * p[i] + b * q[i] + c * i}
<1>5. 0 \in Good
  BY <1>1, <1>2, <1>3, <1>4
<1>6. ASSUME NEW i \in 0..n, i \in Good, i < n PROVE i + 1 \in Good
  <2>1. i + 1 \in 1..n /\ (i + 1) - 1 = i /\ i \in Nat
    BY <1>4, <1>6
  <2>2. PICK pi, qi, ri, vi, wi, xi : /\ pi = p[i] /\ qi = q[i] /\ ri = r[i]
                                      /\ vi = v[i + 1] /\ wi = w[i + 1] /\ xi = x[i + 1]
    OBVIOUS
  <2>3. /\ pi \in Int /\ qi \in Int /\ ri \in Int /\ vi \in Int /\ wi \in Int /\ xi \in Int
        /\ p[i + 1] = pi + vi /\ q[i + 1] = qi + wi /\ r[i + 1] = ri + xi
        /\ ri = a * pi + b * qi + c * i /\ xi = a * vi + b * wi + c
    BY <1>1, <1>2, <1>3, <1>4, <1>6, <2>1, <2>2
  <2>4. ri + xi = a * (pi + vi) + b * (qi + wi) + c * (i + 1)
    BY <2>1, <2>3
  <2>. QED
    BY <1>4, <2>1, <2>3, <2>4
<1>7. \A i \in 0..n : i \in Good
  <2>. HIDE DEF Good
  <2>. QED
    BY <1>4, <1>5, <1>6, UpToN
<1>. QED
  BY <1>1, <1>2, <1>3, <1>4, <1>7

LEMMA TotalIsMonotone ==
  ASSUME NEW n, NEW v, NEW w, Series(v, n), Series(w, n), \A i \in 1..n : v[i] <= w[i]
  PROVE  Total(v) <= Total(w)
<1>1. PICK p : /\ p[0] = 0 /\ (\A i \in 0..n : p[i] \in Int)
               /\ (\A i \in 1..n : p[i] = p[i - 1] + v[i]) /\ Total(v) = p[n]
  BY SumsUnfold
<1>2. PICK q : /\ q[0] = 0 /\ (\A i \in 0..n : q[i] \in Int)
               /\ (\A i \in 1..n : q[i] = q[i - 1] + w[i]) /\ Total(w) = q[n]
  BY SumsUnfold
<1>3. n \in Nat /\ \A i \in 1..n : v[i] \in Int /\ w[i] \in Int
  BY DEF Series
<1>. DEFINE Good == {i \in 0..n : p[i] <= q[i]}
<1>4. 0 \in Good
  BY <1>1, <1>2, <1>3
<1>5. ASSUME NEW i \in 0..n, i \in Good, i < n PROVE i + 1 \in Good
  <2>1. i + 1 \in 1..n /\ (i + 1) - 1 = i
    BY <1>3, <1>5
  <2>2. PICK pi, qi, vi, wi : pi = p[i] /\ qi = q[i] /\ vi = v[i + 1] /\ wi = w[i + 1]
    OBVIOUS
  <2>3. /\ pi \in Int /\ qi \in Int /\ vi \in Int /\ wi \in Int /\ pi <= qi /\ vi <= wi
        /\ p[i + 1] = pi + vi /\ q[i + 1] = qi + wi
    BY <1>1, <1>2, <1>3, <1>5, <2>1, <2>2
  <2>. QED
    BY <1>3, <2>1, <2>3
<1>6. \A i \in 0..n : i \in Good
  <2>. HIDE DEF Good
  <2>. QED
    BY <1>3, <1>4, <1>5, UpToN
<1>. QED
  BY <1>1, <1>2, <1>3, <1>6

LEMMA TotalOfZeros ==
  ASSUME NEW n, NEW v, Series(v, n), \A i \in 1..n : v[i] = 0
  PROVE  Total(v) = 0
<1>1. n \in Nat /\ \A i \in 1..n : v[i] \in Int
  BY DEF Series
<1>2. Linear(v, n, 0, v, 0, v, 0)
  BY <1>1 DEF Linear
<1>3. Total(v) = 0 * Total(v) + 0 * Total(v) + 0 * n
  BY <1>2, TotalIsLinear
<1>. QED
  BY <1>1, <1>3, TotalIsTyped

(* One of n numbers, the others are nothing.                               *)
LEMMA TotalOfOne ==
  ASSUME NEW n \in Nat, NEW k \in 1..n, NEW v, Series(v, n),
         \A i \in 1..n : i # k => v[i] = 0
  PROVE  Total(v) = v[k]
<1>0. PICK c \in Int : c = v[k]
  BY DEF Series
<1>1. PICK p : /\ p[0] = 0 /\ (\A i \in 0..n : p[i] \in Int)
               /\ (\A i \in 1..n : p[i] = p[i - 1] + v[i]) /\ Total(v) = p[n]
  BY SumsUnfold
<1>. DEFINE Good == {i \in 0..n : p[i] = IF i < k THEN 0 ELSE c}
<1>2. 0 \in Good
  BY <1>1
<1>3. ASSUME NEW i \in 0..n, i \in Good, i < n PROVE i + 1 \in Good
  <2>1. i + 1 \in 1..n /\ (i + 1) - 1 = i
    BY <1>3
  <2>2. PICK pi, vi : pi = p[i] /\ vi = v[i + 1]
    OBVIOUS
  <2>3. /\ pi = (IF i < k THEN 0 ELSE c) /\ vi = (IF i + 1 = k THEN c ELSE 0)
        /\ p[i + 1] = pi + vi
    BY <1>0, <1>1, <1>3, <2>1, <2>2
  <2>. QED
    BY <2>1, <2>3
<1>4. \A i \in 0..n : i \in Good
  <2>. HIDE DEF Good
  <2>. QED
    BY <1>2, <1>3, UpToN
<1>. QED
  BY <1>0, <1>1, <1>4

(* None of them is above the sum, when none is negative.                   *)
LEMMA TotalOfNaturals ==
  ASSUME NEW n, NEW v, Series(v, n), \A i \in 1..n : v[i] >= 0
  PROVE  Total(v) \in Nat /\ \A i \in 1..n : v[i] <= Total(v)
<1>1. n \in Nat /\ \A i \in 1..n : v[i] \in Int
  BY DEF Series
<1>2. PICK z : z = [i \in 1..n |-> 0]
  OBVIOUS
<1>3. Series(z, n) /\ \A i \in 1..n : z[i] = 0
  BY <1>1, <1>2, SeriesOf
<1>4. Total(z) = 0
  BY <1>3, TotalOfZeros
<1>5. Total(z) <= Total(v)
  BY <1>3, TotalIsMonotone
<1>6. ASSUME NEW k \in 1..n PROVE v[k] <= Total(v)
  <2>1. PICK w : w = [i \in 1..n |-> IF i = k THEN v[k] ELSE 0]
    OBVIOUS
  <2>2. Series(w, n) /\ \A i \in 1..n : w[i] = IF i = k THEN v[k] ELSE 0
    BY <1>1, <2>1, SeriesOf
  <2>3. Total(w) = w[k] /\ w[k] = v[k]
    BY <1>1, <2>2, TotalOfOne
  <2>4. \A i \in 1..n : w[i] <= v[i]
    BY <1>1, <2>2
  <2>. QED
    BY <2>2, <2>3, <2>4, TotalIsMonotone
<1>. QED
  BY <1>4, <1>5, <1>6, TotalIsTyped

----------------------------------------------------------------------------
(* The measures are ratios, and in their range.                            *)

LEMMA EmptySeries ==
  ASSUME NEW n, NEW v, Series(v, n) PROVE v = <<>> <=> n = 0
BY DEF Series

LEMMA SquaresAreTyped ==
  ASSUME NEW n, NEW v, Series(v, n)
  PROVE  \E s : /\ Series(s, n) /\ Squares(v) = Total(s) /\ Squares(v) \in Nat
                /\ \A i \in 1..n : s[i] = v[i] * v[i] /\ s[i] >= 0
<1>1. n \in Nat /\ Len(v) = n /\ \A i \in 1..n : v[i] \in Int
  BY DEF Series
<1>2. PICK s : s = [i \in 1..n |-> v[i] * v[i]]
  OBVIOUS
<1>3. ASSUME NEW i \in 1..n PROVE v[i] * v[i] \in Int /\ v[i] * v[i] >= 0
  <2>1. PICK a \in Int : a = v[i]
    BY <1>1
  <2>2. a * a \in Int /\ a * a >= 0
    OBVIOUS
  <2>. QED
    BY <2>1, <2>2
<1>4. s \in [1..n -> Int] /\ \A i \in 1..n : s[i] = v[i] * v[i] /\ s[i] >= 0
  BY <1>2, <1>3
<1>5. Series(s, n)
  BY <1>1, <1>4, SeriesOf
<1>6. Squares(v) = Total(s)
  BY <1>1, <1>2 DEF Squares
<1>. QED
  BY <1>4, <1>5, <1>6, TotalOfNaturals

LEMMA RootIsTyped ==
  ASSUME NEW m \in Nat PROVE Root(m) \in Nat
<1>. DEFINE Good == {k \in 0..m : \E r \in 0..k : r * r <= k /\ k < (r + 1) * (r + 1)}
<1>1. 0 \in Good
  OBVIOUS
<1>2. ASSUME NEW k \in 0..m, k \in Good, k < m PROVE k + 1 \in Good
  <2>1. PICK r \in 0..k : r * r <= k /\ k < (r + 1) * (r + 1)
    BY <1>2
  <2>2. CASE k + 1 < (r + 1) * (r + 1)
    <3>1. r \in 0..(k + 1) /\ r * r <= k + 1 /\ k + 1 \in 0..m
      BY <1>2, <2>1
    <3>. QED
      BY <2>2, <3>1
  <2>3. CASE ~ (k + 1 < (r + 1) * (r + 1))
    <3>1. PICK q : q = r + 1
      OBVIOUS
    <3>2. q \in Nat /\ q * q = k + 1 /\ q \in 0..(k + 1) /\ k + 1 \in 0..m
      BY <1>2, <2>1, <2>3, <3>1
    <3>3. k + 1 < (q + 1) * (q + 1)
      BY <3>2
    <3>. QED
      BY <3>2, <3>3
  <2>. QED
    BY <2>2, <2>3
<1>3. m \in Good
  <2>. HIDE DEF Good
  <2>. QED
    BY <1>1, <1>2, UpToN
<1>4. \E r \in 0..m : r * r <= m /\ m < (r + 1) * (r + 1)
  BY <1>3
<1>5. Root(m) \in 0..m
  BY <1>4 DEF Root
<1>. QED
  BY <1>5

LEMMA DifferencesFromOne ==
  ASSUME NEW n \in Nat, NEW v, Series(v, n), \A j \in 1..n : v[j] \in Nat, NEW i \in 1..n,
         NEW r, r = [j \in 1..n |-> AbsDiff(v[i], v[j])]
  PROVE  /\ Total(r) \in Nat
         /\ Total(r) <= n * v[i] - 2 * v[i] + Total(v)
<1>1. PICK c, e, k : c = v[i] /\ e = 2 * c /\ k = -1
  OBVIOUS
<1>2. c \in Nat /\ e \in Int /\ k \in Int
  BY <1>1
<1>3. PICK one : one = [j \in 1..n |-> IF j = i THEN e ELSE 0]
  OBVIOUS
<1>4. PICK b : b = [j \in 1..n |-> c + v[j] - one[j]]
  OBVIOUS
<1>5. \A j \in 1..n : AbsDiff(c, v[j]) \in Nat /\ AbsDiff(c, v[j]) <= c + v[j]
  BY <1>2 DEF AbsDiff
<1>6. Series(r, n) /\ \A j \in 1..n : r[j] = AbsDiff(c, v[j]) /\ r[j] >= 0
  BY <1>1, <1>5, SeriesOf
<1>7. Series(one, n)
  BY <1>2, <1>3, SeriesOf
<1>8. \A j \in 1..n : one[j] = IF j = i THEN e ELSE 0
  BY <1>3
<1>9. \A j \in 1..n : c + v[j] - one[j] \in Int
  BY <1>2, <1>8
<1>10. Series(b, n) /\ \A j \in 1..n : b[j] = c + v[j] - one[j]
  BY <1>4, <1>9, SeriesOf
<1>11. ASSUME NEW j \in 1..n PROVE r[j] <= b[j]
  <2>1. CASE j = i
    <3>1. AbsDiff(c, v[i]) = 0
      BY <1>1, <1>2 DEF AbsDiff
    <3>2. r[i] = 0
      BY <1>6, <3>1
    <3>3. one[i] = 2 * c /\ v[i] = c
      BY <1>1, <1>8
    <3>4. b[i] = 0
      BY <1>2, <1>10, <3>3
    <3>. QED
      BY <2>1, <3>2, <3>4
  <2>2. CASE j # i
    BY <1>2, <1>5, <1>6, <1>8, <1>10, <2>2
  <2>. QED
    BY <2>1, <2>2
<1>12. Total(r) \in Nat
  BY <1>6, TotalOfNaturals
<1>13. Total(r) <= Total(b)
  BY <1>6, <1>10, <1>11, TotalIsMonotone
<1>14. Total(one) = e
  <2>1. \A j \in 1..n : j # i => one[j] = 0
    BY <1>8
  <2>2. Total(one) = one[i]
    BY <1>7, <2>1, TotalOfOne
  <2>. QED
    BY <1>8, <2>2
<1>15. Linear(b, n, 1, v, k, one, c)
  <2>1. ASSUME NEW j \in 1..n PROVE b[j] = 1 * v[j] + k * one[j] + c
    <3>1. PICK x, y : x = v[j] /\ y = one[j]
      OBVIOUS
    <3>2. x \in Int /\ y \in Int /\ b[j] = c + x - y
      BY <1>2, <1>8, <1>10, <3>1
    <3>3. c + x - y = 1 * x + k * y + c
      BY <1>1, <1>2, <3>2
    <3>. QED
      BY <3>1, <3>2, <3>3
  <2>. QED
    BY <2>1 DEF Linear
<1>16. Series(b, n)
  BY <1>10
<1>17. Total(b) = 1 * Total(v) + k * Total(one) + c * n
  BY <1>2, <1>7, <1>15, <1>16, TotalIsLinear
<1>18. Total(v) \in Int
  BY TotalIsTyped
<1>19. Total(b) = n * c - 2 * c + Total(v)
  BY <1>1, <1>2, <1>14, <1>17, <1>18
<1>. QED
  BY <1>1, <1>12, <1>13, <1>19

LEMMA DifferencesAreBounded ==
  ASSUME NEW n, NEW v, Series(v, n), \A i \in 1..n : v[i] >= 0
  PROVE  /\ Differences(v) \in Nat
         /\ n > 0 => Differences(v) <= 2 * (n - 1) * Total(v)
<1>1. n \in Nat /\ Len(v) = n /\ \A i \in 1..n : v[i] \in Nat
  BY DEF Series
<1>2. PICK T \in Nat : T = Total(v)
  BY TotalOfNaturals
<1>3. PICK rows : rows = [i \in 1..n |-> Total([j \in 1..n |-> AbsDiff(v[i], v[j])])]
  OBVIOUS
<1>4. ASSUME NEW i \in 1..n
      PROVE  rows[i] \in Nat /\ rows[i] <= n * v[i] - 2 * v[i] + T
  <2>1. PICK r : r = [j \in 1..n |-> AbsDiff(v[i], v[j])]
    OBVIOUS
  <2>2. rows[i] = Total(r)
    BY <1>3, <2>1
  <2>. QED
    BY <1>1, <1>2, <2>1, <2>2, DifferencesFromOne
<1>5. Series(rows, n)
  <2>1. rows \in [1..n -> Int]
    BY <1>3, <1>4
  <2>. QED
    BY <1>1, <2>1, SeriesOf
<1>6. Differences(v) = Total(rows)
  BY <1>1, <1>3 DEF Differences
<1>7. PICK k \in Int : k = n - 2
  BY <1>1
<1>8. PICK w : w = [i \in 1..n |-> k * v[i] + 0 * v[i] + T]
  OBVIOUS
<1>9. Series(w, n)
  <2>1. \A i \in 1..n : k * v[i] + 0 * v[i] + T \in Int
    BY <1>1
  <2>. QED
    BY <1>1, <1>8, <2>1, SeriesOf
<1>10. \A i \in 1..n : w[i] = k * v[i] + 0 * v[i] + T
  BY <1>8
<1>11. Total(w) = k * Total(v) + 0 * Total(v) + T * n
  <2>1. Linear(w, n, k, v, 0, v, T)
    BY <1>10 DEF Linear
  <2>. QED
    BY <1>2, <1>9, <2>1, TotalIsLinear
<1>12. Total(rows) <= Total(w)
  <2>1. ASSUME NEW i \in 1..n PROVE rows[i] <= w[i]
    <3>1. PICK a \in Nat : a = v[i]
      BY <1>1
    <3>2. w[i] = n * a - 2 * a + T
      BY <1>1, <1>7, <1>10, <3>1
    <3>. QED
      BY <1>4, <3>1, <3>2
  <2>. QED
    BY <1>5, <1>9, <2>1, TotalIsMonotone
<1>13. Total(rows) \in Nat
  <2>1. \A i \in 1..n : rows[i] >= 0
    BY <1>4
  <2>. QED
    BY <1>5, <2>1, TotalOfNaturals
<1>14. n > 0 => k * T + 0 * T + T * n = 2 * (n - 1) * T
  BY <1>1, <1>2, <1>7
<1>. QED
  BY <1>2, <1>6, <1>11, <1>12, <1>13, <1>14

LEMMA GiniInRange ==
  ASSUME NEW n, NEW v, Series(v, n), \A i \in 1..n : v[i] >= 0, Gini(v) # NoMetric
  PROVE  /\ Gini(v) \in Ratios /\ n > 0 /\ Total(v) > 0
         /\ Leq(Zero, Gini(v)) /\ Leq(Gini(v), Ratio(n - 1, n))
<1>1. PICK T, D : T = Total(v) /\ D = Differences(v)
  OBVIOUS
<1>2. T \in Nat /\ D \in Nat
  BY <1>1, TotalOfNaturals, DifferencesAreBounded
<1>3. n \in Nat \ {0} /\ T > 0 /\ Gini(v) = Ratio(D, 2 * n * T)
  <2>1. v # <<>> /\ ~ (Total(v) <= 0) /\ Gini(v) = Ratio(Differences(v), 2 * Len(v) * Total(v))
    BY DEF Gini
  <2>. QED
    BY <1>1, <1>2, <2>1, EmptySeries DEF Series
<1>4. PICK k, g : k = 2 * n * T /\ g = Ratio(D, k)
  OBVIOUS
<1>5. k \in Nat \ {0}
  BY <1>2, <1>3, <1>4, TimesPositive
<1>6. Is(g, D, k) /\ g \in Ratios
  BY <1>2, <1>4, <1>5, MadeOf DEF Is
<1>7. D <= 2 * (n - 1) * T
  BY <1>1, <1>3, DifferencesAreBounded
<1>8. Leq(Zero, g)
  <2>1. 0 * k <= D * 1
    BY <1>2, <1>5
  <2>. QED
    BY <1>2, <1>5, <1>6, <2>1, ZeroAndOne, LeqIs
<1>9. Leq(g, Ratio(n - 1, n))
  <2>1. PICK e : e = 2 * (n - 1) * T
    OBVIOUS
  <2>2. e \in Int /\ D * n <= e * n /\ e * n = (n - 1) * k
    <3>1. e \in Int /\ e * n = (n - 1) * k
      BY <1>2, <1>3, <1>4, <2>1
    <3>. QED
      BY <1>2, <1>3, <1>7, <2>1, <3>1, TimesIsMonotone
  <2>3. n - 1 \in Int /\ n \in Nat \ {0} /\ Is(Ratio(n - 1, n), n - 1, n)
    BY <1>3, MadeOf
  <2>4. D * n <= (n - 1) * k
    BY <2>2
  <2>. QED
    BY <1>2, <1>5, <1>6, <2>3, <2>4, LeqIs
<1>. QED
  BY <1>1, <1>3, <1>4, <1>6, <1>8, <1>9

(* The square of a sum is at least the sum of the squares, and at most as   *)
(* many times that as there are numbers.                                    *)
LEMMA SquareOfTotal ==
  ASSUME NEW n, NEW v, Series(v, n), \A i \in 1..n : v[i] >= 0
  PROVE  /\ Squares(v) \in Nat
         /\ Squares(v) <= Total(v) * Total(v)
         /\ Total(v) * Total(v) <= n * Squares(v)
<1>1. n \in Nat /\ \A i \in 1..n : v[i] \in Nat
  BY DEF Series
<1>2. PICK s : /\ Series(s, n) /\ Squares(v) = Total(s) /\ Squares(v) \in Nat
               /\ \A i \in 1..n : s[i] = v[i] * v[i] /\ s[i] >= 0
  BY SquaresAreTyped
<1>3. PICK T, S : T = Total(v) /\ S = Total(s)
  OBVIOUS
<1>4. T \in Nat /\ S \in Nat /\ \A i \in 1..n : v[i] <= T
  BY <1>2, <1>3, TotalOfNaturals
<1>5. \A i \in 1..n : s[i] \in Int
  BY <1>2 DEF Series
<1>6. S <= T * T
  <2>1. PICK w : w = [i \in 1..n |-> T * v[i]]
    OBVIOUS
  <2>2. ASSUME NEW i \in 1..n
        PROVE  /\ T * v[i] \in Int /\ T * v[i] = T * v[i] + 0 * v[i] + 0
               /\ s[i] <= T * v[i]
    <3>1. PICK a \in Nat : a = v[i]
      BY <1>1
    <3>2. a <= T /\ s[i] = a * a
      BY <1>2, <1>4, <3>1
    <3>3. a * a <= T * a
      BY <1>4, <3>2, TimesIsMonotone
    <3>. QED
      BY <1>4, <3>1, <3>2, <3>3
  <2>3. Series(w, n) /\ \A i \in 1..n : w[i] = T * v[i]
    BY <1>1, <2>1, <2>2, SeriesOf
  <2>4. Total(w) = T * T + 0 * T + 0 * n
    <3>1. Linear(w, n, T, v, 0, v, 0)
      BY <2>2, <2>3 DEF Linear
    <3>2. Total(w) = T * Total(v) + 0 * Total(v) + 0 * n
      BY <1>4, <2>3, <3>1, TotalIsLinear
    <3>. QED
      BY <1>3, <3>2
  <2>5. S <= Total(w)
    BY <1>2, <1>3, <2>2, <2>3, TotalIsMonotone
  <2>. QED
    BY <1>1, <1>4, <2>4, <2>5
<1>7. ASSUME NEW i \in 1..n PROVE 0 <= n * s[i] + (-2 * T) * v[i] + S
  <2>1. PICK a, b : a = v[i] /\ b = s[i]
    OBVIOUS
  <2>2. a \in Nat /\ b = a * a /\ b \in Int
    BY <1>1, <1>2, <1>5, <2>1
  <2>3. PICK q : q = [j \in 1..n |-> (a - v[j]) * (a - v[j])]
    OBVIOUS
  <2>4. ASSUME NEW j \in 1..n
        PROVE  /\ (a - v[j]) * (a - v[j]) \in Int /\ (a - v[j]) * (a - v[j]) >= 0
               /\ (a - v[j]) * (a - v[j]) = (-2 * a) * v[j] + 1 * s[j] + b
    <3>1. PICK c \in Nat : c = v[j]
      BY <1>1
    <3>2. s[j] = c * c
      BY <1>2, <3>1
    <3>3. /\ (a - c) * (a - c) \in Int /\ (a - c) * (a - c) >= 0
          /\ (a - c) * (a - c) = (-2 * a) * c + 1 * (c * c) + a * a
      BY <2>2
    <3>. QED
      BY <2>2, <3>1, <3>2, <3>3
  <2>5. Series(q, n) /\ \A j \in 1..n : q[j] = (-2 * a) * v[j] + 1 * s[j] + b /\ q[j] >= 0
    BY <1>1, <2>3, <2>4, SeriesOf
  <2>6. Total(q) \in Nat
    BY <2>5, TotalOfNaturals
  <2>7. Total(q) = (-2 * a) * T + 1 * S + b * n
    <3>1. PICK k \in Int : k = -2 * a
      BY <2>2
    <3>2. Linear(q, n, k, v, 1, s, b)
      BY <2>5, <3>1 DEF Linear
    <3>3. Total(q) = k * Total(v) + 1 * Total(s) + b * n
      BY <1>2, <2>2, <2>5, <3>2, TotalIsLinear
    <3>. QED
      BY <1>3, <3>1, <3>3
  <2>8. (-2 * a) * T + 1 * S + b * n = n * b + (-2 * T) * a + S
    BY <1>1, <1>4, <2>2
  <2>. QED
    BY <2>1, <2>6, <2>7, <2>8
<1>8. T * T <= n * S
  <2>1. PICK p : p = [i \in 1..n |-> n * s[i] + (-2 * T) * v[i] + S]
    OBVIOUS
  <2>2. \A i \in 1..n : n * s[i] + (-2 * T) * v[i] + S \in Int
    BY <1>1, <1>4, <1>5
  <2>3. Series(p, n) /\ \A i \in 1..n : p[i] = n * s[i] + (-2 * T) * v[i] + S /\ p[i] >= 0
    <3>1. p \in [1..n -> Int] /\ \A i \in 1..n : p[i] = n * s[i] + (-2 * T) * v[i] + S
      BY <2>1, <2>2
    <3>2. \A i \in 1..n : p[i] >= 0
      BY <1>7, <2>2, <3>1
    <3>. QED
      BY <1>1, <3>1, <3>2, SeriesOf
  <2>4. Total(p) \in Nat
    BY <2>3, TotalOfNaturals
  <2>5. Total(p) = n * S + (-2 * T) * T + S * n
    <3>1. PICK k \in Int : k = -2 * T
      BY <1>4
    <3>2. Linear(p, n, n, s, k, v, S)
      BY <2>3, <3>1 DEF Linear
    <3>3. Total(p) = n * Total(s) + k * Total(v) + S * n
      BY <1>1, <1>2, <1>4, <2>3, <3>1, <3>2, TotalIsLinear
    <3>. QED
      BY <1>3, <3>1, <3>3
  <2>6. n * S + (-2 * T) * T + S * n = 2 * (n * S - T * T)
    BY <1>1, <1>4
  <2>7. n * S \in Int /\ T * T \in Int
    BY <1>1, <1>4
  <2>. QED
    BY <2>4, <2>5, <2>6, <2>7
<1>. QED
  BY <1>2, <1>3, <1>6, <1>8

LEMMA HhiInRange ==
  ASSUME NEW n, NEW v, Series(v, n), \A i \in 1..n : v[i] >= 0, Hhi(v) # NoMetric
  PROVE  /\ Hhi(v) \in Ratios /\ Total(v) > 0 /\ n > 0
         /\ Leq(Ratio(1, n), Hhi(v)) /\ Leq(Hhi(v), One)
<1>1. PICK T, S : T = Total(v) /\ S = Squares(v)
  OBVIOUS
<1>2. n \in Nat /\ T \in Nat /\ S \in Nat /\ S <= T * T /\ T * T <= n * S
  BY <1>1, TotalOfNaturals, SquareOfTotal DEF Series
<1>3. T # 0 /\ Hhi(v) = Ratio(S, T * T)
  BY <1>1 DEF Hhi
<1>4. PICK k, h : k = T * T /\ h = Ratio(S, k)
  OBVIOUS
<1>5. k \in Nat \ {0}
  BY <1>2, <1>3, <1>4, TimesPositive
<1>6. Is(h, S, k) /\ h \in Ratios
  BY <1>2, <1>4, <1>5, MadeOf DEF Is
<1>7. Leq(h, One)
  <2>1. S * 1 <= 1 * k
    BY <1>2, <1>4, <1>5
  <2>. QED
    BY <1>2, <1>5, <1>6, <2>1, ZeroAndOne, LeqIs
<1>8. n > 0
  BY <1>1, <1>2, <1>3, TotalIsTyped
<1>9. Leq(Ratio(1, n), h)
  <2>1. S * n = n * S
    BY <1>2, ProductCommutes
  <2>2. 1 * k <= S * n
    BY <1>2, <1>4, <1>5, <2>1
  <2>3. n \in Nat \ {0} /\ Is(Ratio(1, n), 1, n)
    BY <1>2, <1>8, MadeOf
  <2>. QED
    BY <1>2, <1>5, <1>6, <2>2, <2>3, LeqIs
<1>. QED
  BY <1>1, <1>2, <1>3, <1>4, <1>6, <1>7, <1>8, <1>9

LEMMA CoefficientIsTyped ==
  ASSUME NEW n, NEW v, Series(v, n), \A i \in 1..n : v[i] >= 0,
         CoefficientOfVariation(v) # NoMetric
  PROVE  CoefficientOfVariation(v) \in Ratios /\ Total(v) > 0
<1>1. n \in Nat /\ Len(v) = n /\ \A i \in 1..n : v[i] \in Nat
  BY DEF Series
<1>2. PICK T \in Nat : T = Total(v)
  BY TotalOfNaturals
<1>3. v # <<>> /\ T # 0
  BY <1>2 DEF CoefficientOfVariation
<1>4. n \in Nat \ {0}
  BY <1>1, <1>3, EmptySeries
<1>5. PICK x : x = [i \in 1..n |-> n * v[i] - T]
  OBVIOUS
<1>6. Series(x, n)
  <2>1. \A i \in 1..n : n * v[i] - T \in Int
    BY <1>1
  <2>. QED
    BY <1>1, <1>5, <2>1, SeriesOf
<1>7. Deviations(v) = Squares(x) /\ Squares(x) \in Nat
  BY <1>1, <1>2, <1>5, <1>6, SquaresAreTyped DEF Deviations
<1>8. PICK q : q = Deviations(v) \div Len(v)
  OBVIOUS
<1>9. q \in Nat
  BY <1>1, <1>4, <1>7, <1>8
<1>10. PICK m : m = Precision * Precision * q
  OBVIOUS
<1>11. m \in Nat
  BY <1>9, <1>10 DEF Precision
<1>12. Root(m) \in Int /\ Precision * T \in Nat \ {0}
  BY <1>3, <1>11, RootIsTyped DEF Precision
<1>13. CoefficientOfVariation(v) = Ratio(Root(m), Precision * T)
  BY <1>2, <1>3, <1>8, <1>10 DEF CoefficientOfVariation
<1>. QED
  BY <1>2, <1>3, <1>12, <1>13, RatioIs

----------------------------------------------------------------------------
(* At most half of a population is below its median.                       *)

Below(v, x) == {i \in DOMAIN v : v[i] < x}
AtMost(v, x) == {i \in DOMAIN v : v[i] <= x}

LEMMA LeastOf ==
  ASSUME NEW M \in Nat, NEW T, T \subseteq 0..M, T # {}
  PROVE  \E x \in T : \A t \in T : x <= t
<1>. DEFINE U == {M - t : t \in T}
<1>1. U \subseteq 0..M /\ U # {}
  <2>1. \A t \in T : M - t \in 0..M
    OBVIOUS
  <2>. QED
    BY <2>1
<1>2. PICK u \in U : \A w \in U : w <= u
  <2>. HIDE DEF U
  <2>. QED
    BY <1>1, LargestNumber
<1>3. PICK x \in T : u = M - x
  OBVIOUS
<1>4. ASSUME NEW t \in T PROVE x <= t
  <2>1. M - t \in U /\ t \in 0..M /\ x \in 0..M
    OBVIOUS
  <2>2. M - t <= M - x
    BY <1>2, <1>3, <2>1
  <2>. QED
    BY <2>1, <2>2
<1>. QED
  BY <1>4

LEMMA CountsAreTyped ==
  ASSUME NEW n, NEW v, Series(v, n), NEW S, S \subseteq 1..n
  PROVE  /\ IsFiniteSet(S) /\ Cardinality(S) \in 0..n
         /\ \A R : R \subseteq S => Cardinality(R) <= Cardinality(S) /\ Cardinality(R) \in 0..n
<1>1. n \in Nat /\ IsFiniteSet(1..n) /\ Cardinality(1..n) = n
  BY FS_Interval DEF Series
<1>2. IsFiniteSet(S) /\ Cardinality(S) <= n
  BY <1>1, FS_Subset
<1>3. Cardinality(S) \in Nat
  BY <1>2, FS_CardinalityType
<1>4. ASSUME NEW R, R \subseteq S PROVE Cardinality(R) <= Cardinality(S) /\ Cardinality(R) \in 0..n
  <2>1. IsFiniteSet(R) /\ Cardinality(R) <= Cardinality(S)
    BY <1>2, <1>4, FS_Subset
  <2>2. Cardinality(R) \in Nat
    BY <2>1, FS_CardinalityType
  <2>. QED
    BY <1>1, <1>2, <1>3, <2>1, <2>2
<1>. QED
  BY <1>1, <1>2, <1>3, <1>4

LEMMA RankedIs ==
  ASSUME NEW n, NEW v, Series(v, n), \A i \in 1..n : v[i] >= 0, NEW k \in 1..n
  PROVE  /\ Ranked(v, k) \in Nat
         /\ Cardinality(Below(v, Ranked(v, k))) < k
         /\ Cardinality(AtMost(v, Ranked(v, k))) >= k
<1>1. n \in Nat /\ DOMAIN v = 1..n /\ (\A i \in 1..n : v[i] \in Nat) /\ k \in Nat
  BY DEF Series
<1>2. PICK M \in Nat : \A i \in 1..n : v[i] <= M
  BY TotalOfNaturals
<1>3. PICK V : V = {v[i] : i \in 1..n}
  OBVIOUS
<1>4. V = ToSet(v)
  BY <1>1, <1>3 DEF ToSet
<1>5. V \subseteq 0..M
  BY <1>1, <1>2, <1>3
<1>6. \A x : Below(v, x) \subseteq 1..n /\ AtMost(v, x) \subseteq 1..n
  BY <1>1 DEF Below, AtMost
<1>7. \A x : Cardinality(Below(v, x)) \in 0..n /\ Cardinality(AtMost(v, x)) \in 0..n
  BY <1>6, CountsAreTyped
<1>8. PICK C : C = {x \in V : Cardinality(AtMost(v, x)) >= k}
  OBVIOUS
<1>9. C # {} /\ C \subseteq 0..M
  <2>1. V # {}
    BY <1>3
  <2>2. Max(V) \in V /\ \A x \in V : x <= Max(V)
    BY <1>5, <2>1, LargestNumber
  <2>3. PICK m : m = Max(V)
    OBVIOUS
  <2>4. \A i \in 1..n : v[i] <= m
    BY <1>3, <2>2, <2>3
  <2>5. AtMost(v, m) = 1..n
    BY <1>1, <2>4 DEF AtMost
  <2>6. Cardinality(AtMost(v, m)) = n
    BY <1>1, <2>5, FS_Interval
  <2>7. m \in C
    BY <1>1, <1>8, <2>2, <2>3, <2>6
  <2>. QED
    BY <1>5, <1>8, <2>7
<1>10. PICK x \in C : \A t \in C : x <= t
  BY <1>9, LeastOf
<1>11. x \in V /\ x \in Nat /\ Cardinality(AtMost(v, x)) >= k
  BY <1>5, <1>8
<1>12. Cardinality(Below(v, x)) < k
  <2>. SUFFICES ASSUME Cardinality(Below(v, x)) >= k PROVE FALSE
    BY <1>1, <1>7
  <2>1. Below(v, x) # {}
    <3>1. Cardinality({}) = 0
      BY FS_EmptySet
    <3>2. ~ (0 >= k)
      BY <1>1
    <3>. QED
      BY <3>1, <3>2
  <2>2. PICK B : B = {v[i] : i \in Below(v, x)}
    OBVIOUS
  <2>3. B # {} /\ B \subseteq V
    BY <1>3, <1>6, <2>1, <2>2
  <2>4. PICK y : y = Max(B)
    OBVIOUS
  <2>5. y \in B /\ \A t \in B : t <= y
    BY <1>5, <2>3, <2>4, LargestNumber
  <2>6. y \in V /\ y \in Nat /\ y < x
    <3>1. PICK i \in Below(v, x) : y = v[i]
      BY <2>2, <2>5
    <3>. QED
      BY <1>5, <2>3, <2>5, <3>1 DEF Below
  <2>7. ASSUME NEW i \in 1..n PROVE v[i] <= y <=> v[i] < x
    <3>1. v[i] <= y => v[i] < x
      BY <1>1, <1>11, <2>6
    <3>2. v[i] < x => v[i] \in B
      BY <1>1, <2>2 DEF Below
    <3>. QED
      BY <2>5, <3>1, <3>2
  <2>8. AtMost(v, y) = Below(v, x)
    BY <1>1, <2>7 DEF AtMost, Below
  <2>9. y \in C
    BY <1>8, <2>6, <2>8
  <2>. QED
    BY <1>10, <1>11, <2>6, <2>9
<1>13. \E z \in ToSet(v) : /\ Cardinality({i \in DOMAIN v : v[i] < z}) < k
                           /\ Cardinality({i \in DOMAIN v : v[i] <= z}) >= k
  BY <1>4, <1>11, <1>12 DEF Below, AtMost
<1>14. PICK r : r = Ranked(v, k)
  OBVIOUS
<1>15. r \in ToSet(v) /\ Cardinality(Below(v, r)) < k /\ Cardinality(AtMost(v, r)) >= k
  BY <1>13, <1>14 DEF Ranked, Below, AtMost
<1>. QED
  BY <1>4, <1>5, <1>14, <1>15

LEMMA FractionInRange ==
  ASSUME NEW n, NEW v, Series(v, n), \A i \in 1..n : v[i] >= 0,
         FractionBelowMedian(v) # NoMetric
  PROVE  /\ FractionBelowMedian(v) \in Ratios /\ n > 0
         /\ Leq(Zero, FractionBelowMedian(v)) /\ Leq(FractionBelowMedian(v), Ratio(1, 2))
<1>1. n \in Nat /\ Len(v) = n /\ DOMAIN v = 1..n /\ \A i \in 1..n : v[i] \in Nat
  BY DEF Series
<1>2. v # <<>> /\ n \in Nat \ {0}
  BY <1>1, EmptySeries DEF FractionBelowMedian
<1>3. PICK h, S, c : /\ h = n \div 2 /\ S = {i \in DOMAIN v : 2 * v[i] < Median2(v)}
                     /\ c = Cardinality(S)
  OBVIOUS
<1>4. FractionBelowMedian(v) = Ratio(c, n)
  BY <1>1, <1>2, <1>3 DEF FractionBelowMedian
<1>5. h \in Nat /\ (n % 2 = 1 => n = 2 * h + 1) /\ (n % 2 # 1 => n = 2 * h)
  BY <1>1, <1>3
<1>6. S \subseteq 1..n
  BY <1>1, <1>3
<1>7. c \in 0..n /\ c \in Nat
  BY <1>1, <1>3, <1>6, CountsAreTyped
<1>8. h + 1 \in 1..n
  BY <1>1, <1>2, <1>5
<1>9. PICK b : b = Ranked(v, h + 1)
  OBVIOUS
<1>10. /\ b \in Nat /\ Cardinality(Below(v, b)) < h + 1 /\ Cardinality(AtMost(v, b)) >= h + 1
       /\ Below(v, b) \subseteq 1..n /\ Cardinality(Below(v, b)) \in 0..n
       /\ AtMost(v, b) \subseteq 1..n /\ Cardinality(AtMost(v, b)) \in 0..n
  <2>1. b \in Nat /\ Cardinality(Below(v, b)) < h + 1 /\ Cardinality(AtMost(v, b)) >= h + 1
    BY <1>8, <1>9, RankedIs
  <2>2. Below(v, b) \subseteq 1..n /\ AtMost(v, b) \subseteq 1..n
    BY <1>1 DEF Below, AtMost
  <2>. QED
    BY <2>1, <2>2, CountsAreTyped
<1>11. S \subseteq Below(v, b)
  <2>1. CASE n % 2 = 1
    <3>1. Median2(v) = 2 * b
      BY <1>1, <1>3, <1>9, <2>1 DEF Median2
    <3>2. \A i \in 1..n : 2 * v[i] < 2 * b => v[i] < b
      BY <1>1, <1>10
    <3>. QED
      BY <1>1, <1>3, <3>1, <3>2 DEF Below
  <2>2. CASE n % 2 # 1
    <3>1. h \in 1..n
      BY <1>1, <1>2, <1>5, <2>2
    <3>2. PICK a : a = Ranked(v, h)
      OBVIOUS
    <3>3. a \in Nat /\ Cardinality(Below(v, a)) < h
      BY <3>1, <3>2, RankedIs
    <3>4. Median2(v) = a + b
      BY <1>1, <1>3, <1>9, <2>2, <3>2 DEF Median2
    <3>5. a <= b
      <4>. SUFFICES ASSUME b < a PROVE FALSE
        BY <1>10, <3>3
      <4>1. AtMost(v, b) \subseteq Below(v, a)
        BY <1>1, <1>10, <3>3 DEF AtMost, Below
      <4>2. Below(v, a) \subseteq 1..n
        BY <1>1 DEF Below
      <4>3. Cardinality(AtMost(v, b)) <= Cardinality(Below(v, a)) /\ Cardinality(Below(v, a)) \in 0..n
        BY <4>1, <4>2, CountsAreTyped
      <4>. QED
        BY <1>5, <1>10, <3>3, <4>3
    <3>6. \A i \in 1..n : 2 * v[i] < a + b => v[i] < b
      BY <1>1, <1>10, <3>3, <3>5
    <3>. QED
      BY <1>1, <1>3, <3>4, <3>6 DEF Below
  <2>. QED
    BY <2>1, <2>2
<1>12. 2 * c <= n
  <2>1. c <= Cardinality(Below(v, b))
    BY <1>3, <1>10, <1>11, CountsAreTyped
  <2>. QED
    BY <1>1, <1>5, <1>7, <1>10, <2>1
<1>13. Is(Ratio(c, n), c, n)
  BY <1>2, <1>7, MadeOf
<1>14. Is(Ratio(1, 2), 1, 2)
  BY MadeOf
<1>15. Leq(Zero, Ratio(c, n))
  <2>1. 0 * n <= c * 1
    BY <1>1, <1>7
  <2>. QED
    BY <1>2, <1>7, <1>13, <2>1, ZeroAndOne, LeqIs
<1>16. Leq(Ratio(c, n), Ratio(1, 2))
  <2>1. c * 2 <= 1 * n
    BY <1>1, <1>7, <1>12
  <2>. QED
    BY <1>2, <1>7, <1>13, <1>14, <2>1, LeqIs
<1>. QED
  BY <1>2, <1>4, <1>13, <1>15, <1>16 DEF Is

(* Nobody is below the median of a population that has nothing.            *)
LEMMA FractionOfNothing ==
  ASSUME NEW n, NEW v, Series(v, n), \A i \in 1..n : v[i] = 0,
         FractionBelowMedian(v) # NoMetric
  PROVE  FractionBelowMedian(v).n = 0
<1>1. n \in Nat /\ Len(v) = n /\ DOMAIN v = 1..n
  BY DEF Series
<1>2. v # <<>> /\ n \in Nat \ {0}
  BY <1>1, EmptySeries DEF FractionBelowMedian
<1>3. ASSUME NEW k \in 1..n PROVE Ranked(v, k) = 0
  <2>1. PICK r : r = Ranked(v, k)
    OBVIOUS
  <2>2. r \in Nat /\ Cardinality(Below(v, r)) < k
    BY <2>1, RankedIs
  <2>3. CASE r > 0
    <3>1. Below(v, r) = 1..n
      BY <1>1, <2>3 DEF Below
    <3>2. Cardinality(Below(v, r)) = n
      BY <1>1, <3>1, FS_Interval
    <3>. QED
      BY <1>1, <2>2, <3>2
  <2>. QED
    BY <2>1, <2>2, <2>3
<1>4. Median2(v) = 0
  <2>1. PICK h : h = n \div 2
    OBVIOUS
  <2>2. h \in Nat /\ (n % 2 = 1 => n = 2 * h + 1) /\ (n % 2 # 1 => n = 2 * h)
    BY <1>1, <2>1
  <2>3. h + 1 \in 1..n /\ (n % 2 # 1 => h \in 1..n)
    BY <1>2, <2>2
  <2>4. Ranked(v, h + 1) = 0 /\ (n % 2 # 1 => Ranked(v, h) = 0)
    BY <1>3, <2>3
  <2>. QED
    BY <1>1, <2>1, <2>4 DEF Median2
<1>5. {i \in DOMAIN v : 2 * v[i] < Median2(v)} = {}
  BY <1>1, <1>4
<1>6. FractionBelowMedian(v) = Ratio(0, n)
  BY <1>1, <1>2, <1>5, FS_EmptySet DEF FractionBelowMedian
<1>. QED
  BY <1>2, <1>6, RatioIs

LEMMA DiversityInRange ==
  ASSUME NEW n \in Nat, NEW v, DOMAIN v = 1..n, Len(v) = n, CapabilityDiversity(v) # NoMetric,
         n = 0 => v = <<>>
  PROVE  /\ CapabilityDiversity(v) \in Ratios /\ n > 0
         /\ Leq(Ratio(1, n), CapabilityDiversity(v)) /\ Leq(CapabilityDiversity(v), One)
<1>1. v # <<>> /\ n \in Nat \ {0}
  BY DEF CapabilityDiversity
<1>2. PICK c : c = Cardinality(ToSet(v))
  OBVIOUS
<1>3. CapabilityDiversity(v) = Ratio(c, n)
  BY <1>1, <1>2 DEF CapabilityDiversity
<1>4. c \in 1..n
  <2>1. ToSet(v) = {v[i] : i \in 1..n}
    BY DEF ToSet
  <2>2. IsFiniteSet(1..n) /\ Cardinality(1..n) = n
    BY FS_Interval
  <2>3. v[1] \in ToSet(v)
    BY <1>1, <2>1
  <2>4. PICK f : f = [i \in 1..n |-> v[i]]
    OBVIOUS
  <2>5. f \in Surjection(1..n, ToSet(v))
    BY <2>1, <2>4 DEF Surjection
  <2>6. IsFiniteSet(ToSet(v)) /\ c <= n
    BY <1>2, <2>2, <2>5, FS_Surjection
  <2>7. c \in Nat /\ c # 0
    BY <1>2, <2>3, <2>6, FS_CardinalityType, FS_EmptySet
  <2>. QED
    BY <2>6, <2>7
<1>5. Is(Ratio(c, n), c, n) /\ Is(Ratio(1, n), 1, n)
  BY <1>1, <1>4, MadeOf
<1>6. Leq(Ratio(1, n), Ratio(c, n))
  <2>1. 1 * n <= c * n
    BY <1>1, <1>4, TimesIsMonotone
  <2>. QED
    BY <1>1, <1>4, <1>5, <2>1, LeqIs
<1>7. Leq(Ratio(c, n), One)
  <2>1. c * 1 <= 1 * n
    BY <1>1, <1>4
  <2>. QED
    BY <1>1, <1>4, <1>5, <2>1, ZeroAndOne, LeqIs
<1>. QED
  BY <1>1, <1>3, <1>5, <1>6, <1>7 DEF Is

LEMMA PooledInRange ==
  ASSUME NEW c \in Nat, NEW n \in Nat, PooledRate(c, n) # NoMetric
  PROVE  /\ PooledRate(c, n) \in Ratios /\ n > 0
         /\ PooledRate(c, n).n <= 0 <=> c = 0
         /\ PooledRate(c, n).n = 0 <=> c = 0
         /\ Leq(Zero, PooledRate(c, n))
         /\ c <= n => Leq(PooledRate(c, n), One)
<1>1. n \in Nat \ {0} /\ PooledRate(c, n) = Ratio(c, n)
  BY DEF PooledRate
<1>2. PICK r : r = Ratio(c, n)
  OBVIOUS
<1>3. Is(r, c, n) /\ r \in Ratios /\ (r.n <= 0 <=> c = 0) /\ (r.n = 0 <=> c = 0)
  BY <1>1, <1>2, MadeOf, RatioIs
<1>4. 0 * n <= c * 1 /\ (c <= n => c * 1 <= 1 * n)
  BY <1>1
<1>5. Leq(Zero, r) /\ (c <= n => Leq(r, One))
  BY <1>1, <1>3, <1>4, ZeroAndOne, LeqIs
<1>. QED
  BY <1>1, <1>2, <1>3, <1>5

----------------------------------------------------------------------------
(* The ramp.                                                               *)

LEMMA DifferenceIs ==
  ASSUME NEW a \in Ratios, NEW b \in Ratios
  PROVE  /\ Minus(a, b) \in Ratios
         /\ Is(Minus(a, b), a.n * b.d - b.n * a.d, a.d * b.d)
         /\ ~ Leq(a, b) => Minus(a, b).n > 0
<1>1. PICK n, d, p, q : n = a.n /\ d = a.d /\ p = b.n /\ q = b.d
  OBVIOUS
<1>2. n \in Int /\ d \in Nat \ {0} /\ p \in Int /\ q \in Nat \ {0}
  BY <1>1, ItsOwn
<1>3. PICK u, w : u = n * q - p * d /\ w = d * q
  OBVIOUS
<1>4. u \in Int /\ w \in Nat \ {0} /\ n * q \in Int /\ p * d \in Int
  BY <1>2, <1>3, TimesPositive
<1>5. Minus(a, b) = Ratio(u, w)
  BY <1>1, <1>3 DEF Minus
<1>6. Ratio(u, w) \in Ratios /\ Is(Ratio(u, w), u, w) /\ (Ratio(u, w).n <= 0 <=> u <= 0)
  BY <1>4, RatioIs, MadeOf
<1>7. ~ Leq(a, b) => ~ (u <= 0)
  BY <1>1, <1>3, <1>4 DEF Leq
<1>8. Ratio(u, w).n \in Int
  BY <1>6 DEF Ratios
<1>. QED
  BY <1>1, <1>3, <1>5, <1>6, <1>7, <1>8

LEMMA DifferenceGrows ==
  ASSUME NEW a \in Ratios, NEW b \in Ratios, NEW t \in Ratios, Leq(a, b)
  PROVE  Leq(Minus(a, t), Minus(b, t)) /\ Leq(Minus(t, b), Minus(t, a))
<1>1. PICK n, d, p, q, x, y : /\ n = a.n /\ d = a.d /\ p = b.n /\ q = b.d
                              /\ x = t.n /\ y = t.d
  OBVIOUS
<1>2. /\ n \in Int /\ d \in Nat \ {0} /\ p \in Int /\ q \in Nat \ {0}
      /\ x \in Int /\ y \in Nat \ {0} /\ n * q <= p * d
  BY <1>1, ItsOwn DEF Leq
<1>3. /\ n * q \in Int /\ p * d \in Int /\ n * y \in Int /\ x * d \in Int
      /\ p * y \in Int /\ x * q \in Int /\ d * y \in Nat \ {0} /\ q * y \in Nat \ {0}
      /\ y * d \in Nat \ {0} /\ y * q \in Nat \ {0} /\ y * y \in Nat
  BY <1>2, TimesPositive
<1>4. (n * q) * (y * y) <= (p * d) * (y * y)
  BY <1>2, <1>3, TimesIsMonotone
<1>5. Leq(Minus(a, t), Minus(b, t))
  <2>1. /\ Is(Minus(a, t), n * y - x * d, d * y)
        /\ Is(Minus(b, t), p * y - x * q, q * y)
    BY <1>1, DifferenceIs
  <2>2. (n * y - x * d) * (q * y) <= (p * y - x * q) * (d * y)
    <3>1. /\ (n * y - x * d) * (q * y) = (n * q) * (y * y) - (x * y) * (d * q)
          /\ (p * y - x * q) * (d * y) = (p * d) * (y * y) - (x * y) * (d * q)
      <4>1. (n * y) * (q * y) = (n * q) * (y * y) /\ (x * d) * (q * y) = (x * y) * (d * q)
        BY <1>2
      <4>2. (p * y) * (d * y) = (p * d) * (y * y) /\ (x * q) * (d * y) = (x * y) * (d * q)
        BY <1>2
      <4>3. /\ (n * y - x * d) * (q * y) = (n * y) * (q * y) - (x * d) * (q * y)
            /\ (p * y - x * q) * (d * y) = (p * y) * (d * y) - (x * q) * (d * y)
        BY <1>2
      <4>. QED
        BY <4>1, <4>2, <4>3
    <3>2. (n * q) * (y * y) \in Int /\ (p * d) * (y * y) \in Int /\ (x * y) * (d * q) \in Int
      BY <1>2
    <3>. QED
      BY <1>4, <3>1, <3>2
  <2>3. n * y - x * d \in Int /\ p * y - x * q \in Int
    BY <1>3
  <2>. QED
    BY <1>3, <2>1, <2>2, <2>3, LeqIs
<1>6. Leq(Minus(t, b), Minus(t, a))
  <2>1. /\ Is(Minus(t, b), x * q - p * y, y * q)
        /\ Is(Minus(t, a), x * d - n * y, y * d)
    BY <1>1, DifferenceIs
  <2>2. (x * q - p * y) * (y * d) <= (x * d - n * y) * (y * q)
    <3>1. /\ (x * q - p * y) * (y * d) = (x * y) * (d * q) - (p * d) * (y * y)
          /\ (x * d - n * y) * (y * q) = (x * y) * (d * q) - (n * q) * (y * y)
      <4>1. (p * y) * (y * d) = (p * d) * (y * y) /\ (x * q) * (y * d) = (x * y) * (d * q)
        BY <1>2
      <4>2. (n * y) * (y * q) = (n * q) * (y * y) /\ (x * d) * (y * q) = (x * y) * (d * q)
        BY <1>2
      <4>3. /\ (x * q - p * y) * (y * d) = (x * q) * (y * d) - (p * y) * (y * d)
            /\ (x * d - n * y) * (y * q) = (x * d) * (y * q) - (n * y) * (y * q)
        BY <1>2
      <4>. QED
        BY <4>1, <4>2, <4>3
    <3>2. (n * q) * (y * y) \in Int /\ (p * d) * (y * y) \in Int /\ (x * y) * (d * q) \in Int
      BY <1>2
    <3>. QED
      BY <1>4, <3>1, <3>2
  <2>3. x * q - p * y \in Int /\ x * d - n * y \in Int
    BY <1>3
  <2>. QED
    BY <1>3, <2>1, <2>2, <2>3, LeqIs
<1>. QED
  BY <1>5, <1>6

LEMMA QuotientGrows ==
  ASSUME NEW a \in Ratios, NEW b \in Ratios, NEW c \in Ratios, c.n > 0, Leq(a, b)
  PROVE  Over(a, c) \in Ratios /\ Over(b, c) \in Ratios /\ Leq(Over(a, c), Over(b, c))
<1>1. PICK n, d, p, q, x, y : /\ n = a.n /\ d = a.d /\ p = b.n /\ q = b.d
                              /\ x = c.n /\ y = c.d
  OBVIOUS
<1>2. /\ n \in Int /\ d \in Nat \ {0} /\ p \in Int /\ q \in Nat \ {0}
      /\ x \in Nat \ {0} /\ y \in Nat \ {0} /\ n * q <= p * d
  BY <1>1, ItsOwn DEF Leq
<1>3. /\ n * y \in Int /\ p * y \in Int /\ d * x \in Nat \ {0} /\ q * x \in Nat \ {0}
      /\ y * x \in Nat /\ n * q \in Int /\ p * d \in Int
  BY <1>2, TimesPositive
<1>4. Over(a, c) = Ratio(n * y, d * x) /\ Over(b, c) = Ratio(p * y, q * x)
  BY <1>1 DEF Over
<1>5. /\ Is(Over(a, c), n * y, d * x) /\ Over(a, c) \in Ratios
      /\ Is(Over(b, c), p * y, q * x) /\ Over(b, c) \in Ratios
  BY <1>3, <1>4, MadeOf DEF Is
<1>6. (n * y) * (q * x) <= (p * y) * (d * x)
  <2>1. (n * q) * (y * x) <= (p * d) * (y * x)
    BY <1>2, <1>3, TimesIsMonotone
  <2>2. (n * y) * (q * x) = (n * q) * (y * x) /\ (p * y) * (d * x) = (p * d) * (y * x)
    BY <1>2
  <2>. QED
    BY <2>1, <2>2
<1>. QED
  BY <1>3, <1>5, <1>6, LeqIs

LEMMA ClampGrows ==
  ASSUME NEW x \in Ratios, NEW y \in Ratios, Leq(x, y)
  PROVE  /\ Clamp(x) \in Ratios /\ Clamp(y) \in Ratios
         /\ Leq(Zero, Clamp(x)) /\ Leq(Clamp(x), One)
         /\ Leq(Zero, Clamp(y)) /\ Leq(Clamp(y), One)
         /\ Leq(Clamp(x), Clamp(y))
<1>1. ASSUME NEW z \in Ratios
      PROVE  /\ z.n \in Int /\ z.d \in Nat \ {0}
             /\ Leq(Zero, z) <=> 0 <= z.n
             /\ Leq(One, z) <=> z.d <= z.n
             /\ Leq(z, One) <=> z.n <= z.d
             /\ Leq(z, Zero) <=> z.n <= 0
  <2>1. z.n \in Int /\ z.d \in Nat \ {0} /\ Is(z, z.n, z.d)
    BY ItsOwn
  <2>2. PICK n, d : n = z.n /\ d = z.d
    OBVIOUS
  <2>3. /\ Leq(Zero, z) <=> 0 * d <= n * 1
        /\ Leq(One, z) <=> 1 * d <= n * 1
        /\ Leq(z, One) <=> n * 1 <= 1 * d
        /\ Leq(z, Zero) <=> n * 1 <= 0 * d
    BY <2>1, <2>2, ZeroAndOne, LeqIs
  <2>. QED
    BY <2>1, <2>2, <2>3
<1>2. /\ Zero \in Ratios /\ One \in Ratios /\ Leq(Zero, Zero) /\ Leq(Zero, One)
      /\ Leq(One, One)
  BY ZeroAndOne, LeqIs
<1>3. ASSUME NEW z \in Ratios
      PROVE  Clamp(z) \in Ratios /\ Leq(Zero, Clamp(z)) /\ Leq(Clamp(z), One)
  BY <1>1, <1>2 DEF Clamp
<1>4. Leq(Clamp(x), Clamp(y))
  <2>1. CASE x.n <= 0
    BY <1>3, <2>1 DEF Clamp
  <2>2. CASE ~ (x.n <= 0) /\ Leq(One, x)
    <3>1. Leq(One, y)
      BY <1>2, <2>2, LeqIsTransitive
    <3>2. ~ (y.n <= 0)
      BY <1>1, <3>1
    <3>. QED
      BY <1>2, <2>2, <3>1, <3>2 DEF Clamp
  <2>3. CASE ~ (x.n <= 0) /\ ~ Leq(One, x)
    <3>1. ~ (y.n <= 0)
      <4>. SUFFICES ASSUME y.n <= 0 PROVE FALSE
        OBVIOUS
      <4>1. Leq(x, Zero)
        BY <1>1, <1>2, LeqIsTransitive
      <4>. QED
        BY <1>1, <2>3, <4>1
    <3>2. Clamp(x) = x /\ Leq(x, One)
      BY <1>1, <2>3 DEF Clamp
    <3>3. Clamp(y) = One \/ Clamp(y) = y
      BY <3>1 DEF Clamp
    <3>. QED
      BY <3>2, <3>3
  <2>. QED
    BY <2>1, <2>2, <2>3
<1>. QED
  BY <1>3, <1>4

(* y is at least as far out as x.                                          *)
LEMMA RampGrows ==
  ASSUME NEW x \in Ratios, NEW y \in Ratios, NEW e, AxisEntryOK(e),
         IF ConcernDirection(e) = "at_or_below" THEN Leq(y, x) ELSE Leq(x, y)
  PROVE  /\ Ramp(x, e) \in Ratios /\ Ramp(y, e) \in Ratios
         /\ Leq(Zero, Ramp(x, e)) /\ Leq(Ramp(x, e), One)
         /\ Leq(Zero, Ramp(y, e)) /\ Leq(Ramp(y, e), One)
         /\ Leq(Ramp(x, e), Ramp(y, e))
<1>1. PICK t, C : t = e.threshold /\ C = Ceiling(e)
  OBVIOUS
<1>2. t \in Ratios
  BY <1>1 DEF AxisEntryOK
<1>3. C \in Ratios
  <2>1. 2 * t.n \in Int /\ t.d \in Nat \ {0}
    BY <1>2, ItsOwn
  <2>2. Ratio(2 * t.n, t.d) \in Ratios
    BY <2>1, RatioIs
  <2>. QED
    BY <1>1, <2>2, ZeroAndOne DEF Ceiling
<1>4. Zero \in Ratios /\ Leq(Zero, Zero) /\ Leq(Zero, One)
  BY ZeroAndOne, LeqIs
<1>5. CASE ConcernDirection(e) = "at_or_below"
  <2>1. CASE t.n <= 0
    BY <1>1, <1>4, <1>5, <2>1 DEF Ramp
  <2>2. CASE ~ (t.n <= 0)
    <3>1. PICK a, b : a = Minus(t, x) /\ b = Minus(t, y)
      OBVIOUS
    <3>2. a \in Ratios /\ b \in Ratios /\ Leq(a, b) /\ t.n > 0
      <4>1. Leq(y, x)
        BY <1>5
      <4>2. Leq(Minus(t, x), Minus(t, y))
        BY <1>2, <4>1, DifferenceGrows
      <4>3. Minus(t, x) \in Ratios /\ Minus(t, y) \in Ratios
        BY <1>2, DifferenceIs
      <4>4. t.n \in Int
        BY <1>2, ItsOwn
      <4>5. t.n > 0
        BY <2>2, <4>4
      <4>. QED
        BY <3>1, <4>2, <4>3, <4>5
    <3>3. Over(a, t) \in Ratios /\ Over(b, t) \in Ratios /\ Leq(Over(a, t), Over(b, t))
      BY <1>2, <3>2, QuotientGrows
    <3>4. Ramp(x, e) = Clamp(Over(a, t)) /\ Ramp(y, e) = Clamp(Over(b, t))
      BY <1>1, <1>5, <2>2, <3>1 DEF Ramp
    <3>. QED
      BY <3>3, <3>4, ClampGrows
  <2>. QED
    BY <2>1, <2>2
<1>6. CASE ConcernDirection(e) # "at_or_below"
  <2>1. CASE Leq(C, t)
    BY <1>1, <1>4, <1>6, <2>1 DEF Ramp
  <2>2. CASE ~ Leq(C, t)
    <3>1. PICK a, b, h : a = Minus(x, t) /\ b = Minus(y, t) /\ h = Minus(C, t)
      OBVIOUS
    <3>2. a \in Ratios /\ b \in Ratios /\ Leq(a, b) /\ h \in Ratios /\ h.n > 0
      BY <1>2, <1>3, <1>6, <2>2, <3>1, DifferenceIs, DifferenceGrows
    <3>3. Over(a, h) \in Ratios /\ Over(b, h) \in Ratios /\ Leq(Over(a, h), Over(b, h))
      BY <3>2, QuotientGrows
    <3>4. Ramp(x, e) = Clamp(Over(a, h)) /\ Ramp(y, e) = Clamp(Over(b, h))
      BY <1>1, <1>6, <2>2, <3>1 DEF Ramp
    <3>. QED
      BY <3>3, <3>4, ClampGrows
  <2>. QED
    BY <2>1, <2>2
<1>. QED
  BY <1>5, <1>6

(* Of two places on the ramp.                                              *)
LEMMA ScoreFalls ==
  ASSUME NEW x \in Ratios, NEW y \in Ratios, NEW e, AxisEntryOK(e),
         IF ConcernDirection(e) = "at_or_below" THEN Leq(y, x) ELSE Leq(x, y)
  PROVE  /\ SeverityScaledScore(x, e) \in Ratios /\ SeverityScaledScore(y, e) \in Ratios
         /\ Leq(Ratio(2 * e.score_at_threshold, 1), SeverityScaledScore(x, e))
         /\ Leq(SeverityScaledScore(x, e), Ratio(e.score_at_threshold, 1))
         /\ Leq(SeverityScaledScore(x, e), Zero) /\ Leq(SeverityScaledScore(y, e), Zero)
         /\ Leq(SeverityScaledScore(y, e), SeverityScaledScore(x, e))
<1>1. PICK s, f, g : s = e.score_at_threshold /\ f = Ramp(x, e) /\ g = Ramp(y, e)
  OBVIOUS
<1>2. /\ s \in Int /\ s <= 0 /\ f \in Ratios /\ g \in Ratios /\ Leq(f, g)
      /\ Leq(Zero, f) /\ Leq(f, One) /\ Leq(Zero, g) /\ Leq(g, One)
  BY <1>1, RampGrows DEF AxisEntryOK
<1>3. PICK n, d, p, q : n = f.n /\ d = f.d /\ p = g.n /\ q = g.d
  OBVIOUS
<1>4. /\ n \in Int /\ d \in Nat \ {0} /\ p \in Int /\ q \in Nat \ {0}
      /\ n * q <= p * d /\ Is(f, n, d) /\ Is(g, p, q)
  BY <1>2, <1>3, ItsOwn DEF Leq
<1>5. /\ 0 * d <= n * 1 /\ n * 1 <= 1 * d /\ 0 * q <= p * 1 /\ p * 1 <= 1 * q
  BY <1>2, <1>4, ZeroAndOne, LeqIs
<1>6. n \in Nat /\ n <= d /\ p \in Nat /\ p <= q
  BY <1>4, <1>5
<1>7. PICK r \in Nat : r = -s
  BY <1>2
<1>8. PICK u, w : u = s * (d + n) /\ w = s * (q + p)
  OBVIOUS
<1>9. /\ u \in Int /\ w \in Int /\ u = -(r * (d + n)) /\ w = -(r * (q + p))
      /\ r * (d + n) \in Nat /\ r * (q + p) \in Nat
  BY <1>2, <1>4, <1>6, <1>7, <1>8
<1>10. /\ SeverityScaledScore(x, e) = Ratio(u, d)
       /\ SeverityScaledScore(y, e) = Ratio(w, q)
  BY <1>1, <1>3, <1>8 DEF SeverityScaledScore
<1>11. /\ Is(Ratio(u, d), u, d) /\ Ratio(u, d) \in Ratios
       /\ Is(Ratio(w, q), w, q) /\ Ratio(w, q) \in Ratios
  BY <1>4, <1>9, MadeOf DEF Is
<1>12. Leq(Ratio(u, d), Zero) /\ Leq(Ratio(w, q), Zero)
  <2>1. u * 1 <= 0 * d /\ w * 1 <= 0 * q
    BY <1>4, <1>9
  <2>. QED
    BY <1>4, <1>9, <1>11, <2>1, ZeroAndOne, LeqIs
<1>13. Leq(Ratio(2 * s, 1), Ratio(u, d))
  <2>1. r * (d + n) <= r * (2 * d)
    BY <1>4, <1>6, <1>7, TimesIsMonotone, ProductCommutes
  <2>2. (2 * s) * d <= u * 1
    BY <1>2, <1>4, <1>7, <1>9, <2>1
  <2>3. PICK k \in Int : k = 2 * s
    BY <1>2
  <2>4. Is(Ratio(k, 1), k, 1)
    BY <2>3, MadeOf
  <2>. QED
    BY <1>4, <1>9, <1>11, <2>2, <2>3, <2>4, LeqIs
<1>14. Leq(Ratio(u, d), Ratio(s, 1))
  <2>1. r * d <= r * (d + n)
    BY <1>4, <1>6, <1>7, TimesIsMonotone, ProductCommutes
  <2>2. u * 1 <= s * d
    BY <1>2, <1>4, <1>7, <1>9, <2>1
  <2>3. Is(Ratio(s, 1), s, 1)
    BY <1>2, MadeOf
  <2>. QED
    BY <1>2, <1>4, <1>9, <1>11, <2>2, <2>3, LeqIs
<1>15. Leq(Ratio(w, q), Ratio(u, d))
  <2>1. PICK k, l : k = (d + n) * q /\ l = (q + p) * d
    OBVIOUS
  <2>2. k \in Nat /\ l \in Nat /\ k <= l
    <3>1. k = d * q + n * q /\ l = d * q + p * d
      BY <1>4, <2>1
    <3>2. d * q \in Nat /\ n * q \in Nat /\ p * d \in Nat
      BY <1>4, <1>6
    <3>. QED
      BY <1>4, <3>1, <3>2
  <2>3. r * k <= r * l
    BY <1>7, <2>2, TimesIsMonotone, ProductCommutes
  <2>4. w * d = -(r * l) /\ u * q = -(r * k)
    BY <1>4, <1>7, <1>9, <2>1
  <2>5. w * d <= u * q
    BY <1>7, <2>2, <2>3, <2>4
  <2>. QED
    BY <1>4, <1>9, <1>11, <2>5, LeqIs
<1>. QED
  BY <1>1, <1>10, <1>11, <1>12, <1>13, <1>14, <1>15

-----------------------------------------------------------------------------
(* The corpus as series of numbers.                                        *)

LEMMA ListOf ==
  ASSUME NEW S, IsFiniteSet(S)
  PROVE  /\ Cardinality(S) \in Nat
         /\ SetToSeq(S) \in [1..Cardinality(S) -> S]
         /\ Len(SetToSeq(S)) = Cardinality(S)
         /\ S = {} <=> Cardinality(S) = 0
<1>1. Cardinality(S) \in Nat /\ (S = {} <=> Cardinality(S) = 0)
  BY FS_CardinalityType, FS_EmptySet
<1>2. PICK f : f \in Bijection(1..Cardinality(S), S)
  BY FS_CardinalityType DEF ExistsBijection
<1>3. f \in [1..Cardinality(S) -> S] /\ IsInjective(f)
  BY <1>2 DEF Bijection, Injection, IsInjective
<1>4. SetToSeq(S) \in [1..Cardinality(S) -> S]
  BY <1>3 DEF SetToSeq
<1>. QED
  BY <1>1, <1>4

LEMMA MembersAre ==
  ASSUME AxisTypeOK
  PROVE  /\ Cardinality(Cohort) \in Nat /\ Cardinality(Cohort) <= Cardinality(Agents)
         /\ Members \in [1..Cardinality(Cohort) -> Cohort]
         /\ Len(Members) = Cardinality(Cohort)
         /\ DOMAIN Members = 1..Cardinality(Cohort)
         /\ \A a \in Cohort : a \in Agents /\ corpus[a] \in Records
         /\ Cohort = {} <=> Cardinality(Cohort) = 0
<1>1. Cohort \subseteq Agents /\ \A a \in Cohort : corpus[a] \in Records
  BY DEF AxisTypeOK, Cohort
<1>2. IsFiniteSet(Cohort) /\ Cardinality(Cohort) <= Cardinality(Agents)
  BY <1>1, RecordAssumption, FS_Subset
<1>. QED
  BY <1>1, <1>2, ListOf DEF Members

LEMMA FieldsAre ==
  ASSUME AxisTypeOK, NEW f \in Numbers
  PROVE  /\ Series(Field(f, 0), Cardinality(Cohort))
         /\ \A i \in 1..Cardinality(Cohort) :
              Field(f, 0)[i] >= 0 /\ (Field(f, 0)[i] # 0 => Shows(corpus, f, 0))
         /\ Total(Field(f, 0)) \in Nat
         /\ Total(Field(f, 0)) # 0 => Shows(corpus, f, 0)
<1>1. PICK n, v : n = Cardinality(Cohort) /\ v = Field(f, 0)
  OBVIOUS
<1>2. /\ n \in Nat /\ Members \in [1..n -> Cohort] /\ DOMAIN Members = 1..n
      /\ \A a \in Cohort : corpus[a] \in Records
  BY <1>1, MembersAre
<1>3. v = [i \in 1..n |-> IF f \in DOMAIN corpus[Members[i]]
                           THEN corpus[Members[i]][f] ELSE 0]
  BY <1>1, <1>2 DEF Field
<1>4. \A r \in Records : f \in DOMAIN r => r[f] \in Nat
  BY RecordAssumption
<1>5. \A i \in 1..n : v[i] \in Nat /\ (v[i] # 0 => Shows(corpus, f, 0))
  <2>. SUFFICES ASSUME NEW i \in 1..n PROVE v[i] \in Nat /\ (v[i] # 0 => Shows(corpus, f, 0))
    OBVIOUS
  <2>1. PICK a : a = Members[i]
    OBVIOUS
  <2>2. a \in Cohort /\ corpus[a] \in Records
    BY <1>2, <2>1
  <2>3. v[i] = IF f \in DOMAIN corpus[a] THEN corpus[a][f] ELSE 0
    BY <1>3, <2>1
  <2>. QED
    BY <1>4, <2>2, <2>3 DEF Shows, Cohort
<1>6. v \in [1..n -> Int] /\ \A i \in 1..n : v[i] >= 0
  BY <1>3, <1>5
<1>7. Series(v, n)
  BY <1>2, <1>6, SeriesOf
<1>8. Total(v) \in Nat
  BY <1>6, <1>7, TotalOfNaturals
<1>9. Total(v) # 0 => Shows(corpus, f, 0)
  BY <1>5, <1>7, TotalOfZeros
<1>. QED
  BY <1>1, <1>5, <1>6, <1>7, <1>8, <1>9

LEMMA ModelsAre ==
  ASSUME AxisTypeOK
  PROVE  \E n : /\ Series(PooledModels, n) /\ Len(PooledModels) = n
                /\ \A k \in 1..n : PooledModels[k] >= 0
                /\ Total(PooledModels) # 0 => ShowsModels(corpus)
                /\ n > 0 => Cardinality(Cohort) > 0
<1>. DEFINE maps == Field("llm_model_counts", <<>>)
            used == UNION {DOMAIN maps[i] : i \in DOMAIN maps}
<1>1. PICK n : n = Cardinality(Cohort)
  OBVIOUS
<1>2. /\ n \in Nat /\ Members \in [1..n -> Cohort] /\ DOMAIN Members = 1..n
      /\ \A a \in Cohort : corpus[a] \in Records
  BY <1>1, MembersAre
<1>3. maps = [i \in 1..n |-> IF "llm_model_counts" \in DOMAIN corpus[Members[i]]
                              THEN corpus[Members[i]]["llm_model_counts"] ELSE <<>>]
  BY <1>2 DEF Field
<1>. HIDE DEF maps
<1>4. \A i \in 1..n : /\ IsFiniteSet(DOMAIN maps[i])
                      /\ \A k \in DOMAIN maps[i] : /\ maps[i][k] \in Nat
                                                   /\ maps[i][k] > 0 => ShowsModels(corpus)
  <2>. SUFFICES ASSUME NEW i \in 1..n
                PROVE  /\ IsFiniteSet(DOMAIN maps[i])
                       /\ \A k \in DOMAIN maps[i] : /\ maps[i][k] \in Nat
                                                    /\ maps[i][k] > 0 => ShowsModels(corpus)
    OBVIOUS
  <2>1. PICK a : a = Members[i]
    OBVIOUS
  <2>2. a \in Cohort /\ corpus[a] \in Records
    BY <1>2, <2>1
  <2>3. CASE "llm_model_counts" \in DOMAIN corpus[a]
    <3>1. maps[i] = corpus[a]["llm_model_counts"]
      BY <1>3, <2>1, <2>3
    <3>. QED
      BY <2>2, <2>3, <3>1, RecordAssumption DEF ShowsModels, Cohort
  <2>4. CASE "llm_model_counts" \notin DOMAIN corpus[a]
    <3>1. maps[i] = <<>>
      BY <1>3, <2>1, <2>4
    <3>2. DOMAIN maps[i] = {}
      BY <3>1
    <3>. QED
      BY <3>2, FS_EmptySet
  <2>. QED
    BY <2>3, <2>4
<1>6. IsFiniteSet(used) /\ (used # {} => n > 0)
  <2>1. PICK D, g : D = {DOMAIN maps[i] : i \in 1..n} /\ g = [i \in 1..n |-> DOMAIN maps[i]]
    OBVIOUS
  <2>2. IsFiniteSet(1..n)
    BY <1>2, FS_Interval
  <2>3. g \in Surjection(1..n, D)
    BY <2>1 DEF Surjection
  <2>4. IsFiniteSet(D)
    BY <2>2, <2>3, FS_Surjection
  <2>5. \A x \in D : IsFiniteSet(x)
    BY <1>4, <2>1
  <2>6. used = UNION D
    BY <1>3, <2>1
  <2>7. IsFiniteSet(used)
    BY <2>4, <2>5, <2>6, FS_UNION
  <2>8. used # {} => n > 0
    BY <1>2, <1>3
  <2>. QED
    BY <2>7, <2>8
<1>. HIDE DEF used
<1>7. PICK s, m : s = SetToSeq(used) /\ m = Cardinality(used)
  OBVIOUS
<1>8. m \in Nat /\ s \in [1..m -> used] /\ DOMAIN s = 1..m /\ (m > 0 => n > 0)
  BY <1>6, <1>7, ListOf
<1>9. PooledModels = [k \in 1..m |-> Total([i \in 1..n |-> IF s[k] \in DOMAIN maps[i]
                                                           THEN maps[i][s[k]] ELSE 0])]
  <2>1. PooledModels = [k \in DOMAIN SetToSeq(used) |->
                          Total([i \in DOMAIN maps |-> IF SetToSeq(used)[k] \in DOMAIN maps[i]
                                                       THEN maps[i][SetToSeq(used)[k]] ELSE 0])]
    BY Zenon DEF PooledModels, maps, used
  <2>2. DOMAIN maps = 1..n
    BY <1>3
  <2>. QED
    BY <1>7, <1>8, <2>1, <2>2, Zenon
<1>10. ASSUME NEW k \in 1..m
       PROVE  PooledModels[k] \in Nat /\ (PooledModels[k] # 0 => ShowsModels(corpus))
  <2>1. PICK x, w : x = s[k] /\ w = [i \in 1..n |-> IF x \in DOMAIN maps[i]
                                                    THEN maps[i][x] ELSE 0]
    OBVIOUS
  <2>2. PooledModels[k] = Total(w)
    BY <1>9, <2>1
  <2>3. \A i \in 1..n : w[i] \in Nat /\ (w[i] # 0 => ShowsModels(corpus))
    BY <1>4, <2>1
  <2>4. w \in [1..n -> Int] /\ \A i \in 1..n : w[i] >= 0
    BY <2>1, <2>3
  <2>5. Series(w, n)
    BY <1>2, <2>4, SeriesOf
  <2>6. Total(w) \in Nat
    BY <2>4, <2>5, TotalOfNaturals
  <2>7. Total(w) # 0 => ShowsModels(corpus)
    BY <2>3, <2>5, TotalOfZeros
  <2>. QED
    BY <2>2, <2>6, <2>7
<1>11. PICK v : v = PooledModels
  OBVIOUS
<1>12. v \in [1..m -> Int] /\ \A k \in 1..m : v[k] >= 0
  BY <1>9, <1>10, <1>11
<1>13. Series(v, m) /\ Len(v) = m
  BY <1>8, <1>12, SeriesOf
<1>14. Total(v) # 0 => ShowsModels(corpus)
  BY <1>10, <1>11, <1>13, TotalOfZeros
<1>. QED
  BY <1>1, <1>8, <1>11, <1>12, <1>13, <1>14

-----------------------------------------------------------------------------
(* Each measure of the corpus, in its range, and what it takes to be more  *)
(* than nothing.                                                           *)

LEMMA ComputeIs ==
  ASSUME AxisTypeOK, Metric("compute") # NoMetric
  PROVE  LET m == Metric("compute")
             n == Cardinality(Cohort)
         IN  /\ m \in Ratios /\ n > 0 /\ Shows(corpus, "cost_usd_sum", 0)
             /\ Leq(Zero, m) /\ Leq(m, Ratio(n - 1, n))
<1>1. PICK n, v : n = Cardinality(Cohort) /\ v = Field("cost_usd_sum", 0)
  OBVIOUS
<1>2. Metric("compute") = Gini(v)
  BY <1>1 DEF Metric
<1>3. /\ Series(v, n) /\ (\A i \in 1..n : v[i] >= 0)
      /\ Total(v) # 0 => Shows(corpus, "cost_usd_sum", 0)
  BY <1>1, FieldsAre DEF Numbers
<1>4. /\ Gini(v) \in Ratios /\ n > 0 /\ Total(v) > 0
      /\ Leq(Zero, Gini(v)) /\ Leq(Gini(v), Ratio(n - 1, n))
  BY <1>2, <1>3, GiniInRange
<1>5. Shows(corpus, "cost_usd_sum", 0)
  BY <1>3, <1>4
<1>. QED
  BY <1>1, <1>2, <1>4, <1>5

LEMMA ModelsMetricIs ==
  ASSUME AxisTypeOK, Metric("models") # NoMetric
  PROVE  LET m == Metric("models")
         IN  /\ m \in Ratios /\ Cardinality(Cohort) > 0 /\ ShowsModels(corpus)
             /\ Leq(Ratio(1, Len(PooledModels)), m) /\ Leq(m, One)
<1>1. PICK v : v = PooledModels
  OBVIOUS
<1>2. Metric("models") = Hhi(v)
  BY <1>1 DEF Metric
<1>3. PICK n : /\ Series(v, n) /\ Len(v) = n /\ (\A k \in 1..n : v[k] >= 0)
               /\ Total(v) # 0 => ShowsModels(corpus)
               /\ n > 0 => Cardinality(Cohort) > 0
  BY <1>1, ModelsAre
<1>4. /\ Hhi(v) \in Ratios /\ Total(v) > 0 /\ n > 0
      /\ Leq(Ratio(1, n), Hhi(v)) /\ Leq(Hhi(v), One)
  BY <1>2, <1>3, HhiInRange
<1>5. ShowsModels(corpus)
  BY <1>3, <1>4
<1>. QED
  BY <1>1, <1>2, <1>3, <1>4, <1>5

LEMMA CapabilitiesMetricIs ==
  ASSUME AxisTypeOK, Metric("agent_capabilities") # NoMetric
  PROVE  LET m == Metric("agent_capabilities")
             n == Cardinality(Cohort)
         IN  /\ m \in Ratios /\ n > 0 /\ Leq(Ratio(1, n), m) /\ Leq(m, One)
             /\ ~ Signal(corpus, "agent_capabilities") => m = Ratio(1, n)
<1>1. PICK n, v : /\ n = Cardinality(Cohort)
                  /\ v = [i \in DOMAIN Members |->
                            <<Field("cognitive_state_dominant", "")[i], Field("agent_role", "")[i]>>]
  OBVIOUS
<1>2. Metric("agent_capabilities") = CapabilityDiversity(v)
  BY <1>1 DEF Metric
<1>3. n \in Nat /\ DOMAIN v = 1..n
  BY <1>1, MembersAre
<1>4. Len(v) = n /\ (n = 0 => v = <<>>)
  <2>1. PICK S : S = {v[i] : i \in 1..n}
    OBVIOUS
  <2>2. v = [i \in 1..n |-> v[i]]
    BY <1>1, <1>3
  <2>3. v \in [1..n -> S]
    BY <2>1, <2>2
  <2>. QED
    BY <1>3, <2>3
<1>5. /\ CapabilityDiversity(v) \in Ratios /\ n > 0
      /\ Leq(Ratio(1, n), CapabilityDiversity(v)) /\ Leq(CapabilityDiversity(v), One)
  BY <1>2, <1>3, <1>4, DiversityInRange
<1>6. ASSUME ~ Signal(corpus, "agent_capabilities") PROVE CapabilityDiversity(v) = Ratio(1, n)
  <2>1. PICK e : e = <<"", "">>
    OBVIOUS
  <2>2. ASSUME NEW i \in 1..n PROVE v[i] = e
    <3>1. PICK a : a = Members[i]
      OBVIOUS
    <3>2. a \in Cohort /\ i \in DOMAIN Members
      BY <1>1, <1>3, <3>1, MembersAre
    <3>3. ASSUME NEW f \in {"cognitive_state_dominant", "agent_role"} PROVE Field(f, "")[i] = ""
      <4>1. Field(f, "")[i] = IF f \in DOMAIN corpus[a] THEN corpus[a][f] ELSE ""
        BY <3>1, <3>2 DEF Field
      <4>2. ~ Shows(corpus, f, "")
        BY <1>6 DEF Signal
      <4>. QED
        BY <3>2, <4>1, <4>2 DEF Shows, Cohort
    <3>. QED
      BY <1>1, <2>1, <3>2, <3>3
  <2>3. ToSet(v) = {e}
    BY <1>3, <1>5, <2>2 DEF ToSet
  <2>4. Cardinality(ToSet(v)) = 1
    BY <2>3, FS_Singleton
  <2>5. CapabilityDiversity(v) # NoMetric
    BY <1>2
  <2>. QED
    BY <1>4, <2>4, <2>5 DEF CapabilityDiversity
<1>. QED
  BY <1>1, <1>2, <1>5, <1>6

LEMMA FederationMetricIs ==
  ASSUME AxisTypeOK, Metric("federation_membership") # NoMetric
  PROVE  LET m == Metric("federation_membership")
         IN  /\ m \in Ratios /\ Cardinality(Cohort) > 0 /\ Leq(Zero, m) /\ Leq(m, One)
             /\ ~ Signal(corpus, "federation_membership") => m.n = 0
<1>1. PICK n, S, c : /\ n = Cardinality(Cohort)
                     /\ S = {i \in DOMAIN Members : ~ Field("federation_member", TRUE)[i]}
                     /\ c = Cardinality(S)
  OBVIOUS
<1>2. /\ n \in Nat /\ Members \in [1..n -> Cohort] /\ DOMAIN Members = 1..n
      /\ Len(Members) = n
  BY <1>1, MembersAre
<1>3. Metric("federation_membership") = PooledRate(c, n)
  BY <1>1, <1>2 DEF Metric
<1>4. IsFiniteSet(1..n) /\ Cardinality(1..n) = n
  BY <1>2, FS_Interval
<1>5. IsFiniteSet(S) /\ c <= n
  BY <1>1, <1>2, <1>4, FS_Subset
<1>6. c \in Nat /\ (c > 0 => S # {})
  <2>1. c = Cardinality(S)
    BY <1>1
  <2>2. c \in Nat
    BY <1>5, <2>1, FS_CardinalityType
  <2>3. S = {} => c = 0
    BY <1>5, <2>1, FS_EmptySet
  <2>. QED
    BY <2>2, <2>3
<1>7. S # {} => Shows(corpus, "federation_member", TRUE)
  <2>. SUFFICES ASSUME NEW i \in S PROVE Shows(corpus, "federation_member", TRUE)
    OBVIOUS
  <2>1. PICK a : a = Members[i]
    OBVIOUS
  <2>2. i \in 1..n /\ a \in Cohort
    BY <1>1, <1>2, <2>1
  <2>3. ~ (IF "federation_member" \in DOMAIN corpus[a]
           THEN corpus[a]["federation_member"] ELSE TRUE)
    BY <1>1, <1>2, <2>1, <2>2 DEF Field
  <2>. QED
    BY <2>2, <2>3 DEF Shows, Cohort
<1>8. /\ PooledRate(c, n) \in Ratios /\ n > 0 /\ (PooledRate(c, n).n = 0 <=> c = 0)
      /\ Leq(Zero, PooledRate(c, n)) /\ Leq(PooledRate(c, n), One)
  BY <1>2, <1>3, <1>5, <1>6, PooledInRange
<1>9. ~ Signal(corpus, "federation_membership") => PooledRate(c, n).n = 0
  <2>1. ~ Signal(corpus, "federation_membership") => S = {}
    BY <1>7 DEF Signal
  <2>2. S = {} => c = 0
    BY <1>6
  <2>. QED
    BY <1>8, <2>1, <2>2
<1>. QED
  BY <1>1, <1>3, <1>8, <1>9

LEMMA RightsMetricIs ==
  ASSUME AxisTypeOK, Metric("rights_asymmetry") # NoMetric
  PROVE  LET m == Metric("rights_asymmetry")
         IN  m \in Ratios /\ (~ Signal(corpus, "rights_asymmetry") => m.n = 0)
<1>1. PICK c, n : c = Total(Field("pdma_conflict_count", 0)) /\ n = Total(Field("pdma_total", 0))
  OBVIOUS
<1>2. Metric("rights_asymmetry") = PooledRate(c, n)
  BY <1>1 DEF Metric
<1>3. c \in Nat /\ n \in Nat /\ (c # 0 => Shows(corpus, "pdma_conflict_count", 0))
  BY <1>1, FieldsAre DEF Numbers
<1>4. PooledRate(c, n) \in Ratios /\ (PooledRate(c, n).n = 0 <=> c = 0)
  BY <1>2, <1>3, PooledInRange
<1>5. ~ Signal(corpus, "rights_asymmetry") => c = 0
  BY <1>3 DEF Signal
<1>. QED
  BY <1>2, <1>4, <1>5

LEMMA ExclusionMetricIs ==
  ASSUME AxisTypeOK, Metric("participation_exclusion") # NoMetric
  PROVE  LET m == Metric("participation_exclusion")
         IN  /\ m \in Ratios /\ Cardinality(Cohort) > 0 /\ Leq(Zero, m) /\ Leq(m, Ratio(1, 2))
             /\ ~ Signal(corpus, "participation_exclusion") => m.n = 0
<1>1. PICK n, v : n = Cardinality(Cohort) /\ v = Field("n_distinct_domains", 0)
  OBVIOUS
<1>2. Metric("participation_exclusion") = FractionBelowMedian(v)
  BY <1>1 DEF Metric
<1>3. /\ Series(v, n)
      /\ \A i \in 1..n : v[i] >= 0 /\ (v[i] # 0 => Shows(corpus, "n_distinct_domains", 0))
  BY <1>1, FieldsAre DEF Numbers
<1>4. ~ Signal(corpus, "participation_exclusion") => FractionBelowMedian(v).n = 0
  <2>1. ~ Signal(corpus, "participation_exclusion") => \A i \in 1..n : v[i] = 0
    BY <1>3 DEF Signal
  <2>. QED
    BY <1>2, <1>3, <2>1, FractionOfNothing
<1>. QED
  BY <1>1, <1>2, <1>3, <1>4, FractionInRange

LEMMA InformationMetricIs ==
  ASSUME AxisTypeOK, Metric("informational_asymmetry") # NoMetric
  PROVE  Metric("informational_asymmetry") \in Ratios /\ Shows(corpus, "dsdma_flags_count", 0)
<1>1. PICK n, v : n = Cardinality(Cohort) /\ v = Field("dsdma_flags_count", 0)
  OBVIOUS
<1>2. Metric("informational_asymmetry") = CoefficientOfVariation(v)
  BY <1>1 DEF Metric
<1>3. /\ Series(v, n) /\ (\A i \in 1..n : v[i] >= 0)
      /\ Total(v) # 0 => Shows(corpus, "dsdma_flags_count", 0)
  BY <1>1, FieldsAre DEF Numbers
<1>4. CoefficientOfVariation(v) \in Ratios /\ Total(v) > 0
  BY <1>2, <1>3, CoefficientIsTyped
<1>. QED
  BY <1>2, <1>3, <1>4

LEMMA FootprintMetricIs ==
  ASSUME AxisTypeOK, Metric("aggregate_footprint") # NoMetric
  PROVE  /\ Metric("aggregate_footprint") \in Ratios /\ Cardinality(Cohort) > 0
         /\ ~ Signal(corpus, "aggregate_footprint") => Metric("aggregate_footprint").n = 0
<1>1. PICK n, t : n = Len(Members) /\ t = Total(Field("n_action", 0))
  OBVIOUS
<1>2. Metric("aggregate_footprint") = AggregateFootprint(t, n)
  BY <1>1 DEF Metric
<1>3. /\ n = Cardinality(Cohort) /\ n \in Nat /\ n <= Cardinality(Agents)
      /\ t \in Nat /\ (t # 0 => Shows(corpus, "n_action", 0))
  BY <1>1, MembersAre, FieldsAre DEF Numbers
<1>4. n > 0 /\ AggregateFootprint(t, n) = Ratio(t * Log10[n], Precision)
  BY <1>2, <1>3 DEF AggregateFootprint
<1>5. Log10[n] \in Nat
  <2>1. Cardinality(Agents) \in Nat
    BY RecordAssumption, FS_CardinalityType
  <2>2. n \in 1..Cardinality(Agents)
    BY <1>3, <1>4, <2>1
  <2>. QED
    BY <2>2, RecordAssumption
<1>6. t * Log10[n] \in Int /\ (t = 0 => t * Log10[n] = 0)
  BY <1>3, <1>5, ProductIsTyped
<1>7. ~ Signal(corpus, "aggregate_footprint") => t = 0
  BY <1>3 DEF Signal
<1>. QED
  BY <1>2, <1>3, <1>4, <1>6, <1>7, RatioIs DEF Precision

LEMMA MetricIs ==
  ASSUME AxisTypeOK, NEW d \in Dimensions PROVE Metric(d) \in Ratios \cup {NoMetric}
<1>. SUFFICES ASSUME Metric(d) # NoMetric PROVE Metric(d) \in Ratios
  OBVIOUS
<1>1. CASE d \in {"training_data", "participation_inclusion"}
  BY <1>1 DEF Metric
<1>2. CASE d \in {"compute", "models", "agent_capabilities", "federation_membership"}
  BY <1>2, ComputeIs, ModelsMetricIs, CapabilitiesMetricIs, FederationMetricIs
<1>3. CASE d \in {"rights_asymmetry", "participation_exclusion", "informational_asymmetry",
                  "aggregate_footprint"}
  BY <1>3, RightsMetricIs, ExclusionMetricIs, InformationMetricIs, FootprintMetricIs
<1>. QED
  BY <1>1, <1>2, <1>3 DEF Dimensions, Resources, CorrelatedActions

LEMMA SilenceIs ==
  ASSUME AxisTypeOK, NEW d \in Dimensions, Metric(d) # NoMetric, ~ Signal(corpus, d)
  PROVE  /\ d \notin {"compute", "models", "informational_asymmetry"}
         /\ MeasuresNothing(corpus, d, Metric(d))
         /\ d # "agent_capabilities" => Metric(d).n = 0
<1>1. d \notin {"compute", "models", "informational_asymmetry"}
  BY ComputeIs, ModelsMetricIs, InformationMetricIs DEF Signal
<1>2. d \notin {"training_data", "participation_inclusion"}
  BY DEF Metric
<1>3. CASE d = "agent_capabilities"
  BY <1>1, <1>3, CapabilitiesMetricIs DEF MeasuresNothing, Cohort
<1>4. CASE d \in {"federation_membership", "rights_asymmetry"}
  BY <1>1, <1>4, FederationMetricIs, RightsMetricIs DEF MeasuresNothing
<1>5. CASE d \in {"participation_exclusion", "aggregate_footprint"}
  BY <1>1, <1>5, ExclusionMetricIs, FootprintMetricIs DEF MeasuresNothing
<1>. QED
  BY <1>1, <1>2, <1>3, <1>4, <1>5 DEF Dimensions, Resources, CorrelatedActions

LEMMA RangesHold == AxisTypeOK => MeasuresKeepTheirRange
<1>. SUFFICES ASSUME AxisTypeOK PROVE MeasuresKeepTheirRange
  OBVIOUS
<1>1. \A d \in Resources \ {"training_data"} :
        Metric(d) # NoMetric => Cardinality(Cohort) > 0
  BY ComputeIs, ModelsMetricIs, CapabilitiesMetricIs, FederationMetricIs DEF Resources
<1>. QED
  BY <1>1, ComputeIs, ModelsMetricIs, CapabilitiesMetricIs, FederationMetricIs,
     ExclusionMetricIs
  DEF MeasuresKeepTheirRange

-----------------------------------------------------------------------------
(* A verdict is what the bundle in use says of its measure; two bundles    *)
(* cited together differ.                                                  *)

AxisInv ==
  /\ AxisTypeOK
  /\ prior # NoHash => prior # bundle.sha256
  /\ verdict # NoVerdict =>
       /\ verdict.bundle = bundle.sha256
       /\ verdict.metric \in Ratios \cup {NoMetric}
       /\ verdict.conformity = IF verdict.dimension \notin DOMAIN bundle.axes
                               THEN Indeterminate
                               ELSE AxisScore(verdict.metric, bundle.axes[verdict.dimension])

AttestInv == AxisInv /\ NoSignalNoNumber /\ EvidenceNamesItsSources

LEMMA NumberTakes ==
  ASSUME NEW d, NEW m, NEW c, NEW axes,
         c = IF d \notin DOMAIN axes THEN Indeterminate ELSE AxisScore(m, axes[d]),
         c.kind = "Numeric"
  PROVE  /\ d \in DOMAIN axes /\ m # NoMetric /\ c = ScoreAgainstAxis(m, axes[d])
         /\ c = Numeric(IF Crosses(m, axes[d]) THEN SeverityScaledScore(m, axes[d]) ELSE Zero)
         /\ axes[d].calibration_outcome = "zero_variance_baseline" => ~ (m.n <= 0)
BY DEF Indeterminate, Numeric, AxisScore, ScoreAgainstAxis

LEMMA BundleIs ==
  ASSUME AxisTypeOK, NEW d \in DOMAIN bundle.axes
  PROVE  /\ bundle \in Bundles /\ bundle.projection_version = "crc-v2"
         /\ bundle.sha256 # NoHash
         /\ \A b \in Bundles : b.sha256 = bundle.sha256 <=> b = bundle
         /\ AxisEntryOK(bundle.axes[d])
<1>1. bundle # NoBundle
  BY DEF NoBundle
<1>. QED
  BY <1>1, BundleAssumption DEF AxisTypeOK

LEMMA AppliedIs ==
  ASSUME AxisTypeOK, NEW d \in DOMAIN bundle.axes, NEW v, v.bundle = bundle.sha256
  PROVE  Applied(v) = bundle
BY BundleIs DEF Applied

LEMMA AttestedIs ==
  ASSUME AxisInv, NEW d \in Dimensions, NEW by \in Delineations, Attest(d, by)
  PROVE  /\ AxisInv'
         /\ verdict'.dimension = d /\ verdict'.bundle = bundle.sha256
         /\ envelope' # NoVerdict => envelope'.verdict = verdict'
         /\ Sent' => /\ d \in DOMAIN bundle.axes
                     /\ Metric(d) # NoMetric /\ verdict'.metric = Metric(d)
                     /\ bundle.axes[d].calibration_outcome = "zero_variance_baseline"
                          => ~ (Metric(d).n <= 0)
<1>1. PICK c, m : c = ScoreCalibrated(d) /\ m = Metric(d)
  OBVIOUS
<1>2. /\ verdict' = [dimension |-> d, conformity |-> c, metric |-> m, bundle |-> bundle.sha256]
      /\ corpus' = corpus /\ bundle' = bundle /\ prior' = prior
  BY <1>1 DEF Attest
<1>3. envelope'.verdict = verdict'
  BY DEF Attest
<1>4. /\ verdict'.dimension = d /\ verdict'.conformity = c /\ verdict'.metric = m
      /\ verdict'.bundle = bundle.sha256
  BY <1>2
<1>5. c = IF d \notin DOMAIN bundle.axes THEN Indeterminate ELSE AxisScore(m, bundle.axes[d])
  BY <1>1 DEF ScoreCalibrated
<1>6. AxisTypeOK'
  BY <1>2, <1>4 DEF AxisInv, AxisTypeOK
<1>7. m \in Ratios \cup {NoMetric}
  BY <1>1, MetricIs DEF AxisInv
<1>8. AxisInv'
  BY <1>2, <1>4, <1>5, <1>6, <1>7 DEF AxisInv
<1>9. Sent' => c.kind = "Numeric"
  BY <1>3, <1>4 DEF Sent, IsNumber
<1>10. Sent' => /\ d \in DOMAIN bundle.axes /\ m # NoMetric
                /\ bundle.axes[d].calibration_outcome = "zero_variance_baseline" => ~ (m.n <= 0)
  BY <1>5, <1>9, NumberTakes
<1>. QED
  BY <1>1, <1>3, <1>4, <1>8, <1>10

LEMMA AttestShowsSignal ==
  ASSUME AxisInv, NEW d \in Dimensions, NEW by \in Delineations, Attest(d, by)
  PROVE  NoSignalNoNumber'
<1>. SUFFICES ASSUME Sent'
              PROVE  LET v == envelope'.verdict
                         D == v.dimension
                     IN  /\ Applied(v).projection_version = "crc-v2"
                         /\ D \in DOMAIN Applied(v).axes
                         /\ ~ Signal(envelope'.cohort, D) =>
                              /\ D \notin {"compute", "models", "informational_asymmetry"}
                              /\ Applied(v).axes[D].calibration_outcome = "zero_variance_baseline"
                                   => D = "agent_capabilities"
                              /\ MeasuresNothing(envelope'.cohort, D, v.metric)
  BY DEF NoSignalNoNumber, Applied, Signal, Shows, ShowsModels, MeasuresNothing
<1>1. PICK v : v = envelope'.verdict
  OBVIOUS
<1>2. /\ v.dimension = d /\ v.bundle = bundle.sha256 /\ v.metric = Metric(d)
      /\ d \in DOMAIN bundle.axes /\ Metric(d) # NoMetric
      /\ bundle.axes[d].calibration_outcome = "zero_variance_baseline" => ~ (Metric(d).n <= 0)
  BY <1>1, AttestedIs DEF Sent
<1>3. envelope'.cohort = corpus
  BY DEF Attest
<1>4. AxisTypeOK
  BY DEF AxisInv
<1>5. Applied(v) = bundle /\ bundle.projection_version = "crc-v2"
  <2>1. Applied(v) = bundle
    BY <1>2, <1>4, AppliedIs
  <2>. QED
    BY <1>2, <1>4, <2>1, BundleIs
<1>6. ASSUME ~ Signal(corpus, d)
      PROVE  /\ d \notin {"compute", "models", "informational_asymmetry"}
             /\ MeasuresNothing(corpus, d, Metric(d))
             /\ bundle.axes[d].calibration_outcome = "zero_variance_baseline"
                  => d = "agent_capabilities"
  <2>1. /\ d \notin {"compute", "models", "informational_asymmetry"}
        /\ MeasuresNothing(corpus, d, Metric(d))
        /\ d # "agent_capabilities" => Metric(d).n = 0
    BY <1>2, <1>4, <1>6, SilenceIs
  <2>2. d # "agent_capabilities" => Metric(d).n <= 0
    BY <2>1
  <2>. QED
    BY <1>2, <2>1, <2>2
<1>. QED
  BY <1>1, <1>2, <1>3, <1>5, <1>6

LEMMA AttestCites ==
  ASSUME AxisInv, NEW d \in Dimensions, NEW by \in Delineations, Attest(d, by)
  PROVE  EvidenceNamesItsSources'
<1>. SUFFICES ASSUME Sent'
              PROVE  /\ {r[2] : r \in {q \in envelope'.refs : q[1] = "bundle"}}
                          = {envelope'.verdict.bundle} \cup ({envelope'.prior} \ {NoHash})
                     /\ {r[2] : r \in {q \in envelope'.refs : q[1] = "cohort_member"}}
                          = {a \in Agents : envelope'.delineated = "members"
                                           /\ envelope'.cohort[a] # Absent}
                     /\ envelope'.delineated = "algorithm" <=>
                          \E r \in envelope'.refs : r[1] = "cohort_derivation"
                     /\ envelope'.prior # envelope'.verdict.bundle
  BY DEF EvidenceNamesItsSources
<1>1. envelope'.verdict.bundle = bundle.sha256 /\ d \in DOMAIN bundle.axes
  BY AttestedIs DEF Sent
<1>2. PICK R, s, t, E, D :
        /\ R = envelope'.refs /\ s = bundle.sha256 /\ t = bundle.trace_events_sha256
        /\ E = bundle.axes[d].evidence_required /\ D = Delineated(by)
  OBVIOUS
<1>3. /\ envelope'.prior = prior /\ envelope'.cohort = corpus /\ envelope'.delineated = by
      /\ R = EvidenceRefs(d, by)
  BY <1>1, <1>2 DEF Attest
<1>4. R = {<<"bundle", s>>, <<"calibration_corpus", t>>, <<"corpus_trace_events", corpus>>}
            \cup (IF prior # NoHash THEN {<<"bundle", prior>>} ELSE {})
            \cup D
            \cup {<<"evidence_required", f>> : f \in E}
  BY <1>2, <1>3 DEF EvidenceRefs
<1>5. D = IF by = "members"
          THEN {<<"cohort_delineation", "cohort_id">>} \cup {<<"cohort_member", a>> : a \in Cohort}
          ELSE {<<"cohort_derivation", by>>}
  BY <1>2 DEF Delineated
<1>6. {q \in R : q[1] = "bundle"}
        = {<<"bundle", s>>} \cup (IF prior # NoHash THEN {<<"bundle", prior>>} ELSE {})
  <2>1. \A q \in D : q[1] # "bundle"
    BY <1>5
  <2>. QED
    BY <1>4, <2>1
<1>7. {q \in R : q[1] = "cohort_member"} = {q \in D : q[1] = "cohort_member"}
  BY <1>4
<1>8. {q \in D : q[1] = "cohort_member"}
        = IF by = "members" THEN {<<"cohort_member", a>> : a \in Cohort} ELSE {}
  <2>1. CASE by = "members"
    <3>1. \A a \in Cohort : <<"cohort_member", a>> \in D
      BY <1>5, <2>1
    <3>2. \A q \in D : q[1] = "cohort_member" => \E a \in Cohort : q = <<"cohort_member", a>>
      BY <1>5, <2>1
    <3>. QED
      BY <2>1, <3>1, <3>2
  <2>2. CASE by # "members"
    BY <1>5, <2>2
  <2>. QED
    BY <2>1, <2>2
<1>9. {r[2] : r \in {q \in R : q[1] = "bundle"}} = {s} \cup ({prior} \ {NoHash})
  <2>1. CASE prior = NoHash
    <3>1. PICK p : p = <<"bundle", s>>
      OBVIOUS
    <3>2. {r \in R : r[1] = "bundle"} = {p} /\ p[2] = s
      BY <1>6, <2>1, <3>1
    <3>3. {r[2] : r \in {p}} = {s}
      BY <3>2
    <3>. QED
      BY <2>1, <3>2, <3>3
  <2>2. CASE prior # NoHash
    <3>1. PICK p, q : p = <<"bundle", s>> /\ q = <<"bundle", prior>>
      OBVIOUS
    <3>2. {r \in R : r[1] = "bundle"} = {p, q} /\ p[2] = s /\ q[2] = prior
      BY <1>6, <2>2, <3>1
    <3>3. {r[2] : r \in {p, q}} = {s, prior}
      BY <3>2
    <3>. QED
      BY <2>2, <3>2, <3>3
  <2>. QED
    BY <2>1, <2>2
<1>10. {r[2] : r \in {q \in R : q[1] = "cohort_member"}}
        = {a \in Agents : by = "members" /\ corpus[a] # Absent}
  <2>1. PICK B : B = {q \in R : q[1] = "cohort_member"}
    OBVIOUS
  <2>2. CASE by = "members"
    <3>1. B = {<<"cohort_member", a>> : a \in Cohort}
      BY <1>7, <1>8, <2>1, <2>2
    <3>2. \A r \in B : r[2] \in Cohort
      BY <3>1
    <3>3. ASSUME NEW a \in Cohort PROVE \E r \in B : r[2] = a
      <4>1. PICK p : p = <<"cohort_member", a>>
        OBVIOUS
      <4>2. p \in B /\ p[2] = a
        BY <3>1, <4>1
      <4>. QED
        BY <4>2
    <3>4. {r[2] : r \in B} = Cohort
      BY <3>2, <3>3
    <3>. QED
      BY <2>1, <2>2, <3>4 DEF Cohort
  <2>3. CASE by # "members"
    BY <1>7, <1>8, <2>1, <2>3
  <2>. QED
    BY <2>2, <2>3
<1>11. prior # s
  BY <1>1, <1>2, BundleIs DEF AxisInv
<1>12. by = "algorithm" <=> \E r \in R : r[1] = "cohort_derivation"
  <2>1. CASE by = "members"
    <3>1. \A r \in D : r[1] # "cohort_derivation"
      BY <1>5, <2>1
    <3>2. \A r \in R : r[1] # "cohort_derivation"
      BY <1>4, <3>1
    <3>. QED
      BY <2>1, <3>2
  <2>2. CASE by = "algorithm"
    <3>1. PICK p : p = <<"cohort_derivation", by>>
      OBVIOUS
    <3>2. p \in R /\ p[1] = "cohort_derivation"
      BY <1>4, <1>5, <2>2, <3>1
    <3>. QED
      BY <2>2, <3>2
  <2>. QED
    BY <2>1, <2>2 DEF Delineations
<1>. QED
  BY <1>1, <1>2, <1>3, <1>9, <1>10, <1>11, <1>12

LEMMA NothingSent ==
  ASSUME envelope' = NoVerdict PROVE NoSignalNoNumber' /\ EvidenceNamesItsSources'
BY DEF NoSignalNoNumber, EvidenceNamesItsSources, Sent

LEMMA AxisInit_Inv == AxisInit => AttestInv
BY DEF AxisInit, AttestInv, AxisInv, AxisTypeOK, NoBundle, NoSignalNoNumber,
       EvidenceNamesItsSources, Sent

LEMMA AxisNext_Inv == AttestInv /\ [AxisNext]_axisVars => AttestInv'
<1>. SUFFICES ASSUME AttestInv, [AxisNext]_axisVars PROVE AttestInv'
  OBVIOUS
<1>1. ASSUME NEW a \in Agents, NEW r \in Records \cup {Absent}, Aggregate(a, r)
      PROVE  AttestInv'
  <2>1. AxisInv'
    BY <1>1 DEF Aggregate, AttestInv, AxisInv, AxisTypeOK
  <2>. QED
    BY <1>1, <2>1, NothingSent DEF Aggregate, AttestInv
<1>2. ASSUME NEW b \in Bundles, LoadBundle(b) PROVE AttestInv'
  <2>1. AxisTypeOK'
    BY <1>2 DEF LoadBundle, Valid, AXIS_CALIBRATION_VERSION, AttestInv, AxisInv, AxisTypeOK, NoBundle
  <2>2. prior' # NoHash => prior' # bundle'.sha256
    BY <1>2, BundleAssumption DEF LoadBundle, AttestInv, AxisInv, AxisTypeOK, NoBundle
  <2>3. AxisInv'
    BY <1>2, <2>1, <2>2 DEF LoadBundle, AxisInv
  <2>. QED
    BY <1>2, <2>3, NothingSent DEF LoadBundle, AttestInv
<1>3. ASSUME EndTransition PROVE AttestInv'
  <2>1. AxisInv'
    BY <1>3 DEF EndTransition, AttestInv, AxisInv, AxisTypeOK
  <2>. QED
    BY <1>3, <2>1, NothingSent DEF EndTransition, AttestInv
<1>4. ASSUME NEW d \in Dimensions, NEW by \in Delineations, Attest(d, by)
      PROVE  AttestInv'
  BY <1>4, AttestedIs, AttestShowsSignal, AttestCites DEF AttestInv
<1>5. CASE UNCHANGED axisVars
  <2>1. UNCHANGED <<corpus, bundle, prior, verdict, envelope>>
    BY <1>5 DEF axisVars
  <2>2. AxisInv'
    BY <2>1 DEF AttestInv, AxisInv, AxisTypeOK
  <2>3. NoSignalNoNumber'
    BY <2>1, Zenon DEF AttestInv, NoSignalNoNumber, Sent, IsNumber, Applied, Signal, Shows,
                       ShowsModels, MeasuresNothing
  <2>4. EvidenceNamesItsSources'
    BY <2>1, Zenon DEF AttestInv, EvidenceNamesItsSources, Sent, IsNumber
  <2>. QED
    BY <2>2, <2>3, <2>4 DEF AttestInv
<1>. QED
  BY <1>1, <1>2, <1>3, <1>4, <1>5 DEF AxisNext

(* axis_metrics.rs:260-330, over the corpus of any number of agents and    *)
(* whatever fields their aggregates lack: each measure stays in the range  *)
(* that the ramp's ceilings take it to have, and the equality, concentra-  *)
(* tion, diversity and federation measures need a cohort to be defined.    *)
THEOREM MeasuresInRange == AxisSpec => []MeasuresKeepTheirRange
<1>1. AttestInv => MeasuresKeepTheirRange
  BY RangesHold DEF AttestInv, AxisInv
<1>. QED
  BY <1>1, AxisInit_Inv, AxisNext_Inv, PTL DEF AxisSpec

(* MISSION.md anti-pattern 9, as the scorers keep it: a number leaves only *)
(* where a bundle of this version calibrates the axis.  A cohort with      *)
(* nothing to measure gets none where the measure is undefined or the      *)
(* bundle marks the axis as one without variance, and elsewhere the one of *)
(* a measure of nothing.  No bundle is assumed to mark any axis.           *)
THEOREM NumbersHaveSignal == AxisSpec => []NoSignalNoNumber
<1>1. AttestInv => NoSignalNoNumber
  BY DEF AttestInv
<1>. QED
  BY <1>1, AxisInit_Inv, AxisNext_Inv, PTL DEF AxisSpec

(* signing/event.rs:67-143: the evidence of a verdict that leaves names its*)
(* bundle, the one it replaces during a transition, and its cohort: exactly*)
(* its members, or the algorithm that derives them.                        *)
THEOREM EvidenceIsNamed == AxisSpec => []EvidenceNamesItsSources
<1>1. AttestInv => EvidenceNamesItsSources
  BY DEF AttestInv
<1>. QED
  BY <1>1, AxisInit_Inv, AxisNext_Inv, PTL DEF AxisSpec

-----------------------------------------------------------------------------
(* The severity ramp.                                                      *)

LEMMA FurtherCrosses ==
  ASSUME NEW x \in Ratios, NEW y \in Ratios, NEW e, AxisEntryOK(e), Further(x, y, e),
         Crosses(x, e)
  PROVE  Crosses(y, e)
<1>1. e.threshold \in Ratios /\ UpperBound(e) \in Ratios
      /\ ConcernDirection(e) \in {"at_or_above", "at_or_below", "outside_corridor"}
  <2>1. UpperBound(e) \in Ratios
    BY DEF AxisEntryOK, UpperBound
  <2>2. ConcernDirection(e) \in {"at_or_above", "at_or_below", "outside_corridor"}
    BY DEF AxisEntryOK, ConcernDirection
  <2>. QED
    BY <2>1, <2>2 DEF AxisEntryOK
<1>2. CASE ConcernDirection(e) = "at_or_above"
  <2>1. Leq(e.threshold, x) /\ Leq(x, y)
    BY <1>2 DEF Crosses, Further
  <2>2. Leq(e.threshold, y)
    BY <1>1, <2>1, LeqIsTransitive
  <2>. QED
    BY <1>2, <2>2 DEF Crosses
<1>3. CASE ConcernDirection(e) = "at_or_below"
  <2>1. Leq(x, e.threshold) /\ Leq(y, x)
    BY <1>3 DEF Crosses, Further
  <2>2. Leq(y, e.threshold)
    BY <1>1, <2>1, LeqIsTransitive
  <2>. QED
    BY <1>3, <2>2 DEF Crosses
<1>4. CASE ConcernDirection(e) = "outside_corridor"
  <2>1. Leq(UpperBound(e), x) /\ Leq(x, y)
    BY <1>4 DEF Crosses, Further
  <2>2. Leq(UpperBound(e), y)
    BY <1>1, <2>1, LeqIsTransitive
  <2>. QED
    BY <1>4, <2>2 DEF Crosses
<1>. QED
  BY <1>1, <1>2, <1>3, <1>4

LEMMA FurtherIsNeverMilder ==
  ASSUME NEW x \in Ratios, NEW y \in Ratios, NEW e, AxisEntryOK(e), Further(x, y, e),
         NEW s, s = (IF Crosses(x, e) THEN SeverityScaledScore(x, e) ELSE Zero),
         NEW t, t = (IF Crosses(y, e) THEN SeverityScaledScore(y, e) ELSE Zero)
  PROVE  Leq(t, s)
<1>1. IF ConcernDirection(e) = "at_or_below" THEN Leq(y, x) ELSE Leq(x, y)
  BY DEF Further
<1>2. /\ Leq(SeverityScaledScore(y, e), Zero)
      /\ Leq(SeverityScaledScore(y, e), SeverityScaledScore(x, e))
  BY <1>1, ScoreFalls
<1>3. Leq(Zero, Zero)
  BY ZeroAndOne, LeqIs
<1>4. Crosses(x, e) => Crosses(y, e)
  BY FurtherCrosses
<1>. QED
  BY <1>2, <1>3, <1>4

ScoredByItsAxis ==
  IsNumber(verdict) =>
    LET e == Applied(verdict).axes[verdict.dimension]
        m == verdict.metric
    IN  /\ m \in Ratios /\ AxisEntryOK(e)
        /\ verdict.conformity.score =
             IF Crosses(m, e) THEN SeverityScaledScore(m, e) ELSE Zero

LEMMA VerdictIs == AxisInv => ScoredByItsAxis
<1>. SUFFICES ASSUME AxisInv, IsNumber(verdict)
              PROVE  LET e == Applied(verdict).axes[verdict.dimension]
                         m == verdict.metric
                     IN  /\ m \in Ratios /\ AxisEntryOK(e)
                         /\ verdict.conformity.score =
                              IF Crosses(m, e) THEN SeverityScaledScore(m, e) ELSE Zero
  BY DEF ScoredByItsAxis
<1>1. PICK d, m, c : d = verdict.dimension /\ m = verdict.metric /\ c = verdict.conformity
  OBVIOUS
<1>2. /\ verdict # NoVerdict /\ verdict.bundle = bundle.sha256 /\ c.kind = "Numeric"
      /\ m \in Ratios \cup {NoMetric} /\ AxisTypeOK
      /\ c = IF d \notin DOMAIN bundle.axes THEN Indeterminate ELSE AxisScore(m, bundle.axes[d])
  BY <1>1 DEF AxisInv, IsNumber
<1>3. /\ d \in DOMAIN bundle.axes /\ m # NoMetric
      /\ c = Numeric(IF Crosses(m, bundle.axes[d]) THEN SeverityScaledScore(m, bundle.axes[d])
                     ELSE Zero)
  <2>1. PICK axes : axes = bundle.axes
    OBVIOUS
  <2>2. c = IF d \notin DOMAIN axes THEN Indeterminate ELSE AxisScore(m, axes[d])
    BY <1>2, <2>1
  <2>3. /\ d \in DOMAIN axes /\ m # NoMetric
        /\ c = Numeric(IF Crosses(m, axes[d]) THEN SeverityScaledScore(m, axes[d]) ELSE Zero)
    BY <1>2, <2>2, NumberTakes
  <2>. QED
    BY <2>1, <2>3
<1>4. c.score = IF Crosses(m, bundle.axes[d]) THEN SeverityScaledScore(m, bundle.axes[d])
                ELSE Zero
  BY <1>3 DEF Numeric
<1>5. Applied(verdict) = bundle
  <2>1. PICK v : v = verdict
    OBVIOUS
  <2>. QED
    BY <1>2, <1>3, <2>1, AppliedIs
<1>. QED
  BY <1>1, <1>2, <1>3, <1>4, <1>5, BundleIs

LEMMA VerdictAnchored == AxisInv => ConcernIsAnchored
<1>. SUFFICES ASSUME AxisInv, IsNumber(verdict), verdict.conformity.score # Zero
              PROVE  LET s0 == Applied(verdict).axes[verdict.dimension].score_at_threshold
                     IN  /\ Leq(Ratio(2 * s0, 1), verdict.conformity.score)
                         /\ Leq(verdict.conformity.score, Ratio(s0, 1))
  BY DEF ConcernIsAnchored
<1>1. PICK e, m : e = Applied(verdict).axes[verdict.dimension] /\ m = verdict.metric
  OBVIOUS
<1>2. /\ m \in Ratios /\ AxisEntryOK(e)
      /\ verdict.conformity.score = SeverityScaledScore(m, e)
  BY <1>1, VerdictIs DEF ScoredByItsAxis
<1>3. Leq(m, m)
  BY <1>2, ItsOwn DEF Leq
<1>4. /\ Leq(Ratio(2 * e.score_at_threshold, 1), SeverityScaledScore(m, e))
      /\ Leq(SeverityScaledScore(m, e), Ratio(e.score_at_threshold, 1))
  BY <1>2, <1>3, ScoreFalls
<1>. QED
  BY <1>1, <1>2, <1>4

LEMMA VerdictsCompare == AxisInv /\ AxisInv' => NeverMilder
<1>. SUFFICES ASSUME AxisInv, AxisInv', IsNumber(verdict), IsNumber(verdict)',
                     verdict'.dimension = verdict.dimension, verdict'.bundle = verdict.bundle,
                     Further(verdict.metric, verdict'.metric,
                             Applied(verdict).axes[verdict.dimension])
              PROVE  Leq(verdict'.conformity.score, verdict.conformity.score)
  BY DEF NeverMilder, IsNumber
<1>1. PICK e, x, y, s, t : /\ e = Applied(verdict).axes[verdict.dimension]
                           /\ x = verdict.metric /\ y = verdict'.metric
                           /\ s = verdict.conformity.score /\ t = verdict'.conformity.score
  OBVIOUS
<1>2. /\ x \in Ratios /\ AxisEntryOK(e)
      /\ s = IF Crosses(x, e) THEN SeverityScaledScore(x, e) ELSE Zero
  BY <1>1, VerdictIs DEF ScoredByItsAxis
<1>3. Applied(verdict)'.axes[verdict'.dimension] = e
  BY <1>1 DEF Applied
<1>4. ScoredByItsAxis'
  BY VerdictIs, PTL
<1>5. /\ y \in Ratios
      /\ t = IF Crosses(y, e) THEN SeverityScaledScore(y, e) ELSE Zero
  BY <1>1, <1>3, <1>4 DEF ScoredByItsAxis
<1>. QED
  BY <1>1, <1>2, <1>5, FurtherIsNeverMilder

(* axis_metrics.rs:307-330, for every bundle, cohort and axis: a concern is*)
(* scored between the anchor and twice the anchor, and of two cohorts the  *)
(* one further out on the side of concern is never scored the milder.      *)
THEOREM SeverityRamps == AxisSpec => SeverityIsARamp
<1>1. AttestInv => ConcernIsAnchored
  BY VerdictAnchored DEF AttestInv
<1>2. AttestInv /\ AttestInv' => [NeverMilder]_verdict
  BY VerdictsCompare DEF AttestInv
<1>. QED
  BY <1>1, <1>2, AxisInit_Inv, AxisNext_Inv, PTL
  DEF AxisSpec, SeverityIsARamp, WorseIsNeverMilder
=============================================================================
