------------------------------- MODULE Audit -------------------------------
(***************************************************************************)
(* src/audit: LensAudit appends typed events to the host Engine's audit    *)
(* chain.  An entry is built here (api.rs, delegate.rs) and sealed and     *)
(* recorded by calls of the Python Engine (pyo3.rs), each of which may let *)
(* other threads run, and may raise.                                       *)
(*                                                                         *)
(* The digest of bytes is the bytes; the two canonical forms leave out     *)
(* what is not filled in yet, the position in the chain included.          *)
(***************************************************************************)
EXTENDS Naturals, Sequences

CONSTANTS
  Callers,       \* Python threads
  Requests,      \* the calls they make: [fn |-> the method, ...its arguments]
  Empty,         \* the empty string
  HostKey,       \* the host Engine's key
  NoEntry,       \* a caller without an entry
  MaxCalls,      \* bound: entry ids minted
  MaxClock       \* bound: the clock

ASSUME AuditAssumption == /\ {MaxCalls, MaxClock} \subseteq Nat
                          /\ NoEntry \notin Nat \X Requests

VARIABLES
  inner,     \* caller -> how its LensAudit reaches an Engine
  step,      \* caller -> the engine call it is about to make
  draft,     \* caller -> the entry as built so far
  answer,    \* caller -> its last answer
  chain,     \* the host Engine's chain
  minted,    \* entry ids given out (Uuid::new_v4)
  clock

auditVars == <<inner, step, draft, answer, chain, minted, clock>>

----------------------------------------------------------------------------
(* api.rs: the typed vocabulary.                                           *)

ConsentEventType == {"grant", "revoke", "expire"}

(* What the four log_* methods refuse with a ValueError.                   *)
Accepts(req) ==
  CASE req.fn = "log_action" -> req.action_type # Empty /\ req.thought_id # Empty
    [] req.fn = "log_consent_event" -> req.event_type \in ConsentEventType
    [] OTHER -> TRUE

ActionType(req) ==
  CASE req.fn = "log_action"          -> <<"handler_action_", req.action_type>>
    [] req.fn = "log_consent_event"   -> <<"consent_event">>
    [] req.fn = "log_wbd"             -> <<"wisdom_based_deferral">>
    [] req.fn = "log_identity_change" -> <<"identity_change">>

Subject(req) ==
  CASE req.fn = "log_action"          -> <<"thought", req.thought_id>>
    [] req.fn = "log_consent_event"   -> <<"stream", req.stream_id>>
    [] req.fn = "log_wbd"             -> <<"thought", "wbd">>
    [] req.fn = "log_identity_change" -> <<"identity_field", req.field>>

----------------------------------------------------------------------------
(* delegate.rs: the entry.                                                 *)

BuildEntryDraft(id, req, at, actor) ==
  [entry_id |-> id, sequence_number |-> 0, actor_id |-> actor,
   action_type |-> ActionType(req), subject |-> Subject(req), payload |-> req,
   recorded_at |-> at, entry_hash |-> Empty, signature |-> Empty]

Unplaced(e) == [e EXCEPT !.sequence_number = 0]

(* External: the bytes persist hashes, and the bytes it signs.             *)
CanonicalForHash(e) == [Unplaced(e) EXCEPT !.entry_hash = Empty, !.signature = Empty]

CanonicalForSigning(e) == [Unplaced(e) EXCEPT !.signature = Empty]

StampEntryHash(e) == [e EXCEPT !.entry_hash = CanonicalForHash(e)]

StampSignature(e, bytes) == [e EXCEPT !.signature = <<HostKey, bytes>>]

----------------------------------------------------------------------------
AuditInit ==
  /\ inner = [c \in Callers |-> "none"]
  /\ step = [c \in Callers |-> "idle"]
  /\ draft = [c \in Callers |-> NoEntry]
  /\ answer = [c \in Callers |-> "none"]
  /\ chain = <<>>
  /\ minted = 0
  /\ clock = 0

(* LensAudit(engine=...), or the process's own Engine, or a RuntimeError.  *)
New(c) ==
  /\ inner[c] = "none"
  /\ \/ \E i \in {"Cohabitation", "Sovereign"} :
          inner' = [inner EXCEPT ![c] = i] /\ UNCHANGED answer
     \/ answer' = [answer EXCEPT ![c] = "error"] /\ UNCHANGED inner
  /\ UNCHANGED <<step, draft, chain, minted, clock>>

Return(c, a) ==
  /\ step' = [step EXCEPT ![c] = "idle"]
  /\ draft' = [draft EXCEPT ![c] = NoEntry]
  /\ answer' = [answer EXCEPT ![c] = a]

(* log_action, log_consent_event, log_wbd, log_identity_change: the time   *)
(* and the id are taken before anything is asked of the Engine; the        *)
(* sovereign branch of record_event always raises.                         *)
Log(c, req) ==
  /\ inner[c] # "none" /\ step[c] = "idle"
  /\ IF Accepts(req)
     THEN minted < MaxCalls /\ minted' = minted + 1
     ELSE UNCHANGED minted
  /\ IF Accepts(req) /\ inner[c] = "Cohabitation"
     THEN /\ step' = [step EXCEPT ![c] = "local_key_id"]
          /\ draft' = [draft EXCEPT ![c] = BuildEntryDraft(minted', req, clock, Empty)]
          /\ answer' = [answer EXCEPT ![c] = "none"]
     ELSE Return(c, "error")
  /\ UNCHANGED <<inner, chain, clock>>

Proceed(c, from, to, e) ==
  /\ step[c] = from
  /\ step' = [step EXCEPT ![c] = to]
  /\ draft' = [draft EXCEPT ![c] = e]
  /\ UNCHANGED <<inner, answer, minted, clock>>

LocalKeyId(c) ==
  /\ Proceed(c, "local_key_id", "hash", [draft[c] EXCEPT !.actor_id = HostKey])
  /\ UNCHANGED chain

(* Mutant: the entry is signed with its hash left out.                     *)
HashNothing(c) ==
  /\ Proceed(c, "hash", "sign", draft[c])
  /\ UNCHANGED chain

CanonicalizeForHash(c) ==
  /\ Proceed(c, "hash", "sign", StampEntryHash(draft[c]))
  /\ UNCHANGED chain

(* audit_canonicalize_for_signing, then local_sign on the bytes it gave:   *)
(* no other call of this thread changes the entry between the two.         *)
LocalSign(c) ==
  /\ Proceed(c, "sign", "record",
             StampSignature(draft[c], CanonicalForSigning(draft[c])))
  /\ UNCHANGED chain

Placed(c) == [draft[c] EXCEPT !.sequence_number = Len(chain) + 1]

(* Mutant: an entry whose record raised is recorded again.                 *)
RecordTwice(c) ==
  /\ step[c] = "record"
  /\ \E to \in {"record", "answer"} : step' = [step EXCEPT ![c] = to]
  /\ chain' = Append(chain, Placed(c))
  /\ Len(chain) < MaxCalls + 1
  /\ UNCHANGED <<inner, draft, answer, minted, clock>>

(* audit_record_entry: the Engine gives the entry its place and keeps it;  *)
(* the call may still raise.                                               *)
RecordEntry(c) ==
  /\ Proceed(c, "record", "answer", draft[c])
  /\ chain' = Append(chain, Placed(c))

Answer(c) ==
  /\ step[c] = "answer"
  /\ Return(c, "ok")
  /\ UNCHANGED <<inner, chain, minted, clock>>

(* Any engine call raises, or answers what the code refuses (a signature   *)
(* that is not 64 bytes, no bytes at all).                                 *)
Raise(c) ==
  /\ step[c] # "idle"
  /\ Return(c, "error")
  /\ UNCHANGED <<inner, chain, minted, clock>>

Tick ==
  /\ clock < MaxClock
  /\ clock' = clock + 1
  /\ UNCHANGED <<inner, step, draft, answer, chain, minted>>

EngineStep(c) ==
  LocalKeyId(c) \/ CanonicalizeForHash(c) \/ LocalSign(c)
    \/ RecordEntry(c) \/ Answer(c) \/ Raise(c)

AuditNext ==
  \/ \E c \in Callers : New(c) \/ EngineStep(c)
  \/ \E c \in Callers, req \in Requests : Log(c, req)
  \/ Tick

AuditSpec == AuditInit /\ [][AuditNext]_auditVars

----------------------------------------------------------------------------
(* Properties.                                                             *)

AuditTypeOK ==
  /\ inner \in [Callers -> {"none", "Cohabitation", "Sovereign"}]
  /\ step \in [Callers -> {"idle", "local_key_id", "hash", "sign", "record", "answer"}]
  /\ answer \in [Callers -> {"none", "ok", "error"}]
  /\ minted \in 0..MaxCalls /\ clock \in 0..MaxClock
  /\ DOMAIN draft = Callers
  /\ \A c \in Callers : IF step[c] = "idle" THEN draft[c] = NoEntry
                         ELSE /\ inner[c] = "Cohabitation"
                              /\ draft[c].entry_id \in 1..minted

(* Whatever the threads and the faults, an entry of the chain is signed by *)
(* the key it names as its actor, over its content and the hash of that    *)
(* content, and stands where its number says.                              *)
EntriesAreSealed ==
  AuditTypeOK /\ \A i \in DOMAIN chain :
    /\ chain[i].sequence_number = i
    /\ chain[i].actor_id = HostKey
    /\ chain[i].entry_hash = CanonicalForHash(chain[i])
    /\ chain[i].signature = <<HostKey, CanonicalForSigning(chain[i])>>

(* Chain and calls, seen as the log of AuditLog.tla.                       *)
Entry(e) == <<e.entry_id, e.payload>>

AbstractLog == INSTANCE AuditLog WITH
  log    <- [i \in DOMAIN chain |-> Entry(chain[i])],
  open   <- [c \in Callers |-> IF step[c] = "idle" THEN NoEntry ELSE Entry(draft[c])],
  logged <- [c \in Callers |-> step[c] = "answer"],
  answer <- answer

(* No caller is told anything untrue about its entry, and no entry is      *)
(* logged twice or without a call.                                         *)
AuditImplementsLog == AbstractLog!LogSpec
=============================================================================
