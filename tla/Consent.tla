------------------------------ MODULE Consent ------------------------------
(***************************************************************************)
(* src/capture/consent.rs: may a sealed trace be emitted?                  *)
(*                                                                         *)
(* The federation directory (external) holds attestation rows; the newest  *)
(* row of the consent dimension decides, and only when there is none does  *)
(* the operator's configured timestamp.  Rows of other dimensions and the  *)
(* attesting key's filter are in the data: `rows` are those of one key.    *)
(***************************************************************************)
EXTENDS Naturals, Sequences

CONSTANTS
  GrantTypes,      \* "scores", "supersedes"
  WithdrawTypes,   \* "withdraws", "recants"
  OtherTypes,      \* attestation types resolve_grant does not know
  ConsentDim,      \* consent:community_trust:v1
  OtherDims,       \* the dimensions of the key's other attestations
  ConfigStamps,    \* non-empty operator timestamps
  NoStamp,         \* consent_timestamp None, or the empty string
  MaxAsserted,     \* bound: asserted_at ranges over 1..MaxAsserted
  MaxRows          \* bound: attestations issued in one behaviour

ASSUME ConsentAssumption ==
  /\ GrantTypes \cap WithdrawTypes = {}
  /\ OtherTypes \cap (GrantTypes \cup WithdrawTypes) = {}
  /\ ConsentDim \notin OtherDims
  /\ NoStamp \notin ConfigStamps \cup Nat
  /\ ConfigStamps \cap Nat = {}
  /\ {MaxAsserted, MaxRows} \subseteq Nat

Attestation ==
  [attestation_id   : 1..MaxRows,
   asserted_at      : 1..MaxAsserted,
   attestation_type : GrantTypes \cup WithdrawTypes \cup OtherTypes,
   dimension        : OtherDims \cup {ConsentDim}]

----------------------------------------------------------------------------
(* resolve_grant: the newest word on the dimension.                        *)

Matching(rs) == {r \in rs : r.dimension = ConsentDim}

(* Mutant: the tie break on attestation_id is forgotten.                   *)
BeatsByTimeOnly(r, q) == r.asserted_at >= q.asserted_at

(* Mutant: rows in the order they arrived, the last one first.             *)
BeatsById(r, q) == r.attestation_id >= q.attestation_id

(* The sort order: (asserted_at DESC, attestation_id DESC).                *)
Beats(r, q) ==
  \/ r.asserted_at > q.asserted_at
  \/ r.asserted_at = q.asserted_at /\ r.attestation_id >= q.attestation_id

Newest(rs) ==
  CHOOSE r \in Matching(rs) : \A q \in Matching(rs) : Beats(r, q)

Absent         == [kind |-> "Absent", at |-> 0]
InForce(at)    == [kind |-> "InForce", at |-> at]
Withdrawn(at)  == [kind |-> "Withdrawn", at |-> at]

ResolveGrant(rs) ==
  IF Matching(rs) = {} THEN Absent
  ELSE CASE Newest(rs).attestation_type \in GrantTypes ->
              InForce(Newest(rs).asserted_at)
         [] Newest(rs).attestation_type \in WithdrawTypes ->
              Withdrawn(Newest(rs).asserted_at)
         [] OTHER -> Absent

(* resolve_consent: the ladder grant > withdrawal > config > nothing.      *)

(* Mutant: a withdrawal falls through to the configuration.                *)
ResolveConsentFallsThrough(grant, cfg) ==
  CASE grant.kind = "InForce" -> [kind |-> "CegGrant", stamp |-> grant.at]
    [] grant.kind # "InForce" /\ cfg # NoStamp ->
         [kind |-> "ConfigFallback", stamp |-> cfg]
    [] OTHER -> [kind |-> "NoConsent", stamp |-> NoStamp]

ResolveConsent(grant, cfg) ==
  CASE grant.kind = "InForce"   -> [kind |-> "CegGrant", stamp |-> grant.at]
    [] grant.kind = "Withdrawn" -> [kind |-> "Withdrawn", stamp |-> NoStamp]
    [] grant.kind = "Absent" /\ cfg # NoStamp ->
         [kind |-> "ConfigFallback", stamp |-> cfg]
    [] OTHER -> [kind |-> "NoConsent", stamp |-> NoStamp]

(* The resolutions under which prepare_for_seal goes on.                   *)
Permits(res) == res.kind \in {"CegGrant", "ConfigFallback"}

----------------------------------------------------------------------------
(* The directory: attestations of the key arrive, replicated in any order, *)
(* never change and are never removed.                                     *)

VARIABLES
  rows,     \* the key's attestation rows, in the order they arrived
  config    \* ConsentConfig.effective_timestamp(), fixed at construction

consentVars == <<rows, config>>

RowsUpTo(n) == {rows[i] : i \in 1..n}
Rows == RowsUpTo(Len(rows))

ConsentInit ==
  /\ rows = <<>>
  /\ config \in ConfigStamps \cup {NoStamp}

Attest(r) ==
  /\ Len(rows) < MaxRows
  /\ \A q \in Rows : q.attestation_id # r.attestation_id
  /\ rows' = Append(rows, r)
  /\ UNCHANGED config

ConsentNext == \E r \in Attestation : Attest(r)

ConsentSpec == ConsentInit /\ [][ConsentNext]_consentVars

(* resolve_consent_via_engine, when the directory can be read.             *)
ResolutionAt(n) == ResolveConsent(ResolveGrant(RowsUpTo(n)), config)
Resolution == ResolutionAt(Len(rows))

----------------------------------------------------------------------------
(* Properties.                                                             *)

ConsentTypeOK ==
  /\ rows \in Seq(Attestation)
  /\ config \in ConfigStamps \cup {NoStamp}

Later(r, q) ==
  \/ r.asserted_at > q.asserted_at
  \/ r.asserted_at = q.asserted_at /\ r.attestation_id > q.attestation_id

(* The newest row of the dimension, whatever its type, is the withdrawal w. *)
LastWord(w) ==
  /\ w \in Rows /\ w.dimension = ConsentDim /\ w.attestation_type \in WithdrawTypes
  /\ \A q \in Rows : q.dimension = ConsentDim /\ q # w => Later(w, q)

(* Once the newest word is a withdrawal, emission is blocked until a row   *)
(* of the consent dimension arrives that is newer than it: not an older    *)
(* grant replicated late, not an attestation on another dimension, not the *)
(* configuration (consent.rs:161-199, 216-230).                            *)
WithdrawalSticks ==
  [][\A w \in Rows : (LastWord(w) /\ Permits(Resolution')) =>
       LET r == rows'[Len(rows')] IN r.dimension = ConsentDim /\ Later(r, w)]_consentVars

(* Emission under CEG authority names a grant the key really issued, and   *)
(* no withdrawal is newer than it, equal timestamps being decided by the   *)
(* attestation id (consent.rs:176-192).                                    *)
GrantIsNewest ==
  Resolution.kind = "CegGrant" =>
    \E r \in Rows :
      /\ r.dimension = ConsentDim
      /\ r.attestation_type \in GrantTypes
      /\ r.asserted_at = Resolution.stamp
      /\ \A q \in Rows :
           (q.dimension = ConsentDim /\ q.attestation_type \in WithdrawTypes)
             => Later(r, q)
=============================================================================
