------------------------------ MODULE Capacity ------------------------------
(***************************************************************************)
(* How much a sample is worth, and who may say how capable an agent is:    *)
(*   src/scoring/n_eff.rs          Kish's effective sample size            *)
(*   src/scoring/capacity.rs       the confidence it buys                  *)
(*   src/capacity/score.rs         the five factors and their product      *)
(*   src/capacity/attestation.rs   one agent about another                 *)
(*                                                                         *)
(* Correlations and factors are whole numbers of 1/Grain; what is not a    *)
(* finite number is NotFinite.                                             *)
(***************************************************************************)
EXTENDS AxisMetrics

CONSTANTS
  Keys,          \* federation keys
  Grain,         \* steps of a factor or a correlation
  Values,        \* factors that are offered, out of range ones included
  NotFinite,     \* NaN, infinities
  MaxSample,     \* bound: samples, gates and targets
  NoAttestation

ASSUME CapacityAssumption ==
  Grain \in Nat \ {0} /\ NotFinite \notin Int /\ MaxSample \in Nat

VARIABLE attested   \* the capacity attestation a consumer holds

(* N / (1 + rho (N - 1)), rho clamped to [0, 1].                           *)
KishNEff(n, rho) ==
  LET r == IF rho < 0 THEN 0 ELSE IF rho > Grain THEN Grain ELSE rho
  IN  IF n = 0 THEN Zero ELSE Ratio(n * Grain, Grain + r * (n - 1))

(* Mutant: the ramp starts at no sample at all.                            *)
CapacityFromZero(neff, gate, target) ==
  IF Leq(neff, Zero) THEN Zero
  ELSE IF Leq(Ratio(target, 1), neff) THEN One
  ELSE Ratio(neff.n, neff.d * target)

(* Nothing up to the gate, everything from the target on, linear between.  *)
CapacityBand(neff, gate, target) ==
  IF Leq(neff, Ratio(gate, 1)) THEN Zero
  ELSE IF Leq(Ratio(target, 1), neff) THEN One
  ELSE Ratio(neff.n - gate * neff.d, neff.d * (target - gate))

----------------------------------------------------------------------------
Factors == {"core_identity", "integrity", "resilience",
            "incompleteness_awareness", "sustained_coherence"}

ValidFactors(f) == \A k \in Factors : f[k] # NotFinite /\ f[k] \in 0..Grain

(* In Grain to the fifth.                                                  *)
Composite(f) ==
  f["core_identity"] * f["integrity"] * f["resilience"]
    * f["incompleteness_awareness"] * f["sustained_coherence"]

CapacityInit == attested = NoAttestation

(* CapacityFactors::new and CapacityAttestation::new.                      *)
Constructs(by, about, f) == ValidFactors(f) /\ by # about

(* Mutant: the decoder trusts the attestation, and checks the factors.     *)
DecodesFactors(by, about, f) == ValidFactors(f)

(* The two Deserialize impls go through the constructors.                  *)
Decodes(by, about, f) == Constructs(by, about, f)

Emit(by, about, f) ==
  /\ Constructs(by, about, f)
  /\ attested' = [by |-> by, about |-> about, factors |-> f]

(* Whatever bytes a peer sends.                                            *)
Receive(by, about, f) ==
  /\ Decodes(by, about, f)
  /\ attested' = [by |-> by, about |-> about, factors |-> f]

CapacityNext ==
  \E by, about \in Keys, v, w \in Values, k \in Factors :
    LET f == [x \in Factors |-> IF x = k THEN v ELSE w]
    IN  Emit(by, about, f) \/ Receive(by, about, f)

CapacitySpec == CapacityInit /\ [][CapacityNext]_attested

----------------------------------------------------------------------------
(* Properties.                                                             *)

(* capacity/attestation.rs:58: no bytes get a self-attestation past the    *)
(* constructor; and a composite is never above its weakest factor.         *)
NobodyAttestsThemselves ==
  attested # NoAttestation =>
    /\ attested.by # attested.about
    /\ \A k \in Factors :
         /\ attested.factors[k] \in 0..Grain
         /\ Composite(attested.factors)
              <= attested.factors[k] * Grain * Grain * Grain * Grain

(* Correlation only ever costs sample size and a sample is never worth     *)
(* more than itself; the confidence it buys is nothing exactly where       *)
(* scoring/assembly.rs answers SampleSizeBelowGate or is at the gate, and  *)
(* grows with the sample, for targets at or below the gate too.            *)
SampleIsNeverInflated(n, gate, target) ==
  \A r1, r2 \in -1..(Grain + 1) : r1 <= r2 =>
    LET n1 == KishNEff(n, r1)
        n2 == KishNEff(n, r2)
    IN  /\ Leq(n2, n1) /\ Leq(n1, Ratio(n, 1))
        /\ n > 0 => Leq(One, n2)
        /\ Leq(CapacityBand(n2, gate, target), CapacityBand(n1, gate, target))
        /\ CapacityBand(n1, gate, target).n = 0 <=> Leq(n1, Ratio(gate, 1))
        /\ Leq(CapacityBand(n1, gate, target), One)

SamplesAreNeverInflated ==
  \A n, gate, target \in 0..MaxSample : SampleIsNeverInflated(n, gate, target)

(* Neither who attests, nor what a sample is worth.                        *)
CapacityIsNeverInflated == NobodyAttestsThemselves /\ SamplesAreNeverInflated
=============================================================================
