---------------------------- MODULE AxisMetrics ----------------------------
(***************************************************************************)
(* src/detector/axis_metrics.rs: the measures of a population, as ratios.  *)
(* A measure that the population does not define is NoMetric (None).       *)
(* Roots and logarithms are taken to 1/Precision.                          *)
(***************************************************************************)
EXTENDS Integers, Sequences, FiniteSets, SequencesExt, FiniteSetsExt

CONSTANTS
  NoMetric,
  Log10      \* log10 of a cohort's size, in 1/Precision

Precision == 100

Ratios == [n : Int, d : Nat \ {0}]

(* d > 0.                                                                  *)
Gcd(d, m) == Max({k \in 1..d : d % k = 0 /\ m % k = 0})

(* In lowest terms, d > 0.                                                 *)
Ratio(n, d) ==
  LET g == IF n < 0 THEN Gcd(d, -n) ELSE Gcd(d, n)
  IN  [n |-> n \div g, d |-> d \div g]

Zero == Ratio(0, 1)
One  == Ratio(1, 1)

Leq(a, b) == a.n * b.d <= b.n * a.d

Total(v) ==
  LET upTo[i \in 0..Len(v)] == IF i = 0 THEN 0 ELSE upTo[i - 1] + v[i]
  IN  upTo[Len(v)]

Squares(v) == Total([i \in 1..Len(v) |-> v[i] * v[i]])

AbsDiff(x, y) == IF x < y THEN y - x ELSE x - y

Differences(v) ==
  Total([i \in 1..Len(v) |-> Total([j \in 1..Len(v) |-> AbsDiff(v[i], v[j])])])

(* Mutant: no activity reads as perfect equality.                          *)
GiniOfNothingIsZero(v) ==
  IF Total(v) <= 0 THEN Zero
  ELSE Ratio(Differences(v), 2 * Len(v) * Total(v))

(* Mean absolute difference over twice the mean.                           *)
Gini(v) ==
  IF v = <<>> \/ Total(v) <= 0 THEN NoMetric
  ELSE Ratio(Differences(v), 2 * Len(v) * Total(v))

(* Sum of the squared shares of the categories.                            *)
Hhi(counts) ==
  IF Total(counts) = 0 THEN NoMetric
  ELSE Ratio(Squares(counts), Total(counts) * Total(counts))

Root(m) == CHOOSE r \in 0..m : r * r <= m /\ m < (r + 1) * (r + 1)

(* Len times the deviations from the mean, squared.                        *)
Deviations(v) == Squares([i \in 1..Len(v) |-> Len(v) * v[i] - Total(v)])

(* Population standard deviation over the mean.                            *)
CoefficientOfVariation(v) ==
  IF v = <<>> \/ Total(v) = 0 THEN NoMetric
  ELSE Ratio(Root(Precision * Precision * (Deviations(v) \div Len(v))),
             Precision * Total(v))

(* The k-th smallest of a population.                                      *)
Ranked(v, k) ==
  CHOOSE x \in ToSet(v) :
    /\ Cardinality({i \in DOMAIN v : v[i] < x}) < k
    /\ Cardinality({i \in DOMAIN v : v[i] <= x}) >= k

(* Twice the median of a population.                                       *)
Median2(v) ==
  LET h == Len(v) \div 2
  IN  IF Len(v) % 2 = 1 THEN 2 * Ranked(v, h + 1) ELSE Ranked(v, h) + Ranked(v, h + 1)

(* Mutant: the median itself counts as below.                              *)
FractionAtOrBelowMedian(v) ==
  IF v = <<>> THEN NoMetric
  ELSE Ratio(Cardinality({i \in DOMAIN v : 2 * v[i] <= Median2(v)}), Len(v))

FractionBelowMedian(v) ==
  IF v = <<>> THEN NoMetric
  ELSE Ratio(Cardinality({i \in DOMAIN v : 2 * v[i] < Median2(v)}), Len(v))

CapabilityDiversity(tuples) ==
  IF tuples = <<>> THEN NoMetric
  ELSE Ratio(Cardinality(ToSet(tuples)), Len(tuples))

AggregateFootprint(actions, agents) ==
  IF agents = 0 THEN NoMetric ELSE Ratio(actions * Log10[agents], Precision)

PooledRate(numerator, denominator) ==
  IF denominator = 0 THEN NoMetric ELSE Ratio(numerator, denominator)
=============================================================================
