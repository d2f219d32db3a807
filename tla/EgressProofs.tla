---------------------------- MODULE EgressProofs ----------------------------
(* What leaves a client, for any traces, filters, hops and coordinates: a    *)
(* copy verifies exactly when nothing was taken from it, what a filter takes *)
(* stays away, its gate is exact, and no position is finer than a cell.  And *)
(* what the scrubber makes of a batch, for any workers, batches and models.  *)
EXTENDS Egress, Scrub, FiniteSetTheorems, WellFoundedInduction, TLAPS

-----------------------------------------------------------------------------
(* Induction over a list.  The induction theorems of the library take an     *)
(* operator; a set of numbers does as well.                                  *)

LEMMA SmallestNumber ==
  ASSUME NEW T, T \subseteq Nat, T # {} PROVE \E m \in T : \A n \in T : m <= n
<1>. DEFINE R == OpToRel(<, Nat)
<1>1. \A m, n \in Nat : m < n => <<m, n>> \in R
  BY DEF OpToRel
<1>2. IsWellFoundedOn(R, Nat)
  BY NatLessThanWellFounded
<1>. HIDE DEF R
<1>3. PICK m \in T : \A n \in T : ~ (<<n, m>> \in R)
  BY <1>2, WFMin
<1>4. ASSUME NEW n \in T PROVE m <= n
  <2>1. m \in Nat /\ n \in Nat
    OBVIOUS
  <2>2. ~ (n < m)
    BY <1>1, <1>3, <2>1
  <2>. QED
    BY <2>1, <2>2
<1>. QED
  BY <1>4

LEMMA UpToN ==
  ASSUME NEW N \in Nat, NEW Good, 0 \in Good,
         \A n \in 0..N : n \in Good /\ n < N => n + 1 \in Good
  PROVE  \A n \in 0..N : n \in Good
<1>. SUFFICES ASSUME NEW k \in 0..N, k \notin Good PROVE FALSE
  OBVIOUS
<1>1. PICK m \in {n \in 0..N : n \notin Good} : \A n \in {i \in 0..N : i \notin Good} : m <= n
  <2>1. {n \in 0..N : n \notin Good} \subseteq Nat /\ {n \in 0..N : n \notin Good} # {}
    OBVIOUS
  <2>. QED
    BY <2>1, SmallestNumber
<1>2. m # 0 /\ m - 1 \in 0..N /\ m - 1 < N
  BY <1>1
<1>3. m - 1 \in Good
  BY <1>1, <1>2
<1>. QED
  BY <1>1, <1>2, <1>3

-----------------------------------------------------------------------------
(* What Retain keeps.                                                        *)

(* The body of Retain's recursion, and a function that satisfies it.         *)
RetainStep(u, s, S, n) ==
  IF n = 0 THEN <<>>
  ELSE IF s[n] \in S THEN Append(u[n - 1], s[n]) ELSE u[n - 1]

Retains(u, s, S, N) == u = [n \in 0..N |-> RetainStep(u, s, S, n)]

LEMMA RetainIsDefined ==
  ASSUME NEW s, NEW S, NEW N \in Nat PROVE \E u : Retains(u, s, S, N)
<1>. DEFINE Good == {n \in 0..N : \E u : Retains(u, s, S, n)}
<1>1. 0 \in Good
  <2>1. Retains([n \in 0..0 |-> <<>>], s, S, 0)
    BY DEF Retains, RetainStep
  <2>. QED
    BY <2>1
<1>2. ASSUME NEW m \in 0..N, m \in Good, m < N PROVE m + 1 \in Good
  <2>1. PICK u : Retains(u, s, S, m)
    BY <1>2
  <2>2. PICK w : w = [n \in 0..(m + 1) |-> IF n = m + 1 THEN RetainStep(u, s, S, n) ELSE u[n]]
    OBVIOUS
  <2>3. ASSUME NEW n \in 0..m PROVE w[n] = RetainStep(w, s, S, n)
    <3>1. w[n] = u[n] /\ u[n] = RetainStep(u, s, S, n)
      BY <2>1, <2>2 DEF Retains
    <3>2. n # 0 => w[n - 1] = u[n - 1]
      BY <2>2
    <3>. QED
      BY <3>1, <3>2 DEF RetainStep
  <2>4. w[m + 1] = RetainStep(w, s, S, m + 1)
    <3>1. w[m + 1] = RetainStep(u, s, S, m + 1) /\ w[m] = u[m]
      BY <2>2
    <3>. QED
      BY <3>1 DEF RetainStep
  <2>5. w = [n \in 0..(m + 1) |-> RetainStep(w, s, S, n)]
    <3>1. \A n \in 0..(m + 1) : w[n] = RetainStep(w, s, S, n)
      BY <2>3, <2>4
    <3>2. w = [n \in 0..(m + 1) |-> w[n]]
      BY <2>2
    <3>. QED
      BY <3>1, <3>2
  <2>6. m + 1 \in 0..N
    BY <1>2
  <2>. QED
    BY <2>5, <2>6 DEF Retains
<1>. HIDE DEF Good
<1>3. N \in Good
  BY <1>1, <1>2, UpToN
<1>. QED
  BY <1>3 DEF Good

LEMMA RetainUnfolds ==
  ASSUME NEW s, Len(s) \in Nat, NEW S
  PROVE  \E u : Retains(u, s, S, Len(s)) /\ Retain(s, S) = u[Len(s)]
<1>. DEFINE D == 0..Len(s)
            u == CHOOSE f : f = [n \in D |-> IF n = 0 THEN <<>>
                   ELSE IF s[n] \in S THEN Append(f[n - 1], s[n]) ELSE f[n - 1]]
<1>1. Retain(s, S) = u[Len(s)]
  BY DEF Retain
<1>2. \E f : f = [n \in D |-> IF n = 0 THEN <<>>
                 ELSE IF s[n] \in S THEN Append(f[n - 1], s[n]) ELSE f[n - 1]]
  <2>1. PICK N \in Nat : N = Len(s)
    OBVIOUS
  <2>2. PICK f : Retains(f, s, S, N)
    BY RetainIsDefined
  <2>. QED
    BY <2>1, <2>2 DEF Retains, RetainStep
<1>3. u = [n \in D |-> IF n = 0 THEN <<>>
             ELSE IF s[n] \in S THEN Append(u[n - 1], s[n]) ELSE u[n - 1]]
  BY <1>2
<1>4. Retains(u, s, S, Len(s))
  <2>. HIDE DEF u
  <2>. QED
    BY <1>3 DEF Retains, RetainStep
<1>. QED
  BY <1>1, <1>4

(* A list keeps its length exactly when all of it is kept; then it is what   *)
(* it was.                                                                   *)
LEMMA RetainKeeps ==
  ASSUME NEW T, NEW s \in Seq(T), NEW S
  PROVE  /\ Retain(s, S) \in Seq(T)
         /\ \A j \in 1..Len(Retain(s, S)) :
              Retain(s, S)[j] \in S /\ \E i \in 1..Len(s) : Retain(s, S)[j] = s[i]
         /\ Len(Retain(s, S)) <= Len(s)
         /\ (\A i \in 1..Len(s) : s[i] \in S) => Retain(s, S) = s
         /\ (\E i \in 1..Len(s) : s[i] \notin S) => Len(Retain(s, S)) < Len(s)
<1>. DEFINE Kept == {x \in T : x \in S /\ \E i \in 1..Len(s) : x = s[i]}
<1>1. PICK N \in Nat : N = Len(s)
  OBVIOUS
<1>2. PICK u : Retains(u, s, S, N) /\ Retain(s, S) = u[N]
  BY <1>1, RetainUnfolds
<1>3. u[0] = <<>> /\ \A n \in 1..N : u[n] = IF s[n] \in S THEN Append(u[n - 1], s[n]) ELSE u[n - 1]
  <2>1. \A n \in 0..N : u[n] = RetainStep(u, s, S, n)
    BY <1>2 DEF Retains
  <2>. QED
    BY <1>1, <2>1 DEF RetainStep
<1>. DEFINE Good == {n \in 0..N :
               /\ u[n] \in Seq(Kept) /\ Len(u[n]) <= n
               /\ (\A i \in 1..n : s[i] \in S)
                    => Len(u[n]) = n /\ \A i \in 1..n : u[n][i] = s[i]
               /\ (\E i \in 1..n : s[i] \notin S) => Len(u[n]) < n}
<1>4. 0 \in Good
  <2>. HIDE DEF Kept
  <2>1. <<>> \in Seq(Kept) /\ Len(<<>>) = 0
    OBVIOUS
  <2>2. u[0] \in Seq(Kept) /\ Len(u[0]) = 0
    BY <1>3, <2>1
  <2>3. 0 \in 0..N /\ 1..0 = {}
    BY <1>1
  <2>. QED
    BY <2>2, <2>3
<1>5. ASSUME NEW n \in 0..N, n \in Good, n < N PROVE n + 1 \in Good
  <2>1. n \in Nat /\ n + 1 \in 1..N /\ 1..(n + 1) = 1..n \cup {n + 1} /\ (n + 1) - 1 = n
    BY <1>1, <1>5
  <2>2. PICK v, x : v = u[n] /\ x = s[n + 1]
    OBVIOUS
  <2>3. /\ v \in Seq(Kept) /\ Len(v) <= n /\ Len(v) \in Nat
        /\ (\A i \in 1..n : s[i] \in S) => Len(v) = n /\ \A i \in 1..n : v[i] = s[i]
        /\ (\E i \in 1..n : s[i] \notin S) => Len(v) < n
    BY <1>5, <2>2
  <2>4. CASE x \in S
    <3>1. u[n + 1] = Append(v, x)
      BY <1>3, <2>1, <2>2, <2>4
    <3>2. x \in Kept
      BY <1>1, <2>1, <2>2, <2>4
    <3>. HIDE DEF Kept
    <3>3. /\ u[n + 1] \in Seq(Kept) /\ Len(u[n + 1]) = Len(v) + 1
          /\ u[n + 1][Len(v) + 1] = x /\ \A i \in 1..Len(v) : u[n + 1][i] = v[i]
      BY <2>3, <3>1, <3>2
    <3>4. (\A i \in 1..(n + 1) : s[i] \in S)
            => Len(u[n + 1]) = n + 1 /\ \A i \in 1..(n + 1) : u[n + 1][i] = s[i]
      BY <2>1, <2>2, <2>3, <3>3
    <3>5. (\E i \in 1..(n + 1) : s[i] \notin S) => Len(u[n + 1]) < n + 1
      BY <2>1, <2>2, <2>3, <2>4, <3>3
    <3>6. Len(u[n + 1]) <= n + 1 /\ n + 1 \in 0..N
      BY <2>1, <2>3, <3>3
    <3>. QED
      BY <3>3, <3>4, <3>5, <3>6
  <2>5. CASE x \notin S
    <3>1. u[n + 1] = v
      BY <1>3, <2>1, <2>2, <2>5
    <3>. HIDE DEF Kept
    <3>2. s[n + 1] \notin S /\ n + 1 \in 1..(n + 1)
      BY <2>1, <2>2, <2>5
    <3>3. Len(v) < n + 1 /\ n + 1 \in 0..N
      BY <2>1, <2>3
    <3>. QED
      BY <2>3, <3>1, <3>2, <3>3
  <2>. QED
    BY <2>4, <2>5
<1>6. N \in Good
  <2>. HIDE DEF Good
  <2>. QED
    BY <1>1, <1>4, <1>5, UpToN
<1>7. (\A i \in 1..Len(s) : s[i] \in S) => Retain(s, S) = s
  BY <1>1, <1>2, <1>6
<1>8. PICK K, r : K = Kept /\ r = u[N]
  OBVIOUS
<1>9. r \in Seq(K) /\ \A x \in K : x \in T /\ x \in S /\ \E i \in 1..Len(s) : x = s[i]
  BY <1>6, <1>8
<1>10. r \in Seq(T) /\ \A j \in 1..Len(r) : r[j] \in S /\ \E i \in 1..Len(s) : r[j] = s[i]
  BY <1>9
<1>11. Len(r) <= N /\ ((\E i \in 1..N : s[i] \notin S) => Len(r) < N)
  BY <1>6, <1>8
<1>. QED
  BY <1>1, <1>2, <1>7, <1>8, <1>10, <1>11

(* Which list is kept depends on the list's own elements only.               *)
LEMMA RetainAgrees ==
  ASSUME NEW T, NEW s \in Seq(T), NEW S1, NEW S2,
         \A i \in 1..Len(s) : s[i] \in S1 <=> s[i] \in S2
  PROVE  Retain(s, S1) = Retain(s, S2)
<1>1. PICK N \in Nat : N = Len(s)
  OBVIOUS
<1>2. PICK u : Retains(u, s, S1, N) /\ Retain(s, S1) = u[N]
  BY <1>1, RetainUnfolds
<1>3. PICK w : Retains(w, s, S2, N) /\ Retain(s, S2) = w[N]
  BY <1>1, RetainUnfolds
<1>4. /\ u[0] = <<>> /\ w[0] = <<>>
      /\ \A n \in 1..N : u[n] = IF s[n] \in S1 THEN Append(u[n - 1], s[n]) ELSE u[n - 1]
      /\ \A n \in 1..N : w[n] = IF s[n] \in S2 THEN Append(w[n - 1], s[n]) ELSE w[n - 1]
  <2>1. \A n \in 0..N : u[n] = RetainStep(u, s, S1, n) /\ w[n] = RetainStep(w, s, S2, n)
    BY <1>2, <1>3 DEF Retains
  <2>. QED
    BY <1>1, <2>1 DEF RetainStep
<1>. DEFINE Good == {n \in 0..N : u[n] = w[n]}
<1>5. 0 \in Good
  BY <1>4
<1>6. ASSUME NEW n \in 0..N, n \in Good, n < N PROVE n + 1 \in Good
  <2>1. n + 1 \in 1..N /\ u[n] = w[n] /\ (n + 1) - 1 = n
    BY <1>1, <1>6
  <2>2. u[n + 1] = w[n + 1]
    BY <1>1, <1>4, <2>1
  <2>. QED
    BY <2>1, <2>2
<1>7. N \in Good
  <2>. HIDE DEF Good
  <2>. QED
    BY <1>1, <1>5, <1>6, UpToN
<1>. QED
  BY <1>2, <1>3, <1>7

-----------------------------------------------------------------------------
(* How coarse a location is.                                                 *)

LEMMA DivIs ==
  ASSUME NEW g \in Nat \ {0}, NEW a \in Nat, NEW t \in Nat, NEW r \in 0..(g - 1),
         a = g * t + r
  PROVE  a \div g = t /\ a % g = r
  OBVIOUS

LEMMA DivExists ==
  ASSUME NEW g \in Nat \ {0}, NEW a \in Nat
  PROVE  \E t \in Nat, r \in 0..(g - 1) :
            a = g * t + r /\ a \div g = t /\ a % g = r
  OBVIOUS

(* A tenth is rounded to the nearest: the error is half a cell at most.      *)
LEMMA TenthIsNear ==
  ASSUME NEW m \in Nat
  PROVE  /\ NearestTenth(m) \in Nat
         /\ 2 * Grain * NearestTenth(m) - Grain <= 20 * m
         /\ 20 * m <= 2 * Grain * NearestTenth(m) + Grain
<1>1. PICK g \in Nat \ {0} : g = Grain
  BY CorrelationAssumption
<1>2. PICK t \in Nat, r \in 0..(g - 1) :
        10 * m = g * t + r /\ (10 * m) \div g = t /\ (10 * m) % g = r
  <2>1. PICK a \in Nat : a = 10 * m
    OBVIOUS
  <2>2. \E t \in Nat, r \in 0..(g - 1) : a = g * t + r /\ a \div g = t /\ a % g = r
    BY DivExists
  <2>. QED
    BY <2>1, <2>2
<1>3. PICK p \in Nat : p = g * t
  OBVIOUS
<1>4. g * (t + 1) = p + g
  BY <1>3
<1>5. NearestTenth(m) = IF 2 * r > g \/ (2 * r = g /\ t % 2 = 1) THEN t + 1 ELSE t
  BY <1>1, <1>2 DEF NearestTenth
<1>6. CASE 2 * r > g \/ (2 * r = g /\ t % 2 = 1)
  <2>1. NearestTenth(m) = t + 1 /\ 2 * g * (t + 1) = 2 * (p + g)
    BY <1>3, <1>5, <1>6
  <2>. QED
    BY <1>1, <1>2, <1>3, <1>6, <2>1
<1>7. CASE ~(2 * r > g \/ (2 * r = g /\ t % 2 = 1))
  <2>1. NearestTenth(m) = t /\ 2 * g * t = 2 * p
    BY <1>3, <1>5, <1>7
  <2>. QED
    BY <1>1, <1>2, <1>3, <1>7, <2>1
<1>. QED
  BY <1>6, <1>7

(* Whatever is in the upper half of a cell has the cell's tenth.             *)
LEMMA UpperHalfRoundsDown ==
  ASSUME NEW m \in Nat, NEW t \in Nat,
         2 * Grain * t < 20 * m, 20 * m < 2 * Grain * t + Grain
  PROVE  NearestTenth(m) = t
<1>1. PICK g \in Nat \ {0} : g = Grain
  BY CorrelationAssumption
<1>2. PICK p \in Nat : p = g * t
  OBVIOUS
<1>3. PICK r : r = 10 * m - p
  OBVIOUS
<1>4. 2 * Grain * t = 2 * p
  BY <1>1, <1>2
<1>5. r \in 0..(g - 1) /\ 2 * r < g /\ 10 * m = g * t + r
  BY <1>1, <1>2, <1>3, <1>4
<1>6. (10 * m) \div g = t /\ (10 * m) % g = r
  BY <1>5, DivIs
<1>. QED
  BY <1>1, <1>5, <1>6 DEF NearestTenth

(* There are enough of them.                                                 *)
LEMMA UpperHalfIsWide ==
  ASSUME NEW t \in Nat
  PROVE  \E lo, hi \in Nat :
           /\ lo > 0
           /\ \A m \in lo..hi : 2 * Grain * t < 20 * m /\ 20 * m < 2 * Grain * t + Grain
           /\ 20 * (1 + (hi - lo + 1)) >= Grain
<1>1. PICK g \in Nat \ {0} : g = Grain
  BY CorrelationAssumption
<1>2. PICK p \in Nat : p = 2 * Grain * t
  BY <1>1
<1>3. PICK lo \in Nat : lo = p \div 20 + 1
  OBVIOUS
<1>4. PICK hi \in Nat : hi = (p + g - 1) \div 20
  OBVIOUS
<1>5. 20 * lo > p /\ 20 * lo <= p + 20 /\ 20 * hi <= p + g - 1 /\ 20 * hi >= p + g - 20 /\ lo > 0
  BY <1>3, <1>4
<1>6. \A m \in lo..hi : p < 20 * m /\ 20 * m < p + g
  BY <1>5
<1>7. 20 * (1 + (hi - lo + 1)) >= g
  BY <1>5
<1>8. \A m \in lo..hi : 2 * Grain * t < 20 * m /\ 20 * m < 2 * Grain * t + Grain
  BY <1>1, <1>2, <1>6
<1>. QED
  BY <1>1, <1>5, <1>7, <1>8

LEMMA CellsAreWide ==
  ASSUME NEW x \in Int
  PROVE  LET Near == x - Grain .. x + Grain
         IN  20 * (1 + Cardinality({y \in Near :
                          FuzzLocationToRegion(y) = FuzzLocationToRegion(x)})) >= Grain
<1>1. PICK g \in Nat \ {0} : g = Grain
  BY CorrelationAssumption
<1>2. PICK a, t \in Nat : a = Abs(x) /\ t = NearestTenth(a)
  <2>1. Abs(x) \in Nat
    BY DEF Abs
  <2>. QED
    BY <2>1, TenthIsNear
<1>3. PICK p \in Nat : p = 2 * Grain * t
  BY <1>1
<1>4. p - g <= 20 * a /\ 20 * a <= p + g
  BY <1>1, <1>2, <1>3, TenthIsNear
<1>5. PICK lo, hi \in Nat :
        /\ lo > 0
        /\ \A m \in lo..hi : p < 20 * m /\ 20 * m < p + g
        /\ 20 * (1 + (hi - lo + 1)) >= g
  BY <1>1, <1>3, UpperHalfIsWide
<1>6. ASSUME NEW m \in lo..hi
      PROVE  /\ m \in Nat /\ m > 0 /\ NearestTenth(m) = t
             /\ m <= a + g /\ a <= m + g
  <2>1. m \in Nat /\ m > 0 /\ p < 20 * m /\ 20 * m < p + g
    BY <1>5
  <2>2. NearestTenth(m) = t
    BY <1>1, <1>3, <2>1, UpperHalfRoundsDown
  <2>. QED
    BY <1>4, <2>1, <2>2
<1>7. PICK S : S = {y \in x - g .. x + g : FuzzLocationToRegion(y) = FuzzLocationToRegion(x)}
  OBVIOUS
<1>8. PICK I : I = IF x < 0 THEN (-hi)..(-lo) ELSE lo..hi
  OBVIOUS
<1>9. I \subseteq S
  <2>1. CASE x < 0
    <3>1. ASSUME NEW y \in (-hi)..(-lo) PROVE y \in S
      <4>1. PICK m \in lo..hi : m = -y
        OBVIOUS
      <4>2. y < 0 /\ Abs(y) = m /\ y \in x - g .. x + g
        BY <1>2, <1>6, <2>1, <4>1 DEF Abs
      <4>. QED
        BY <1>2, <1>6, <1>7, <2>1, <4>2 DEF FuzzLocationToRegion
    <3>. QED
      BY <1>8, <2>1, <3>1
  <2>2. CASE ~(x < 0)
    <3>1. ASSUME NEW y \in lo..hi PROVE y \in S
      <4>1. ~(y < 0) /\ Abs(y) = y /\ y \in x - g .. x + g
        BY <1>2, <1>6, <2>2 DEF Abs
      <4>. QED
        BY <1>2, <1>6, <1>7, <2>2, <4>1 DEF FuzzLocationToRegion
    <3>. QED
      BY <1>8, <2>2, <3>1
  <2>. QED
    BY <2>1, <2>2
<1>10. IsFiniteSet(S)
  <2>1. IsFiniteSet(x - g .. x + g) /\ S \subseteq x - g .. x + g
    BY <1>7, FS_Interval
  <2>. QED
    BY <2>1, FS_Subset
<1>11. Cardinality(I) = IF lo > hi THEN 0 ELSE hi - lo + 1
  BY <1>8, FS_Interval
<1>12. Cardinality(I) <= Cardinality(S) /\ Cardinality(S) \in Nat
  BY <1>9, <1>10, FS_Subset, FS_CardinalityType
<1>13. 20 * (1 + Cardinality(S)) >= g
  BY <1>5, <1>11, <1>12
<1>. QED
  BY <1>1, <1>7, <1>13

-----------------------------------------------------------------------------
(* What the filters of a way leave of a component.                           *)

CanonData(c) == StripData(WithAttemptIndex(c))

IsData(d) == d \in [DOMAIN d -> Shapes]

Cleared(hops, k) == \E h \in DOMAIN hops : Clears(hops[h], k)

(* w is what the hops left of the captured component c of a body.            *)
IsLeftOf(w, c, body, hops) ==
  /\ DOMAIN w = {"component_type", "agent_id_hash", "data"}
  /\ w.component_type = c.component_type
  /\ w.agent_id_hash = CanonicalComponent(body, c).agent_id_hash
  /\ IsData(w.data) /\ DOMAIN w.data \subseteq DOMAIN CanonData(c)
  /\ \A k \in DOMAIN CanonData(c) : ~Cleared(hops, k) =>
       k \in DOMAIN w.data /\ w.data[k] = CanonData(c)[k]
  /\ \A k \in DOMAIN w.data : Cleared(hops, k) => w.data[k] = "null"
  /\ \A h \in DOMAIN hops : ~Bars(hops[h], c)

LEMMA StripShapes ==
  ASSUME NEW v \in Shapes
  PROVE  /\ StripEmpty(v) \in Shapes
         /\ ~IsEmpty(StripEmpty(v)) => StripEmpty(v) \in {"zero", "text", "list"}
         /\ v \in {"zero", "text", "list"} => StripEmpty(v) = v /\ ~IsEmpty(StripEmpty(v))
         /\ v = "null" => IsEmpty(StripEmpty(v))
  BY DEF Shapes, StripEmpty, IsEmpty

(* The canonical data of a component: its index, and what it says.           *)
LEMMA CanonDataIs ==
  ASSUME NEW c, IsData(c.data)
  PROVE  /\ CanonData(c) \in [DOMAIN CanonData(c) -> {"zero", "text", "list"}]
         /\ DOMAIN CanonData(c) \subseteq DOMAIN c.data \cup {"attempt_index"}
         /\ "attempt_index" \in DOMAIN CanonData(c)
         /\ CanonData(c)["attempt_index"] = "zero"
         /\ \A k \in DOMAIN c.data \ {"attempt_index"} :
              /\ k \in DOMAIN CanonData(c) <=> Says(c, k)
              /\ Says(c, k) => CanonData(c)[k] = StripEmpty(c.data[k])
<1>1. PICK i : i = WithAttemptIndex(c)
  OBVIOUS
<1>2. /\ i \in [DOMAIN c.data \cup {"attempt_index"} -> Shapes]
      /\ i["attempt_index"] = "zero"
      /\ \A k \in DOMAIN c.data \ {"attempt_index"} : i[k] = c.data[k]
  BY <1>1 DEF WithAttemptIndex, IsData, Shapes
<1>3. CanonData(c) = [k \in {k \in DOMAIN i : ~IsEmpty(StripEmpty(i[k]))} |-> StripEmpty(i[k])]
  BY <1>1 DEF CanonData, StripData
<1>4. StripEmpty("zero") = "zero" /\ ~IsEmpty(StripEmpty("zero"))
  BY StripShapes DEF Shapes
<1>. QED
  BY <1>2, <1>3, <1>4, StripShapes DEF Says

LEMMA IndexIsKept == ASSUME NEW args PROVE ~Clears(args, "attempt_index")
  BY DEF Clears, ScoreFields

(* An argument that is not given has its default.                            *)
LEMMA WithAllIs ==
  ASSUME NEW args \in Upstreams
  PROVE  LET f == WithAll(args)
         IN  /\ f.include_scores <=> ~OptsOut(args, "include_scores")
             /\ f.include_detection_events <=> ~OptsOut(args, "include_detection_events")
             /\ f.redact_user_prompts <=> ~OptsOut(args, "redact_user_prompts")
             /\ f.redact_completions <=> ~OptsOut(args, "redact_completions")
             /\ f.min_severity = IF "min_severity" \in DOMAIN args
                                 THEN args.min_severity ELSE NoSeverity
<1>1. IsFilterArgs(args)
  BY EgressAssumption DEF Upstreams
<1>2. DOMAIN Defaults = {"min_severity", "include_detection_events", "include_scores",
                         "redact_user_prompts", "redact_completions"}
  BY DEF Defaults
<1>3. PICK f : f = WithAll(args)
  OBVIOUS
<1>4. \A k \in DOMAIN Defaults : f[k] = IF k \in DOMAIN args THEN args[k] ELSE Defaults[k]
  BY <1>3 DEF WithAll
<1>5. \A k \in DOMAIN Defaults \ {"min_severity"} :
        f[k] \in BOOLEAN /\ (f[k] <=> ~OptsOut(args, k))
  BY <1>1, <1>2, <1>4 DEF IsFilterArgs, OptsOut, Defaults
<1>6. f["min_severity"] = IF "min_severity" \in DOMAIN args
                          THEN args["min_severity"] ELSE NoSeverity
  BY <1>2, <1>4 DEF Defaults
<1>. QED
  BY <1>2, <1>3, <1>5, <1>6

LEMMA ClearedNext ==
  ASSUME NEW T, NEW hops \in Seq(T), NEW args \in T, NEW k
  PROVE  Cleared(Append(hops, args), k) <=> Cleared(hops, k) \/ Clears(args, k)
<1>1. PICK n \in Nat : n = Len(hops)
  OBVIOUS
<1>2. PICK hs : hs = Append(hops, args)
  OBVIOUS
<1>3. /\ DOMAIN hops = 1..n /\ DOMAIN hs = 1..(n + 1) /\ hs[n + 1] = args
      /\ \A h \in 1..n : hs[h] = hops[h]
  BY <1>1, <1>2
<1>4. 1..(n + 1) = 1..n \cup {n + 1}
  BY <1>1
<1>. QED
  BY <1>2, <1>3, <1>4 DEF Cleared

Filtered(f, w) == [w EXCEPT !.data = FilterData(f, @)]

(* One more filter leaves what it does not forbid.                           *)
LEMMA FilterLeaves ==
  ASSUME NEW args \in Upstreams, NEW hops \in Seq(Upstreams), NEW w, NEW c, NEW body,
         IsLeftOf(w, c, body, hops), KeepsComponent(WithAll(args), w)
  PROVE  IsLeftOf(Filtered(WithAll(args), w), c, body, Append(hops, args))
<1>1. PICK f, hs : f = WithAll(args) /\ hs = Append(hops, args)
  OBVIOUS
<1>2. PICK d, d2 : d = w.data /\ d2 = FilterData(f, d)
  OBVIOUS
<1>3. PICK v : v = Filtered(f, w)
  OBVIOUS
<1>4. /\ DOMAIN v = {"component_type", "agent_id_hash", "data"}
      /\ v.component_type = w.component_type /\ v.agent_id_hash = w.agent_id_hash
      /\ v.data = d2
  BY <1>2, <1>3 DEF Filtered, IsLeftOf
<1>5. /\ DOMAIN d2 = DOMAIN d \ (IF f.include_scores THEN {} ELSE ScoreFields)
      /\ \A k \in DOMAIN d2 : d2[k] = IF Redacts(f, k) THEN "null" ELSE d[k]
      /\ d2 = [k \in DOMAIN d2 |-> d2[k]]
  BY <1>2 DEF FilterData
<1>6. IsData(d2)
  <2>1. \A k \in DOMAIN d : d[k] \in Shapes
    BY <1>2 DEF IsLeftOf, IsData
  <2>. QED
    BY <1>5, <2>1 DEF IsData, Shapes
<1>7. \A k : Clears(args, k) <=> (~f.include_scores /\ k \in ScoreFields) \/ Redacts(f, k)
  BY <1>1, WithAllIs DEF Clears, Redacts
<1>8. \A k : Cleared(hs, k) <=> Cleared(hops, k) \/ Clears(args, k)
  BY <1>1, ClearedNext
<1>9. ASSUME NEW k \in DOMAIN CanonData(c), ~Cleared(hs, k)
      PROVE  k \in DOMAIN d2 /\ d2[k] = CanonData(c)[k]
  <2>1. k \in DOMAIN d /\ d[k] = CanonData(c)[k]
    BY <1>2, <1>8, <1>9 DEF IsLeftOf
  <2>. QED
    BY <1>5, <1>7, <1>8, <1>9, <2>1
<1>10. ASSUME NEW k \in DOMAIN d2, Cleared(hs, k)
       PROVE  d2[k] = "null"
  <2>1. Cleared(hops, k) => d[k] = "null"
    BY <1>2, <1>5 DEF IsLeftOf
  <2>. QED
    BY <1>5, <1>7, <1>8, <1>10, <2>1
<1>11. ASSUME NEW h \in DOMAIN hs PROVE ~Bars(hs[h], c)
  <2>1. ~Bars(args, c)
    BY <1>1, WithAllIs DEF KeepsComponent, DetectionComponentTypes, Bars, IsLeftOf
  <2>2. (h \in DOMAIN hops /\ hs[h] = hops[h]) \/ hs[h] = args
    BY <1>1
  <2>. QED
    BY <2>1, <2>2 DEF IsLeftOf
<1>12. DOMAIN d2 \subseteq DOMAIN CanonData(c)
  BY <1>2, <1>5 DEF IsLeftOf
<1>13. /\ v.component_type = c.component_type
       /\ v.agent_id_hash = CanonicalComponent(body, c).agent_id_hash
  BY <1>4 DEF IsLeftOf
<1>. QED
  BY <1>1, <1>3, <1>4, <1>6, <1>9, <1>10, <1>11, <1>12, <1>13 DEF IsLeftOf

(* Nothing was taken from the component if and only if its canonical form is *)
(* still what it was.                                                        *)
LEMMA SameWhenUntouched ==
  ASSUME NEW w, NEW c, NEW body, NEW hops, IsData(c.data), IsLeftOf(w, c, body, hops)
  PROVE  CanonicalComponent(body, w) = CanonicalComponent(body, c) <=>
         \A k \in DOMAIN c.data : Cleared(hops, k) => ~Says(c, k)
<1>1. PICK d, e : d = CanonData(c) /\ e = CanonData(w)
  OBVIOUS
<1>2. CanonicalComponent(body, w) = CanonicalComponent(body, c) <=> e = d
  BY <1>1 DEF CanonicalComponent, CanonData, IsLeftOf
<1>3. /\ d = [k \in DOMAIN d |-> d[k]] /\ e = [k \in DOMAIN e |-> e[k]]
      /\ \A k \in DOMAIN d : d[k] \in {"zero", "text", "list"}
      /\ "attempt_index" \in DOMAIN d /\ "attempt_index" \in DOMAIN e
      /\ d["attempt_index"] = e["attempt_index"]
      /\ DOMAIN d \subseteq DOMAIN c.data \cup {"attempt_index"}
      /\ DOMAIN e \subseteq DOMAIN w.data \cup {"attempt_index"}
  BY <1>1, CanonDataIs DEF IsLeftOf
<1>4. ASSUME NEW k, k # "attempt_index", k \in DOMAIN w.data
      PROVE  /\ k \in DOMAIN d
             /\ w.data[k] = "null" => k \notin DOMAIN e
             /\ w.data[k] = d[k] => k \in DOMAIN e /\ e[k] = d[k]
  <2>1. k \in DOMAIN d
    BY <1>1, <1>4 DEF IsLeftOf
  <2>2. /\ k \in DOMAIN e <=> Says(w, k)
        /\ Says(w, k) => e[k] = StripEmpty(w.data[k])
    BY <1>1, <1>4, CanonDataIs DEF IsLeftOf
  <2>3. Says(w, k) <=> ~IsEmpty(StripEmpty(w.data[k]))
    BY <1>4 DEF Says
  <2>4. d[k] \in Shapes /\ "null" \in Shapes
    BY <1>3, <2>1 DEF Shapes
  <2>. QED
    BY <1>3, <2>1, <2>2, <2>3, <2>4, StripShapes
<1>5. ASSUME e = d, NEW k \in DOMAIN c.data, Cleared(hops, k) PROVE ~Says(c, k)
  <2>1. k # "attempt_index"
    BY <1>5, IndexIsKept DEF Cleared
  <2>2. k \in DOMAIN d <=> Says(c, k)
    BY <1>1, <2>1, CanonDataIs
  <2>3. k \in DOMAIN e => w.data[k] = "null" /\ k \in DOMAIN w.data
    BY <1>3, <1>5, <2>1 DEF IsLeftOf
  <2>. QED
    BY <1>4, <1>5, <2>1, <2>2, <2>3
<1>6. ASSUME \A k \in DOMAIN c.data : Cleared(hops, k) => ~Says(c, k) PROVE e = d
  <2>1. ASSUME NEW k \in DOMAIN d, k # "attempt_index" PROVE k \in DOMAIN e /\ e[k] = d[k]
    <3>1. k \in DOMAIN c.data /\ Says(c, k)
      BY <1>1, <1>3, <2>1, CanonDataIs
    <3>2. k \in DOMAIN w.data /\ w.data[k] = d[k]
      BY <1>1, <1>6, <3>1 DEF IsLeftOf
    <3>. QED
      BY <1>4, <2>1, <3>2
  <2>2. ASSUME NEW k \in DOMAIN e PROVE k \in DOMAIN d
    BY <1>3, <1>4
  <2>3. DOMAIN d = DOMAIN e /\ \A k \in DOMAIN d : e[k] = d[k]
    BY <1>3, <2>1, <2>2
  <2>. QED
    BY <1>3, <2>3
<1>. QED
  BY <1>2, <1>5, <1>6

-----------------------------------------------------------------------------
(* A copy of an event after the filters in hops.                             *)

NoneBarred(cap, hops) == \A i \in DOMAIN cap, h \in DOMAIN hops : ~Bars(hops[h], cap[i])

AreLeftOf(ws, body, hops) ==
  /\ ws \in Seq(Range(ws))
  /\ Len(ws) <= Len(body.components)
  /\ \A j \in DOMAIN ws : \E i \in DOMAIN body.components :
       IsLeftOf(ws[j], body.components[i], body, hops)
  /\ Len(ws) = Len(body.components) =>
       \A j \in DOMAIN ws : IsLeftOf(ws[j], body.components[j], body, hops)
  /\ NoneBarred(body.components, hops) => Len(ws) = Len(body.components)

IsCopyOf(ev, body, hops) ==
  /\ DOMAIN ev = {"trace_level", "severity", "trace"}
  /\ DOMAIN ev.trace = {"id", "body", "signature"}
  /\ ev.trace.signature = CanonicalBytes(body)
  /\ DOMAIN ev.trace.body = DOMAIN body
  /\ \A k \in DOMAIN body \ {"components"} : ev.trace.body[k] = body[k]
  /\ AreLeftOf(ev.trace.body.components, body, hops)

LEMMA BodyIsList ==
  ASSUME NEW body \in Bodies
  PROVE  /\ DOMAIN body = {"agent_id_hash", "trace_level", "schema_major", "components"}
         /\ body.components \in Seq(Range(body.components))
         /\ DOMAIN body.components = 1..Len(body.components)
         /\ \A i \in DOMAIN body.components :
              /\ DOMAIN body.components[i] = {"component_type", "agent_id_hash", "data"}
              /\ IsData(body.components[i].data)
<1>1. IsBody(body)
  BY EgressAssumption
<1>2. \A i \in DOMAIN body.components : body.components[i] \in Range(body.components)
  BY DEF Range
<1>. QED
  BY <1>1, <1>2 DEF IsBody, IsData

(* The copy that build_batch_bytes puts on the wire.                         *)
LEMMA WireComponents ==
  ASSUME NEW body \in Bodies
  PROVE  AreLeftOf(BuildCanonicalEnvelope(body).components, body, <<>>)
<1>1. PICK cs : cs = body.components
  OBVIOUS
<1>2. PICK ws : ws = [i \in DOMAIN cs |-> CanonicalComponent(body, cs[i])]
  OBVIOUS
<1>3. BuildCanonicalEnvelope(body).components = ws
  BY <1>1, <1>2, BodyIsList DEF BuildCanonicalEnvelope, Map
<1>4. PICK n \in Nat : n = Len(cs) /\ DOMAIN cs = 1..n
  BY <1>1, BodyIsList
<1>5. ASSUME NEW i \in 1..n PROVE IsLeftOf(ws[i], cs[i], body, <<>>)
  <2>1. PICK c, w : c = cs[i] /\ w = ws[i]
    OBVIOUS
  <2>2. /\ DOMAIN w = {"component_type", "agent_id_hash", "data"}
        /\ w.component_type = c.component_type
        /\ w.agent_id_hash = CanonicalComponent(body, c).agent_id_hash
        /\ w.data = CanonData(c)
    BY <1>2, <1>4, <2>1 DEF CanonicalComponent, CanonData
  <2>3. CanonData(c) \in [DOMAIN CanonData(c) -> {"zero", "text", "list"}]
    BY <1>1, <1>4, <2>1, BodyIsList, CanonDataIs
  <2>4. IsData(w.data)
    BY <2>2, <2>3 DEF IsData, Shapes
  <2>5. DOMAIN <<>> = {} /\ \A k : ~Cleared(<<>>, k)
    BY DEF Cleared
  <2>. QED
    BY <2>1, <2>2, <2>4, <2>5 DEF IsLeftOf
<1>6. ws \in Seq(Range(ws)) /\ Len(ws) = n /\ DOMAIN ws = 1..n
  BY <1>2, <1>4 DEF Range
<1>7. AreLeftOf(ws, body, <<>>)
  BY <1>1, <1>4, <1>5, <1>6 DEF AreLeftOf
<1>. QED
  BY <1>3, <1>7

(* apply_component_filters on such a copy.                                   *)
LEMMA FilterComponents ==
  ASSUME NEW args \in Upstreams, NEW hops \in Seq(Upstreams), NEW body \in Bodies,
         NEW ws, AreLeftOf(ws, body, hops)
  PROVE  AreLeftOf(ApplyComponentFilters(WithAll(args), ws), body, Append(hops, args))
<1>1. PICK f, hs, cs : f = WithAll(args) /\ hs = Append(hops, args) /\ cs = body.components
  OBVIOUS
<1>2. PICK S : S = {c \in Range(ws) : KeepsComponent(f, c)}
  OBVIOUS
<1>3. PICK rs : rs = Retain(ws, S)
  OBVIOUS
<1>4. PICK vs : vs = [j \in DOMAIN rs |-> Filtered(f, rs[j])]
  OBVIOUS
<1>5. ApplyComponentFilters(f, ws) = vs
  BY <1>2, <1>3, <1>4 DEF ApplyComponentFilters, Map, Filtered
<1>6. PICK T : T = Range(ws) /\ ws \in Seq(T)
  BY DEF AreLeftOf
<1>7. /\ rs \in Seq(T)
      /\ \A j \in 1..Len(rs) : rs[j] \in S /\ \E i \in 1..Len(ws) : rs[j] = ws[i]
      /\ Len(rs) <= Len(ws)
      /\ (\A i \in 1..Len(ws) : ws[i] \in S) => rs = ws
      /\ (\E i \in 1..Len(ws) : ws[i] \notin S) => Len(rs) < Len(ws)
  BY <1>3, <1>6, RetainKeeps
<1>8. PICK n, m, l \in Nat : n = Len(rs) /\ m = Len(ws) /\ l = Len(cs)
  BY <1>1, <1>6, <1>7, BodyIsList
<1>9. /\ DOMAIN rs = 1..n /\ DOMAIN ws = 1..m /\ DOMAIN cs = 1..l
      /\ DOMAIN vs = 1..n /\ Len(vs) = n /\ vs \in Seq(Range(vs))
  <2>1. DOMAIN rs = 1..n
    BY <1>7, <1>8
  <2>2. DOMAIN ws = 1..m /\ DOMAIN cs = 1..l
    BY <1>1, <1>6, <1>8, BodyIsList
  <2>3. vs = [j \in 1..n |-> vs[j]]
    BY <1>4, <2>1
  <2>. QED
    BY <1>8, <2>1, <2>2, <2>3 DEF Range
<1>10. \A j \in 1..n : rs[j] \in S /\ \E i \in 1..m : rs[j] = ws[i]
  BY <1>7, <1>8, <1>9
<1>11. ASSUME NEW w, NEW c, w \in S, IsLeftOf(w, c, body, hops)
       PROVE  IsLeftOf(Filtered(f, w), c, body, hs)
  BY <1>1, <1>2, <1>11, FilterLeaves
<1>12. n <= m /\ m <= l
  BY <1>1, <1>7, <1>8 DEF AreLeftOf
<1>13. ASSUME NEW j \in 1..n PROVE \E i \in 1..l : IsLeftOf(vs[j], cs[i], body, hs)
  <2>1. PICK i \in 1..m : rs[j] = ws[i]
    BY <1>10
  <2>2. PICK k \in 1..l : IsLeftOf(ws[i], cs[k], body, hops)
    BY <1>1, <1>9 DEF AreLeftOf
  <2>3. vs[j] = Filtered(f, ws[i]) /\ ws[i] \in S
    BY <1>4, <1>9, <1>10, <2>1
  <2>. QED
    BY <1>11, <2>2, <2>3
<1>14. ASSUME n = l, NEW j \in 1..n PROVE IsLeftOf(vs[j], cs[j], body, hs)
  <2>1. m = l /\ rs = ws
    <3>1. m = l /\ ~(n < m)
      BY <1>12, <1>14
    <3>2. (\E i \in 1..Len(ws) : ws[i] \notin S) => n < m
      <4>1. (\E i \in 1..Len(ws) : ws[i] \notin S) => Len(rs) < Len(ws)
        BY <1>7
      <4>. QED
        BY <1>8, <4>1
    <3>3. \A i \in 1..Len(ws) : ws[i] \in S
      BY <3>1, <3>2
    <3>4. (\A i \in 1..Len(ws) : ws[i] \in S) => rs = ws
      BY <1>7
    <3>. QED
      BY <3>1, <3>3, <3>4
  <2>2. IsLeftOf(ws[j], cs[j], body, hops)
    BY <1>1, <1>8, <1>9, <1>14, <2>1 DEF AreLeftOf
  <2>3. vs[j] = Filtered(f, ws[j]) /\ ws[j] \in S
    BY <1>4, <1>9, <1>10, <2>1
  <2>. QED
    BY <1>11, <2>2, <2>3
<1>15. ASSUME NoneBarred(cs, hs) PROVE n = l
  <2>1. PICK p \in Nat : p = Len(hops) /\ DOMAIN hops = 1..p
    OBVIOUS
  <2>2. /\ DOMAIN hs = 1..(p + 1) /\ hs[p + 1] = args /\ p + 1 \in DOMAIN hs
        /\ \A h \in 1..p : hs[h] = hops[h] /\ h \in DOMAIN hs
    BY <1>1, <2>1
  <2>3. NoneBarred(cs, hops) /\ \A i \in DOMAIN cs : ~Bars(args, cs[i])
    BY <1>15, <2>1, <2>2 DEF NoneBarred
  <2>4. m = l
    BY <1>1, <1>8, <2>3 DEF AreLeftOf
  <2>5. ASSUME NEW j \in 1..m PROVE ws[j] \in S
    <3>1. IsLeftOf(ws[j], cs[j], body, hops) /\ ~Bars(args, cs[j])
      BY <1>1, <1>8, <1>9, <2>3, <2>4 DEF AreLeftOf
    <3>2. KeepsComponent(f, ws[j])
      BY <1>1, <3>1, WithAllIs DEF KeepsComponent, DetectionComponentTypes, Bars, IsLeftOf
    <3>3. ws[j] \in Range(ws)
      BY <1>9 DEF Range
    <3>. QED
      BY <1>2, <3>2, <3>3
  <2>. QED
    BY <1>7, <1>8, <2>4, <2>5
<1>16. AreLeftOf(vs, body, hs)
  <2>1. Len(vs) <= Len(cs) /\ (NoneBarred(cs, hs) => Len(vs) = Len(cs))
    BY <1>8, <1>9, <1>12, <1>15
  <2>2. \A j \in DOMAIN vs : \E i \in DOMAIN cs : IsLeftOf(vs[j], cs[i], body, hs)
    BY <1>9, <1>13
  <2>3. Len(vs) = Len(cs) => \A j \in DOMAIN vs : IsLeftOf(vs[j], cs[j], body, hs)
    BY <1>8, <1>9, <1>14
  <2>. QED
    BY <1>1, <1>9, <2>1, <2>2, <2>3 DEF AreLeftOf
<1>. QED
  BY <1>1, <1>5, <1>16

-----------------------------------------------------------------------------
(* What such a copy shows: whether it verifies, and what is not in it.       *)

LEMMA SameBytes ==
  ASSUME NEW body \in Bodies, NEW wb, NEW hops, DOMAIN wb = DOMAIN body,
         \A k \in DOMAIN body \ {"components"} : wb[k] = body[k],
         AreLeftOf(wb.components, body, hops)
  PROVE  CanonicalBytes(body) = CanonicalBytes(wb) <=>
         /\ Len(wb.components) = Len(body.components)
         /\ \A j \in DOMAIN body.components :
              CanonicalComponent(body, wb.components[j])
                = CanonicalComponent(body, body.components[j])
<1>1. PICK cs, ws : cs = body.components /\ ws = wb.components
  OBVIOUS
<1>2. PICK l, n \in Nat : l = Len(cs) /\ n = Len(ws) /\ DOMAIN cs = 1..l /\ DOMAIN ws = 1..n
  BY <1>1, BodyIsList DEF AreLeftOf
<1>3. PICK xs, ys : /\ xs = [i \in 1..l |-> CanonicalComponent(body, cs[i])]
                    /\ ys = [i \in 1..n |-> CanonicalComponent(body, ws[i])]
  OBVIOUS
<1>4. PICK D : D = {"agent_id_hash", "trace_level", "schema_major", "components"}
  OBVIOUS
<1>5. /\ DOMAIN body = D /\ DOMAIN wb = D
      /\ wb.agent_id_hash = body.agent_id_hash /\ wb.schema_major = body.schema_major
  BY <1>4, BodyIsList
<1>6. \A c : CanonicalComponent(wb, c) = CanonicalComponent(body, c)
  BY <1>5 DEF CanonicalComponent
<1>7. CanonVersion(wb) = CanonVersion(body)
  BY <1>5 DEF CanonVersion
<1>8. BuildCanonicalEnvelope(body) = [k \in D |-> IF k = "components" THEN xs ELSE body[k]]
  BY <1>1, <1>2, <1>3, <1>4, <1>5 DEF BuildCanonicalEnvelope, Map
<1>9. BuildCanonicalEnvelope(wb) = [k \in D |-> IF k = "components" THEN ys ELSE body[k]]
  <2>1. ys = Map(LAMBDA c : CanonicalComponent(wb, c), ws)
    BY <1>2, <1>3, <1>6 DEF Map
  <2>2. BuildCanonicalEnvelope(wb) = [wb EXCEPT !.components = ys]
    BY <1>1, <2>1 DEF BuildCanonicalEnvelope
  <2>. QED
    BY <1>4, <1>5, <2>2
<1>10. BuildCanonicalEnvelope(body) = BuildCanonicalEnvelope(wb) <=> xs = ys
  BY <1>4, <1>8, <1>9
<1>11. xs = ys <=> n = l /\ \A j \in 1..l : CanonicalComponent(body, ws[j])
                                           = CanonicalComponent(body, cs[j])
  <2>1. DOMAIN xs = 1..l /\ DOMAIN ys = 1..n
    BY <1>3
  <2>2. 1..l = 1..n => n = l
    <3>1. ASSUME 1..l = 1..n, l < n PROVE FALSE
      <4>1. n \in 1..n
        BY <1>2, <3>1
      <4>. QED
        BY <3>1, <4>1
    <3>2. ASSUME 1..l = 1..n, n < l PROVE FALSE
      <4>1. l \in 1..l
        BY <1>2, <3>2
      <4>. QED
        BY <3>2, <4>1
    <3>. QED
      BY <3>1, <3>2
  <2>. QED
    BY <1>3, <2>1, <2>2
<1>. QED
  BY <1>1, <1>2, <1>7, <1>10, <1>11 DEF CanonicalBytes

LEMMA VerifiesWhenUntouched ==
  ASSUME NEW body \in Bodies, NEW ev, NEW hops, IsCopyOf(ev, body, hops)
  PROVE  VerifyTraceSignature(ev.trace) <=>
         \A h \in DOMAIN hops, j \in DOMAIN body.components :
            /\ ~Bars(hops[h], body.components[j])
            /\ \A k \in DOMAIN body.components[j].data :
                  Clears(hops[h], k) => ~Says(body.components[j], k)
<1>1. PICK cs, wb, ws : cs = body.components /\ wb = ev.trace.body /\ ws = wb.components
  OBVIOUS
<1>2. AreLeftOf(ws, body, hops)
  BY <1>1 DEF IsCopyOf
<1>3. PICK l, n \in Nat : l = Len(cs) /\ n = Len(ws) /\ DOMAIN cs = 1..l /\ DOMAIN ws = 1..n
  BY <1>1, <1>2, BodyIsList DEF AreLeftOf
<1>4. VerifyTraceSignature(ev.trace) <=>
        n = l /\ \A j \in 1..l : CanonicalComponent(body, ws[j]) = CanonicalComponent(body, cs[j])
  <2>1. VerifyTraceSignature(ev.trace) <=> CanonicalBytes(body) = CanonicalBytes(wb)
    BY <1>1 DEF VerifyTraceSignature, IsCopyOf
  <2>2. /\ DOMAIN wb = DOMAIN body
        /\ \A k \in DOMAIN body \ {"components"} : wb[k] = body[k]
        /\ AreLeftOf(wb.components, body, hops)
    BY <1>1 DEF IsCopyOf
  <2>3. CanonicalBytes(body) = CanonicalBytes(wb) <=>
          /\ Len(wb.components) = Len(body.components)
          /\ \A j \in DOMAIN body.components :
               CanonicalComponent(body, wb.components[j])
                 = CanonicalComponent(body, body.components[j])
    BY <2>2, SameBytes
  <2>. QED
    BY <1>1, <1>3, <2>1, <2>3
<1>5. n = l => \A j \in 1..l : IsLeftOf(ws[j], cs[j], body, hops)
  BY <1>1, <1>2, <1>3 DEF AreLeftOf
<1>6. ASSUME n = l, NEW j \in 1..l
      PROVE  CanonicalComponent(body, ws[j]) = CanonicalComponent(body, cs[j]) <=>
             \A k \in DOMAIN cs[j].data : Cleared(hops, k) => ~Says(cs[j], k)
  <2>1. IsData(cs[j].data)
    BY <1>1, <1>3, BodyIsList
  <2>. QED
    BY <1>5, <1>6, <2>1, SameWhenUntouched
<1>7. n = l => \A h \in DOMAIN hops, j \in 1..l : ~Bars(hops[h], cs[j])
  BY <1>5 DEF IsLeftOf
<1>8. (\A h \in DOMAIN hops, j \in 1..l : ~Bars(hops[h], cs[j])) => n = l
  BY <1>1, <1>2, <1>3 DEF AreLeftOf, NoneBarred
<1>. QED
  BY <1>1, <1>3, <1>4, <1>6, <1>7, <1>8 DEF Cleared

LEMMA LeftIsClean ==
  ASSUME NEW body, NEW hops, NEW ws, AreLeftOf(ws, body, hops), NEW j \in DOMAIN ws
  PROVE  /\ (\A i \in DOMAIN body.components : IsData(body.components[i].data)) =>
              "attempt_index" \in DOMAIN ws[j].data
         /\ \A h \in DOMAIN hops :
              /\ ~Bars(hops[h], ws[j])
              /\ \A k \in DOMAIN ws[j].data : Clears(hops[h], k) => ~Says(ws[j], k)
<1>1. PICK w, i : w = ws[j] /\ i \in DOMAIN body.components
                  /\ IsLeftOf(w, body.components[i], body, hops)
  BY DEF AreLeftOf
<1>2. PICK c : c = body.components[i]
  OBVIOUS
<1>3. IsData(c.data) => "attempt_index" \in DOMAIN w.data
  <2>1. ~Cleared(hops, "attempt_index")
    BY IndexIsKept DEF Cleared
  <2>2. IsData(c.data) => "attempt_index" \in DOMAIN CanonData(c)
    BY CanonDataIs
  <2>. QED
    BY <1>1, <1>2, <2>1, <2>2 DEF IsLeftOf
<1>4. ASSUME NEW h \in DOMAIN hops PROVE ~Bars(hops[h], w)
  BY <1>1, <1>2 DEF IsLeftOf, Bars
<1>5. ASSUME NEW h \in DOMAIN hops, NEW k \in DOMAIN w.data, Clears(hops[h], k)
      PROVE  ~Says(w, k)
  <2>1. w.data[k] = "null"
    BY <1>1, <1>5 DEF IsLeftOf, Cleared
  <2>. QED
    BY <2>1, StripShapes DEF Says, Shapes
<1>. QED
  BY <1>1, <1>2, <1>3, <1>4, <1>5

-----------------------------------------------------------------------------
(* The invariant: what is signed was captured, and every copy is what the    *)
(* filters of its way left of what was captured.                             *)

TracesAreCaptured ==
  /\ DOMAIN traces = Traces
  /\ traces = [t \in Traces |-> traces[t]]
  /\ \A t \in Traces :
       /\ DOMAIN traces[t] = {"body", "signature"}
       /\ traces[t].body \in Bodies
       /\ traces[t].signature \in {Unsigned, CanonicalBytes(traces[t].body)}

IsBatch(batch, hops) ==
  /\ DOMAIN batch = {"trace_level", "correlation_metadata", "events"}
  /\ batch.correlation_metadata = BlockOf(inputs)
  /\ batch.events \in Seq(Range(batch.events))
  /\ \A i \in DOMAIN batch.events :
       /\ batch.events[i].trace_level = batch.trace_level
       /\ batch.events[i].trace.id \in Traces
       /\ IsCopyOf(batch.events[i], traces[batch.events[i].trace.id].body, hops)

EgressInv ==
  /\ TracesAreCaptured
  /\ inputs \in Inputs
  /\ DOMAIN copy = {"hops", "batch"}
  /\ copy.hops \in Seq(Upstreams) /\ Len(copy.hops) <= MaxHops
  /\ copy # NoCopy => IsBatch(copy.batch, copy.hops)

LEMMA EgressInvInit == EgressInit => EgressInv
<1>. SUFFICES ASSUME EgressInit PROVE EgressInv
  OBVIOUS
<1>1. traces \in [Traces -> {[body |-> b, signature |-> Unsigned] : b \in Bodies}]
  BY DEF EgressInit
<1>2. ASSUME NEW t \in Traces
      PROVE  /\ DOMAIN traces[t] = {"body", "signature"}
             /\ traces[t].body \in Bodies /\ traces[t].signature = Unsigned
  <2>1. PICK b \in Bodies : traces[t] = [body |-> b, signature |-> Unsigned]
    BY <1>1
  <2>. QED
    BY <2>1
<1>3. TracesAreCaptured
  BY <1>1, <1>2 DEF TracesAreCaptured
<1>4. copy.hops = <<>> /\ DOMAIN copy = {"hops", "batch"} /\ Len(copy.hops) = 0
  BY DEF EgressInit, NoCopy
<1>. QED
  BY <1>3, <1>4, EgressAssumption DEF EgressInit, EgressInv

(* A signature is added, a body never changes.                               *)
LEMMA SignKeepsInv ==
  ASSUME EgressInv, NEW t \in Traces, SignTrace(t) PROVE EgressInv'
<1>1. inputs' = inputs /\ copy' = copy
  BY DEF SignTrace
<1>2. TracesAreCaptured' /\ \A x \in Traces : traces'[x].body = traces[x].body
  <2>1. CASE traces' = [traces EXCEPT ![t].signature = CanonicalBytes(traces[t].body)]
    <3>1. ASSUME NEW x \in Traces
          PROVE  /\ DOMAIN traces'[x] = {"body", "signature"}
                 /\ traces'[x].body = traces[x].body
                 /\ traces'[x].signature \in {Unsigned, CanonicalBytes(traces[x].body)}
      <4>1. x # t => traces'[x] = traces[x]
        BY <2>1 DEF EgressInv, TracesAreCaptured
      <4>2. x = t => traces'[x] = [traces[t] EXCEPT !.signature = CanonicalBytes(traces[t].body)]
        BY <2>1 DEF EgressInv, TracesAreCaptured
      <4>. QED
        BY <4>1, <4>2 DEF EgressInv, TracesAreCaptured
    <3>2. DOMAIN traces' = Traces /\ traces' = [x \in Traces |-> traces'[x]]
      BY <2>1 DEF EgressInv, TracesAreCaptured
    <3>. QED
      BY <3>1, <3>2 DEF EgressInv, TracesAreCaptured
  <2>2. CASE traces' = traces
    BY <2>2 DEF EgressInv, TracesAreCaptured
  <2>. QED
    BY <2>1, <2>2 DEF SignTrace
<1>3. copy # NoCopy => IsBatch(copy.batch, copy.hops)'
  BY <1>1, <1>2 DEF EgressInv, IsBatch
<1>. QED
  BY <1>1, <1>2, <1>3 DEF EgressInv

LEMMA BuildKeepsInv ==
  ASSUME EgressInv, NEW n \in Nat, NEW ts \in [1..n -> Traces], NEW level, BuildBatch(ts, level)
  PROVE  EgressInv'
<1>1. inputs' = inputs /\ traces' = traces /\ copy = NoCopy
  BY DEF BuildBatch
<1>2. TracesAreCaptured'
  BY <1>1 DEF EgressInv, TracesAreCaptured
<1>3. CASE outcome' # "built"
  <2>1. copy' = copy
    BY <1>3 DEF BuildBatch
  <2>. QED
    BY <1>1, <1>2, <2>1 DEF EgressInv
<1>4. CASE outcome' = "built"
  <2>1. \A i \in 1..n : traces[ts[i]].signature # Unsigned
    BY <1>4 DEF BuildBatch
  <2>2. PICK evs : evs = [i \in 1..n |-> WireEvent(ts[i], level)]
    OBVIOUS
  <2>3. PICK batch : batch = [trace_level |-> level, correlation_metadata |-> BlockOf(inputs),
                              events |-> evs]
    OBVIOUS
  <2>4. copy' = [hops |-> <<>>, batch |-> batch]
    BY <1>4, <2>2, <2>3 DEF BuildBatch, Map
  <2>5. ASSUME NEW i \in 1..n
        PROVE  /\ evs[i].trace_level = level
               /\ evs[i].trace.id \in Traces
               /\ IsCopyOf(evs[i], traces[evs[i].trace.id].body, <<>>)
    <3>1. PICK t \in Traces : t = ts[i]
      OBVIOUS
    <3>2. PICK body, sig, wb : /\ body = traces[t].body /\ sig = traces[t].signature
                               /\ wb = BuildCanonicalEnvelope(body)
      OBVIOUS
    <3>3. PICK ev : ev = evs[i]
      OBVIOUS
    <3>4. body \in Bodies /\ sig = CanonicalBytes(body)
      BY <2>1, <3>1, <3>2 DEF EgressInv, TracesAreCaptured
    <3>5. ev = [trace_level |-> level, severity |-> NoSeverity,
                trace |-> [id |-> t, body |-> wb, signature |-> sig]]
      BY <2>2, <3>1, <3>2, <3>3 DEF WireEvent
    <3>6. /\ DOMAIN wb = DOMAIN body
          /\ \A k \in DOMAIN body \ {"components"} : wb[k] = body[k]
      BY <3>2 DEF BuildCanonicalEnvelope
    <3>7. AreLeftOf(wb.components, body, <<>>)
      BY <3>2, <3>4, WireComponents
    <3>8. IsCopyOf(ev, body, <<>>)
      BY <3>4, <3>5, <3>6, <3>7 DEF IsCopyOf
    <3>. QED
      BY <3>1, <3>2, <3>3, <3>5, <3>8
  <2>6. evs \in Seq(Range(evs)) /\ DOMAIN evs = 1..n
    BY <2>2 DEF Range
  <2>7. IsBatch(batch, <<>>)
    BY <2>3, <2>5, <2>6 DEF IsBatch
  <2>8. IsBatch(batch, <<>>)'
    <3>1. PICK b : b = batch
      OBVIOUS
    <3>. QED
      BY <1>1, <2>7 DEF IsBatch
  <2>9. copy'.hops = <<>> /\ copy'.batch = batch /\ DOMAIN copy' = {"hops", "batch"}
    BY <2>4
  <2>10. Len(<<>>) <= MaxHops /\ <<>> \in Seq(Upstreams)
    BY EgressAssumption
  <2>. QED
    BY <1>1, <1>2, <2>8, <2>9, <2>10 DEF EgressInv
<1>. QED
  BY <1>3, <1>4

(* A severity is noted on each event.                                        *)
LEMMA AnnotateKeepsInv ==
  ASSUME EgressInv, NEW sev \in [Traces -> Severities \cup {NoSeverity}], Annotate(sev)
  PROVE  EgressInv'
<1>1. inputs' = inputs /\ traces' = traces /\ copy # NoCopy
  BY DEF Annotate
<1>2. TracesAreCaptured'
  BY <1>1 DEF EgressInv, TracesAreCaptured
<1>3. PICK batch, hops, evs : batch = copy.batch /\ hops = copy.hops /\ evs = batch.events
  OBVIOUS
<1>4. IsBatch(batch, hops) /\ DOMAIN copy = {"hops", "batch"}
  BY <1>1, <1>3 DEF EgressInv
<1>5. PICK n \in Nat : n = Len(evs) /\ DOMAIN evs = 1..n
  BY <1>3, <1>4 DEF IsBatch
<1>6. PICK vs : vs = [i \in 1..n |-> [evs[i] EXCEPT !.severity = sev[evs[i].trace.id]]]
  OBVIOUS
<1>7. copy' = [copy EXCEPT !.batch.events = vs]
  BY <1>3, <1>5, <1>6 DEF Annotate, Map
<1>8. PICK b2 : b2 = [batch EXCEPT !.events = vs]
  OBVIOUS
<1>9. copy'.hops = hops /\ copy'.batch = b2 /\ DOMAIN copy' = {"hops", "batch"}
  BY <1>3, <1>4, <1>7, <1>8
<1>10. ASSUME NEW i \in 1..n
       PROVE  /\ vs[i].trace_level = batch.trace_level
              /\ vs[i].trace.id \in Traces
              /\ IsCopyOf(vs[i], traces[vs[i].trace.id].body, hops)
  <2>1. PICK ev, v : ev = evs[i] /\ v = vs[i]
    OBVIOUS
  <2>2. /\ ev.trace_level = batch.trace_level /\ ev.trace.id \in Traces
        /\ IsCopyOf(ev, traces[ev.trace.id].body, hops)
    BY <1>3, <1>4, <1>5, <2>1 DEF IsBatch
  <2>3. DOMAIN ev = {"trace_level", "severity", "trace"}
    BY <2>2 DEF IsCopyOf
  <2>4. v.trace = ev.trace /\ v.trace_level = ev.trace_level /\ DOMAIN v = DOMAIN ev
    BY <1>6, <2>1, <2>3
  <2>. QED
    BY <2>1, <2>2, <2>4 DEF IsCopyOf
<1>11. vs \in Seq(Range(vs)) /\ DOMAIN vs = 1..n
  BY <1>6 DEF Range
<1>12. /\ DOMAIN b2 = {"trace_level", "correlation_metadata", "events"}
       /\ b2.trace_level = batch.trace_level /\ b2.events = vs
       /\ b2.correlation_metadata = batch.correlation_metadata
  BY <1>4, <1>8 DEF IsBatch
<1>13. IsBatch(b2, hops)
  BY <1>4, <1>10, <1>11, <1>12 DEF IsBatch
<1>14. IsBatch(b2, hops)'
  BY <1>1, <1>13 DEF IsBatch
<1>. QED
  BY <1>1, <1>2, <1>3, <1>9, <1>14 DEF EgressInv

LEMMA FilterCopies ==
  ASSUME NEW args \in Upstreams, NEW hops \in Seq(Upstreams), NEW body \in Bodies,
         NEW ev, IsCopyOf(ev, body, hops)
  PROVE  LET v == FilterEvent(WithAll(args), ev)
         IN  /\ IsCopyOf(v, body, Append(hops, args))
             /\ v.trace_level = WithAll(args).trace_level
             /\ v.trace.id = ev.trace.id /\ v.severity = ev.severity
<1>1. PICK f : f = WithAll(args)
  OBVIOUS
<1>2. PICK wb, ws : wb = ev.trace.body /\ ws = wb.components
  OBVIOUS
<1>3. PICK vs : vs = ApplyComponentFilters(f, ws)
  OBVIOUS
<1>4. PICK v : v = FilterEvent(f, ev)
  OBVIOUS
<1>5. v = [ev EXCEPT !.trace_level = f.trace_level, !.trace.body.components = vs]
  BY <1>2, <1>3, <1>4 DEF FilterEvent
<1>6. /\ DOMAIN ev = {"trace_level", "severity", "trace"}
      /\ DOMAIN ev.trace = {"id", "body", "signature"}
      /\ "components" \in DOMAIN wb
  BY <1>2, BodyIsList DEF IsCopyOf
<1>7. /\ DOMAIN v = DOMAIN ev /\ v.trace_level = f.trace_level /\ v.severity = ev.severity
      /\ v.trace = [ev.trace EXCEPT !.body = [wb EXCEPT !.components = vs]]
  BY <1>2, <1>5, <1>6
<1>8. /\ DOMAIN v.trace = DOMAIN ev.trace
      /\ v.trace.id = ev.trace.id /\ v.trace.signature = ev.trace.signature
      /\ v.trace.body = [wb EXCEPT !.components = vs]
  BY <1>6, <1>7
<1>9. /\ DOMAIN v.trace.body = DOMAIN wb /\ v.trace.body.components = vs
      /\ \A k \in DOMAIN wb \ {"components"} : v.trace.body[k] = wb[k]
  BY <1>6, <1>8
<1>10. AreLeftOf(vs, body, Append(hops, args))
  BY <1>1, <1>2, <1>3, FilterComponents DEF IsCopyOf
<1>11. IsCopyOf(v, body, Append(hops, args))
  BY <1>2, <1>7, <1>8, <1>9, <1>10 DEF IsCopyOf
<1>. QED
  BY <1>1, <1>4, <1>7, <1>8, <1>11

(* What a filter lets through, of the batch it is given.                     *)
LEMMA ForwardKeepsInv ==
  ASSUME EgressInv, NEW args \in Upstreams, Forward(args)
  PROVE  EgressInv' /\ GateStep
<1>1. inputs' = inputs /\ traces' = traces /\ copy # NoCopy /\ Len(copy.hops) < MaxHops
  BY DEF Forward
<1>2. TracesAreCaptured'
  BY <1>1 DEF EgressInv, TracesAreCaptured
<1>3. PICK batch, hops, evs : batch = copy.batch /\ hops = copy.hops /\ evs = batch.events
  OBVIOUS
<1>4. IsBatch(batch, hops) /\ DOMAIN copy = {"hops", "batch"} /\ hops \in Seq(Upstreams)
  BY <1>1, <1>3 DEF EgressInv
<1>5. PICK f, hs : f = WithAll(args) /\ hs = Append(hops, args)
  OBVIOUS
<1>6. PICK T : T = Range(evs)
  OBVIOUS
<1>7. PICK S1, S2 : /\ S1 = {ev \in T : Passes(f, ev)}
                    /\ S2 = {ev \in T : ~Below(args, ev)}
  OBVIOUS
<1>8. PICK rs : rs = Retain(evs, S1)
  OBVIOUS
<1>9. evs \in Seq(T) /\ \A i \in 1..Len(evs) : evs[i] \in T
  BY <1>3, <1>4, <1>6 DEF IsBatch
<1>10. \A ev : Passes(f, ev) <=> ~Below(args, ev)
  <2>1. f.min_severity = IF "min_severity" \in DOMAIN args THEN args.min_severity ELSE NoSeverity
    BY <1>5, WithAllIs
  <2>2. "min_severity" \in DOMAIN args => args.min_severity \in KnownSeverities
    BY DEF Upstreams, Parses
  <2>3. NoSeverity \notin KnownSeverities
    BY EgressAssumption
  <2>4. CASE "min_severity" \notin DOMAIN args
    BY <2>1, <2>4 DEF Passes, Below
  <2>5. CASE "min_severity" \in DOMAIN args
    <3>1. f.min_severity = args.min_severity /\ f.min_severity # NoSeverity
      BY <2>1, <2>2, <2>3, <2>5
    <3>2. /\ SeverityOrd("info") = 0 /\ SeverityOrd("warning") = 1 /\ SeverityOrd("critical") = 2
      BY DEF SeverityOrd
    <3>. QED
      BY <2>2, <2>5, <3>1, <3>2 DEF Passes, Below, KnownSeverities
  <2>. QED
    BY <2>4, <2>5
<1>11. Retain(evs, S2) = rs
  <2>1. S1 = S2
    BY <1>7, <1>10
  <2>. QED
    BY <1>8, <2>1
<1>12. PICK n, m \in Nat : n = Len(rs) /\ m = Len(evs) /\ DOMAIN rs = 1..n /\ DOMAIN evs = 1..m
  <2>1. rs \in Seq(T)
    BY <1>8, <1>9, RetainKeeps
  <2>. QED
    BY <1>9, <2>1
<1>13. \A i \in 1..n : \E j \in 1..m : rs[i] = evs[j]
  <2>1. \A j \in 1..Len(rs) : \E i \in 1..Len(evs) : rs[j] = evs[i]
    BY <1>8, <1>9, RetainKeeps
  <2>. QED
    BY <1>12, <2>1
<1>14. PICK vs : vs = [i \in 1..n |-> FilterEvent(f, rs[i])]
  OBVIOUS
<1>15. PICK b2 : b2 = [batch EXCEPT !.trace_level = f.trace_level, !.events = vs]
  OBVIOUS
<1>16. copy' = [hops |-> hs, batch |-> b2]
  <2>1. ApplyEgressFilter(batch, f) = b2
    BY <1>3, <1>4, <1>6, <1>7, <1>8, <1>12, <1>14, <1>15 DEF ApplyEgressFilter, Map, IsBatch
  <2>. QED
    BY <1>3, <1>5, <2>1 DEF Forward
<1>17. ASSUME NEW i \in 1..n
       PROVE  /\ vs[i].trace_level = f.trace_level
              /\ vs[i].trace.id \in Traces
              /\ vs[i].trace.id = rs[i].trace.id /\ vs[i].severity = rs[i].severity
              /\ IsCopyOf(vs[i], traces[vs[i].trace.id].body, hs)
  <2>1. PICK j \in 1..m : rs[i] = evs[j]
    BY <1>13
  <2>2. PICK ev, v : ev = evs[j] /\ v = FilterEvent(f, ev)
    OBVIOUS
  <2>3. ev.trace.id \in Traces /\ IsCopyOf(ev, traces[ev.trace.id].body, hops)
    BY <1>3, <1>4, <1>12, <2>2 DEF IsBatch
  <2>4. PICK body \in Bodies : body = traces[ev.trace.id].body
    BY <2>3 DEF EgressInv, TracesAreCaptured
  <2>5. /\ IsCopyOf(v, body, hs) /\ v.trace_level = f.trace_level
        /\ v.trace.id = ev.trace.id /\ v.severity = ev.severity
    BY <1>4, <1>5, <2>2, <2>3, <2>4, FilterCopies
  <2>6. vs[i] = v
    BY <1>14, <2>1, <2>2
  <2>. QED
    BY <2>1, <2>2, <2>3, <2>4, <2>5, <2>6
<1>18. vs \in Seq(Range(vs)) /\ DOMAIN vs = 1..n
  BY <1>14 DEF Range
<1>19. /\ DOMAIN b2 = {"trace_level", "correlation_metadata", "events"}
       /\ b2.trace_level = f.trace_level /\ b2.events = vs
       /\ b2.correlation_metadata = batch.correlation_metadata
  BY <1>4, <1>15 DEF IsBatch
<1>20. IsBatch(b2, hs)
  BY <1>4, <1>17, <1>18, <1>19 DEF IsBatch
<1>21. IsBatch(b2, hs)'
  BY <1>1, <1>20 DEF IsBatch
<1>22. copy'.hops = hs /\ copy'.batch = b2 /\ DOMAIN copy' = {"hops", "batch"}
  BY <1>16
<1>23. hs \in Seq(Upstreams) /\ Len(hs) <= MaxHops
  <2>1. PICK p \in Nat : p = Len(hops)
    BY <1>4
  <2>2. p < MaxHops /\ Len(hs) = p + 1
    BY <1>1, <1>3, <1>4, <1>5, <2>1
  <2>. QED
    BY <1>4, <1>5, <2>1, <2>2, EgressAssumption
<1>24. EgressInv'
  BY <1>1, <1>2, <1>21, <1>22, <1>23 DEF EgressInv
<1>25. GateStep
  <2>. SUFFICES ASSUME NEW a \in Upstreams, copy'.hops = Append(copy.hops, a)
                PROVE  Map(LAMBDA ev : <<ev.trace.id, ev.severity>>, copy'.batch.events)
                         = Map(LAMBDA ev : <<ev.trace.id, ev.severity>>,
                               Retain(copy.batch.events,
                                      {ev \in Range(copy.batch.events) : ~Below(a, ev)}))
    BY DEF GateStep
  <2>1. a = args
    <3>1. PICK p \in Nat : p = Len(hops)
      BY <1>4
    <3>2. hs[p + 1] = args
      BY <1>4, <1>5, <3>1
    <3>3. Append(hops, a)[p + 1] = a
      BY <1>4, <3>1
    <3>. QED
      BY <1>3, <1>22, <3>2, <3>3
  <2>2. Retain(copy.batch.events, {ev \in Range(copy.batch.events) : ~Below(a, ev)}) = rs
    BY <1>3, <1>6, <1>7, <1>11, <2>1
  <2>3. copy'.batch.events = vs
    BY <1>19, <1>22
  <2>4. [i \in 1..n |-> <<vs[i].trace.id, vs[i].severity>>]
          = [i \in 1..n |-> <<rs[i].trace.id, rs[i].severity>>]
    BY <1>17
  <2>. QED
    BY <1>12, <1>18, <2>2, <2>3, <2>4 DEF Map
<1>. QED
  BY <1>24, <1>25

LEMMA EgressInvNext == EgressInv /\ [EgressNext]_egressVars => EgressInv'
<1>. SUFFICES ASSUME EgressInv, [EgressNext]_egressVars PROVE EgressInv'
  OBVIOUS
<1>1. ASSUME NEW t \in Traces, SignTrace(t) PROVE EgressInv'
  BY <1>1, SignKeepsInv
<1>2. ASSUME NEW n \in 0..Cardinality(Traces), NEW ts \in [1..n -> Traces],
             NEW i \in DOMAIN Levels, BuildBatch(ts, Levels[i])
      PROVE  EgressInv'
  <2>1. PICK k : k = n
    OBVIOUS
  <2>2. CASE n \in Nat
    BY <1>2, <2>2, BuildKeepsInv
  <2>3. n \in Nat
    OBVIOUS
  <2>. QED
    BY <2>2, <2>3
<1>3. ASSUME NEW sev \in [Traces -> Severities \cup {NoSeverity}], Annotate(sev) PROVE EgressInv'
  BY <1>3, AnnotateKeepsInv
<1>4. ASSUME NEW args \in Upstreams, Forward(args) PROVE EgressInv'
  BY <1>4, ForwardKeepsInv
<1>5. CASE UNCHANGED egressVars
  BY <1>5 DEF egressVars, EgressInv, TracesAreCaptured, IsBatch
<1>. QED
  BY <1>1, <1>2, <1>3, <1>4, <1>5 DEF EgressNext

LEMMA EgressInvAlways == EgressSpec => []EgressInv
  BY EgressInvInit, EgressInvNext, PTL DEF EgressSpec

(* A batch that the invariant speaks of, event by event.                     *)
LEMMA EventsAreCopies ==
  ASSUME EgressInv, NEW i \in DOMAIN copy.batch.events
  PROVE  LET ev == copy.batch.events[i]
         IN  /\ ev.trace_level = copy.batch.trace_level
             /\ traces[ev.trace.id].body \in Bodies
             /\ IsCopyOf(ev, traces[ev.trace.id].body, copy.hops)
<1>1. copy # NoCopy
  <2>1. NoCopy.batch.events = <<>> /\ DOMAIN <<>> = {}
    BY DEF NoCopy
  <2>. QED
    BY <2>1
<1>. QED
  BY <1>1 DEF EgressInv, IsBatch, TracesAreCaptured

(* The receiver's verification accepts a copy exactly when no filter on its  *)
(* way took anything from what was captured: for any traces, any filters and *)
(* any number of hops, verify_trace_signature tells a redacted copy from an  *)
(* untouched one.                                                            *)
THEOREM CopiesVerifyIffUntouched == EgressSpec => []VerifiesIffUntouched
<1>1. EgressInv => VerifiesIffUntouched
  <2>. SUFFICES ASSUME EgressInv PROVE VerifiesIffUntouched
    OBVIOUS
  <2>1. ASSUME NEW i \in DOMAIN copy.batch.events
        PROVE  LET ev == copy.batch.events[i]
               IN  /\ ev.trace_level = copy.batch.trace_level
                   /\ ev.trace.signature # Unsigned
                   /\ \A j \in DOMAIN ev.trace.body.components :
                        "attempt_index" \in DOMAIN ev.trace.body.components[j].data
    <3>1. PICK ev, body, hops, ws :
            /\ ev = copy.batch.events[i] /\ body = traces[ev.trace.id].body
            /\ hops = copy.hops /\ ws = ev.trace.body.components
      OBVIOUS
    <3>2. body \in Bodies /\ IsCopyOf(ev, body, hops) /\ ev.trace_level = copy.batch.trace_level
      BY <3>1, EventsAreCopies
    <3>3. ev.trace.signature # Unsigned
      BY <3>2, EgressAssumption DEF IsCopyOf
    <3>4. AreLeftOf(ws, body, hops)
      BY <3>1, <3>2 DEF IsCopyOf
    <3>5. \A k \in DOMAIN body.components : IsData(body.components[k].data)
      BY <3>2, BodyIsList
    <3>6. \A j \in DOMAIN ws : "attempt_index" \in DOMAIN ws[j].data
      BY <3>4, <3>5, LeftIsClean
    <3>. QED
      BY <3>1, <3>2, <3>3, <3>6
  <2>2. EgressTypeOK
    BY <2>1 DEF EgressTypeOK, EgressInv
  <2>3. ASSUME NEW i \in DOMAIN copy.batch.events
        PROVE  LET ev == copy.batch.events[i]
               IN  VerifyTraceSignature(ev.trace) <=>
                     \A h \in DOMAIN copy.hops, j \in DOMAIN Captured(ev) :
                       /\ ~Bars(copy.hops[h], Captured(ev)[j])
                       /\ \A k \in DOMAIN Captured(ev)[j].data :
                            Clears(copy.hops[h], k) => ~Says(Captured(ev)[j], k)
    <3>1. PICK ev, body, hops :
            /\ ev = copy.batch.events[i] /\ body = traces[ev.trace.id].body
            /\ hops = copy.hops
      OBVIOUS
    <3>2. body \in Bodies /\ IsCopyOf(ev, body, hops)
      BY <3>1, EventsAreCopies
    <3>3. Captured(ev) = body.components
      BY <3>1 DEF Captured
    <3>4. VerifyTraceSignature(ev.trace) <=>
            \A h \in DOMAIN hops, j \in DOMAIN body.components :
               /\ ~Bars(hops[h], body.components[j])
               /\ \A k \in DOMAIN body.components[j].data :
                     Clears(hops[h], k) => ~Says(body.components[j], k)
      BY <3>2, VerifiesWhenUntouched
    <3>. QED
      BY <3>1, <3>3, <3>4
  <2>. QED
    BY <2>2, <2>3 DEF VerifiesIffUntouched
<1>. QED
  BY <1>1, EgressInvAlways, PTL

LEMMA RedactionHolds == EgressInv => RedactionSticks
<1>. SUFFICES ASSUME EgressInv, NEW i \in DOMAIN copy.batch.events
              PROVE  LET cs == copy.batch.events[i].trace.body.components
                     IN  \A j \in DOMAIN cs, h \in DOMAIN copy.hops :
                           /\ ~Bars(copy.hops[h], cs[j])
                           /\ \A k \in DOMAIN cs[j].data :
                                Clears(copy.hops[h], k) => ~Says(cs[j], k)
  BY DEF RedactionSticks
<1>1. PICK ev, body, hops, ws :
        /\ ev = copy.batch.events[i] /\ body = traces[ev.trace.id].body
        /\ hops = copy.hops /\ ws = ev.trace.body.components
  OBVIOUS
<1>2. AreLeftOf(ws, body, hops)
  BY <1>1, EventsAreCopies DEF IsCopyOf
<1>3. \A j \in DOMAIN ws : \A h \in DOMAIN hops :
        /\ ~Bars(hops[h], ws[j])
        /\ \A k \in DOMAIN ws[j].data : Clears(hops[h], k) => ~Says(ws[j], k)
  BY <1>2, LeftIsClean
<1>. QED
  BY <1>1, <1>3

LEMMA GateHolds == EgressInv /\ [EgressNext]_egressVars => [GateStep]_copy
<1>. SUFFICES ASSUME EgressInv, [EgressNext]_egressVars, copy' # copy PROVE GateStep
  OBVIOUS
<1>1. CASE \E args \in Upstreams : Forward(args)
  BY <1>1, ForwardKeepsInv
<1>2. CASE copy'.hops = <<>> /\ copy.hops = <<>>
  <2>1. \A a \in Upstreams : Append(<<>>, a) # <<>>
    <3>1. ASSUME NEW a \in Upstreams PROVE Append(<<>>, a) # <<>>
      <4>1. <<>> \in Seq(Upstreams)
        OBVIOUS
      <4>2. Len(Append(<<>>, a)) = Len(<<>>) + 1 /\ Len(<<>>) = 0
        BY <4>1
      <4>. QED
        BY <4>2
    <3>. QED
      BY <3>1
  <2>. QED
    BY <1>2, <2>1 DEF GateStep
<1>3. ASSUME NEW t \in Traces, SignTrace(t) PROVE FALSE
  BY <1>3 DEF SignTrace
<1>4. ASSUME NEW ts, NEW level, BuildBatch(ts, level) PROVE copy'.hops = <<>> /\ copy.hops = <<>>
  BY <1>4 DEF BuildBatch, NoCopy
<1>5. ASSUME NEW sev, Annotate(sev) PROVE copy'.hops = <<>> /\ copy.hops = <<>>
  BY <1>5 DEF Annotate, EgressInv
<1>6. ~ UNCHANGED egressVars
  BY DEF egressVars
<1>. QED
  BY <1>1, <1>2, <1>3, <1>4, <1>5, <1>6 DEF EgressNext

(* apply_egress_filter keeps its promise to the operator: what one filter of *)
(* the way forbids is gone after every later one too, and the gate drops the *)
(* events known to be below it and no other, in their order.                 *)
THEOREM FiltersAlwaysHold == EgressSpec => FiltersHold
<1>1. EgressSpec => []RedactionSticks
  BY EgressInvAlways, RedactionHolds, PTL
<1>2. EgressSpec => GateIsExact
  BY EgressInvAlways, GateHolds, PTL DEF EgressSpec, GateIsExact
<1>. QED
  BY <1>1, <1>2, PTL DEF FiltersHold

(* No copy says where the user is unless the user shares it; what it then    *)
(* says is within half a cell of the truth, and half a cell around the truth *)
(* reads the same: whatever the coordinate, and however fine its raw form.   *)
THEOREM LocationIsAlwaysCoarse == EgressSpec => []LocationIsCoarse
<1>1. EgressInv => LocationIsCoarse
  <2>. SUFFICES ASSUME EgressInv, copy # NoCopy, copy.batch.correlation_metadata # NoBlock
                PROVE  LET block == copy.batch.correlation_metadata
                           Near(x) == x - Grain .. x + Grain
                       IN  /\ (PlaceFields \cup CoordFields) \cap DOMAIN block # {}
                                => inputs.share_location
                           /\ DOMAIN block # {}
                           /\ \A f \in CoordFields \cap DOMAIN block :
                                /\ 2 * Abs(10 * Abs(inputs.coord[f]) - Grain * block[f].tenths)
                                     <= Grain
                                /\ 20 * (1 + Cardinality({x \in Near(inputs.coord[f]) :
                                       FuzzLocationToRegion(x) = block[f]})) >= Grain
    BY DEF LocationIsCoarse
  <2>1. PICK in \in Inputs : in = inputs
    BY DEF EgressInv
  <2>2. PICK block : block = copy.batch.correlation_metadata
    OBVIOUS
  <2>3. block = Build(in) /\ DOMAIN block # {}
    BY <2>1, <2>2 DEF EgressInv, IsBatch, BlockOf
  <2>4. DOMAIN block = Given(in) \cup Shared(in)
    BY <2>3 DEF Build
  <2>5. ASSUME NEW f \in PlaceFields \cup CoordFields, f \in DOMAIN block
        PROVE  f \in Shared(in) /\ in.share_location
    BY <2>4, <2>5, CorrelationAssumption DEF Given, Shared
  <2>6. ASSUME NEW f \in CoordFields \cap DOMAIN block
        PROVE  /\ 2 * Abs(10 * Abs(in.coord[f]) - Grain * block[f].tenths) <= Grain
               /\ 20 * (1 + Cardinality({x \in in.coord[f] - Grain .. in.coord[f] + Grain :
                      FuzzLocationToRegion(x) = block[f]})) >= Grain
    <3>1. f \in Shared(in) /\ in.share_location
      BY <2>5
    <3>2. in.coord[f] # NoCoord
      BY <3>1, CorrelationAssumption DEF Shared
    <3>3. PICK x \in Int : x = in.coord[f]
      BY <3>2, EgressAssumption
    <3>4. block[f] = FuzzLocationToRegion(x)
      BY <2>3, <2>4, <3>3 DEF Build
    <3>5. PICK a \in Nat : a = Abs(x)
      BY DEF Abs
    <3>6. PICK t \in Nat : t = NearestTenth(a) /\ block[f].tenths = t
      BY <3>4, <3>5, TenthIsNear DEF FuzzLocationToRegion
    <3>7. PICK p \in Nat : p = Grain * t
      BY CorrelationAssumption
    <3>8. 2 * p - Grain <= 20 * a /\ 20 * a <= 2 * p + Grain
      <4>1. 2 * Grain * t = 2 * p
        BY <3>7, CorrelationAssumption
      <4>. QED
        BY <3>6, <4>1, TenthIsNear
    <3>9. 2 * Abs(10 * a - p) <= Grain
      BY <3>8, CorrelationAssumption DEF Abs
    <3>10. 20 * (1 + Cardinality({y \in x - Grain .. x + Grain :
                 FuzzLocationToRegion(y) = FuzzLocationToRegion(x)})) >= Grain
      BY CellsAreWide
    <3>. QED
      BY <3>3, <3>4, <3>5, <3>6, <3>7, <3>9, <3>10
  <2>. QED
    BY <2>1, <2>2, <2>3, <2>5, <2>6
<1>. QED
  BY <1>1, EgressInvAlways, PTL

-----------------------------------------------------------------------------
(* Scrubbing: what the first walk collects of a trace.                     *)

LEMMA EmptyIsSeq == \A S : <<>> \in Seq(S)
OBVIOUS

ScrubTexts == Seq(STRING \X Nat)

LEMMA ConsumesAsCollected == \A leaf : Consumes(leaf) <=> Eligible(leaf)
BY DEF Consumes, Eligible

LEMMA ListOf ==
  ASSUME NEW n \in Nat, NEW f, f = [i \in 1..n |-> f[i]]
  PROVE  Len(f) = n /\ DOMAIN f = 1..n /\ f \in Seq({f[i] : i \in 1..n})
<1>1. f \in [1..n -> {f[i] : i \in 1..n}]
  OBVIOUS
<1>2. f \in Seq({f[i] : i \in 1..n})
  BY <1>1
<1>. QED
  BY <1>1, <1>2

CollectStep(u, trace, i) ==
  IF i = 0 THEN <<>>
  ELSE IF Eligible(trace[i]) THEN Append(u[i - 1], trace[i].text) ELSE u[i - 1]

Collects(u, trace, N) == u = [i \in 0..N |-> CollectStep(u, trace, i)]

LEMMA CollectsIsDefined ==
  ASSUME NEW trace, NEW N \in Nat
  PROVE  \E u : Collects(u, trace, N)
<1>. DEFINE Good == {n \in 0..N : \E u : Collects(u, trace, n)}
<1>1. 0 \in Good
  <2>1. Collects([i \in 0..0 |-> <<>>], trace, 0)
    BY DEF Collects, CollectStep
  <2>. QED
    BY <2>1
<1>2. ASSUME NEW m \in 0..N, m \in Good, m < N PROVE m + 1 \in Good
  <2>1. PICK u : Collects(u, trace, m)
    BY <1>2
  <2>2. PICK w : w = [i \in 0..(m + 1) |-> IF i = m + 1 THEN CollectStep(u, trace, i)
                                           ELSE u[i]]
    OBVIOUS
  <2>3. ASSUME NEW i \in 0..m PROVE w[i] = CollectStep(w, trace, i)
    <3>1. w[i] = u[i] /\ u[i] = CollectStep(u, trace, i)
      BY <2>1, <2>2 DEF Collects
    <3>2. i # 0 => w[i - 1] = u[i - 1]
      BY <2>2
    <3>. QED
      BY <3>1, <3>2 DEF CollectStep
  <2>4. w[m + 1] = CollectStep(w, trace, m + 1)
    <3>1. w[m + 1] = CollectStep(u, trace, m + 1) /\ w[m] = u[m]
      BY <2>2
    <3>. QED
      BY <3>1 DEF CollectStep
  <2>5. w = [i \in 0..(m + 1) |-> CollectStep(w, trace, i)]
    <3>1. \A i \in 0..(m + 1) : w[i] = CollectStep(w, trace, i)
      BY <2>3, <2>4
    <3>2. w = [i \in 0..(m + 1) |-> w[i]]
      BY <2>2
    <3>. QED
      BY <3>1, <3>2
  <2>6. m + 1 \in 0..N
    BY <1>2
  <2>. QED
    BY <2>5, <2>6 DEF Collects
<1>. HIDE DEF Good
<1>3. N \in Good
  BY <1>1, <1>2, UpToN
<1>. QED
  BY <1>3 DEF Good

LEMMA CollectUnfolds ==
  ASSUME NEW trace, Len(trace) \in Nat
  PROVE  \E u : Collects(u, trace, Len(trace)) /\ CollectNerInputs(trace) = u[Len(trace)]
<1>. DEFINE u == CHOOSE f : f = [i \in 0..Len(trace) |->
                      IF i = 0 THEN <<>>
                      ELSE IF Eligible(trace[i]) THEN Append(f[i - 1], trace[i].text)
                      ELSE f[i - 1]]
<1>1. CollectNerInputs(trace) = u[Len(trace)]
  BY DEF CollectNerInputs
<1>2. \E f : f = [i \in 0..Len(trace) |->
                   IF i = 0 THEN <<>>
                   ELSE IF Eligible(trace[i]) THEN Append(f[i - 1], trace[i].text)
                   ELSE f[i - 1]]
  <2>1. PICK f : Collects(f, trace, Len(trace))
    BY CollectsIsDefined
  <2>. QED
    BY <2>1 DEF Collects, CollectStep
<1>3. u = [i \in 0..Len(trace) |->
            IF i = 0 THEN <<>>
            ELSE IF Eligible(trace[i]) THEN Append(u[i - 1], trace[i].text)
            ELSE u[i - 1]]
  BY <1>2
<1>. HIDE DEF u
<1>4. Collects(u, trace, Len(trace))
  BY <1>3 DEF Collects, CollectStep
<1>. QED
  BY <1>1, <1>4

LEMMA TurnCounts ==
  ASSUME NEW trace, NEW i \in Nat
  PROVE  /\ Turn(trace, 0) = 0 /\ Turn(trace, i) \in Nat
         /\ Turn(trace, i + 1) = Turn(trace, i) + (IF Consumes(trace[i + 1]) THEN 1 ELSE 0)
<1>. DEFINE K(n) == {k \in 1..n : Consumes(trace[k])}
<1>1. K(0) = {} /\ Cardinality({}) = 0
  BY FS_EmptySet
<1>2. IsFiniteSet(K(i)) /\ Cardinality(K(i)) \in Nat
  <2>1. IsFiniteSet(1..i)
    BY FS_Interval
  <2>2. IsFiniteSet(K(i))
    BY <2>1, FS_Subset
  <2>. QED
    BY <2>2, FS_CardinalityType
<1>3. K(i + 1) = K(i) \cup (IF Consumes(trace[i + 1]) THEN {i + 1} ELSE {})
  OBVIOUS
<1>4. i + 1 \notin K(i)
  OBVIOUS
<1>5. Cardinality(K(i) \cup {i + 1}) = Cardinality(K(i)) + 1
  BY <1>2, <1>4, FS_AddElement
<1>6. CASE Consumes(trace[i + 1])
  <2>1. K(i + 1) = K(i) \cup {i + 1}
    BY <1>3, <1>6
  <2>. QED
    BY <1>1, <1>2, <1>5, <1>6, <2>1 DEF Turn
<1>7. CASE ~ Consumes(trace[i + 1])
  <2>1. K(i + 1) = K(i)
    BY <1>3, <1>7
  <2>. QED
    BY <1>1, <1>2, <1>7, <2>1 DEF Turn
<1>. QED
  BY <1>6, <1>7

(* What is collected stands in the order in which it will be consumed.     *)
InTurn(trace, c) ==
  /\ c \in Seq(ScrubTexts)
  /\ \A i \in 1..Len(trace) : Eligible(trace[i]) =>
       /\ Turn(trace, i) \in 1..Len(c)
       /\ c[Turn(trace, i)] = trace[i].text

LEMMA CollectedInTurn ==
  ASSUME NEW trace \in Seq(Leaves)
  PROVE  InTurn(trace, CollectNerInputs(trace))
<1>1. PICK n : n = Len(trace)
  OBVIOUS
<1>2. n \in Nat /\ \A i \in 1..n : trace[i].text \in ScrubTexts
  <2>1. \A i \in 1..n : trace[i] \in Leaves
    BY <1>1
  <2>. QED
    BY <1>1, <2>1 DEF Leaves, ScrubTexts
<1>3. PICK u : Collects(u, trace, n) /\ CollectNerInputs(trace) = u[n]
  BY <1>1, <1>2, CollectUnfolds
<1>4. u[0] = <<>> /\ \A i \in 1..n :
         u[i] = IF Eligible(trace[i]) THEN Append(u[i - 1], trace[i].text) ELSE u[i - 1]
  <2>1. \A i \in 0..n : u[i] = CollectStep(u, trace, i)
    BY <1>3 DEF Collects
  <2>. QED
    BY <1>2, <2>1 DEF CollectStep
<1>. DEFINE Done(m) ==
       /\ u[m] \in Seq(ScrubTexts) /\ Len(u[m]) = Turn(trace, m)
       /\ \A i \in 1..m : Eligible(trace[i]) =>
            Turn(trace, i) \in 1..Turn(trace, m) /\ u[m][Turn(trace, i)] = trace[i].text
     Good == {m \in 0..n : Done(m)}
<1>5. 0 \in Good
  <2>1. Turn(trace, 0) = 0
    BY TurnCounts
  <2>2. u[0] \in Seq(ScrubTexts) /\ Len(u[0]) = 0
    BY <1>4
  <2>. QED
    BY <1>2, <2>1, <2>2
<1>6. ASSUME NEW k \in 0..n, k \in Good, k < n PROVE k + 1 \in Good
  <2>1. PICK m, a, b, t : /\ m = k + 1 /\ a = Turn(trace, k) /\ b = Turn(trace, m)
                          /\ t = trace[m].text
    OBVIOUS
  <2>2. m \in 1..n /\ m \in 0..n /\ m - 1 = k /\ k \in Nat
    <3>1. k \in 0..n /\ k < n /\ m = k + 1
      BY <1>6, <2>1
    <3>. HIDE DEF Good
    <3>. QED
      BY <1>2, <3>1
  <2>3. a \in Nat /\ b = a + (IF Eligible(trace[m]) THEN 1 ELSE 0)
    BY <2>1, <2>2, TurnCounts, ConsumesAsCollected
  <2>4. Done(k)
    BY <1>6
  <2>5. u[m] = IF Eligible(trace[m]) THEN Append(u[k], t) ELSE u[k]
    BY <1>4, <2>1, <2>2
  <2>6. t \in ScrubTexts
    BY <1>2, <2>1, <2>2
  <2>7. PICK x, y : x = u[k] /\ y = u[m]
    OBVIOUS
  <2>8. x \in Seq(ScrubTexts) /\ Len(x) = a
    BY <2>1, <2>4, <2>7
  <2>9. CASE Eligible(trace[m])
    <3>1. y = Append(x, t) /\ b = a + 1
      BY <2>3, <2>5, <2>7, <2>9
    <3>2. y \in Seq(ScrubTexts) /\ Len(y) = b /\ y[b] = t /\ \A i \in 1..a : y[i] = x[i]
      BY <2>3, <2>6, <2>8, <3>1
    <3>3. ASSUME NEW i \in 1..m, Eligible(trace[i])
          PROVE  Turn(trace, i) \in 1..b /\ y[Turn(trace, i)] = trace[i].text
      <4>1. CASE i = m
        BY <2>1, <2>3, <3>1, <3>2, <4>1
      <4>2. CASE i # m
        <5>1. i \in 1..k
          BY <2>2, <4>2
        <5>2. Turn(trace, i) \in 1..a /\ x[Turn(trace, i)] = trace[i].text
          BY <2>1, <2>4, <2>7, <3>3, <5>1
        <5>3. PICK q : q = Turn(trace, i)
          OBVIOUS
        <5>. QED
          BY <2>3, <3>1, <3>2, <5>2, <5>3
      <4>. QED
        BY <4>1, <4>2
    <3>. QED
      BY <2>1, <2>2, <2>7, <3>2, <3>3
  <2>10. CASE ~ Eligible(trace[m])
    <3>1. y = x /\ b = a
      BY <2>3, <2>5, <2>7, <2>10
    <3>2. ASSUME NEW i \in 1..m, Eligible(trace[i])
          PROVE  Turn(trace, i) \in 1..b /\ y[Turn(trace, i)] = trace[i].text
      <4>1. i \in 1..k
        BY <2>2, <2>10, <3>2
      <4>. QED
        BY <2>1, <2>4, <2>7, <3>1, <3>2, <4>1
    <3>. QED
      BY <2>1, <2>2, <2>7, <2>8, <3>1, <3>2
  <2>. QED
    BY <2>9, <2>10
<1>. HIDE DEF Good
<1>7. n \in Good
  <2>1. \A k \in 0..n : k \in Good /\ k < n => k + 1 \in Good
    BY <1>6
  <2>2. \A k \in 0..n : k \in Good
    BY <1>2, <1>5, <2>1, UpToN
  <2>. QED
    BY <1>2, <2>2
<1>8. Done(n)
  BY <1>7 DEF Good
<1>9. PICK c : c = u[n]
  OBVIOUS
<1>10. InTurn(trace, c)
  BY <1>1, <1>8, <1>9 DEF InTurn
<1>. QED
  BY <1>3, <1>9, <1>10

-----------------------------------------------------------------------------
(* The inputs of the traces of a batch, one trace after the other.         *)

JoinStep(v, batch, i) ==
  IF i = 0 THEN <<>> ELSE v[i - 1] \o CollectNerInputs(batch[i])

Joins(v, batch, N) == v = [i \in 0..N |-> JoinStep(v, batch, i)]

LEMMA JoinsIsDefined ==
  ASSUME NEW batch, NEW N \in Nat
  PROVE  \E v : Joins(v, batch, N)
<1>. DEFINE Good == {n \in 0..N : \E v : Joins(v, batch, n)}
<1>1. 0 \in Good
  <2>1. Joins([i \in 0..0 |-> <<>>], batch, 0)
    BY DEF Joins, JoinStep
  <2>. QED
    BY <2>1
<1>2. ASSUME NEW m \in 0..N, m \in Good, m < N PROVE m + 1 \in Good
  <2>1. PICK v : Joins(v, batch, m)
    BY <1>2
  <2>2. PICK w : w = [i \in 0..(m + 1) |-> IF i = m + 1 THEN JoinStep(v, batch, i)
                                           ELSE v[i]]
    OBVIOUS
  <2>3. ASSUME NEW i \in 0..m PROVE w[i] = JoinStep(w, batch, i)
    <3>1. w[i] = v[i] /\ v[i] = JoinStep(v, batch, i)
      BY <2>1, <2>2 DEF Joins
    <3>2. i # 0 => w[i - 1] = v[i - 1]
      BY <2>2
    <3>. QED
      BY <3>1, <3>2 DEF JoinStep
  <2>4. w[m + 1] = JoinStep(w, batch, m + 1)
    <3>1. w[m + 1] = JoinStep(v, batch, m + 1) /\ w[m] = v[m]
      BY <2>2
    <3>. QED
      BY <3>1 DEF JoinStep
  <2>5. w = [i \in 0..(m + 1) |-> JoinStep(w, batch, i)]
    <3>1. \A i \in 0..(m + 1) : w[i] = JoinStep(w, batch, i)
      BY <2>3, <2>4
    <3>2. w = [i \in 0..(m + 1) |-> w[i]]
      BY <2>2
    <3>. QED
      BY <3>1, <3>2
  <2>6. m + 1 \in 0..N
    BY <1>2
  <2>. QED
    BY <2>5, <2>6 DEF Joins
<1>. HIDE DEF Good
<1>3. N \in Good
  BY <1>1, <1>2, UpToN
<1>. QED
  BY <1>3 DEF Good

LEMMA JoinUnfolds ==
  ASSUME NEW batch, Len(batch) \in Nat
  PROVE  \E v : /\ Joins(v, batch, Len(batch))
                /\ \A n : InputsUpTo(batch, n) = v[n]
<1>. DEFINE v == CHOOSE f : f = [i \in 0..Len(batch) |->
                      IF i = 0 THEN <<>> ELSE f[i - 1] \o CollectNerInputs(batch[i])]
<1>1. \A n : InputsUpTo(batch, n) = v[n]
  BY DEF InputsUpTo
<1>2. \E f : f = [i \in 0..Len(batch) |->
                    IF i = 0 THEN <<>> ELSE f[i - 1] \o CollectNerInputs(batch[i])]
  <2>1. PICK f : Joins(f, batch, Len(batch))
    BY JoinsIsDefined
  <2>. QED
    BY <2>1 DEF Joins, JoinStep
<1>3. v = [i \in 0..Len(batch) |->
            IF i = 0 THEN <<>> ELSE v[i - 1] \o CollectNerInputs(batch[i])]
  BY <1>2
<1>. HIDE DEF v
<1>4. Joins(v, batch, Len(batch))
  BY <1>3 DEF Joins, JoinStep
<1>. QED
  BY <1>1, <1>4

(* The inputs of a trace stand behind those of the traces before it.       *)
InPlace(batch, i, from, c) ==
  /\ from \in Nat /\ from <= Len(NerInputs(batch))
  /\ NerInputs(batch) \in Seq(ScrubTexts)
  /\ \A k \in 1..Len(c) :
       from + k \in 1..Len(NerInputs(batch)) /\ NerInputs(batch)[from + k] = c[k]

LEMMA InputsInPlace ==
  ASSUME NEW batch \in Seq(Seq(Leaves)), NEW i \in 1..Len(batch)
  PROVE  InPlace(batch, i, Boundary(batch, i), CollectNerInputs(batch[i]))
<1>1. PICK N : N = Len(batch)
  OBVIOUS
<1>2. N \in Nat /\ i \in 1..N /\ \A m \in 1..N : batch[m] \in Seq(Leaves)
  BY <1>1
<1>3. PICK v : /\ Joins(v, batch, N)
               /\ \A n : InputsUpTo(batch, n) = v[n]
  BY <1>1, <1>2, JoinUnfolds
<1>4. v[0] = <<>> /\ \A m \in 1..N : v[m] = v[m - 1] \o CollectNerInputs(batch[m])
  <2>1. \A m \in 0..N : v[m] = JoinStep(v, batch, m)
    BY <1>3 DEF Joins
  <2>2. 0 \in 0..N /\ \A m \in 1..N : m \in 0..N /\ m # 0
    BY <1>2
  <2>3. v[0] = JoinStep(v, batch, 0) /\ \A m \in 1..N : v[m] = JoinStep(v, batch, m)
    BY <2>1, <2>2
  <2>. QED
    BY <2>2, <2>3, Zenon DEF JoinStep
<1>5. \A m \in 1..N : CollectNerInputs(batch[m]) \in Seq(ScrubTexts)
  BY <1>2, CollectedInTurn DEF InTurn
<1>. DEFINE Lists == {m \in 0..N : v[m] \in Seq(ScrubTexts)}
<1>6. \A m \in 0..N : v[m] \in Seq(ScrubTexts)
  <2>1. 0 \in Lists
    <3>1. v[0] \in Seq(ScrubTexts)
      BY <1>4, EmptyIsSeq, Zenon
    <3>. QED
      BY <1>2, <3>1
  <2>2. ASSUME NEW m \in 0..N, m \in Lists, m < N PROVE m + 1 \in Lists
    <3>1. m + 1 \in 1..N /\ m + 1 \in 0..N /\ (m + 1) - 1 = m
      BY <1>2, <2>2
    <3>2. v[m + 1] = v[m] \o CollectNerInputs(batch[m + 1])
      BY <1>4, <3>1
    <3>3. v[m] \in Seq(ScrubTexts) /\ CollectNerInputs(batch[m + 1]) \in Seq(ScrubTexts)
      BY <1>5, <2>2, <3>1
    <3>4. PICK y, d : y = v[m] /\ d = CollectNerInputs(batch[m + 1])
      OBVIOUS
    <3>5. y \o d \in Seq(ScrubTexts)
      BY <3>3, <3>4
    <3>6. v[m + 1] = y \o d
      BY <3>2, <3>4
    <3>7. v[m + 1] \in Seq(ScrubTexts)
      BY <3>5, <3>6
    <3>. QED
      BY <3>1, <3>7
  <2>. HIDE DEF Lists
  <2>3. \A m \in 0..N : m \in Lists
    BY <1>2, <2>1, <2>2, UpToN
  <2>. QED
    BY <2>3 DEF Lists
<1>7. PICK from, c, x : from = Len(v[i - 1]) /\ c = CollectNerInputs(batch[i]) /\ x = v[i]
  OBVIOUS
<1>8. from \in Nat /\ c \in Seq(ScrubTexts) /\ x \in Seq(ScrubTexts) /\ Boundary(batch, i) = from
  <2>1. i - 1 \in 0..N /\ i \in 0..N
    BY <1>2
  <2>. QED
    BY <1>2, <1>3, <1>5, <1>6, <1>7, <2>1 DEF Boundary
<1>9. /\ from <= Len(x)
      /\ \A k \in 1..Len(c) : from + k \in 1..Len(x) /\ x[from + k] = c[k]
  <2>1. PICK y : y = v[i - 1]
    OBVIOUS
  <2>2. i - 1 \in 0..N
    BY <1>2
  <2>3. y \in Seq(ScrubTexts) /\ Len(y) = from /\ x = y \o c
    BY <1>2, <1>4, <1>6, <1>7, <2>1, <2>2
  <2>. QED
    BY <1>8, <2>3
<1>. DEFINE Keeps(m) == m >= i => \A k \in 1..Len(x) : k \in 1..Len(v[m]) /\ v[m][k] = x[k]
     Good == {m \in 0..N : Keeps(m)}
<1>10. 0 \in Good
  BY <1>2
<1>11. ASSUME NEW m \in 0..N, m \in Good, m < N PROVE m + 1 \in Good
  <2>1. PICK n, y, z : n = m + 1 /\ y = v[m] /\ z = v[n]
    OBVIOUS
  <2>2. n \in 1..N /\ n \in 0..N /\ n - 1 = m /\ m \in Nat
    <3>1. m \in 0..N /\ m < N /\ n = m + 1
      BY <1>11, <2>1
    <3>. HIDE DEF Good
    <3>. QED
      BY <1>2, <3>1
  <2>3. PICK d : d = CollectNerInputs(batch[n])
    OBVIOUS
  <2>4. y \in Seq(ScrubTexts) /\ d \in Seq(ScrubTexts) /\ z = y \o d
    BY <1>4, <1>5, <1>6, <2>1, <2>2, <2>3
  <2>5. Keeps(m)
    BY <1>11
  <2>6. CASE n < i
    BY <1>2, <2>1, <2>2, <2>6
  <2>7. CASE n = i
    <3>1. z = x
      BY <1>7, <2>1, <2>7
    <3>2. Keeps(n)
      BY <1>8, <2>1, <3>1
    <3>. QED
      BY <2>1, <2>2, <3>2
  <2>8. CASE n > i
    <3>1. \A k \in 1..Len(x) : k \in 1..Len(y) /\ y[k] = x[k]
      BY <1>2, <2>1, <2>2, <2>5, <2>8
    <3>2. \A k \in 1..Len(y) : k \in 1..Len(z) /\ z[k] = y[k]
      BY <2>4
    <3>3. Keeps(n)
      BY <2>1, <3>1, <3>2
    <3>. QED
      BY <2>1, <2>2, <3>3
  <2>. QED
    BY <1>2, <2>2, <2>6, <2>7, <2>8
<1>. HIDE DEF Good
<1>12. N \in Good
  <2>1. \A m \in 0..N : m \in Good /\ m < N => m + 1 \in Good
    BY <1>11
  <2>2. \A m \in 0..N : m \in Good
    BY <1>2, <1>10, <2>1, UpToN
  <2>. QED
    BY <1>2, <2>2
<1>13. Keeps(N)
  BY <1>12 DEF Good
<1>14. PICK all : all = NerInputs(batch)
  OBVIOUS
<1>15. all = v[N] /\ all \in Seq(ScrubTexts)
  BY <1>1, <1>2, <1>3, <1>6, <1>14 DEF NerInputs
<1>16. \A k \in 1..Len(x) : k \in 1..Len(all) /\ all[k] = x[k]
  BY <1>2, <1>13, <1>15
<1>17. \A k \in 1..Len(c) : from + k \in 1..Len(all) /\ all[from + k] = c[k]
  BY <1>9, <1>16
<1>18. from <= Len(all)
  <2>1. Len(x) \in Nat /\ Len(all) \in Nat
    BY <1>8, <1>15
  <2>2. Len(x) <= Len(all)
    BY <1>16, <2>1
  <2>. QED
    BY <1>8, <1>9, <2>1, <2>2
<1>. QED
  BY <1>7, <1>8, <1>14, <1>15, <1>17, <1>18 DEF InPlace

-----------------------------------------------------------------------------
(* The second walk: each leaf gets what was made of its own text.          *)

LEMMA PartOf ==
  ASSUME NEW S, NEW s \in Seq(S), NEW from \in Nat, NEW n \in Nat, from + n <= Len(s)
  PROVE  /\ Len(SubSeq(s, from + 1, from + n)) = n
         /\ \A k \in 1..n : SubSeq(s, from + 1, from + n)[k] = s[from + k]
<1>1. PICK a, b : a = from + 1 /\ b = from + n
  OBVIOUS
<1>2. a \in 1..(Len(s) + 1) /\ b \in (a - 1)..Len(s) /\ b - a + 1 = n
  BY <1>1
<1>3. SubSeq(s, a, b) = [k \in 1..n |-> s[from + k]]
  BY <1>1, <1>2
<1>. QED
  BY <1>1, <1>2, <1>3

LEMMA LeafIsInjected ==
  ASSUME NEW trace \in Seq(Leaves), NEW os, NEW j \in 1..Len(trace)
  PROVE  /\ InjectWalk(trace, os)[j].path = trace[j].path
         /\ ~ trace[j].string => InjectWalk(trace, os)[j].text = trace[j].text
         /\ trace[j].string /\ Eligible(trace[j]) /\ Turn(trace, j) <= Len(os) =>
              InjectWalk(trace, os)[j].text = ScrubString(os[Turn(trace, j)])
         /\ trace[j].string /\ ~ Eligible(trace[j]) =>
              InjectWalk(trace, os)[j].text = ScrubString(trace[j].text)
<1>1. PICK leaf, n, out : /\ leaf = trace[j] /\ n = Turn(trace, j)
                          /\ out = InjectWalk(trace, os)[j]
  OBVIOUS
<1>2. leaf \in Leaves /\ j \in DOMAIN trace
  BY <1>1
<1>3. PICK after : after = IF Consumes(leaf) /\ n <= Len(os) THEN os[n] ELSE leaf.text
  OBVIOUS
<1>4. out = IF leaf.string THEN [leaf EXCEPT !.text = ScrubString(after)] ELSE leaf
  BY <1>1, <1>2, <1>3 DEF InjectWalk
<1>5. Consumes(leaf) <=> Eligible(leaf)
  BY ConsumesAsCollected
<1>6. out.path = leaf.path /\ (~ leaf.string => out.text = leaf.text)
      /\ (leaf.string => out.text = ScrubString(after))
  BY <1>2, <1>4 DEF Leaves
<1>7. /\ Eligible(leaf) /\ n <= Len(os) => after = os[n]
      /\ ~ Eligible(leaf) => after = leaf.text
  BY <1>3, <1>5
<1>. QED
  BY <1>1, <1>6, <1>7

LEMMA InjectedLength ==
  ASSUME NEW trace \in Seq(Leaves), NEW os
  PROVE  Len(InjectWalk(trace, os)) = Len(trace)
<1>1. PICK n, f : n = Len(trace) /\ f = InjectWalk(trace, os)
  OBVIOUS
<1>2. n \in Nat /\ DOMAIN trace = 1..n
  BY <1>1
<1>3. f = [i \in 1..n |-> f[i]]
  BY <1>1, <1>2 DEF InjectWalk
<1>. QED
  BY <1>1, <1>2, <1>3, ListOf

(* Outputs in which each is what a model of M makes of its input.          *)
MadeBy(outs, ins, M) ==
  /\ outs \in Seq({outs[k] : k \in 1..Len(ins)}) /\ Len(outs) = Len(ins)
  /\ \A k \in 1..Len(ins) : \E b \in M : outs[k] = ScrubWithNer(b, ins[k])

LEMMA WalkedAlone ==
  ASSUME NEW batch \in Seq(Seq(Leaves)), NEW outs, NEW M,
         MadeBy(outs, NerInputs(batch), M)
  PROVE  AsAlone(batch, WalkBatch(batch, outs), "full_traces", M)
<1>1. PICK N, walked, all : /\ N = Len(batch) /\ walked = WalkBatch(batch, outs)
                            /\ all = NerInputs(batch)
  OBVIOUS
<1>2. N \in Nat /\ DOMAIN batch = 1..N /\ \A i \in 1..N : batch[i] \in Seq(Leaves)
  BY <1>1
<1>3. Len(walked) = N
  <2>1. walked = [i \in 1..N |-> walked[i]]
    BY <1>1, <1>2 DEF WalkBatch
  <2>. QED
    BY <1>2, <2>1, ListOf
<1>4. ASSUME NEW i \in 1..N
      PROVE  /\ Len(walked[i]) = Len(batch[i])
             /\ \A j \in DOMAIN batch[i] :
                  /\ walked[i][j].path = batch[i][j].path
                  /\ walked[i][j].text \in Alone(batch[i][j], "full_traces", M)
  <2>1. PICK trace, c, from, os :
          /\ trace = batch[i] /\ c = CollectNerInputs(batch[i])
          /\ from = Boundary(batch, i) /\ os = SubSeq(outs, from + 1, from + Len(c))
    OBVIOUS
  <2>2. trace \in Seq(Leaves) /\ walked[i] = InjectWalk(trace, os)
    BY <1>1, <1>2, <2>1 DEF WalkBatch
  <2>3. InTurn(trace, c)
    BY <2>1, <2>2, CollectedInTurn
  <2>4. InPlace(batch, i, from, c)
    BY <1>1, <2>1, InputsInPlace
  <2>5. from \in Nat /\ c \in Seq(ScrubTexts) /\ all \in Seq(ScrubTexts)
        /\ \A k \in 1..Len(c) : from + k \in 1..Len(all) /\ all[from + k] = c[k]
    BY <1>1, <2>3, <2>4 DEF InTurn, InPlace
  <2>6. MadeBy(outs, all, M)
    BY <1>1
  <2>7. /\ Len(os) = Len(c)
        /\ \A k \in 1..Len(c) : \E b \in M : os[k] = ScrubWithNer(b, c[k])
    <3>1. PICK n, m : n = Len(c) /\ m = Len(all)
      OBVIOUS
    <3>2. n \in Nat /\ m \in Nat /\ Len(outs) = m /\ outs \in Seq({outs[k] : k \in 1..m})
      BY <2>5, <2>6, <3>1 DEF MadeBy
    <3>3. from + n <= m
      <4>1. CASE n = 0
        <5>1. from <= m
          BY <1>1, <2>4, <3>1 DEF InPlace
        <5>. QED
          BY <2>5, <3>2, <4>1, <5>1
      <4>2. CASE n # 0
        BY <2>5, <3>1, <3>2, <4>2
      <4>. QED
        BY <4>1, <4>2
    <3>4. Len(os) = n /\ \A k \in 1..n : os[k] = outs[from + k]
      <4>1. os = SubSeq(outs, from + 1, from + n)
        BY <2>1, <3>1
      <4>2. from \in Nat /\ from + n <= Len(outs)
        BY <2>5, <3>2, <3>3
      <4>. QED
        BY <3>2, <4>1, <4>2, PartOf
    <3>5. ASSUME NEW k \in 1..n PROVE \E b \in M : os[k] = ScrubWithNer(b, c[k])
      <4>1. from + k \in 1..m /\ all[from + k] = c[k]
        BY <2>5, <3>1
      <4>2. \E b \in M : outs[from + k] = ScrubWithNer(b, all[from + k])
        BY <2>6, <3>1, <4>1 DEF MadeBy
      <4>. QED
        BY <3>4, <4>1, <4>2
    <3>. QED
      BY <3>1, <3>4, <3>5
  <2>8. ASSUME NEW j \in 1..Len(trace)
        PROVE  /\ walked[i][j].path = trace[j].path
               /\ walked[i][j].text \in Alone(trace[j], "full_traces", M)
    <3>1. PICK leaf, out, t : leaf = trace[j] /\ out = walked[i][j] /\ t = Turn(trace, j)
      OBVIOUS
    <3>2. /\ out.path = leaf.path
          /\ ~ leaf.string => out.text = leaf.text
          /\ leaf.string /\ Eligible(leaf) /\ t <= Len(os) => out.text = ScrubString(os[t])
          /\ leaf.string /\ ~ Eligible(leaf) => out.text = ScrubString(leaf.text)
      <4>1. out = InjectWalk(trace, os)[j]
        BY <2>2, <3>1
      <4>. HIDE <3>1
      <4>2. leaf = trace[j] /\ t = Turn(trace, j)
        BY <3>1
      <4>. QED
        BY <2>2, <4>1, <4>2, LeafIsInjected
    <3>3. ASSUME Eligible(leaf)
          PROVE  out.text \in {ScrubString(ScrubWithNer(b, leaf.text)) : b \in M}
      <4>1. t \in 1..Len(c) /\ c[t] = leaf.text
        BY <2>3, <3>1, <3>3 DEF InTurn
      <4>2. PICK b \in M : os[t] = ScrubWithNer(b, leaf.text)
        BY <2>7, <4>1
      <4>3. t <= Len(os)
        BY <2>5, <2>7, <4>1
      <4>4. leaf.string
        BY <3>3 DEF Eligible
      <4>. QED
        BY <3>2, <3>3, <4>2, <4>3, <4>4
    <3>4. out.text \in Alone(leaf, "full_traces", M)
      <4>1. CASE ~ leaf.string
        BY <3>2, <4>1 DEF Alone
      <4>2. CASE leaf.string /\ Eligible(leaf)
        BY <3>3, <4>2 DEF Alone
      <4>3. CASE leaf.string /\ ~ Eligible(leaf)
        BY <3>2, <4>3 DEF Alone
      <4>. QED
        BY <4>1, <4>2, <4>3
    <3>. QED
      BY <3>1, <3>2, <3>4
  <2>9. Len(walked[i]) = Len(trace) /\ DOMAIN trace = 1..Len(trace)
    BY <2>2, InjectedLength
  <2>. QED
    BY <2>1, <2>8, <2>9
<1>. QED
  BY <1>1, <1>2, <1>3, <1>4 DEF AsAlone

(* Without NER, and with nothing done at all.                              *)
LEMMA RegexOnlyAlone ==
  ASSUME NEW batch \in Seq(Seq(Leaves)), NEW M
  PROVE  AsAlone(batch, [i \in DOMAIN batch |-> WalkRegexOnly(batch[i])], "detailed", M)
<1>1. PICK N, walked : N = Len(batch) /\ walked = [i \in DOMAIN batch |-> WalkRegexOnly(batch[i])]
  OBVIOUS
<1>2. N \in Nat /\ DOMAIN batch = 1..N /\ \A i \in 1..N : batch[i] \in Seq(Leaves)
  BY <1>1
<1>3. Len(walked) = N
  <2>1. walked = [i \in 1..N |-> walked[i]]
    BY <1>1, <1>2
  <2>. QED
    BY <1>2, <2>1, ListOf
<1>4. ASSUME NEW i \in 1..N
      PROVE  /\ Len(walked[i]) = Len(batch[i])
             /\ \A j \in DOMAIN batch[i] :
                  /\ walked[i][j].path = batch[i][j].path
                  /\ walked[i][j].text \in Alone(batch[i][j], "detailed", M)
  <2>1. PICK trace, out, n : trace = batch[i] /\ out = walked[i] /\ n = Len(trace)
    OBVIOUS
  <2>2. trace \in Seq(Leaves) /\ n \in Nat /\ DOMAIN trace = 1..n
        /\ out = [j \in 1..n |-> IF trace[j].string THEN [trace[j] EXCEPT !.text = ScrubString(@)]
                                 ELSE trace[j]]
    <3>1. trace \in Seq(Leaves) /\ n \in Nat /\ DOMAIN trace = 1..n
      BY <1>2, <2>1
    <3>2. out = WalkRegexOnly(trace)
      BY <1>1, <1>2, <2>1
    <3>3. WalkRegexOnly(trace) =
            [j \in 1..n |-> IF trace[j].string THEN [trace[j] EXCEPT !.text = ScrubString(@)]
                            ELSE trace[j]]
      BY <3>1 DEF WalkRegexOnly
    <3>. QED
      BY <3>1, <3>2, <3>3
  <2>3. Len(out) = n
    <3>1. out = [j \in 1..n |-> out[j]]
      BY <2>2
    <3>. QED
      BY <2>2, <3>1, ListOf
  <2>4. ASSUME NEW j \in 1..n
        PROVE  out[j].path = trace[j].path /\ out[j].text \in Alone(trace[j], "detailed", M)
    <3>1. PICK leaf, x : leaf = trace[j] /\ x = out[j]
      OBVIOUS
    <3>2. leaf \in Leaves
      BY <2>1, <2>2, <3>1
    <3>3. x = IF leaf.string THEN [leaf EXCEPT !.text = ScrubString(leaf.text)] ELSE leaf
      BY <2>2, <3>1
    <3>4. x.path = leaf.path /\ x.text = (IF leaf.string THEN ScrubString(leaf.text) ELSE leaf.text)
      BY <3>2, <3>3 DEF Leaves
    <3>. QED
      BY <3>1, <3>4 DEF Alone
  <2>. QED
    BY <2>1, <2>2, <2>3, <2>4
<1>. QED
  BY <1>1, <1>2, <1>3, <1>4 DEF AsAlone

LEMMA AsGivenAlone ==
  ASSUME NEW batch \in Seq(Seq(Leaves)), NEW M
  PROVE  AsAlone(batch, batch, "generic", M)
BY DEF AsAlone, Alone

LEMMA NothingAlone ==
  ASSUME NEW level, NEW M PROVE AsAlone(<<>>, <<>>, level, M)
BY DEF AsAlone

LEMMA MoreModels ==
  ASSUME NEW in, NEW out, NEW level, NEW M, NEW N, M \subseteq N, AsAlone(in, out, level, M)
  PROVE  AsAlone(in, out, level, N)
<1>1. \A leaf : Alone(leaf, level, M) \subseteq Alone(leaf, level, N)
  BY DEF Alone
<1>. QED
  BY <1>1 DEF AsAlone

-----------------------------------------------------------------------------
(* What is known of a text is what a loaded model made of it.              *)

Knows(known, M) == \A t \in DOMAIN known : \E b \in M : known[t] = ScrubWithNer(b, t)

JobInv(j, M) ==
  /\ j = [pc |-> j.pc, level |-> j.level, batch |-> j.batch, misses |-> j.misses,
          known |-> j.known, probes |-> j.probes, answer |-> j.answer]
  /\ j.pc \in {"idle", "begin", "look_up", "infer", "insert"}
  /\ j.pc # "idle" => j.batch \in Batches
  /\ j.pc \in {"look_up", "infer", "insert"} => j.level = "full_traces"
  /\ j.pc \in {"infer", "insert"} =>
       /\ Knows(j.known, M)
       /\ ToSet(NerInputs(j.batch)) \subseteq j.misses \cup DOMAIN j.known
  /\ j.pc = "insert" => j.misses \subseteq DOMAIN j.known
  /\ j.pc = "idle" /\ j.level \in TraceLevels \ {"unknown"} /\ j.answer.error = None =>
       AsAlone(j.batch, j.answer.traces, j.level, M)

ScrubInv ==
  /\ backend = [c \in {"candle", "ort"} |-> backend[c]]
  /\ job = [w \in Workers |-> job[w]]
  /\ Knows(cache, Models)
  /\ \A w \in Workers : JobInv(job[w], Models)

LEMMA KnowsMore ==
  ASSUME NEW known, NEW M, NEW N, M \subseteq N, Knows(known, M) PROVE Knows(known, N)
BY DEF Knows

LEMMA JobInvStays ==
  ASSUME NEW j, NEW M, NEW N, M \subseteq N, JobInv(j, M) PROVE JobInv(j, N)
<1>1. Knows(j.known, M) => Knows(j.known, N)
  BY KnowsMore
<1>2. AsAlone(j.batch, j.answer.traces, j.level, M) => AsAlone(j.batch, j.answer.traces, j.level, N)
  BY MoreModels
<1>. QED
  BY <1>1, <1>2 DEF JobInv

(* A step of worker w that keeps to its own job.                           *)
LEMMA OneWorkerSteps ==
  ASSUME ScrubInv, NEW w \in Workers, NEW j, job' = [job EXCEPT ![w] = j],
         backend' = [c \in {"candle", "ort"} |-> backend'[c]],
         Models \subseteq Models', Knows(cache', Models'), JobInv(j, Models')
  PROVE  ScrubInv'
<1>1. job' = [v \in Workers |-> job'[v]] /\ job'[w] = j
      /\ \A v \in Workers \ {w} : job'[v] = job[v]
  BY DEF ScrubInv
<1>2. \A v \in Workers : JobInv(job[v], Models')
  <2>1. PICK M, N : M = Models /\ N = Models'
    OBVIOUS
  <2>2. \A v \in Workers : JobInv(job[v], M)
    BY <2>1 DEF ScrubInv
  <2>3. \A v \in Workers : JobInv(job[v], N)
    BY <2>1, <2>2, JobInvStays
  <2>. QED
    BY <2>1, <2>3
<1>3. \A v \in Workers : JobInv(job'[v], Models')
  BY <1>1, <1>2
<1>. QED
  BY <1>1, <1>3 DEF ScrubInv

-----------------------------------------------------------------------------
(* What a call returns.                                                    *)

LEMMA CheckedGives ==
  ASSUME NEW values, NEW probes, NEW n \in Nat, DOMAIN values = 1..n,
         Checked(values, probes).error = None
  PROVE  Checked(values, probes).traces = values
<1>. DEFINE refusal(i) == IF YearResidue(values[i]) THEN "YearResidue"
                          ELSE IF ProbeMatch(values[i], probes[i]) THEN "ProbeMatch" ELSE None
            refused == {i \in DOMAIN values : refusal(i) # None}
<1>1. Checked(values, probes) =
        IF refused = {} THEN Ok(values)
        ELSE Err(refusal(CHOOSE i \in refused : \A j \in refused : i <= j))
  BY DEF Checked
<1>2. CASE refused = {}
  BY <1>1, <1>2 DEF Ok
<1>3. CASE refused # {}
  <2>1. refused \subseteq Nat
    OBVIOUS
  <2>. HIDE DEF refused
  <2>2. \E i \in refused : \A j \in refused : i <= j
    BY <1>3, <2>1, SmallestNumber
  <2>3. (CHOOSE i \in refused : \A j \in refused : i <= j) \in refused
    BY <2>2
  <2>4. PICK i \in refused : Checked(values, probes) = Err(refusal(i))
    BY <1>1, <1>3, <2>3
  <2>5. Checked(values, probes).error = refusal(i)
    BY <2>4 DEF Err
  <2>6. refusal(i) # None
    BY DEF refused
  <2>. QED
    BY <2>5, <2>6
<1>. QED
  BY <1>2, <1>3

(* What a worker's job is after it returns.                                *)
Returned(j, answer, probes) ==
  IF answer.error = None
  THEN [Idle EXCEPT !.level = j.level, !.batch = j.batch, !.probes = probes, !.answer = answer]
  ELSE [Idle EXCEPT !.answer = answer]

LEMMA ReturnedIsSound ==
  ASSUME NEW j, NEW answer, NEW probes, NEW M,
         answer.error = None /\ j.level \in TraceLevels \ {"unknown"} =>
           AsAlone(j.batch, answer.traces, j.level, M)
  PROVE  JobInv(Returned(j, answer, probes), M)
<1>1. PICK r : r = Returned(j, answer, probes)
  OBVIOUS
<1>2. None \notin TraceLevels
  BY ScrubAssumption
<1>3. CASE answer.error = None
  <2>1. r = [pc |-> "idle", level |-> j.level, batch |-> j.batch, misses |-> {},
             known |-> <<>>, probes |-> probes, answer |-> answer]
    BY <1>1, <1>3 DEF Returned, Idle
  <2>. QED
    BY <1>1, <2>1 DEF JobInv
<1>4. CASE answer.error # None
  <2>1. r = [pc |-> "idle", level |-> None, batch |-> <<>>, misses |-> {},
             known |-> <<>>, probes |-> <<>>, answer |-> answer]
    BY <1>1, <1>4 DEF Returned, Idle
  <2>. QED
    BY <1>1, <1>2, <2>1 DEF JobInv
<1>. QED
  BY <1>3, <1>4

LEMMA ReturnGives ==
  ASSUME NEW w, NEW answer, NEW probes, ReturnWith(w, answer, probes)
  PROVE  job' = [job EXCEPT ![w] = Returned(job[w], answer, probes)]
BY DEF ReturnWith, Returned

LEMMA ErrorIsSound ==
  ASSUME NEW j, NEW e \in ScrubErrors, NEW probes, NEW M
  PROVE  JobInv(Returned(j, Err(e), probes), M)
<1>1. Err(e).error # None
  BY ScrubAssumption DEF Err
<1>. QED
  BY <1>1, ReturnedIsSound

(* The checks turn a batch down or give it back as it was walked.          *)
LEMMA CheckedIsSound ==
  ASSUME NEW j, NEW values, NEW probes, NEW M, NEW n \in Nat, DOMAIN values = 1..n,
         AsAlone(j.batch, values, j.level, M)
  PROVE  JobInv(Returned(j, Checked(values, probes), probes), M)
<1>1. Checked(values, probes).error = None => Checked(values, probes).traces = values
  BY CheckedGives
<1>. QED
  BY <1>1, ReturnedIsSound

-----------------------------------------------------------------------------
(* The backends: a model that is loaded stays.                             *)

LEMMA LoadedStays ==
  ASSUME ScrubInv, backend' \in GetOrInit
  PROVE  /\ backend' = [c \in {"candle", "ort"} |-> backend'[c]]
         /\ Models \subseteq Models'
         /\ IsConfigured(backend') => backend'[Choice] \in Models'
<1>1. Choice \in {"candle", "ort"}
  BY DEF Choice
<1>2. PICK o, n, c : o = backend /\ n = backend' /\ c = Choice
  OBVIOUS
<1>3. o = [d \in {"candle", "ort"} |-> o[d]] /\ c \in {"candle", "ort"}
  BY <1>1, <1>2 DEF ScrubInv
<1>4. ASSUME NEW model, NEW cfg PROVE Load(model, cfg) # Unloaded
  <2>1. PICK labels : labels = ParseLabels(model, cfg)
    OBVIOUS
  <2>2. \/ Load(model, cfg) = Failed
        \/ labels # <<>> /\ Load(model, cfg) = [model |-> model, labels |-> labels]
    BY <2>1, Zenon DEF Load
  <2>3. Failed.model # Unloaded.model
    <3>1. None # "failed"
      BY ScrubAssumption
    <3>. QED
      BY <3>1 DEF Failed, Unloaded
  <2>4. Unloaded.labels = <<>>
    BY DEF Unloaded
  <2>5. CASE labels # <<>> /\ Load(model, cfg) = [model |-> model, labels |-> labels]
    <3>1. Load(model, cfg).labels = labels
      BY <2>5
    <3>. QED
      BY <2>4, <2>5, <3>1
  <2>. QED
    BY <2>2, <2>3, <2>5
<1>5. CASE o[c] # Unloaded
  <2>1. n = o
    BY <1>2, <1>5 DEF GetOrInit
  <2>2. Models' = Models
    BY <1>2, <2>1 DEF Models
  <2>3. IsConfigured(backend') => backend'[Choice] \in Models'
    BY <1>2, <1>3, <1>5, <2>1, <2>2 DEF IsConfigured, Models
  <2>. QED
    BY <1>2, <1>3, <2>1, <2>2, <2>3
<1>6. CASE o[c] = Unloaded
  <2>1. PICK b : /\ n = [o EXCEPT ![c] = b]
                 /\ b = Failed \/ \E cfg \in Configs : b = Load(backbone, cfg)
    BY <1>2, <1>6 DEF GetOrInit
  <2>2. n = [d \in {"candle", "ort"} |-> n[d]] /\ n[c] = b
        /\ \A d \in {"candle", "ort"} \ {c} : n[d] = o[d]
    BY <1>3, <2>1
  <2>3. Models = {o[d] : d \in {x \in {"candle", "ort"} : o[x] \notin {Unloaded, Failed}}}
    BY <1>2, <1>3 DEF Models
  <2>4. Models' = {n[d] : d \in {x \in {"candle", "ort"} : n[x] \notin {Unloaded, Failed}}}
    BY <1>2, <2>2 DEF Models
  <2>5. Models \subseteq Models'
    BY <1>6, <2>2, <2>3, <2>4
  <2>6. IsConfigured(backend') => backend'[Choice] \in Models'
    <3>1. SUFFICES ASSUME n[c] # Failed PROVE n[c] \in Models'
      BY <1>2 DEF IsConfigured
    <3>2. b # Unloaded
      BY <1>4, <2>1, <2>2, <3>1
    <3>. QED
      BY <1>3, <2>2, <2>4, <3>1, <3>2
  <2>. QED
    BY <1>2, <2>2, <2>5, <2>6
<1>. QED
  BY <1>5, <1>6

-----------------------------------------------------------------------------
(* Each step keeps what is known true.                                     *)

LEMMA CacheStays ==
  ASSUME ScrubInv, cache' = cache, Models \subseteq Models'
  PROVE  Knows(cache', Models')
<1>1. PICK M, N, c : M = Models /\ N = Models' /\ c = cache
  OBVIOUS
<1>2. Knows(c, M)
  BY <1>1 DEF ScrubInv
<1>3. Knows(c, N)
  BY <1>1, <1>2, KnowsMore
<1>. QED
  BY <1>1, <1>3

LEMMA InputsAreTexts ==
  ASSUME NEW batch \in Seq(Seq(Leaves)) PROVE NerInputs(batch) \in Seq(ScrubTexts)
<1>1. Len(batch) \in Nat
  OBVIOUS
<1>2. CASE Len(batch) = 0
  <2>1. PICK v : Joins(v, batch, Len(batch)) /\ \A n : InputsUpTo(batch, n) = v[n]
    BY <1>1, JoinUnfolds
  <2>2. v[0] = JoinStep(v, batch, 0)
    BY <1>2, <2>1 DEF Joins
  <2>3. v[0] = <<>>
    BY <2>2 DEF JoinStep
  <2>4. NerInputs(batch) = v[0]
    BY <1>2, <2>1 DEF NerInputs
  <2>. QED
    BY <2>3, <2>4, EmptyIsSeq, Zenon
<1>3. CASE Len(batch) # 0
  <2>1. 1 \in 1..Len(batch)
    BY <1>1, <1>3
  <2>. QED
    BY <2>1, InputsInPlace DEF InPlace
<1>. QED
  BY <1>2, <1>3

LEMMA OutputsAreMade ==
  ASSUME NEW batch \in Seq(Seq(Leaves)), NEW known, NEW M, Knows(known, M),
         ToSet(NerInputs(batch)) \subseteq DOMAIN known
  PROVE  MadeBy(Outputs(batch, known), NerInputs(batch), M)
<1>1. PICK outs, ins, n : /\ outs = Outputs(batch, known) /\ ins = NerInputs(batch)
                             /\ n = Len(ins)
  OBVIOUS
<1>2. ins \in Seq(ScrubTexts)
  BY <1>1, InputsAreTexts
<1>3. n \in Nat /\ DOMAIN ins = 1..n
  BY <1>1, <1>2
<1>4. outs = [k \in 1..n |-> known[ins[k]]]
  BY <1>1, <1>3 DEF Outputs
<1>5. Len(outs) = n /\ outs \in Seq({outs[k] : k \in 1..n})
  <2>1. outs = [k \in 1..n |-> outs[k]]
    BY <1>4
  <2>. QED
    BY <1>3, <2>1, ListOf
<1>6. ASSUME NEW k \in 1..n PROVE \E b \in M : outs[k] = ScrubWithNer(b, ins[k])
  <2>1. ins[k] \in ToSet(ins)
    BY <1>3 DEF ToSet
  <2>2. ins[k] \in DOMAIN known
    BY <1>1, <2>1
  <2>. QED
    BY <1>4, <2>2 DEF Knows
<1>. QED
  BY <1>1, <1>5, <1>6 DEF MadeBy

LEMMA WalkedBatch ==
  ASSUME NEW batch \in Seq(Seq(Leaves)), NEW outs
  PROVE  Len(batch) \in Nat /\ DOMAIN WalkBatch(batch, outs) = 1..Len(batch)
BY DEF WalkBatch

LEMMA BatchesAreLists ==
  ASSUME NEW w \in Workers, ScrubInv, job[w].pc # "idle"
  PROVE  job[w].batch \in Seq(Seq(Leaves))
BY ScrubAssumption DEF ScrubInv, JobInv

LEMMA StepArrives ==
  ASSUME ScrubInv, NEW w \in Workers, NEW level \in TraceLevels, NEW batch \in Batches,
         ScrubTracesBatch(w, level, batch)
  PROVE  ScrubInv'
<1>1. PICK j : j = [Idle EXCEPT !.pc = "begin", !.level = level, !.batch = batch]
  OBVIOUS
<1>2. j = [pc |-> "begin", level |-> level, batch |-> batch, misses |-> {},
           known |-> <<>>, probes |-> <<>>, answer |-> Err(None)]
  BY <1>1 DEF Idle
<1>3. job' = [job EXCEPT ![w] = j] /\ backend' = backend /\ cache' = cache
  BY <1>1 DEF ScrubTracesBatch
<1>4. Models' = Models
  BY <1>3 DEF Models
<1>5. JobInv(j, Models')
  BY <1>2 DEF JobInv
<1>6. backend' = [c \in {"candle", "ort"} |-> backend'[c]] /\ Knows(cache', Models')
  BY <1>3, <1>4 DEF ScrubInv
<1>. QED
  BY <1>3, <1>4, <1>5, <1>6, OneWorkerSteps

(* A return that leaves the cache alone.                                   *)
LEMMA StepReturns ==
  ASSUME ScrubInv, NEW w \in Workers, NEW answer, NEW probes,
         ReturnWith(w, answer, probes), cache' = cache,
         backend' = [c \in {"candle", "ort"} |-> backend'[c]], Models \subseteq Models',
         JobInv(Returned(job[w], answer, probes), Models')
  PROVE  ScrubInv'
<1>1. job' = [job EXCEPT ![w] = Returned(job[w], answer, probes)]
  BY ReturnGives
<1>2. Knows(cache', Models')
  BY CacheStays
<1>. QED
  BY <1>1, <1>2, OneWorkerSteps

LEMMA StepWithoutNer ==
  ASSUME ScrubInv, NEW w \in Workers, WithoutNer(w)
  PROVE  ScrubInv'
<1>1. PICK j : j = job[w]
  OBVIOUS
<1>2. j.pc = "begin" /\ cache' = cache /\ backend' = backend
  BY <1>1 DEF WithoutNer
<1>3. backend' = [c \in {"candle", "ort"} |-> backend'[c]] /\ Models \subseteq Models'
  <2>1. Models' = Models
    BY <1>2 DEF Models
  <2>. QED
    BY <1>2, <2>1 DEF ScrubInv
<1>4. j.batch \in Seq(Seq(Leaves))
  BY <1>1, <1>2, BatchesAreLists
<1>5. ASSUME NEW answer, NEW probes, ReturnWith(w, answer, probes),
             JobInv(Returned(j, answer, probes), Models')
      PROVE  ScrubInv'
  BY <1>1, <1>2, <1>3, <1>5, StepReturns
<1>6. CASE Return(w, Err("InvalidLevel"))
  BY <1>5, <1>6, ErrorIsSound DEF Return, ScrubErrors
<1>7. CASE Return(w, Err("WalkerDepthExceeded"))
  BY <1>5, <1>7, ErrorIsSound DEF Return, ScrubErrors
<1>8. CASE j.batch = <<>> /\ Return(w, Ok(<<>>))
  <2>1. Ok(<<>>).traces = <<>>
    BY DEF Ok
  <2>2. AsAlone(j.batch, Ok(<<>>).traces, j.level, Models')
    BY <1>8, <2>1, NothingAlone, Zenon
  <2>. QED
    BY <1>5, <1>8, <2>2, ReturnedIsSound DEF Return
<1>9. CASE j.level = "generic" /\ Return(w, Ok(j.batch))
  <2>1. Ok(j.batch).traces = j.batch
    BY DEF Ok
  <2>2. AsAlone(j.batch, Ok(j.batch).traces, j.level, Models')
    BY <1>4, <1>9, <2>1, AsGivenAlone
  <2>. QED
    BY <1>5, <1>9, <2>2, ReturnedIsSound DEF Return
<1>10. CASE /\ j.level = "detailed"
            /\ ReturnChecked(w, [i \in DOMAIN j.batch |-> WalkRegexOnly(j.batch[i])])
  <2>1. PICK n, walked : /\ n = Len(j.batch)
                         /\ walked = [i \in DOMAIN j.batch |-> WalkRegexOnly(j.batch[i])]
    OBVIOUS
  <2>2. n \in Nat /\ DOMAIN walked = 1..n
    BY <1>4, <2>1
  <2>3. AsAlone(j.batch, walked, j.level, Models')
    BY <1>4, <1>10, <2>1, RegexOnlyAlone
  <2>4. \A probes : JobInv(Returned(j, Checked(walked, probes), probes), Models')
    BY <2>2, <2>3, CheckedIsSound
  <2>5. PICK probes : ReturnWith(w, Checked(walked, probes), probes)
    BY <1>10, <2>1 DEF ReturnChecked
  <2>. QED
    BY <1>5, <2>4, <2>5
<1>. QED
  BY <1>1, <1>6, <1>7, <1>8, <1>9, <1>10 DEF WithoutNer

(* The second walk over outputs that loaded models made.                   *)
LEMMA WalkIsSound ==
  ASSUME NEW j, NEW outs, NEW probes, NEW M, j.batch \in Seq(Seq(Leaves)),
         j.level = "full_traces", MadeBy(outs, NerInputs(j.batch), M)
  PROVE  JobInv(Returned(j, Checked(WalkBatch(j.batch, outs), probes), probes), M)
<1>1. PICK n, walked : n = Len(j.batch) /\ walked = WalkBatch(j.batch, outs)
  OBVIOUS
<1>2. n \in Nat /\ DOMAIN walked = 1..n
  BY <1>1, WalkedBatch
<1>3. AsAlone(j.batch, walked, j.level, M)
  BY <1>1, WalkedAlone
<1>. QED
  BY <1>1, <1>2, <1>3, CheckedIsSound

LEMMA StepCollects ==
  ASSUME ScrubInv, NEW w \in Workers, Collect(w)
  PROVE  ScrubInv'
<1>1. PICK j : j = job[w]
  OBVIOUS
<1>2. j.pc = "begin" /\ j.level = "full_traces" /\ cache' = cache /\ backend' \in GetOrInit
  BY <1>1 DEF Collect
<1>3. backend' = [c \in {"candle", "ort"} |-> backend'[c]] /\ Models \subseteq Models'
  BY <1>2, LoadedStays
<1>4. j.batch \in Seq(Seq(Leaves)) /\ j.batch \in Batches
  BY <1>1, <1>2, BatchesAreLists DEF ScrubInv, JobInv
<1>5. ASSUME NEW answer, NEW probes, ReturnWith(w, answer, probes),
             JobInv(Returned(j, answer, probes), Models')
      PROVE  ScrubInv'
  BY <1>1, <1>2, <1>3, <1>5, StepReturns
<1>6. CASE Return(w, Err("NerNotConfigured"))
  BY <1>5, <1>6, ErrorIsSound DEF Return, ScrubErrors
<1>7. CASE Return(w, Err("WalkerDepthExceeded"))
  BY <1>5, <1>7, ErrorIsSound DEF Return, ScrubErrors
<1>8. CASE NerInputs(j.batch) = <<>> /\ ReturnChecked(w, WalkBatch(j.batch, <<>>))
  <2>1. MadeBy(<<>>, NerInputs(j.batch), Models')
    <3>1. MadeBy(<<>>, <<>>, Models')
      BY DEF MadeBy
    <3>. QED
      BY <1>8, <3>1, Zenon
  <2>2. PICK probes : ReturnWith(w, Checked(WalkBatch(j.batch, <<>>), probes), probes)
    BY <1>8 DEF ReturnChecked
  <2>3. JobInv(Returned(j, Checked(WalkBatch(j.batch, <<>>), probes), probes), Models')
    BY <1>2, <1>4, <2>1, WalkIsSound
  <2>. QED
    BY <1>5, <2>2, <2>3
<1>9. CASE job' = [job EXCEPT ![w].pc = "look_up"]
  <2>1. PICK k : k = [j EXCEPT !.pc = "look_up"]
    OBVIOUS
  <2>2. j = [pc |-> j.pc, level |-> j.level, batch |-> j.batch, misses |-> j.misses,
             known |-> j.known, probes |-> j.probes, answer |-> j.answer]
    BY <1>1 DEF ScrubInv, JobInv
  <2>3. k = [pc |-> "look_up", level |-> j.level, batch |-> j.batch, misses |-> j.misses,
             known |-> j.known, probes |-> j.probes, answer |-> j.answer]
    BY <2>1, <2>2
  <2>4. JobInv(k, Models')
    BY <1>2, <1>4, <2>3 DEF JobInv
  <2>5. job' = [job EXCEPT ![w] = k]
    BY <1>1, <1>9, <2>1
  <2>6. Knows(cache', Models')
    BY <1>2, <1>3, CacheStays
  <2>. QED
    BY <1>3, <2>4, <2>5, <2>6, OneWorkerSteps
<1>. QED
  BY <1>1, <1>6, <1>7, <1>8, <1>9 DEF Collect

LEMMA StepLooksUp ==
  ASSUME ScrubInv, NEW w \in Workers, LookUp(w)
  PROVE  ScrubInv'
<1>1. PICK j, texts, hits, found :
        /\ j = job[w] /\ texts = ToSet(NerInputs(j.batch)) /\ hits = texts \cap DOMAIN cache
        /\ found = [t \in hits |-> cache[t]]
  OBVIOUS
<1>2. j.pc = "look_up" /\ cache' = cache /\ backend' \in GetOrInit
  BY <1>1 DEF LookUp
<1>3. backend' = [c \in {"candle", "ort"} |-> backend'[c]] /\ Models \subseteq Models'
  BY <1>2, LoadedStays
<1>4. j.batch \in Seq(Seq(Leaves)) /\ j.batch \in Batches /\ j.level = "full_traces"
  BY <1>1, <1>2, BatchesAreLists DEF ScrubInv, JobInv
<1>5. ASSUME NEW answer, NEW probes, ReturnWith(w, answer, probes),
             JobInv(Returned(j, answer, probes), Models')
      PROVE  ScrubInv'
  BY <1>1, <1>2, <1>3, <1>5, StepReturns
<1>6. Knows(cache', Models')
  BY <1>2, <1>3, CacheStays
<1>7. Knows(found, Models')
  <2>1. Knows(cache, Models')
    BY <1>2, <1>6
  <2>. QED
    BY <1>1, <2>1 DEF Knows
<1>8. CASE Return(w, Err("NerNotConfigured"))
  BY <1>5, <1>8, ErrorIsSound DEF Return, ScrubErrors
<1>9. CASE hits = texts /\ ReturnChecked(w, WalkBatch(j.batch, Outputs(j.batch, found)))
  <2>1. texts \subseteq DOMAIN found
    BY <1>1, <1>9
  <2>2. MadeBy(Outputs(j.batch, found), NerInputs(j.batch), Models')
    BY <1>1, <1>4, <1>7, <2>1, OutputsAreMade
  <2>3. PICK probes :
          ReturnWith(w, Checked(WalkBatch(j.batch, Outputs(j.batch, found)), probes), probes)
    BY <1>9 DEF ReturnChecked
  <2>4. JobInv(Returned(j, Checked(WalkBatch(j.batch, Outputs(j.batch, found)), probes), probes),
               Models')
    BY <1>4, <2>2, WalkIsSound
  <2>. QED
    BY <1>5, <2>3, <2>4
<1>10. CASE job' = [job EXCEPT ![w].pc = "infer", ![w].known = found, ![w].misses = texts \ hits]
  <2>1. PICK k : k = [j EXCEPT !.pc = "infer", !.known = found, !.misses = texts \ hits]
    OBVIOUS
  <2>2. j = [pc |-> j.pc, level |-> j.level, batch |-> j.batch, misses |-> j.misses,
             known |-> j.known, probes |-> j.probes, answer |-> j.answer]
    BY <1>1 DEF ScrubInv, JobInv
  <2>3. k = [pc |-> "infer", level |-> j.level, batch |-> j.batch, misses |-> texts \ hits,
             known |-> found, probes |-> j.probes, answer |-> j.answer]
    BY <2>1, <2>2
  <2>4. ToSet(NerInputs(k.batch)) \subseteq k.misses \cup DOMAIN k.known
    BY <1>1, <2>3
  <2>5. JobInv(k, Models')
    BY <1>4, <1>7, <2>3, <2>4 DEF JobInv
  <2>6. job' = [job EXCEPT ![w] = k]
    BY <1>1, <1>10, <2>1 DEF ScrubInv
  <2>. QED
    BY <1>3, <1>6, <2>5, <2>6, OneWorkerSteps
<1>. QED
  BY <1>1, <1>8, <1>9, <1>10 DEF LookUp

LEMMA StepInfers ==
  ASSUME ScrubInv, NEW w \in Workers, Infer(w)
  PROVE  ScrubInv'
<1>1. PICK j, b : j = job[w] /\ b = backend'[Choice]
  OBVIOUS
<1>2. j.pc = "infer" /\ cache' = cache /\ backend' \in GetOrInit
  BY <1>1 DEF Infer
<1>3. /\ backend' = [c \in {"candle", "ort"} |-> backend'[c]] /\ Models \subseteq Models'
      /\ b # Failed => b \in Models'
  BY <1>1, <1>2, LoadedStays DEF IsConfigured
<1>4. JobInv(j, Models')
  <2>1. PICK M, N : M = Models /\ N = Models'
    OBVIOUS
  <2>2. JobInv(j, M)
    BY <1>1, <2>1 DEF ScrubInv
  <2>3. JobInv(j, N)
    BY <1>3, <2>1, <2>2, JobInvStays
  <2>. QED
    BY <2>1, <2>3
<1>5. ASSUME NEW answer, NEW probes, ReturnWith(w, answer, probes),
             JobInv(Returned(j, answer, probes), Models')
      PROVE  ScrubInv'
  BY <1>1, <1>2, <1>3, <1>5, StepReturns
<1>6. CASE Return(w, Err("NerNotConfigured"))
  BY <1>5, <1>6, ErrorIsSound DEF Return, ScrubErrors
<1>7. CASE Return(w, Err("NerFailed"))
  BY <1>5, <1>7, ErrorIsSound DEF Return, ScrubErrors
<1>. DEFINE known == [t \in j.misses \cup DOMAIN j.known |->
                        IF t \in j.misses THEN ScrubWithNer(b, t) ELSE j.known[t]]
<1>8. CASE /\ b # Failed
           /\ job' = [job EXCEPT ![w].pc = "insert", ![w].known = known]
  <2>1. PICK k : k = [j EXCEPT !.pc = "insert", !.known = known]
    OBVIOUS
  <2>2. Knows(known, Models')
    <3>1. Knows(j.known, Models')
      BY <1>2, <1>4 DEF JobInv
    <3>. QED
      BY <1>3, <1>8, <3>1 DEF Knows
  <2>3. j.misses \subseteq DOMAIN known
        /\ ToSet(NerInputs(j.batch)) \subseteq j.misses \cup DOMAIN known
    BY <1>2, <1>4 DEF JobInv
  <2>. HIDE DEF known
  <2>4. j = [pc |-> j.pc, level |-> j.level, batch |-> j.batch, misses |-> j.misses,
             known |-> j.known, probes |-> j.probes, answer |-> j.answer]
    BY <1>4 DEF JobInv
  <2>5. k = [pc |-> "insert", level |-> j.level, batch |-> j.batch, misses |-> j.misses,
             known |-> known, probes |-> j.probes, answer |-> j.answer]
    BY <2>1, <2>4
  <2>6. j.batch \in Batches /\ j.level = "full_traces"
    BY <1>2, <1>4 DEF JobInv
  <2>7. JobInv(k, Models')
    BY <2>2, <2>3, <2>5, <2>6 DEF JobInv
  <2>8. job' = [job EXCEPT ![w] = k]
    BY <1>1, <1>8, <2>1 DEF ScrubInv
  <2>9. Knows(cache', Models')
    BY <1>2, <1>3, CacheStays
  <2>. QED
    BY <1>3, <2>7, <2>8, <2>9, OneWorkerSteps
<1>. QED
  BY <1>1, <1>6, <1>7, <1>8 DEF Infer

LEMMA StepInserts ==
  ASSUME ScrubInv, NEW w \in Workers, Insert(w)
  PROVE  ScrubInv'
<1>1. PICK j, c, outs : j = job[w] /\ c = cache /\ outs = Outputs(j.batch, j.known)
  OBVIOUS
<1>2. /\ j.pc = "insert" /\ backend' = backend
      /\ cache' = [t \in j.misses \cup DOMAIN c |-> IF t \in j.misses THEN j.known[t] ELSE c[t]]
      /\ ReturnChecked(w, WalkBatch(j.batch, outs))
  BY <1>1 DEF Insert
<1>3. backend' = [d \in {"candle", "ort"} |-> backend'[d]] /\ Models' = Models
  <2>1. Models' = Models
    BY <1>2 DEF Models
  <2>. QED
    BY <1>2, <2>1 DEF ScrubInv
<1>4. JobInv(j, Models') /\ Knows(c, Models')
  BY <1>1, <1>3 DEF ScrubInv
<1>5. /\ Knows(j.known, Models') /\ j.misses \subseteq DOMAIN j.known
      /\ ToSet(NerInputs(j.batch)) \subseteq DOMAIN j.known /\ j.level = "full_traces"
  BY <1>2, <1>4 DEF JobInv
<1>6. Knows(cache', Models')
  BY <1>2, <1>4, <1>5 DEF Knows
<1>7. j.batch \in Seq(Seq(Leaves))
  BY <1>1, <1>2, BatchesAreLists
<1>8. MadeBy(outs, NerInputs(j.batch), Models')
  BY <1>1, <1>5, <1>7, OutputsAreMade
<1>9. PICK probes : ReturnWith(w, Checked(WalkBatch(j.batch, outs), probes), probes)
  BY <1>2 DEF ReturnChecked
<1>10. JobInv(Returned(j, Checked(WalkBatch(j.batch, outs), probes), probes), Models')
  BY <1>5, <1>7, <1>8, WalkIsSound
<1>11. job' = [job EXCEPT ![w] = Returned(j, Checked(WalkBatch(j.batch, outs), probes), probes)]
  BY <1>1, <1>9, ReturnGives
<1>. QED
  BY <1>3, <1>6, <1>10, <1>11, OneWorkerSteps

LEMMA ScrubInitInv == ScrubInit => ScrubInv
<1>. SUFFICES ASSUME ScrubInit PROVE ScrubInv
  OBVIOUS
<1>1. /\ backend = [c \in {"candle", "ort"} |-> Unloaded] /\ cache = <<>>
      /\ job = [w \in Workers |-> Idle]
  BY DEF ScrubInit
<1>2. Knows(<<>>, Models)
  BY DEF Knows
<1>3. Idle = [pc |-> "idle", level |-> None, batch |-> <<>>, misses |-> {},
              known |-> <<>>, probes |-> <<>>, answer |-> Err(None)]
  BY DEF Idle
<1>4. None \notin TraceLevels
  BY ScrubAssumption
<1>5. JobInv(Idle, Models)
  BY <1>3, <1>4 DEF JobInv
<1>6. Knows(cache, Models)
  BY <1>1, <1>2, Zenon
<1>7. backend = [c \in {"candle", "ort"} |-> backend[c]] /\ job = [w \in Workers |-> job[w]]
      /\ \A w \in Workers : job[w] = Idle
  BY <1>1
<1>. QED
  BY <1>5, <1>6, <1>7 DEF ScrubInv

LEMMA ScrubNextInv == ScrubInv /\ [ScrubNext]_scrubVars => ScrubInv'
<1>. SUFFICES ASSUME ScrubInv, [ScrubNext]_scrubVars PROVE ScrubInv'
  OBVIOUS
<1>1. CASE UNCHANGED <<backend, cache, job>>
  <2>1. Models' = Models
    BY <1>1 DEF Models
  <2>. QED
    BY <1>1, <2>1 DEF ScrubInv
<1>2. CASE SetEnv
  BY <1>1, <1>2 DEF SetEnv
<1>3. CASE UNCHANGED scrubVars
  BY <1>1, <1>3 DEF scrubVars
<1>. QED
  BY <1>2, <1>3, StepArrives, StepWithoutNer, StepCollects, StepLooksUp, StepInfers, StepInserts
     DEF ScrubNext

(* ner.rs:119-190 and walker.rs:67-108, for any workers, batches, scopes,  *)
(* windows and checkpoints: batching, deduplication, the shared cache and  *)
(* the other workers cannot be told from what a call returns.              *)
THEOREM BatchesAsIfAlone == ScrubSpec => []BatchingIsInvisible
<1>1. ScrubInv => BatchingIsInvisible
  <2>. SUFFICES ASSUME ScrubInv, NEW w \in Answered
                PROVE  AsAlone(job[w].batch, job[w].answer.traces, job[w].level, Models)
    BY DEF BatchingIsInvisible
  <2>. QED
    BY DEF Answered, ScrubInv, JobInv
<1>. QED
  BY <1>1, ScrubInitInv, ScrubNextInv, PTL DEF ScrubSpec
=============================================================================
