------------------------------- MODULE RowProofs -------------------------------
(***************************************************************************)
(* The rows of traces: what eviction never does and has done when its      *)
(* deletions end, for any passes, policies, batch size and bounds; and     *)
(* what extraction puts into a row, for any rules, components and bounds.  *)
(***************************************************************************)
EXTENDS Retention, Extraction, FiniteSetTheorems, WellFoundedInduction, TLAPS

----------------------------------------------------------------------------
(* The ends of a window of times.                                          *)

LEMMA MinIsLeast ==
  ASSUME NEW T, T \subseteq Nat, T # {}
  PROVE  Min(T) \in T /\ \A t \in T : Min(T) <= t
<1> DEFINE R == OpToRel(<, Nat)
<1>1. IsWellFoundedOn(R, Nat)
  BY NatLessThanWellFounded
<1>2. PICK x \in T : \A y \in T : ~ (<<y, x>> \in R)
  <2> HIDE DEF R
  <2>. QED
    BY <1>1, WFMin
<1>3. ASSUME NEW y \in T
      PROVE  x =< y
  <2>1. x \in Nat /\ y \in Nat /\ <<y, x>> \in Nat \X Nat
    OBVIOUS
  <2>2. <<y, x>> \notin R
    BY <1>2
  <2>3. ~ (y < x)
    BY <2>1, <2>2 DEF OpToRel
  <2>. QED
    BY <2>1, <2>3
<1>. QED
  BY <1>3 DEF Min

LEMMA MaxIsGreatest ==
  ASSUME NEW n \in Nat, NEW T, T \subseteq 0..n, T # {}
  PROVE  Max(T) \in T /\ \A t \in T : t <= Max(T)
<1> DEFINE U == {n - t : t \in T}
<1>1. U \subseteq Nat /\ U # {}
  <2>1. \A t \in T : n - t \in Nat
    OBVIOUS
  <2>. QED
    BY <2>1
<1>2. Min(U) \in U /\ \A v \in U : Min(U) <= v
  <2> HIDE DEF U
  <2>. QED
    BY <1>1, MinIsLeast
<1>3. PICK x \in T : Min(U) = n - x
  BY <1>2
<1>4. ASSUME NEW y \in T
      PROVE  x >= y
  <2>1. n - y \in U
    OBVIOUS
  <2>2. n - x <= n - y
    BY <1>2, <1>3, <2>1
  <2>3. x \in Int /\ y \in Int /\ n \in Int
    OBVIOUS
  <2>. QED
    BY <2>2, <2>3
<1>5. \A y \in T : x >= y
  BY <1>4
<1>6. Max(T) \in T /\ \A y \in T : Max(T) >= y
  BY <1>5 DEF Max
<1>7. \A t \in T : t \in Int
  OBVIOUS
<1>. QED
  BY <1>6, <1>7

LEMMA MaxOfTwo ==
  ASSUME NEW a \in Int, NEW b \in Int
  PROVE  Max({a, b}) \in {a, b} /\ Max({a, b}) >= a /\ Max({a, b}) >= b
<1>1. \E x \in {a, b} : \A y \in {a, b} : x >= y
  OBVIOUS
<1>2. Max({a, b}) \in {a, b} /\ \A y \in {a, b} : Max({a, b}) >= y
  BY <1>1 DEF Max
<1>. QED
  BY <1>2

LEMMA MinOfTwo ==
  ASSUME NEW a \in Nat, NEW b \in Nat
  PROVE  Min({a, b}) \in {a, b} /\ Min({a, b}) <= a /\ Min({a, b}) <= b
<1>1. {a, b} \subseteq Nat /\ {a, b} # {}
  OBVIOUS
<1>2. Min({a, b}) \in {a, b} /\ \A t \in {a, b} : Min({a, b}) <= t
  BY <1>1, MinIsLeast
<1>. QED
  BY <1>2

----------------------------------------------------------------------------
(* What a pass carries.  Its summary is of rows that were there, and the   *)
(* newest of them has not been lost to pressure: it, or a newer one, is    *)
(* still stored, or it is over age by now.  A cutoff is the one planned.   *)

OverAge(t) == MaxAge # None /\ t < clock - MaxAge

Window(s) ==
  /\ s.oldest \in Nat \cup {None} /\ s.newest \in Nat \cup {None}
  /\ s.oldest # None /\ s.newest # None => s.oldest <= s.newest

NewestKept(s) ==
  s.newest # None => OverAge(s.newest) \/ \E q \in store : q.ts >= s.newest

PlannedCutoff(j) ==
  /\ j = [pc |-> j.pc, summary |-> j.summary, now |-> j.now,
           cutoff |-> j.cutoff, archive |-> j.archive]
  /\ j.now \in 0..clock
  /\ j.cutoff = TighterOf(AgeCutoff(j.now), Midpoint(j.summary))
  /\ j.cutoff # None

PassInv(p) ==
  /\ pass[p].pc \in {"plan", "delete"} =>
       Window(pass[p].summary) /\ NewestKept(pass[p].summary)
  /\ pass[p].pc = "delete" => PlannedCutoff(pass[p])

RetentionInv == RetentionTypeOK /\ \A p \in Passes : PassInv(p)

LEMMA CutoffIsTyped ==
  ASSUME RetentionTypeOK, NEW s, Window(s), NEW now \in Nat
  PROVE  TighterOf(AgeCutoff(now), Midpoint(s)) \in Int \cup {None}
<1> DEFINE a == AgeCutoff(now)
           b == Midpoint(s)
<1>1. a \in Int \cup {None} /\ b \in Int \cup {None}
  BY RetentionAssumption DEF RetentionTypeOK, AgeCutoff, MaxAge, Midpoint, Window
<1> HIDE DEF a, b
<1>2. ASSUME a # None, b # None
      PROVE  Max({a, b}) \in Int
  <2>1. a \in Int /\ b \in Int
    BY <1>1, <1>2
  <2>. QED
    BY <2>1, MaxOfTwo
<1>3. TighterOf(a, b) \in Int \cup {None}
  BY <1>1, <1>2 DEF TighterOf
<1>. QED
  BY <1>3 DEF a, b

----------------------------------------------------------------------------
(* What is deleted.                                                        *)

(* A row before the cutoff of a pass is over age, or has the pressure and  *)
(* the midpoint of that pass against it and a newer row beside it.         *)
LEMMA BeforeCutoffIsDue ==
  ASSUME RetentionInv, NEW p \in Passes, pass[p].pc = "delete",
         NEW r \in store, r.ts < pass[p].cutoff
  PROVE  \/ OverAge(r.ts)
         \/ /\ \E q \in store : q.ts > r.ts
            /\ Pressured(pass[p].summary)
            /\ 2 * r.ts < pass[p].summary.oldest + pass[p].summary.newest
<1> DEFINE s == pass[p].summary
           now == pass[p].now
<1>1. /\ Window(s) /\ NewestKept(s) /\ now \in 0..clock
      /\ pass[p].cutoff = TighterOf(AgeCutoff(now), Midpoint(s))
      /\ pass[p].cutoff # None
  BY DEF RetentionInv, PassInv, PlannedCutoff
<1>2. /\ r.ts \in Nat /\ clock \in Nat /\ now \in Nat /\ now <= clock
      /\ MaxAge \in Nat \cup {None} /\ None \notin Int
  BY <1>1, RetentionAssumption DEF RetentionInv, RetentionTypeOK, Row, MaxAge
<1>3. CASE AgeCutoff(now) # None /\ r.ts < AgeCutoff(now)
  BY <1>2, <1>3 DEF AgeCutoff, OverAge
<1>4. CASE Midpoint(s) # None /\ r.ts < Midpoint(s)
  <2>1. /\ Pressured(s) /\ s.oldest \in Nat /\ s.newest \in Nat
        /\ s.oldest <= s.newest
        /\ Midpoint(s) = s.oldest + (s.newest - s.oldest) \div 2
    BY <1>1, <1>4 DEF Midpoint, Window
  <2>2. 2 * r.ts < s.oldest + s.newest /\ r.ts < s.newest
    <3> DEFINE o == s.oldest
               w == s.newest
               t == r.ts
    <3>1. o \in Nat /\ w \in Nat /\ t \in Nat /\ o <= w /\ t < o + (w - o) \div 2
      BY <1>2, <1>4, <2>1
    <3> HIDE DEF o, w, t
    <3>2. 2 * t < o + w /\ t < w
      BY <3>1
    <3>. QED
      BY <3>2 DEF o, w, t
  <2>3. CASE OverAge(s.newest)
    BY <1>2, <2>1, <2>2, <2>3 DEF OverAge
  <2>4. ASSUME NEW q \in store, q.ts >= s.newest
        PROVE  q.ts > r.ts
    <3>1. q.ts \in Nat
      BY DEF RetentionInv, RetentionTypeOK, Row
    <3>. QED
      BY <1>2, <2>1, <2>2, <2>4, <3>1
  <2>5. s.newest # None
    BY <1>2, <2>1
  <2>. QED
    BY <1>1, <2>1, <2>2, <2>3, <2>4, <2>5 DEF NewestKept
<1>5. \/ AgeCutoff(now) # None /\ r.ts < AgeCutoff(now)
      \/ Midpoint(s) # None /\ r.ts < Midpoint(s)
  <2>1. AgeCutoff(now) \in Int \cup {None}
    BY <1>2 DEF AgeCutoff
  <2>2. Midpoint(s) \in Int \cup {None}
    BY <1>1 DEF Midpoint, Window
  <2> DEFINE a == AgeCutoff(now)
             b == Midpoint(s)
  <2> HIDE DEF a, b
  <2>3. CASE a = None
    BY <1>1, <2>3 DEF TighterOf, a, b
  <2>4. CASE b = None
    BY <1>1, <2>4 DEF TighterOf, a, b
  <2>5. CASE a # None /\ b # None
    <3>1. Max({a, b}) \in {a, b}
      BY <1>2, <2>1, <2>2, <2>5, MaxOfTwo DEF a, b
    <3>2. pass[p].cutoff = Max({a, b})
      BY <1>1, <2>5 DEF TighterOf, a, b
    <3>. QED
      BY <2>5, <3>1, <3>2 DEF a, b
  <2>. QED
    BY <2>3, <2>4, <2>5
<1>. QED
  BY <1>3, <1>4, <1>5

(* A batch deletes rows that are stored, before the cutoff; a short batch, *)
(* all of them.                                                            *)
LEMMA BatchIsBeforeCutoff ==
  ASSUME RetentionInv, NEW p \in Passes, DeleteBatch(p)
  PROVE  /\ store' \subseteq store
         /\ \A r \in store \ store' : r.ts < pass[p].cutoff
         /\ disk' \in Cardinality(store')..disk
         /\ pass' = [pass EXCEPT ![p].pc = pass'[p].pc]
         /\ pass'[p].pc \in {"delete", "drained"}
         /\ pass'[p].pc = "drained" => \A r \in store' : ~ (r.ts < pass[p].cutoff)
<1> DEFINE old == Eligible(pass[p].cutoff)
           n   == Min({BatchSize, Cardinality(old)})
<1>1. PICK gone \in kSubset(n, old) : store' = store \ gone
  BY DEF DeleteBatch
<1>2. /\ disk' \in {disk, disk - n}
      /\ pass' = [pass EXCEPT ![p].pc = IF Drained(n) THEN "drained" ELSE "delete"]
  BY DEF DeleteBatch
<1>3. IsFiniteSet(store) /\ DOMAIN pass = Passes /\ disk \in Cardinality(store)..ingested
      /\ ingested \in Nat /\ BatchSize \in Nat
      /\ DOMAIN pass[p] = {"pc", "summary", "now", "cutoff", "archive"}
  BY RetentionAssumption DEF RetentionInv, RetentionTypeOK, PassInv, PlannedCutoff, DeleteBatch
<1>4. old \subseteq store /\ \A r \in store : r \in old <=> r.ts < pass[p].cutoff
  BY DEF Eligible
<1>5. IsFiniteSet(old) /\ Cardinality(old) \in Nat /\ Cardinality(store) \in Nat
  BY <1>3, <1>4, FS_Subset, FS_CardinalityType
<1>6. gone \subseteq old /\ Cardinality(gone) = n
  BY DEF kSubset
<1>7. n \in {BatchSize, Cardinality(old)} /\ n <= BatchSize /\ n <= Cardinality(old)
  BY <1>3, <1>5, MinOfTwo
<1>8. disk' \in Cardinality(store')..disk
  <2>1. store \cap gone = gone
    BY <1>4, <1>6
  <2>2. Cardinality(store') = Cardinality(store) - n
    <3>1. Cardinality(store \ gone) = Cardinality(store) - Cardinality(store \cap gone)
      BY <1>3, FS_Difference
    <3> HIDE DEF old, n
    <3>. QED
      BY <1>1, <1>6, <2>1, <3>1
  <2>3. n \in Nat
    BY <1>3, <1>5, <1>7
  <2>. QED
    BY <1>2, <1>3, <1>5, <2>2, <2>3
<1>9. pass'[p].pc = IF Drained(n) THEN "drained" ELSE "delete"
  BY <1>2, <1>3
<1>10. ASSUME pass'[p].pc = "drained"
       PROVE  \A r \in store' : ~ (r.ts < pass[p].cutoff)
  <2>1. n < BatchSize
    BY <1>9, <1>10 DEF Drained
  <2>2. n = Cardinality(old)
    BY <1>3, <1>7, <2>1
  <2>3. gone = old
    BY <1>5, <1>6, <2>2, FS_Subset
  <2>. QED
    BY <1>1, <1>4, <2>3
<1>11. pass' = [pass EXCEPT ![p].pc = pass'[p].pc]
  BY <1>2, <1>9
<1>. QED
  BY <1>1, <1>4, <1>6, <1>8, <1>9, <1>10, <1>11

(* A batch spares the newest row of every window, unless it is over age.   *)
LEMMA NewestSurvives ==
  ASSUME RetentionInv, NEW p \in Passes, DeleteBatch(p),
         NEW s, s.newest \in Nat \cup {None}, NewestKept(s)
  PROVE  NewestKept(s)'
<1>1. SUFFICES ASSUME s.newest # None, ~ OverAge(s.newest)
               PROVE  \E q \in store' : q.ts >= s.newest
  <2>1. clock' = clock /\ policy' = policy
    BY DEF DeleteBatch
  <2>. QED
    BY <2>1 DEF NewestKept, OverAge, MaxAge
<1> DEFINE T == {r.ts : r \in store}
<1>2. PICK q \in store : q.ts >= s.newest
  BY <1>1 DEF NewestKept
<1>3. T \subseteq 0..MaxClock /\ T # {} /\ MaxClock \in Nat
  BY <1>2, RetentionAssumption DEF RetentionInv, RetentionTypeOK, Row
<1>4. PICK m \in store : \A r \in store : r.ts <= m.ts
  <2>1. Max(T) \in T /\ \A t \in T : t <= Max(T)
    <3> HIDE DEF T
    <3>. QED
      BY <1>3, MaxIsGreatest
  <2>. QED
    BY <2>1
<1>5. /\ m.ts \in Nat /\ q.ts \in Nat /\ \A r \in store : r.ts \in Nat
      /\ clock \in Nat /\ MaxAge \in Nat \cup {None}
  BY RetentionAssumption DEF RetentionInv, RetentionTypeOK, Row, MaxAge
<1>6. s.newest \in Nat /\ m.ts >= s.newest
  BY <1>1, <1>2, <1>4, <1>5
<1>7. CASE m \in store'
  BY <1>6, <1>7
<1>8. CASE m \notin store'
  <2>1. m.ts < pass[p].cutoff /\ pass[p].pc = "delete"
    BY <1>8, BatchIsBeforeCutoff DEF DeleteBatch
  <2>2. OverAge(m.ts) \/ \E r \in store : r.ts > m.ts
    BY <2>1, BeforeCutoffIsDue
  <2>3. OverAge(m.ts)
    BY <1>4, <1>5, <2>2
  <2>. QED
    BY <1>1, <1>5, <1>6, <2>3, RetentionAssumption DEF OverAge
<1>. QED
  BY <1>7, <1>8

(* Arrivals and time spare it too.                                         *)
LEMMA NewestStays ==
  ASSUME RetentionInv, NEW s, s.newest \in Nat \cup {None}, NewestKept(s),
         store \subseteq store', clock' >= clock, clock' \in Nat, policy' = policy
  PROVE  NewestKept(s)'
<1>1. clock \in Nat /\ MaxAge \in Nat \cup {None} /\ MaxAge' = MaxAge
  BY RetentionAssumption DEF RetentionInv, RetentionTypeOK, MaxAge
<1>2. ASSUME s.newest # None, OverAge(s.newest)
      PROVE  OverAge(s.newest)'
  <2>1. s.newest \in Nat /\ MaxAge \in Nat /\ s.newest < clock - MaxAge /\ MaxAge # None
    BY <1>1, <1>2 DEF OverAge
  <2>. QED
    BY <1>1, <2>1 DEF OverAge
<1>. QED
  BY <1>2 DEF NewestKept

----------------------------------------------------------------------------
(* The invariant.                                                          *)

LEMMA SummaryIsOfTheStore ==
  ASSUME RetentionInv
  PROVE  Window(StorageSummary) /\ NewestKept(StorageSummary)
<1> DEFINE T == {r.ts : r \in store}
<1>1. T \subseteq 0..MaxClock /\ T \subseteq Nat /\ MaxClock \in Nat /\ None \notin Nat
  BY RetentionAssumption DEF RetentionInv, RetentionTypeOK, Row
<1>2. StorageSummary.oldest = IF store = {} THEN None ELSE Min(T)
  BY DEF StorageSummary
<1>3. StorageSummary.newest = IF store = {} THEN None ELSE Max(T)
  BY DEF StorageSummary
<1>4. CASE store = {}
  BY <1>2, <1>3, <1>4 DEF Window, NewestKept
<1>5. CASE store # {}
  <2>1. T # {}
    BY <1>5
  <2>2. /\ Min(T) \in T /\ \A t \in T : Min(T) <= t
        /\ Max(T) \in T /\ \A t \in T : t <= Max(T)
    <3> HIDE DEF T
    <3>. QED
      BY <1>1, <2>1, MinIsLeast, MaxIsGreatest
  <2>3. Min(T) \in Nat /\ Max(T) \in Nat /\ Min(T) <= Max(T)
    BY <1>1, <2>2
  <2>4. PICK q \in store : q.ts = Max(T)
    BY <2>2
  <2> DEFINE s == StorageSummary
             lo == Min(T)
             hi == Max(T)
  <2>5. s.oldest = lo /\ s.newest = hi /\ lo \in Nat /\ hi \in Nat /\ lo <= hi /\ q.ts = hi
    BY <1>2, <1>3, <1>5, <2>3, <2>4
  <2> HIDE DEF s, lo, hi
  <2>6. Window(s) /\ NewestKept(s)
    BY <2>5 DEF Window, NewestKept
  <2>. QED
    BY <2>6 DEF s
<1>. QED
  BY <1>4, <1>5

(* A pass that does not move keeps what it has planned.                    *)
LEMMA PassInvStays ==
  ASSUME RetentionInv, NEW p \in Passes, pass'[p] = pass[p], policy' = policy,
         clock' >= clock, clock' \in Nat,
         NEW s, s = pass[p].summary,
         pass[p].pc \in {"plan", "delete"} => NewestKept(s)'
  PROVE  PassInv(p)'
<1>1. PassInv(p) /\ clock \in Nat
  BY RetentionAssumption DEF RetentionInv, RetentionTypeOK
<1>2. pass[p].pc = "delete" => PlannedCutoff(pass[p])'
  <2>1. SUFFICES ASSUME pass[p].pc = "delete"
                 PROVE  PlannedCutoff(pass[p])'
    OBVIOUS
  <2>2. PlannedCutoff(pass[p])
    BY <1>1, <2>1 DEF PassInv
  <2>3. AgeCutoff(pass[p].now)' = AgeCutoff(pass[p].now)
    BY DEF AgeCutoff, MaxAge
  <2>. QED
    BY <1>1, <2>2, <2>3 DEF PlannedCutoff, Midpoint, Pressured, MaxDisk
<1>3. pass[p].pc \in {"plan", "delete"} => NewestKept(pass[p].summary)'
  BY DEF NewestKept
<1>. QED
  BY <1>1, <1>2, <1>3 DEF PassInv, Window

LEMMA InitInv == RetentionInit => RetentionInv
<1> SUFFICES ASSUME RetentionInit PROVE RetentionInv
  OBVIOUS
<1>1. IsFiniteSet({}) /\ Cardinality({}) = 0
  BY FS_EmptySet
<1>. QED
  BY <1>1, RetentionAssumption
     DEF RetentionInit, RetentionInv, RetentionTypeOK, Row, PassInv, Idle

(* Every step keeps the types.                                             *)
LEMMA StepKeepsTypes ==
  ASSUME RetentionInv, [RetentionNext]_retentionVars
  PROVE  RetentionTypeOK'
<1> USE DEF RetentionInv
<1>0. /\ RetentionTypeOK /\ MaxClock \in Nat /\ MaxIngested \in Nat
      /\ clock \in Nat /\ ingested \in Nat /\ IsFiniteSet(store) /\ Cardinality(store) \in Nat
  BY RetentionAssumption, FS_CardinalityType DEF RetentionTypeOK
<1>1. ASSUME NEW p \in Passes, ReadSummary(p)
      PROVE  RetentionTypeOK'
  BY <1>0, <1>1 DEF ReadSummary, RetentionTypeOK, engineVars, Row
<1>2. ASSUME NEW p \in Passes, Plan(p)
      PROVE  RetentionTypeOK'
  <2> DEFINE s == pass[p].summary
             cutoff == TighterOf(AgeCutoff(clock), Midpoint(s))
  <2>1. Window(s)
    BY <1>2 DEF PassInv, Plan
  <2>2. cutoff \in Int \cup {None}
    BY <1>0, <2>1, CutoffIsTyped
  <2>3. /\ pass' = [pass EXCEPT ![p] =
                [pc      |-> IF cutoff = None THEN "drained" ELSE "delete",
                 summary |-> s, now |-> clock, cutoff |-> cutoff,
                 archive |-> ArchiveRange(s, clock)]]
        /\ UNCHANGED <<engineVars, policy>>
    BY <1>2 DEF Plan
  <2> HIDE DEF s, cutoff
  <2>. QED
    BY <1>0, <2>2, <2>3 DEF RetentionTypeOK, engineVars, Row
<1>3. ASSUME NEW p \in Passes, DeleteBatch(p)
      PROVE  RetentionTypeOK'
  <2>1. /\ store' \subseteq store /\ disk' \in Cardinality(store')..disk
        /\ pass' = [pass EXCEPT ![p].pc = pass'[p].pc]
        /\ pass'[p].pc \in {"delete", "drained"}
    BY <1>3, BatchIsBeforeCutoff
  <2>2. /\ pass[p].pc = "delete"
        /\ UNCHANGED <<audit, ingested, clock, policy>>
    BY <1>3 DEF DeleteBatch
  <2>3. IsFiniteSet(store') /\ Cardinality(store') \in Nat
    BY <1>0, <2>1, FS_Subset, FS_CardinalityType
  <2>4. disk' \in Cardinality(store')..ingested'
    BY <1>0, <2>1, <2>2, <2>3 DEF RetentionTypeOK
  <2>5. \A q \in Passes :
          /\ pass'[q].pc \in {"idle", "plan", "delete", "drained"}
          /\ pass'[q].pc = "delete" => pass'[q].cutoff \in Int
    <3>1. pass'[p].cutoff = pass[p].cutoff
      BY <1>0, <2>1, <2>2 DEF RetentionTypeOK, PassInv, PlannedCutoff
    <3>2. \A q \in Passes \ {p} : pass'[q] = pass[q]
      BY <1>0, <2>1 DEF RetentionTypeOK
    <3>. QED
      BY <1>0, <2>1, <2>2, <3>1, <3>2 DEF RetentionTypeOK
  <2>6. DOMAIN pass' = Passes
    BY <1>0, <2>1 DEF RetentionTypeOK
  <2>. QED
    BY <1>0, <2>1, <2>2, <2>3, <2>4, <2>5, <2>6 DEF RetentionTypeOK, Row
<1>4. ASSUME NEW p \in Passes, EndPass(p) \/ PassFails(p)
      PROVE  RetentionTypeOK'
  <2>1. /\ pass' = [pass EXCEPT ![p] = Idle]
        /\ UNCHANGED <<store, audit, disk, ingested, clock, policy>>
    BY <1>4 DEF EndPass, PassFails, engineVars
  <2>2. \A q \in Passes : pass'[q] = IF q = p THEN Idle ELSE pass[q]
    BY <1>0, <2>1 DEF RetentionTypeOK
  <2>3. Idle.pc = "idle" /\ DOMAIN pass' = Passes
    BY <1>0, <2>1 DEF RetentionTypeOK, Idle
  <2> HIDE DEF Idle
  <2>. QED
    BY <1>0, <2>1, <2>2, <2>3 DEF RetentionTypeOK, Row
<1>5. ASSUME NEW ts \in 0..clock, Ingest(ts)
      PROVE  RetentionTypeOK'
  <2> DEFINE entry == [id |-> ingested', ts |-> ts]
  <2>1. store' = store \cup {entry} /\ disk' = disk + 1 /\ ingested' = ingested + 1
    BY <1>5 DEF Ingest
  <2>2. /\ IsFiniteSet(store') /\ Cardinality(store') \in Nat
        /\ Cardinality(store') <= Cardinality(store) + 1
    <3> HIDE DEF entry
    <3>1. /\ IsFiniteSet(store \cup {entry})
          /\ Cardinality(store \cup {entry}) =
               IF entry \in store THEN Cardinality(store) ELSE Cardinality(store) + 1
      BY <1>0, FS_AddElement
    <3>. QED
      BY <1>0, <2>1, <3>1
  <2>3. disk' \in Cardinality(store')..ingested' /\ ingested' \in 0..MaxIngested
    BY <1>0, <1>5, <2>1, <2>2 DEF RetentionTypeOK, Ingest
  <2>4. entry \in Row
    BY <1>0, <2>1, <2>3 DEF Row, RetentionTypeOK
  <2>. QED
    BY <1>0, <1>5, <2>1, <2>2, <2>3, <2>4 DEF Ingest, RetentionTypeOK, Row
<1>6. CASE AppendAudit
  BY <1>0, <1>6 DEF AppendAudit, RetentionTypeOK, Row
<1>7. CASE NextDay
  BY <1>0, <1>7 DEF NextDay, RetentionTypeOK, Row
<1>8. CASE UNCHANGED retentionVars
  BY <1>0, <1>8 DEF retentionVars, engineVars, RetentionTypeOK, Row
<1>. QED
  BY <1>1, <1>2, <1>3, <1>4, <1>5, <1>6, <1>7, <1>8 DEF RetentionNext, Step

(* Every step keeps what the passes carry.                                 *)
LEMMA StepKeepsPasses ==
  ASSUME RetentionInv, [RetentionNext]_retentionVars, NEW q \in Passes
  PROVE  PassInv(q)'
<1>1. /\ RetentionTypeOK /\ PassInv(q) /\ DOMAIN pass = Passes
      /\ clock \in Nat /\ MaxClock \in Nat
  BY RetentionAssumption DEF RetentionInv, RetentionTypeOK
<1> PICK s : s = pass[q].summary
  OBVIOUS
<1>2. pass[q].pc \in {"plan", "delete"} => NewestKept(s) /\ s.newest \in Nat \cup {None}
  BY <1>1 DEF PassInv, Window
<1>3. ASSUME pass'[q] = pass[q], UNCHANGED <<store, clock, policy>>
      PROVE  PassInv(q)'
  <2>1. pass[q].pc \in {"plan", "delete"} => NewestKept(s)'
    BY <1>1, <1>2, <1>3, NewestStays
  <2>. QED
    BY <1>1, <1>3, <2>1, PassInvStays
<1>4. ASSUME NEW p \in Passes, ReadSummary(p)
      PROVE  PassInv(q)'
  <2>1. /\ pass' = [pass EXCEPT ![p] = [pc |-> "plan", summary |-> StorageSummary]]
        /\ UNCHANGED <<store, clock, policy>>
    BY <1>4 DEF ReadSummary, engineVars
  <2>2. CASE q # p
    BY <1>1, <1>3, <2>1, <2>2
  <2>3. CASE q = p
    <3>1. pass'[q] = [pc |-> "plan", summary |-> StorageSummary]
      BY <1>1, <2>1, <2>3
    <3> PICK w : w = StorageSummary
      OBVIOUS
    <3>2. Window(w) /\ NewestKept(w)
      BY SummaryIsOfTheStore
    <3>3. NewestKept(w)'
      BY <1>1, <2>1, <3>2, NewestStays DEF Window
    <3>4. pass'[q].pc = "plan" /\ pass'[q].summary = w
      BY <3>1
    <3>. QED
      BY <3>2, <3>3, <3>4 DEF PassInv, Window, NewestKept
  <2>. QED
    BY <2>2, <2>3
<1>5. ASSUME NEW p \in Passes, Plan(p)
      PROVE  PassInv(q)'
  <2> DEFINE cutoff == TighterOf(AgeCutoff(clock), Midpoint(s))
  <2>1. UNCHANGED <<store, clock, policy>>
    BY <1>5 DEF Plan, engineVars
  <2>2. CASE q # p
    BY <1>1, <1>3, <1>5, <2>1, <2>2 DEF Plan
  <2>3. CASE q = p
    <3>1. pass'[q] = [pc      |-> IF cutoff = None THEN "drained" ELSE "delete",
                      summary |-> s, now |-> clock, cutoff |-> cutoff,
                      archive |-> ArchiveRange(s, clock)]
      BY <1>1, <1>5, <2>3 DEF Plan
    <3>2. Window(s) /\ NewestKept(s) /\ s.newest \in Nat \cup {None}
      BY <1>1, <1>2, <1>5, <2>3 DEF Plan, PassInv
    <3>3. NewestKept(s)'
      BY <1>1, <2>1, <3>2, NewestStays
    <3>. QED
      BY <1>1, <2>1, <3>1, <3>2, <3>3
         DEF PassInv, PlannedCutoff, Window, NewestKept, AgeCutoff, MaxAge,
             Midpoint, Pressured, MaxDisk
  <2>. QED
    BY <2>2, <2>3
<1>6. ASSUME NEW p \in Passes, DeleteBatch(p)
      PROVE  PassInv(q)'
  <2>1. /\ pass' = [pass EXCEPT ![p].pc = pass'[p].pc]
        /\ pass[p].pc = "delete" /\ pass'[p].pc \in {"delete", "drained"}
        /\ UNCHANGED <<clock, policy>>
    BY <1>6, BatchIsBeforeCutoff DEF DeleteBatch
  <2>2. pass[q].pc \in {"plan", "delete"} => NewestKept(s)'
    BY <1>2, <1>6, NewestSurvives
  <2>3. CASE q # p
    <3>1. pass'[q] = pass[q]
      BY <1>1, <2>1, <2>3
    <3>. QED
      BY <1>1, <2>1, <2>2, <3>1, PassInvStays
  <2>4. CASE q = p
    <3>1. CASE pass'[p].pc = "delete"
      <4>1. pass'[q] = [pass[q] EXCEPT !.pc = "delete"]
        BY <1>1, <2>1, <2>4, <3>1
      <4>2. PICK w, now, c, a :
              pass[q] = [pc |-> "delete", summary |-> w, now |-> now,
                         cutoff |-> c, archive |-> a]
        BY <1>1, <2>1, <2>4 DEF PassInv, PlannedCutoff
      <4>3. pass'[q] = pass[q]
        BY <4>1, <4>2
      <4>. QED
        BY <1>1, <2>1, <2>2, <4>3, PassInvStays
    <3>2. CASE pass'[p].pc = "drained"
      BY <2>4, <3>2 DEF PassInv
    <3>. QED
      BY <2>1, <3>1, <3>2
  <2>. QED
    BY <2>3, <2>4
<1>7. ASSUME NEW p \in Passes, EndPass(p) \/ PassFails(p)
      PROVE  PassInv(q)'
  <2>1. pass' = [pass EXCEPT ![p] = Idle] /\ UNCHANGED <<store, clock, policy>>
    BY <1>7 DEF EndPass, PassFails, engineVars
  <2>2. CASE q # p
    BY <1>1, <1>3, <2>1, <2>2
  <2>3. CASE q = p
    BY <1>1, <2>1, <2>3 DEF PassInv, Idle
  <2>. QED
    BY <2>2, <2>3
<1>8. ASSUME NEW ts \in 0..clock, Ingest(ts)
      PROVE  PassInv(q)'
  <2>1. store \subseteq store' /\ clock' = clock /\ UNCHANGED <<pass, policy>>
    BY <1>8 DEF Ingest
  <2>2. pass[q].pc \in {"plan", "delete"} => NewestKept(s)'
    BY <1>1, <1>2, <2>1, NewestStays
  <2>. QED
    BY <1>1, <2>1, <2>2, PassInvStays
<1>9. CASE AppendAudit
  BY <1>3, <1>9 DEF AppendAudit
<1>10. CASE NextDay
  <2>1. store \subseteq store' /\ clock' = clock + 1 /\ UNCHANGED <<pass, policy>>
    BY <1>10 DEF NextDay
  <2>2. clock' >= clock /\ clock' \in Nat
    BY <1>1, <2>1
  <2>3. pass[q].pc \in {"plan", "delete"} => NewestKept(s)'
    BY <1>2, <2>1, <2>2, NewestStays
  <2>. QED
    BY <2>1, <2>2, <2>3, PassInvStays
<1>11. CASE UNCHANGED retentionVars
  BY <1>3, <1>11 DEF retentionVars, engineVars
<1>. QED
  BY <1>4, <1>5, <1>6, <1>7, <1>8, <1>9, <1>10, <1>11 DEF RetentionNext, Step

THEOREM RetentionInvariant == RetentionSpec => []RetentionInv
<1>1. RetentionInit => RetentionInv
  BY InitInv
<1>2. RetentionInv /\ [RetentionNext]_retentionVars => RetentionInv'
  <2> SUFFICES ASSUME RetentionInv, [RetentionNext]_retentionVars
               PROVE  RetentionInv'
    OBVIOUS
  <2>1. RetentionTypeOK'
    BY StepKeepsTypes
  <2>2. \A q \in Passes : PassInv(q)'
    BY StepKeepsPasses
  <2>. QED
    BY <2>1, <2>2 DEF RetentionInv
<1>. QED
  BY <1>1, <1>2, PTL DEF RetentionSpec

(* The variables of eviction keep their types: no more disk is reported    *)
(* than rows were ever stored, and a deleting pass has a cutoff.           *)
THEOREM RetentionTypeCorrect == RetentionSpec => []RetentionTypeOK
<1>1. RetentionInv => RetentionTypeOK
  BY DEF RetentionInv
<1>. QED
  BY <1>1, RetentionInvariant, PTL

----------------------------------------------------------------------------
(* What the steps do.                                                      *)

DueStep ==
  \A r \in store \ store' :
    \/ MaxAge # None /\ r.ts < clock - MaxAge
    \/ /\ \E q \in store : q.ts > r.ts
       /\ \E p \in Passes :
            /\ pass[p].pc = "delete" /\ Pressured(pass[p].summary)
            /\ 2 * r.ts < pass[p].summary.oldest + pass[p].summary.newest

DrainedStep ==
  \A p \in Passes :
    (pass[p].pc = "delete" /\ pass'[p].pc = "drained" /\ MaxAge # None) =>
      \A r \in store' : r.ts >= pass[p].now - MaxAge

(* A row is deleted only if it is over age, or in the older half of the    *)
(* window of a summary under pressure with a newer row beside it, whatever *)
(* the passes, their policies and the figures of the Engine                *)
(* (eviction.rs:47-78, 116-136).                                           *)
THEOREM RowsGoWhenDue == RetentionSpec => OnlyDueRowsAreDeleted
<1>1. RetentionInv /\ [RetentionNext]_retentionVars => DueStep
  <2> SUFFICES ASSUME RetentionInv, [RetentionNext]_retentionVars,
                      NEW r \in store \ store'
               PROVE  \/ MaxAge # None /\ r.ts < clock - MaxAge
                      \/ /\ \E q \in store : q.ts > r.ts
                         /\ \E p \in Passes :
                              /\ pass[p].pc = "delete" /\ Pressured(pass[p].summary)
                              /\ 2 * r.ts < pass[p].summary.oldest + pass[p].summary.newest
    BY DEF DueStep
  <2>1. PICK p \in Passes : DeleteBatch(p)
    BY DEF RetentionNext, Step, ReadSummary, Plan, EndPass, PassFails, Ingest,
           AppendAudit, NextDay, retentionVars, engineVars
  <2>2. r.ts < pass[p].cutoff /\ pass[p].pc = "delete"
    BY <2>1, BatchIsBeforeCutoff DEF DeleteBatch
  <2>. QED
    BY <2>2, BeforeCutoffIsDue DEF OverAge
<1>. QED
  BY <1>1, RetentionInvariant, PTL DEF RetentionSpec, OnlyDueRowsAreDeleted, DueStep

(* A pass whose deletions end has left no row that was over age when it    *)
(* planned, whatever arrived or was deleted meanwhile                      *)
(* (eviction.rs:53-78, 127-133).                                           *)
THEOREM AgedRowsGo == RetentionSpec => AgedRowsAreGone
<1>1. RetentionInv /\ [RetentionNext]_retentionVars => DrainedStep
  <2> SUFFICES ASSUME RetentionInv, [RetentionNext]_retentionVars,
                      NEW p \in Passes, pass[p].pc = "delete",
                      pass'[p].pc = "drained", MaxAge # None,
                      NEW r \in store'
               PROVE  r.ts >= pass[p].now - MaxAge
    BY DEF DrainedStep
  <2>1. DOMAIN pass = Passes /\ PassInv(p) /\ RetentionTypeOK
    BY DEF RetentionInv, RetentionTypeOK
  <2>2. DeleteBatch(p)
    <3>1. ~ ReadSummary(p) /\ ~ Plan(p) /\ ~ EndPass(p) /\ ~ PassFails(p)
      BY <2>1 DEF ReadSummary, Plan, EndPass, PassFails, Idle
    <3>2. pass'[p] # pass[p]
      OBVIOUS
    <3>3. ASSUME NEW q \in Passes, Step(q) \/ PassFails(q)
          PROVE  q = p
      BY <2>1, <3>2, <3>3 DEF Step, ReadSummary, Plan, DeleteBatch, EndPass, PassFails
    <3>. QED
      BY <3>1, <3>2, <3>3 DEF RetentionNext, Step, Ingest, AppendAudit, NextDay,
                              retentionVars, engineVars
  <2>3. ~ (r.ts < pass[p].cutoff) /\ r \in store
    BY <2>2, BatchIsBeforeCutoff
  <2> DEFINE a == AgeCutoff(pass[p].now)
             b == Midpoint(pass[p].summary)
             now == pass[p].now
  <2>4. /\ pass[p].cutoff = TighterOf(a, b) /\ Window(pass[p].summary)
        /\ now \in Nat /\ MaxAge \in Nat /\ r.ts \in Nat /\ None \notin Int
        /\ a = now - MaxAge /\ a \in Int /\ b \in Int \cup {None}
    <3>1. PlannedCutoff(pass[p]) /\ Window(pass[p].summary)
      BY <2>1 DEF PassInv
    <3>2. b \in Int \cup {None}
      BY <3>1 DEF Midpoint, Window
    <3>3. MaxAge \in Nat /\ r.ts \in Nat /\ clock \in Nat
      BY <2>1, <2>3, RetentionAssumption DEF RetentionTypeOK, Row, MaxAge
    <3>. QED
      BY <3>1, <3>2, <3>3, RetentionAssumption DEF PlannedCutoff, AgeCutoff
  <2>5. a <= pass[p].cutoff /\ pass[p].cutoff \in Int
    <3> HIDE DEF a, b
    <3>1. a # None
      BY <2>4
    <3>2. CASE b = None
      BY <2>4, <3>1, <3>2 DEF TighterOf
    <3>3. CASE b # None
      <4>1. b \in Int /\ pass[p].cutoff = Max({a, b})
        BY <2>4, <3>1, <3>3 DEF TighterOf
      <4>. QED
        BY <2>4, <4>1, MaxOfTwo
    <3>. QED
      BY <3>2, <3>3
  <2>. QED
    BY <2>3, <2>4, <2>5
<1>. QED
  BY <1>1, RetentionInvariant, PTL DEF RetentionSpec, AgedRowsAreGone, DrainedStep

-----------------------------------------------------------------------------
(* Extraction.                                                             *)

LEMMA MaxOfSome ==
  ASSUME NEW n \in Nat, NEW T, T \subseteq Nat, T # {}, \A t \in T : t <= n
  PROVE  Max(T) \in T
<1>1. T \subseteq 0..n
  OBVIOUS
<1>. QED
  BY <1>1, MaxIsGreatest

LEMMA MaxIs ==
  ASSUME NEW T, T \subseteq Nat, NEW x \in T, \A t \in T : t <= x
  PROVE  Max(T) = x
<1>1. Max(T) \in T /\ \A t \in T : Max(T) >= t
  BY DEF Max
<1>2. PICK y : y = Max(T)
  OBVIOUS
<1>3. y \in Nat /\ x \in Nat /\ y >= x /\ y <= x
  BY <1>1, <1>2
<1>. QED
  BY <1>2, <1>3

LEMMA MinIs ==
  ASSUME NEW T, T \subseteq Nat, NEW x \in T, \A t \in T : x <= t
  PROVE  Min(T) = x
<1>1. Min(T) \in T /\ \A t \in T : Min(T) <= t
  BY DEF Min
<1>2. PICK y : y = Min(T)
  OBVIOUS
<1>3. y \in Nat /\ x \in Nat /\ y >= x /\ y <= x
  BY <1>1, <1>2
<1>. QED
  BY <1>2, <1>3

LEMMA UpTo ==
  ASSUME NEW N \in Nat, NEW Good, 0 \in Good,
         \A n \in 0..N : n \in Good /\ n < N => n + 1 \in Good
  PROVE  \A n \in 0..N : n \in Good
<1>. SUFFICES ASSUME NEW k \in 0..N, k \notin Good PROVE FALSE
  OBVIOUS
<1>. DEFINE Bad == {n \in 0..N : n \notin Good}
<1>1. Bad \subseteq Nat /\ Bad # {}
  OBVIOUS
<1>2. PICK m : m = Min(Bad)
  OBVIOUS
<1>3. m \in Bad /\ \A n \in Bad : m <= n
  BY <1>1, <1>2, MinIsLeast
<1>4. m # 0 /\ m \in 0..N
  BY <1>3
<1>5. m - 1 \in 0..N /\ m - 1 < N /\ m - 1 \in Good
  <2>1. m - 1 \in 0..N /\ m - 1 < m
    BY <1>4
  <2>. QED
    BY <1>3, <1>4, <2>1
<1>6. (m - 1) + 1 \in Good
  BY <1>5
<1>. QED
  BY <1>3, <1>4, <1>6

-----------------------------------------------------------------------------
(* The rules of a component, one after the other.                          *)

FieldStep(u, rules, r, c, i) ==
  IF i = 0 THEN r ELSE ExtractField(u[i - 1], c, rules[i])

Fields(u, rules, r, c, N) == u = [i \in 0..N |-> FieldStep(u, rules, r, c, i)]

LEMMA FieldsAreDefined ==
  ASSUME NEW rules, NEW r, NEW c, NEW N \in Nat
  PROVE  \E u : Fields(u, rules, r, c, N)
<1>. DEFINE Good == {n \in 0..N : \E u : Fields(u, rules, r, c, n)}
<1>1. 0 \in Good
  <2>1. Fields([i \in 0..0 |-> r], rules, r, c, 0)
    BY DEF Fields, FieldStep
  <2>. QED
    BY <2>1
<1>2. ASSUME NEW m \in 0..N, m \in Good, m < N PROVE m + 1 \in Good
  <2>1. PICK u : Fields(u, rules, r, c, m)
    BY <1>2
  <2>2. PICK w : w = [i \in 0..(m + 1) |-> IF i = m + 1 THEN FieldStep(u, rules, r, c, i)
                                           ELSE u[i]]
    OBVIOUS
  <2>3. ASSUME NEW i \in 0..m PROVE w[i] = FieldStep(w, rules, r, c, i)
    <3>1. w[i] = u[i] /\ u[i] = FieldStep(u, rules, r, c, i)
      BY <2>1, <2>2 DEF Fields
    <3>2. i # 0 => w[i - 1] = u[i - 1]
      BY <2>2
    <3>. QED
      BY <3>1, <3>2 DEF FieldStep
  <2>4. w[m + 1] = FieldStep(w, rules, r, c, m + 1)
    <3>1. w[m + 1] = FieldStep(u, rules, r, c, m + 1) /\ w[m] = u[m]
      BY <2>2
    <3>. QED
      BY <3>1 DEF FieldStep
  <2>5. w = [i \in 0..(m + 1) |-> FieldStep(w, rules, r, c, i)]
    <3>1. \A i \in 0..(m + 1) : w[i] = FieldStep(w, rules, r, c, i)
      BY <2>3, <2>4
    <3>2. w = [i \in 0..(m + 1) |-> w[i]]
      BY <2>2
    <3>. QED
      BY <3>1, <3>2
  <2>6. m + 1 \in 0..N
    BY <1>2
  <2>. QED
    BY <2>5, <2>6 DEF Fields
<1>. HIDE DEF Good
<1>3. N \in Good
  BY <1>1, <1>2, UpTo
<1>. QED
  BY <1>3 DEF Good

IsList(rules) == Len(rules) \in Nat /\ DOMAIN rules = 1..Len(rules)

LEMMA FieldsUnfold ==
  ASSUME NEW r, NEW c, IsList(RulesFor(c))
  PROVE  \E u : /\ u[0] = r /\ ExtractFields(r, c) = u[Len(RulesFor(c))]
                /\ \A i \in 1..Len(RulesFor(c)) : u[i] = ExtractField(u[i - 1], c, RulesFor(c)[i])
<1>1. Len(RulesFor(c)) \in Nat
  BY DEF IsList
<1>. DEFINE u == CHOOSE f : f = [i \in 0..Len(RulesFor(c)) |->
                      IF i = 0 THEN r ELSE ExtractField(f[i - 1], c, RulesFor(c)[i])]
<1>2. ExtractFields(r, c) = u[Len(RulesFor(c))]
  BY DEF ExtractFields
<1>3. \E f : f = [i \in 0..Len(RulesFor(c)) |->
                    IF i = 0 THEN r ELSE ExtractField(f[i - 1], c, RulesFor(c)[i])]
  <2>1. PICK rules : rules = RulesFor(c)
    OBVIOUS
  <2>2. PICK f : Fields(f, rules, r, c, Len(rules))
    BY <1>1, <2>1, FieldsAreDefined
  <2>. QED
    BY <2>1, <2>2 DEF Fields, FieldStep
<1>4. u = [i \in 0..Len(RulesFor(c)) |->
             IF i = 0 THEN r ELSE ExtractField(u[i - 1], c, RulesFor(c)[i])]
  BY <1>3
<1>. HIDE DEF u
<1>5. u[0] = r /\ \A i \in 1..Len(RulesFor(c)) : u[i] = ExtractField(u[i - 1], c, RulesFor(c)[i])
  BY <1>1, <1>4
<1>. QED
  BY <1>2, <1>5

(* The first k rules that find something for a column.                     *)
Finding(c, rules, column, k) ==
  {i \in 1..k : rules[i].db_column = column /\ Resolves(c, rules[i])}

(* A row b has at a column what row a had there.                           *)
SameAt(a, b, column) ==
  /\ column \in DOMAIN a <=> column \in DOMAIN b
  /\ column \in DOMAIN a => a[column] = b[column]

LEMMA FieldsGive ==
  ASSUME NEW r, NEW c, IsList(RulesFor(c)), NEW column, NEW found,
         found = Finding(c, RulesFor(c), column, Len(RulesFor(c)))
  PROVE  /\ found = {} => SameAt(r, ExtractFields(r, c), column)
         /\ found # {} =>
              /\ column \in DOMAIN ExtractFields(r, c)
              /\ ExtractFields(r, c)[column] = Extracted(c, RulesFor(c)[Max(found)])
<1>1. PICK n, rules : n = Len(rules) /\ rules = RulesFor(c)
  OBVIOUS
<1>2. n \in Nat
  BY <1>1 DEF IsList
<1>3. PICK u : /\ u[0] = r /\ ExtractFields(r, c) = u[n]
               /\ \A i \in 1..n : u[i] = ExtractField(u[i - 1], c, rules[i])
  BY <1>1, FieldsUnfold
<1>. DEFINE Done(k) ==
       LET fs == Finding(c, rules, column, k)
       IN  /\ fs = {} => SameAt(r, u[k], column)
           /\ fs # {} => column \in DOMAIN u[k] /\ u[k][column] = Extracted(c, rules[Max(fs)])
     Good == {k \in 0..n : Done(k)}
<1>4. 0 \in Good
  <2>1. Finding(c, rules, column, 0) = {}
    BY DEF Finding
  <2>2. SameAt(r, u[0], column)
    BY <1>3 DEF SameAt
  <2>. QED
    BY <1>2, <2>1, <2>2
<1>5. ASSUME NEW k \in 0..n, k \in Good, k < n PROVE k + 1 \in Good
  <2>1. PICK F, G, m : /\ m = k + 1 /\ F = Finding(c, rules, column, k)
                       /\ G = Finding(c, rules, column, m)
    OBVIOUS
  <2>2. m \in 1..n /\ m \in 0..n /\ m - 1 = k
    BY <1>2, <1>5, <2>1
  <2>3. u[m] = ExtractField(u[k], c, rules[m])
    BY <1>3, <2>2
  <2>4. Done(k)
    BY <1>5
  <2>5. CASE rules[m].db_column = column /\ Resolves(c, rules[m])
    <3>1. m \in G /\ G \subseteq Nat /\ \A i \in G : i <= m
      BY <2>1, <2>2, <2>5 DEF Finding
    <3>2. Max(G) = m
      BY <3>1, MaxIs
    <3>3. u[m] = Put(u[k], column, Extracted(c, rules[m]))
      BY <2>3, <2>5 DEF ExtractField
    <3>4. column \in DOMAIN u[m] /\ u[m][column] = Extracted(c, rules[m])
      BY <3>3 DEF Put
    <3>. QED
      BY <2>1, <2>2, <3>1, <3>2, <3>4
  <2>6. CASE ~ (rules[m].db_column = column /\ Resolves(c, rules[m]))
    <3>1. G = F
      BY <1>5, <2>1, <2>2, <2>6 DEF Finding
    <3>2. SameAt(u[k], u[m], column)
      <4>1. CASE ~ Resolves(c, rules[m])
        BY <2>3, <4>1 DEF ExtractField, SameAt
      <4>2. CASE Resolves(c, rules[m]) /\ rules[m].db_column # column
        <5>1. u[m] = Put(u[k], rules[m].db_column, Extracted(c, rules[m]))
          BY <2>3, <4>2 DEF ExtractField
        <5>. QED
          BY <4>2, <5>1 DEF Put, SameAt
      <4>. QED
        BY <2>6, <4>1, <4>2
    <3>3. Done(m)
      BY <2>1, <2>4, <3>1, <3>2 DEF SameAt
    <3>. QED
      BY <2>1, <2>2, <3>3
  <2>. QED
    BY <2>5, <2>6
<1>. HIDE DEF Good
<1>6. n \in Good
  <2>1. \A k \in 0..n : k \in Good /\ k < n => k + 1 \in Good
    BY <1>5
  <2>2. \A k \in 0..n : k \in Good
    BY <1>2, <1>4, <2>1, UpTo
  <2>. QED
    BY <1>2, <2>2
<1>7. Done(n)
  BY <1>6 DEF Good
<1>. QED
  BY <1>1, <1>3, <1>7

-----------------------------------------------------------------------------
(* One component into a row.                                               *)

LEMMA RulesAreLists ==
  ASSUME schema \in Caches, schema # NotLoaded, NEW c PROVE IsList(RulesFor(c))
<1>1. CASE EventType(c) \in DOMAIN schema
  <2>1. PICK rules : rules = schema[EventType(c)]
    OBVIOUS
  <2>2. rules \in Seq(ToSet(rules)) /\ RulesFor(c) = rules
    BY <1>1, <2>1, ExtractionAssumption DEF RulesFor
  <2>3. IsList(rules)
    BY <2>2 DEF IsList
  <2>. QED
    BY <2>2, <2>3
<1>2. CASE EventType(c) \notin DOMAIN schema
  BY <1>2 DEF RulesFor, IsList
<1>. QED
  BY <1>1, <1>2

(* The row after a component's step, weights and rules.                    *)
Ruled(r, c) ==
  ExtractFields(PutAll(ExtractStep(r, c), ExtractObservationWeight(EventType(c), Data(c))), c)

LEMMA ComponentGives ==
  ASSUME schema \in Caches, schema # NotLoaded, NEW r, NEW c, NEW column
  PROVE  /\ Gives(c, column) = {} => SameAt(r, Ruled(r, c), column)
         /\ Gives(c, column) # {} =>
              column \in DOMAIN Ruled(r, c) /\ Gives(c, column) = {Ruled(r, c)[column]}
<1>1. IsList(RulesFor(c))
  BY RulesAreLists
<1>2. PICK rules, found, weights, s, w, u :
        /\ rules = RulesFor(c)
        /\ found = {i \in DOMAIN rules : rules[i].db_column = column /\ Resolves(c, rules[i])}
        /\ weights = ExtractObservationWeight(EventType(c), Data(c))
        /\ s = ExtractStep(r, c) /\ w = PutAll(s, weights) /\ u = ExtractFields(w, c)
  OBVIOUS
<1>3. found = Finding(c, RulesFor(c), column, Len(RulesFor(c)))
  BY <1>1, <1>2 DEF IsList, Finding
<1>4. /\ found = {} => SameAt(w, u, column)
      /\ found # {} => column \in DOMAIN u /\ u[column] = Extracted(c, rules[Max(found)])
  <2>1. /\ found = {} => SameAt(w, ExtractFields(w, c), column)
        /\ found # {} => /\ column \in DOMAIN ExtractFields(w, c)
                         /\ ExtractFields(w, c)[column] = Extracted(c, RulesFor(c)[Max(found)])
    BY <1>1, <1>3, FieldsGive
  <2>. QED
    BY <1>2, <2>1
<1>5. w = [x \in DOMAIN s \cup DOMAIN weights |->
             IF x \in DOMAIN weights THEN weights[x] ELSE s[x]]
  BY <1>2 DEF PutAll
<1>6. Ruled(r, c) = u
  BY <1>2 DEF Ruled
<1>7. Gives(c, column) = IF found # {} THEN {Extracted(c, rules[Max(found)])}
                         ELSE IF column \in DOMAIN weights THEN {weights[column]}
                         ELSE {v \in {<<"text", At(c, "timestamp")>>} :
                                 /\ EventType(c) \in DOMAIN StepColumn
                                 /\ StepColumn[EventType(c)] = column
                                 /\ At(c, "timestamp").kind = "string"}
  BY <1>2 DEF Gives
<1>8. CASE found # {}
  BY <1>4, <1>6, <1>7, <1>8
<1>9. CASE found = {} /\ column \in DOMAIN weights
  <2>1. column \in DOMAIN w /\ w[column] = weights[column]
    BY <1>5, <1>9
  <2>2. column \in DOMAIN u /\ u[column] = weights[column]
    BY <1>4, <1>9, <2>1 DEF SameAt
  <2>. QED
    BY <1>6, <1>7, <1>9, <2>2
<1>10. CASE found = {} /\ column \notin DOMAIN weights
  <2>1. SameAt(s, u, column)
    <3>1. SameAt(s, w, column)
      BY <1>5, <1>10 DEF SameAt
    <3>. QED
      BY <1>4, <1>10, <3>1 DEF SameAt
  <2>2. PICK t, col : t = <<"text", At(c, "timestamp")>> /\ col = StepColumn[EventType(c)]
    OBVIOUS
  <2>3. CASE EventType(c) \in DOMAIN StepColumn /\ At(c, "timestamp").kind = "string"
    <3>1. s = Put(r, col, t)
      BY <1>2, <2>2, <2>3 DEF ExtractStep
    <3>2. CASE col = column
      <4>1. column \in DOMAIN s /\ s[column] = t
        BY <3>1, <3>2 DEF Put
      <4>2. Gives(c, column) = {t}
        BY <1>7, <1>10, <2>2, <2>3, <3>2
      <4>. QED
        BY <1>6, <2>1, <4>1, <4>2 DEF SameAt
    <3>3. CASE col # column
      <4>1. SameAt(r, s, column)
        BY <3>1, <3>3 DEF Put, SameAt
      <4>2. Gives(c, column) = {}
        BY <1>7, <1>10, <2>2, <3>3
      <4>. QED
        BY <1>6, <2>1, <4>1, <4>2 DEF SameAt
    <3>. QED
      BY <3>2, <3>3
  <2>4. CASE ~ (EventType(c) \in DOMAIN StepColumn /\ At(c, "timestamp").kind = "string")
    <3>1. s = r
      BY <1>2, <2>4 DEF ExtractStep
    <3>2. Gives(c, column) = {}
      BY <1>7, <1>10, <2>4
    <3>. QED
      BY <1>6, <2>1, <3>1, <3>2
  <2>. QED
    BY <2>3, <2>4
<1>. QED
  BY <1>8, <1>9, <1>10

LEMMA WholeIsKept ==
  ASSUME NEW u, NEW c, NEW column, NEW x, x = StoreFullComponent(u, c)
  PROVE  /\ column \in DOMAIN u \/ ~ KeptWhole(c, column) => SameAt(u, x, column)
         /\ column \notin DOMAIN u /\ KeptWhole(c, column) =>
              column \in DOMAIN x /\ x[column] = <<"text", Data(c)>>
<1>1. PICK col, t : col = FullColumn[EventType(c)] /\ t = <<"text", Data(c)>>
  OBVIOUS
<1>2. CASE EventType(c) \notin DOMAIN FullColumn \/ col \in DOMAIN u
  BY <1>1, <1>2 DEF StoreFullComponent, KeptWhole, SameAt
<1>3. CASE EventType(c) \in DOMAIN FullColumn /\ col \notin DOMAIN u
  <2>1. x = Put(u, col, t)
    BY <1>1, <1>3 DEF StoreFullComponent
  <2>. QED
    BY <1>1, <1>3, <2>1 DEF Put, KeptWhole, SameAt
<1>. QED
  BY <1>2, <1>3

-----------------------------------------------------------------------------
(* Every column, of a rule or not, follows the attempts.                   *)

AllFollow == \A column : FollowsAttempts(column)

RowInv ==
  /\ schema \in Caches
  /\ components \in Seq(TraceComponents)
  /\ schema # NotLoaded => AllFollow

JustBegun ==
  components = <<>> /\ \E id \in TraceIds \cup {""} : row = Begun(schema, id)

LEMMA NoColumns == DOMAIN <<>> = {}
OBVIOUS

LEMMA EmptyIsSeq == \A S : <<>> \in Seq(S)
OBVIOUS

LEMMA OneColumn ==
  ASSUME NEW r, NEW t, r = [trace_id |-> t]
  PROVE  DOMAIN r = {"trace_id"} /\ r["trace_id"] = t
OBVIOUS

LEMMA BegunFollows == JustBegun => AllFollow
<1>. SUFFICES ASSUME NEW column, NEW id \in TraceIds \cup {""}, components = <<>>,
                     row = Begun(schema, id)
              PROVE  FollowsAttempts(column)
  BY DEF JustBegun, AllFollow
<1>1. Giving(column) = {} /\ Whole(column) = {}
  <2>3. DOMAIN components = {}
    BY NoColumns, Zenon
  <2>. QED
    BY <2>3 DEF Giving, Whole
<1>2. CASE schema = NotLoaded \/ id = ""
  <2>3. row = <<>>
    BY <1>2, Zenon DEF Begun
  <2>4. DOMAIN row = {}
    BY <2>3, NoColumns, Zenon
  <2>. QED
    BY <1>1, <2>4, Zenon DEF FollowsAttempts
<1>3. CASE ~ (schema = NotLoaded \/ id = "")
  <2>1. row = [trace_id |-> <<"text", id>>]
    BY <1>3 DEF Begun
  <2>2. id \in TraceIds
    BY <1>3
  <2>3. DOMAIN row = {"trace_id"} /\ row["trace_id"] = <<"text", id>>
    <3>1. PICK r, t : r = row /\ t = <<"text", id>>
      OBVIOUS
    <3>2. r = [trace_id |-> t]
      BY <2>1, <3>1
    <3>. QED
      BY <3>1, <3>2, OneColumn
  <2>. QED
    BY <1>1, <2>2, <2>3 DEF FollowsAttempts
<1>. QED
  BY <1>2, <1>3

(* What one more component does to a column's attempts.                    *)
Givers(cs, column) == {i \in DOMAIN cs : Gives(cs[i], column) # {}}

Longer(cs, ds, c, n) ==
  /\ n \in Nat \ {0} /\ DOMAIN cs = 1..(n - 1) /\ DOMAIN ds = 1..n
  /\ ds[n] = c /\ \A i \in DOMAIN cs : ds[i] = cs[i]

LEMMA GivingGrows ==
  ASSUME NEW cs, NEW ds, NEW c, NEW column, NEW n, Longer(cs, ds, c, n)
  PROVE  Givers(ds, column) =
           Givers(cs, column) \cup (IF Gives(c, column) = {} THEN {} ELSE {n})
<1>. DEFINE Gets(x) == Gives(x, column) # {}
<1>1. Givers(ds, column) = {i \in 1..n : Gets(ds[i])} /\ Givers(cs, column) = {i \in 1..(n - 1) : Gets(cs[i])}
  BY DEF Givers, Longer
<1>2. Gives(c, column) = {} <=> ~ Gets(c)
  OBVIOUS
<1>. HIDE DEF Gets
<1>3. n \in 1..n /\ ds[n] = c /\ \A i \in 1..n : i \in 1..(n - 1) \/ i = n
  BY DEF Longer
<1>4. \A i \in 1..(n - 1) : ds[i] = cs[i] /\ i \in 1..n /\ i # n
  BY DEF Longer
<1>. QED
  BY <1>1, <1>2, <1>3, <1>4

LEMMA AttemptIsAppended ==
  ASSUME NEW c, NEW column, NEW n, n = Len(components) + 1,
         components \in Seq(TraceComponents), components' = Append(components, c),
         schema' = schema
  PROVE  /\ n \in Nat /\ \A i \in DOMAIN components : i \in Nat /\ i < n
         /\ Giving(column)' = Giving(column) \cup (IF Gives(c, column) = {} THEN {} ELSE {n})
         /\ Whole(column)' = Whole(column) \cup (IF KeptWhole(c, column) THEN {n} ELSE {})
         /\ components'[n] = c /\ \A i \in DOMAIN components : components'[i] = components[i]
<1>1. /\ DOMAIN components = 1..(n - 1) /\ n \in Nat \ {0}
      /\ DOMAIN components' = 1..n
      /\ components'[n] = c /\ \A i \in DOMAIN components : components'[i] = components[i]
  OBVIOUS
<1>2. \A x : Gives(x, column)' = Gives(x, column)
  BY DEF Gives, RulesFor
<1>3. Giving(column)' = {i \in DOMAIN components' : Gives(components'[i], column) # {}}
  BY <1>2 DEF Giving
<1>4. Whole(column)' = {i \in DOMAIN components' : KeptWhole(components'[i], column)}
  BY DEF Whole
<1>5. Giving(column)' = Giving(column) \cup (IF Gives(c, column) = {} THEN {} ELSE {n})
  <2>1. Giving(column) = {i \in DOMAIN components : Gives(components[i], column) # {}}
    BY DEF Giving
  <2>2. PICK cs, ds : cs = components /\ ds = components'
    OBVIOUS
  <2>3. Givers(ds, column) =
          Givers(cs, column) \cup (IF Gives(c, column) = {} THEN {} ELSE {n})
    <3>1. /\ n \in Nat \ {0} /\ DOMAIN cs = 1..(n - 1) /\ DOMAIN ds = 1..n
          /\ ds[n] = c /\ \A i \in DOMAIN cs : ds[i] = cs[i]
      BY <1>1, <2>2
    <3>2. Longer(cs, ds, c, n)
      BY <3>1 DEF Longer
    <3>. QED
      BY <3>2, GivingGrows
  <2>4. Givers(cs, column) = Giving(column) /\ Givers(ds, column) = Giving(column)'
    BY <1>3, <2>1, <2>2 DEF Givers
  <2>. QED
    BY <2>3, <2>4
<1>6. Whole(column)' = Whole(column) \cup (IF KeptWhole(c, column) THEN {n} ELSE {})
  BY <1>1, <1>4 DEF Whole
<1>. QED
  BY <1>1, <1>5, <1>6

LEMMA AttemptFollows ==
  ASSUME RowInv, NEW c, ExtractComponent(c), NEW column PROVE FollowsAttempts(column)'
<1>1. PICK n, u : n = Len(components) + 1 /\ u = Ruled(row, c)
  OBVIOUS
<1>2. /\ schema \in Caches /\ schema # NotLoaded /\ components \in Seq(TraceComponents)
      /\ components' = Append(components, c) /\ schema' = schema
      /\ row' = StoreFullComponent(u, c) /\ FollowsAttempts(column)
  BY <1>1 DEF RowInv, AllFollow, ExtractComponent, Ruled
<1>3. PICK G, H, W, V : /\ G = Giving(column) /\ H = Giving(column)'
                        /\ W = Whole(column) /\ V = Whole(column)'
  OBVIOUS
<1>4. /\ n \in Nat /\ (\A i \in DOMAIN components : i \in Nat /\ i < n)
      /\ H = G \cup (IF Gives(c, column) = {} THEN {} ELSE {n})
      /\ V = W \cup (IF KeptWhole(c, column) THEN {n} ELSE {})
      /\ components'[n] = c /\ \A i \in DOMAIN components : components'[i] = components[i]
  BY <1>1, <1>2, <1>3, AttemptIsAppended
<1>5. G \subseteq DOMAIN components /\ W \subseteq DOMAIN components
  BY <1>3 DEF Giving, Whole
<1>6. \A x : Gives(x, column)' = Gives(x, column)
  BY <1>2 DEF Gives, RulesFor
<1>7. /\ Gives(c, column) = {} => SameAt(row, u, column)
      /\ Gives(c, column) # {} => column \in DOMAIN u /\ Gives(c, column) = {u[column]}
  BY <1>1, <1>2, ComponentGives
<1>8. PICK x : x = row'
  OBVIOUS
<1>9. /\ column \in DOMAIN u \/ ~ KeptWhole(c, column) => SameAt(u, x, column)
      /\ column \notin DOMAIN u /\ KeptWhole(c, column) =>
           column \in DOMAIN x /\ x[column] = <<"text", Data(c)>>
  BY <1>2, <1>8, WholeIsKept
<1>10. SUFFICES IF H \cup V = {}
                THEN column \in DOMAIN x =>
                       column = "trace_id" /\ x[column] \in {<<"text", id>> : id \in TraceIds}
                ELSE /\ column \in DOMAIN x
                     /\ {x[column]} = IF H # {} THEN Gives(components'[Max(H)], column)
                                      ELSE {<<"text", Data(components'[Min(V)])>>}
  BY <1>3, <1>6, <1>8 DEF FollowsAttempts
<1>11. IF G \cup W = {}
       THEN column \in DOMAIN row =>
              column = "trace_id" /\ row[column] \in {<<"text", id>> : id \in TraceIds}
       ELSE /\ column \in DOMAIN row
            /\ {row[column]} = IF G # {} THEN Gives(components[Max(G)], column)
                               ELSE {<<"text", Data(components[Min(W)])>>}
  BY <1>2, <1>3 DEF FollowsAttempts
<1>12. G \subseteq Nat /\ W \subseteq Nat /\ \A i \in G \cup W : i <= n
  BY <1>4, <1>5
<1>13. CASE Gives(c, column) # {}
  <2>1. n \in H /\ H \subseteq Nat /\ \A i \in H : i <= n
    BY <1>4, <1>12, <1>13
  <2>2. Max(H) = n
    BY <2>1, MaxIs
  <2>3. column \in DOMAIN x /\ x[column] = u[column]
    BY <1>7, <1>9, <1>13 DEF SameAt
  <2>4. {x[column]} = Gives(components'[Max(H)], column)
    BY <1>4, <1>7, <1>13, <2>2, <2>3
  <2>. QED
    BY <2>1, <2>3, <2>4
<1>14. CASE Gives(c, column) = {} /\ G # {}
  <2>1. H = G
    BY <1>4, <1>14
  <2>2. column \in DOMAIN row /\ {row[column]} = Gives(components[Max(G)], column)
    BY <1>11, <1>14
  <2>3. column \in DOMAIN x /\ x[column] = row[column]
    BY <1>7, <1>9, <1>14, <2>2 DEF SameAt
  <2>4. Max(G) \in G
    BY <1>12, <1>14, <1>4, MaxOfSome
  <2>5. components'[Max(G)] = components[Max(G)]
    BY <1>4, <1>5, <2>4
  <2>. QED
    BY <1>14, <2>1, <2>2, <2>3, <2>5
<1>15. CASE Gives(c, column) = {} /\ G = {} /\ W # {}
  <2>1. H = {} /\ V # {}
    BY <1>4, <1>15
  <2>2. column \in DOMAIN row /\ {row[column]} = {<<"text", Data(components[Min(W)])>>}
    BY <1>11, <1>15
  <2>3. column \in DOMAIN x /\ x[column] = row[column]
    BY <1>7, <1>9, <1>15, <2>2 DEF SameAt
  <2>4. Min(W) \in W /\ \A i \in W : Min(W) <= i
    BY <1>12, <1>15, MinIsLeast
  <2>5. Min(V) = Min(W)
    <3>1. PICK m : m = Min(W)
      OBVIOUS
    <3>2. V \subseteq Nat /\ m \in V /\ \A i \in V : m <= i
      BY <1>4, <1>5, <1>12, <2>4, <3>1
    <3>. QED
      BY <3>1, <3>2, MinIs
  <2>6. components'[Min(W)] = components[Min(W)]
    BY <1>4, <1>5, <2>4
  <2>. QED
    BY <2>1, <2>2, <2>3, <2>5, <2>6
<1>16. CASE Gives(c, column) = {} /\ G = {} /\ W = {}
  <2>1. H = {} /\ SameAt(row, u, column)
    BY <1>4, <1>7, <1>16
  <2>2. CASE ~ KeptWhole(c, column)
    <3>1. V = {}
      BY <1>4, <1>16, <2>2
    <3>2. SameAt(row, x, column)
      BY <1>9, <2>1, <2>2 DEF SameAt
    <3>. QED
      BY <1>11, <1>16, <2>1, <3>1, <3>2 DEF SameAt
  <2>3. CASE KeptWhole(c, column)
    <3>1. V = {n}
      BY <1>4, <1>16, <2>3
    <3>2. Min(V) = n
      BY <1>4, <3>1, MinIs
    <3>3. column # "trace_id"
      BY <2>3 DEF KeptWhole, FullColumn
    <3>4. column \notin DOMAIN row
      BY <1>11, <1>16, <3>3
    <3>5. column \in DOMAIN x /\ x[column] = <<"text", Data(c)>>
      BY <1>9, <2>1, <2>3, <3>4 DEF SameAt
    <3>. QED
      BY <1>4, <2>1, <3>1, <3>2, <3>5
  <2>. QED
    BY <2>2, <2>3
<1>. QED
  BY <1>13, <1>14, <1>15, <1>16

LEMMA RowInit == ExtractionInit => RowInv
<1>. SUFFICES ASSUME ExtractionInit PROVE RowInv
  OBVIOUS
<1>1. JustBegun
  BY DEF ExtractionInit, JustBegun
<1>2. schema \in Caches /\ components \in Seq(TraceComponents)
  <2>1. schema \in Caches /\ components = <<>>
    BY DEF ExtractionInit
  <2>. QED
    BY <2>1, EmptyIsSeq, Zenon
<1>. QED
  BY <1>1, <1>2, BegunFollows DEF RowInv

LEMMA RowNext == RowInv /\ [ExtractionNext]_extractionVars => RowInv'
<1>. SUFFICES ASSUME RowInv, [ExtractionNext]_extractionVars PROVE RowInv'
  OBVIOUS
<1>1. ASSUME NEW c \in TraceComponents, ExtractComponent(c) PROVE RowInv'
  <2>1. schema' \in Caches /\ components' \in Seq(TraceComponents)
    BY <1>1 DEF ExtractComponent, RowInv
  <2>2. \A column : FollowsAttempts(column)'
    BY <1>1, AttemptFollows
  <2>3. AllFollow'
    BY <2>2 DEF AllFollow
  <2>. QED
    BY <2>1, <2>3 DEF RowInv
<1>2. ASSUME NEW id \in TraceIds \cup {""}, ExtractNext(id) PROVE RowInv'
  <2>1. schema' \in Caches /\ components' \in Seq(TraceComponents)
    <3>1. schema' \in Caches /\ components' = <<>>
      BY <1>2 DEF ExtractNext
    <3>. QED
      BY <3>1, EmptyIsSeq, Zenon
  <2>2. JustBegun'
    BY <1>2 DEF ExtractNext, JustBegun
  <2>3. AllFollow'
    BY <2>2, BegunFollows, PTL
  <2>. QED
    BY <2>1, <2>3 DEF RowInv
<1>3. CASE UNCHANGED extractionVars
  <2>1. schema' = schema /\ components' = components /\ row' = row
    BY <1>3 DEF extractionVars
  <2>2. \A c, column : Gives(c, column)' = Gives(c, column)
    BY <2>1 DEF Gives, RulesFor
  <2>3. \A column : Giving(column)' = Giving(column) /\ Whole(column)' = Whole(column)
    BY <2>1, <2>2 DEF Giving, Whole
  <2>4. \A column : FollowsAttempts(column) => FollowsAttempts(column)'
    BY <2>1, <2>2, <2>3 DEF FollowsAttempts
  <2>5. AllFollow => AllFollow'
    BY <2>4 DEF AllFollow
  <2>. QED
    BY <2>1, <2>5 DEF RowInv
<1>. QED
  BY <1>1, <1>2, <1>3 DEF ExtractionNext

(* metadata.rs:51-126 and 241-243, for any rules, components and number of *)
(* attempts: a column is of the last component that gives it anything, the *)
(* JSON of a component of the first attempt when no rule wants its column, *)
(* and no other column is there but the trace's id.                        *)
THEOREM RowsFollowAttempts == ExtractionSpec => []RowFollowsAttempts
<1>1. RowInv => RowFollowsAttempts
  BY DEF RowInv, AllFollow, RowFollowsAttempts
<1>. QED
  BY <1>1, RowInit, RowNext, PTL DEF ExtractionSpec
=============================================================================
