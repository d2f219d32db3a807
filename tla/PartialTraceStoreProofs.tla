---------------------- MODULE PartialTraceStoreProofs ----------------------
(***************************************************************************)
(* What holds of the capture store for every set of thoughts, every event  *)
(* alphabet and every bound.                                               *)
(***************************************************************************)
EXTENDS PartialTraceStore, FiniteSetTheorems, TLAPS

----------------------------------------------------------------------------
(* Counting the items of one type.                                         *)

LEMMA CountEmpty ==
  ASSUME NEW items, NEW e
  PROVE  CountOf(items, 0, e) = 0
<1>1. {j \in 1..0 : items[j].event_type = e} = {}
  OBVIOUS
<1>. QED
  BY <1>1, FS_EmptySet DEF CountOf

LEMMA CountIsNat ==
  ASSUME NEW items, NEW n \in Nat, NEW e
  PROVE  CountOf(items, n, e) \in Nat
<1>1. IsFiniteSet(1..n)
  BY FS_Interval
<1>2. IsFiniteSet({j \in 1..n : items[j].event_type = e})
  BY <1>1, FS_Subset
<1>. QED
  BY <1>2, FS_CardinalityType DEF CountOf

(* Appending leaves the counts of the prefixes alone.                      *)
LEMMA CountPrefix ==
  ASSUME NEW S, NEW s \in Seq(S), NEW c \in S, NEW n \in 0..Len(s), NEW e
  PROVE  CountOf(Append(s, c), n, e) = CountOf(s, n, e)
<1>1. \A j \in 1..n : Append(s, c)[j] = s[j]
  OBVIOUS
<1>2. {j \in 1..n : Append(s, c)[j].event_type = e}
        = {j \in 1..n : s[j].event_type = e}
  BY <1>1
<1>. QED
  BY <1>2 DEF CountOf

(* Appending an item adds one to the count of its type and to no other.    *)
LEMMA CountAppend ==
  ASSUME NEW S, NEW s \in Seq(S), NEW c \in S, NEW e
  PROVE  CountOf(Append(s, c), Len(Append(s, c)), e)
           = IF c.event_type = e THEN CountOf(s, Len(s), e) + 1
             ELSE CountOf(s, Len(s), e)
<1>. DEFINE A == {j \in 1..Len(s) : s[j].event_type = e}
            B == {j \in 1..(Len(s) + 1) : Append(s, c)[j].event_type = e}
<1>0. /\ Len(s) \in Nat
      /\ Len(Append(s, c)) = Len(s) + 1
      /\ Append(s, c)[Len(s) + 1] = c
      /\ \A j \in 1..Len(s) : Append(s, c)[j] = s[j]
  OBVIOUS
<1>1. IsFiniteSet(A)
  <2>1. IsFiniteSet(1..Len(s))
    BY <1>0, FS_Interval
  <2>2. A \subseteq 1..Len(s)
    OBVIOUS
  <2>. QED
    BY <2>1, <2>2, FS_Subset
<1>2. CASE c.event_type = e
  <2>1. B = A \cup {Len(s) + 1}
    BY <1>0, <1>2
  <2>2. Len(s) + 1 \notin A
    BY <1>0
  <2>3. Cardinality(B) = Cardinality(A) + 1
    BY <1>1, <2>1, <2>2, FS_AddElement
  <2>. QED
    BY <1>0, <1>2, <2>3 DEF CountOf
<1>3. CASE c.event_type # e
  <2>1. B = A
    BY <1>0, <1>3
  <2>. QED
    BY <1>0, <1>3, <2>1 DEF CountOf
<1>. QED
  BY <1>2, <1>3

LEMMA CountsAgree ==
  ASSUME NEW items, NEW n, NEW e
  PROVE  Assembly!CountOf(items, n, e) = CountOf(items, n, e)
  BY DEF CountOf, Assembly!CountOf, Assembly!Cardinality, Cardinality

----------------------------------------------------------------------------
(* What a capture does to the in-flight components.                        *)

LEMMA ComponentsType ==
  ASSUME StoreTypeOK, NEW t \in Thoughts
  PROVE  Components(t) \in Seq(TraceComponent)
  BY DEF StoreTypeOK, Components, CompleteTrace

LEMMA ComponentType ==
  ASSUME StoreTypeOK, NEW ev \in Inbound, Known(ev)
  PROVE  ComponentOf(ev) \in TraceComponent
  BY StoreAssumption
  DEF StoreTypeOK, ComponentOf, AttemptIndex, TraceComponent, InboundEvent, Known

LEMMA StampsType ==
  ASSUME StoreTypeOK
  PROVE  Stamp \subseteq Stamps
  BY DEF StoreTypeOK, Stamp, Stamps

LEMMA AssembledTrace ==
  ASSUME StoreTypeOK, NEW ev \in Inbound, Known(ev), NEW ts \in Stamps
  PROVE  /\ ev.thought_id \in Thoughts
         /\ Assembled(ev, ts) \in CompleteTrace
         /\ Assembled(ev, ts).thought_id = ev.thought_id
         /\ Assembled(ev, ts).completed_at = None
         /\ Assembled(ev, ts).components
              = Append(Components(ev.thought_id), ComponentOf(ev))
<1>. DEFINE t  == ev.thought_id
            tr == IF active[t] = NoTrace THEN OpenedBy(ev, ts) ELSE active[t]
<1>1. /\ t \in Thoughts
      /\ ev.task_id \in Tasks \cup {None}
      /\ ev.trace_level \in Levels \cup {None}
  BY StoreAssumption DEF InboundEvent
<1>2. /\ tr \in CompleteTrace
      /\ tr.thought_id = t
      /\ tr.completed_at = None
      /\ tr.components = Components(t)
  BY <1>1 DEF StoreTypeOK, OpenedBy, CompleteTrace, Components
<1>3. Append(tr.components, ComponentOf(ev)) \in Seq(TraceComponent)
  BY <1>2, ComponentType DEF CompleteTrace
<1>4. PICK task, level, cs :
        /\ task = FirstKnown(tr.task_id, ev.task_id)
        /\ level = FirstKnown(tr.trace_level, ev.trace_level)
        /\ cs = Append(tr.components, ComponentOf(ev))
  OBVIOUS
<1>5. task \in Tasks \cup {None} /\ level \in Levels \cup {None} /\ cs \in Seq(TraceComponent)
  BY <1>1, <1>2, <1>3, <1>4 DEF FirstKnown, CompleteTrace
<1>6. Assembled(ev, ts) = [tr EXCEPT !.task_id = task, !.trace_level = level, !.components = cs]
  BY <1>4 DEF Assembled
<1>. HIDE DEF tr
<1>7. /\ Assembled(ev, ts) \in CompleteTrace
      /\ Assembled(ev, ts).thought_id = tr.thought_id
      /\ Assembled(ev, ts).completed_at = tr.completed_at
      /\ Assembled(ev, ts).components = cs
  BY <1>2, <1>5, <1>6 DEF CompleteTrace
<1>. QED
  BY <1>1, <1>2, <1>4, <1>7

(* A capture that does not seal appends to its own thought's components.   *)
LEMMA OpenEffect ==
  ASSUME StoreTypeOK, NEW ev \in Inbound, NEW ts \in Stamps, CaptureOpen(ev, ts)
  PROVE  \A t \in Thoughts :
           Components(t)' = IF t = ev.thought_id
                            THEN Append(Components(t), ComponentOf(ev))
                            ELSE Components(t)
<1>1. Known(ev)
  BY DEF CaptureOpen, Accept
<1>2. /\ ev.thought_id \in Thoughts /\ Assembled(ev, ts) # NoTrace
      /\ Assembled(ev, ts).components = Append(Components(ev.thought_id), ComponentOf(ev))
  BY <1>1, AssembledTrace, NoTraceAssumption
<1>3. active' = [active EXCEPT ![ev.thought_id] = Assembled(ev, ts)] /\ DOMAIN active = Thoughts
  BY DEF CaptureOpen, StoreTypeOK
<1>4. ASSUME NEW t \in Thoughts, t = ev.thought_id
      PROVE  Components(t)' = Append(Components(t), ComponentOf(ev))
  <2>1. active'[t] = Assembled(ev, ts)
    BY <1>3, <1>4
  <2>. QED
    BY <1>2, <1>4, <2>1 DEF Components
<1>5. ASSUME NEW t \in Thoughts, t # ev.thought_id
      PROVE  Components(t)' = Components(t)
  BY <1>3, <1>5 DEF Components
<1>. QED
  BY <1>4, <1>5

(* A capture that seals leaves its thought without components.             *)
LEMMA SealEffect ==
  ASSUME StoreTypeOK, NEW ev \in Inbound, NEW ts \in Stamps, CaptureSeal(ev, ts)
  PROVE  /\ \A t \in Thoughts :
              Components(t)' = IF t = ev.thought_id THEN <<>> ELSE Components(t)
         /\ Len(sealed') = Len(sealed) + 1
         /\ \A n \in 1..Len(sealed) : sealed'[n] = sealed[n]
         /\ sealed'[Len(sealed) + 1].components
              = Append(Components(ev.thought_id), ComponentOf(ev))
         /\ sealed'[Len(sealed) + 1].thought_id = ev.thought_id
<1>1. Known(ev)
  BY DEF CaptureSeal, Accept
<1>2. \A t \in Thoughts :
        Components(t)' = IF t = ev.thought_id THEN <<>> ELSE Components(t)
  BY <1>1, AssembledTrace DEF CaptureSeal, Components, StoreTypeOK
<1>. QED
  BY <1>1, <1>2, AssembledTrace DEF CaptureSeal, StoreTypeOK, CompleteTrace

(* A sweep or a restart leaves every thought's components or clears them.  *)
LEMMA ForgetEffect ==
  ASSUME StoreTypeOK, NEW S, Forget(S)
  PROVE  \A t \in Thoughts :
           Components(t)' = IF t \in S THEN <<>> ELSE Components(t)
  BY DEF Forget, Components, StoreTypeOK

LEMMA RestartForgets == Restart => Forget(Thoughts)
  BY DEF Restart, Forget

----------------------------------------------------------------------------
(* Type correctness.                                                       *)

LEMMA TypeInit == StoreInit => StoreTypeOK
  BY StoreAssumption DEF StoreInit, StoreTypeOK, NoAttempts

LEMMA TypeOpen ==
  ASSUME StoreTypeOK, NEW ev \in Inbound, NEW ts \in Stamps, CaptureOpen(ev, ts)
  PROVE  StoreTypeOK'
<1>1. Known(ev) /\ ev.thought_id \in Thoughts
  BY StoreAssumption DEF CaptureOpen, Accept, InboundEvent
<1>2. active' \in [Thoughts -> CompleteTrace \cup {NoTrace}]
  BY <1>1, AssembledTrace DEF CaptureOpen, StoreTypeOK
<1>3. \A t \in Thoughts : active'[t] # NoTrace =>
        /\ active'[t].thought_id = t
        /\ active'[t].completed_at = None
        /\ active'[t].components # <<>>
  <2>1. Assembled(ev, ts).components # <<>>
    BY <1>1, AssembledTrace, ComponentsType, ComponentType
  <2>. QED
    BY <1>1, <2>1, AssembledTrace DEF CaptureOpen, StoreTypeOK
<1>4. attempt_counters' \in [Thoughts -> [EventTypes -> Nat]]
  BY <1>1 DEF CaptureOpen, StoreTypeOK, Known
<1>5. delivered' \in Seq(Inbound)
  BY DEF CaptureOpen, Accept, StoreTypeOK
<1>. QED
  BY <1>2, <1>3, <1>4, <1>5 DEF CaptureOpen, StoreTypeOK

LEMMA TypeSeal ==
  ASSUME StoreTypeOK, NEW ev \in Inbound, NEW ts \in Stamps, CaptureSeal(ev, ts)
  PROVE  StoreTypeOK'
<1>. DEFINE full == [Assembled(ev, ts) EXCEPT !.completed_at = ts]
<1>1. Known(ev) /\ ev.thought_id \in Thoughts
  BY StoreAssumption DEF CaptureSeal, Accept, InboundEvent
<1>2. active' \in [Thoughts -> CompleteTrace \cup {NoTrace}]
  BY <1>1 DEF CaptureSeal, StoreTypeOK
<1>3. \A t \in Thoughts : active'[t] # NoTrace =>
        /\ active'[t].thought_id = t
        /\ active'[t].completed_at = None
        /\ active'[t].components # <<>>
  BY DEF CaptureSeal, StoreTypeOK
<1>4. attempt_counters' \in [Thoughts -> [EventTypes -> Nat]]
  BY <1>1 DEF CaptureSeal, StoreTypeOK, NoAttempts
<1>5. delivered' \in Seq(Inbound)
  BY DEF CaptureSeal, Accept, StoreTypeOK
<1>6. full \in CompleteTrace /\ full.completed_at = ts
  BY <1>1, AssembledTrace DEF CompleteTrace
<1>7. ts # None
  BY StoreAssumption DEF Stamps
<1>8. sealed' = Append(sealed, full)
  BY DEF CaptureSeal
<1>9. /\ sealed' \in Seq(CompleteTrace)
      /\ \A n \in 1..Len(sealed') : sealed'[n].completed_at # None
  BY <1>6, <1>7, <1>8 DEF StoreTypeOK
<1>. QED
  BY <1>2, <1>3, <1>4, <1>5, <1>9 DEF CaptureSeal, StoreTypeOK

LEMMA TypeForget ==
  ASSUME StoreTypeOK, NEW S, Forget(S),
         UNCHANGED <<delivered, sealed, clock>>, restarts' \in 0..MaxRestarts
  PROVE  StoreTypeOK'
  BY DEF StoreTypeOK, Forget, NoAttempts

LEMMA TypeNext ==
  ASSUME StoreTypeOK, [StoreNext]_storeVars
  PROVE  StoreTypeOK'
<1>1. ASSUME NEW ev \in Inbound, NEW ts \in Stamp, CaptureOpen(ev, ts)
      PROVE  StoreTypeOK'
  BY <1>1, TypeOpen, StampsType
<1>2. ASSUME NEW ev \in Inbound, NEW ts \in Stamp, CaptureSeal(ev, ts)
      PROVE  StoreTypeOK'
  BY <1>2, TypeSeal, StampsType
<1>3. ASSUME NEW ev \in Inbound, CaptureUnknown(ev)
      PROVE  StoreTypeOK'
  BY <1>3 DEF CaptureUnknown, StoreTypeOK, storeVars
<1>4. CASE OrphanSweep
  BY <1>4, TypeForget DEF OrphanSweep, StoreTypeOK
<1>5. CASE Restart
  <2>1. restarts' \in 0..MaxRestarts
    BY <1>5, StoreAssumption DEF Restart, StoreTypeOK
  <2>. QED
    BY <1>5, <2>1, RestartForgets, TypeForget DEF Restart
<1>6. CASE Tick
  BY <1>6, StoreAssumption DEF Tick, StoreTypeOK
<1>7. CASE UNCHANGED storeVars
  BY <1>7 DEF storeVars, StoreTypeOK
<1>. QED
  BY <1>1, <1>2, <1>3, <1>4, <1>5, <1>6, <1>7 DEF StoreNext

(* Traces handed over stay handed over.                                    *)
LEMMA SealedGrows ==
  ASSUME StoreTypeOK, [StoreNext]_storeVars
  PROVE  Len(sealed) \in Nat /\ Len(sealed') \in Nat /\ Len(sealed) <= Len(sealed')
<1>1. Len(sealed) \in Nat
  BY DEF StoreTypeOK
<1>2. ASSUME NEW ev \in Inbound, NEW ts \in Stamp, CaptureSeal(ev, ts)
      PROVE  Len(sealed') = Len(sealed) + 1
  BY <1>2, SealEffect, StampsType
<1>3. UNCHANGED sealed
        \/ \E ev \in Inbound, ts \in Stamp : CaptureSeal(ev, ts)
  BY DEF StoreNext, CaptureOpen, CaptureUnknown, OrphanSweep, Restart, Tick, storeVars
<1>. QED
  BY <1>1, <1>2, <1>3

(* The store's variables always have the shape of the Rust types: one      *)
(* unsealed, non-empty in-flight trace per thought at most, and only       *)
(* completed traces handed out (partial.rs:113-166).                       *)
THEOREM StoreTypeCorrect == StoreSpec => []StoreTypeOK
<1>1. StoreInit => StoreTypeOK
  BY TypeInit
<1>2. StoreTypeOK /\ [StoreNext]_storeVars => StoreTypeOK'
  BY TypeNext
<1>. QED
  BY <1>1, <1>2, PTL DEF StoreSpec

----------------------------------------------------------------------------
(* Attempt indices.  CountersMatch is what makes the next index a rank, so *)
(* it is half of the inductive invariant.                                  *)

IndexInv == StoreTypeOK /\ CountersMatch /\ AttemptIndexIsRank

LEMMA RankedEmpty == Ranked(<<>>)
  BY DEF Ranked

LEMMA RankedAppend ==
  ASSUME NEW s \in Seq(TraceComponent), Ranked(s), NEW c \in TraceComponent,
         c.attempt_index = CountOf(s, Len(s), c.event_type)
  PROVE  Ranked(Append(s, c))
<1>. DEFINE r == Append(s, c)
<1>1. /\ Len(s) \in Nat
      /\ Len(r) = Len(s) + 1
      /\ r[Len(s) + 1] = c
      /\ \A j \in 1..Len(s) : r[j] = s[j]
  OBVIOUS
<1>2. ASSUME NEW i \in 1..Len(r)
      PROVE  r[i].attempt_index = CountOf(r, i - 1, r[i].event_type)
  <2>1. i - 1 \in 0..Len(s)
    BY <1>1
  <2>2. CountOf(r, i - 1, r[i].event_type) = CountOf(s, i - 1, r[i].event_type)
    BY <2>1, CountPrefix
  <2>3. CASE i = Len(s) + 1
    BY <1>1, <2>2, <2>3
  <2>4. CASE i \in 1..Len(s)
    <3>1. s[i].attempt_index = CountOf(s, i - 1, s[i].event_type)
      BY <2>4 DEF Ranked
    <3>. QED
      BY <1>1, <2>2, <2>4, <3>1
  <2>. QED
    BY <1>1, <2>3, <2>4
<1>. QED
  BY <1>2 DEF Ranked

(* The component a capture pushes continues the ranking of its trace.      *)
LEMMA NextRank ==
  ASSUME IndexInv, NEW ev \in Inbound, Known(ev)
  PROVE  Ranked(Append(Components(ev.thought_id), ComponentOf(ev)))
<1>1. ev.thought_id \in Thoughts /\ ev.event_type \in EventTypes
  BY StoreAssumption DEF InboundEvent, Known
<1>2. ComponentOf(ev).attempt_index
        = CountOf(Components(ev.thought_id), Len(Components(ev.thought_id)),
                  ComponentOf(ev).event_type)
  BY <1>1 DEF IndexInv, CountersMatch, ComponentOf, AttemptIndex
<1>3. Ranked(Components(ev.thought_id))
  BY <1>1 DEF IndexInv, AttemptIndexIsRank
<1>. QED
  BY <1>1, <1>2, <1>3, RankedAppend, ComponentsType, ComponentType DEF IndexInv

LEMMA IndexOpen ==
  ASSUME IndexInv, NEW ev \in Inbound, NEW ts \in Stamps, CaptureOpen(ev, ts)
  PROVE  CountersMatch' /\ AttemptIndexIsRank'
<1>. DEFINE t0 == ev.thought_id
            e0 == ev.event_type
            c  == ComponentOf(ev)
<1>1. StoreTypeOK /\ Known(ev) /\ t0 \in Thoughts /\ e0 \in EventTypes
  BY StoreAssumption DEF IndexInv, CaptureOpen, Accept, InboundEvent, Known
<1>2. \A t \in Thoughts :
        Components(t)' = IF t = t0 THEN Append(Components(t), c) ELSE Components(t)
  BY <1>1, OpenEffect
<1>3. ASSUME NEW t \in Thoughts, NEW e \in EventTypes
      PROVE  attempt_counters'[t][e]
               = CountOf(Components(t)', Len(Components(t)'), e)
  <2>1. attempt_counters[t][e] = CountOf(Components(t), Len(Components(t)), e)
    BY DEF IndexInv, CountersMatch
  <2>2. CASE t # t0
    BY <1>1, <1>2, <2>1, <2>2 DEF CaptureOpen, StoreTypeOK
  <2>3. CASE t = t0
    <3>1. attempt_counters'[t][e] = IF e = e0 THEN attempt_counters[t][e] + 1
                                    ELSE attempt_counters[t][e]
      BY <1>1, <2>3 DEF CaptureOpen, StoreTypeOK
    <3>2. Components(t) \in Seq(TraceComponent) /\ c \in TraceComponent
      BY <1>1, ComponentsType, ComponentType
    <3>3. c.event_type = e0
      BY DEF ComponentOf
    <3>4. CountOf(Append(Components(t), c), Len(Append(Components(t), c)), e)
            = IF c.event_type = e
              THEN CountOf(Components(t), Len(Components(t)), e) + 1
              ELSE CountOf(Components(t), Len(Components(t)), e)
      BY <3>2, CountAppend
    <3>. QED
      BY <1>2, <2>1, <2>3, <3>1, <3>3, <3>4
  <2>. QED
    BY <2>2, <2>3
<1>4. \A t \in Thoughts : Ranked(Components(t)')
  BY <1>1, <1>2, NextRank DEF IndexInv, AttemptIndexIsRank
<1>5. CountersMatch'
  BY <1>3 DEF CountersMatch, CountOf
<1>6. AttemptIndexIsRank'
  BY <1>4 DEF IndexInv, AttemptIndexIsRank, CaptureOpen, Ranked, CountOf
<1>. QED
  BY <1>5, <1>6

LEMMA IndexSeal ==
  ASSUME IndexInv, NEW ev \in Inbound, NEW ts \in Stamps, CaptureSeal(ev, ts)
  PROVE  CountersMatch' /\ AttemptIndexIsRank'
<1>. DEFINE t0 == ev.thought_id
<1>1. StoreTypeOK /\ Known(ev) /\ t0 \in Thoughts
  BY StoreAssumption DEF IndexInv, CaptureSeal, Accept, InboundEvent
<1>2. /\ \A t \in Thoughts :
           Components(t)' = IF t = t0 THEN <<>> ELSE Components(t)
      /\ Len(sealed') = Len(sealed) + 1
      /\ \A n \in 1..Len(sealed) : sealed'[n] = sealed[n]
      /\ sealed'[Len(sealed) + 1].components
           = Append(Components(t0), ComponentOf(ev))
  BY <1>1, SealEffect
<1>3. ASSUME NEW t \in Thoughts, NEW e \in EventTypes
      PROVE  attempt_counters'[t][e]
               = CountOf(Components(t)', Len(Components(t)'), e)
  <2>1. CASE t # t0
    BY <1>1, <1>2, <2>1 DEF CaptureSeal, StoreTypeOK, IndexInv, CountersMatch
  <2>2. CASE t = t0
    BY <1>1, <1>2, <2>2, CountEmpty DEF CaptureSeal, StoreTypeOK, NoAttempts
  <2>. QED
    BY <2>1, <2>2
<1>4. \A t \in Thoughts : Ranked(Components(t)')
  BY <1>1, <1>2, RankedEmpty DEF IndexInv, AttemptIndexIsRank
<1>5. \A n \in 1..Len(sealed') : Ranked(sealed'[n].components)
  <2>1. Len(sealed) \in Nat
    BY <1>1 DEF StoreTypeOK
  <2>2. Ranked(Append(Components(t0), ComponentOf(ev)))
    BY <1>1, NextRank
  <2>3. ASSUME NEW n \in 1..Len(sealed') PROVE Ranked(sealed'[n].components)
    <3>1. CASE n = Len(sealed) + 1
      BY <1>2, <2>2, <3>1
    <3>2. CASE n \in 1..Len(sealed)
      BY <1>2, <3>2 DEF IndexInv, AttemptIndexIsRank
    <3>. QED
      BY <1>2, <2>1, <3>1, <3>2
  <2>. QED
    BY <2>3
<1>6. CountersMatch'
  BY <1>3 DEF CountersMatch, CountOf
<1>7. AttemptIndexIsRank'
  BY <1>4, <1>5 DEF AttemptIndexIsRank, Ranked, CountOf
<1>. QED
  BY <1>6, <1>7

LEMMA IndexForget ==
  ASSUME IndexInv, NEW S, Forget(S), UNCHANGED sealed
  PROVE  CountersMatch' /\ AttemptIndexIsRank'
<1>1. \A t \in Thoughts :
        Components(t)' = IF t \in S THEN <<>> ELSE Components(t)
  BY ForgetEffect DEF IndexInv
<1>2. ASSUME NEW t \in Thoughts, NEW e \in EventTypes
      PROVE  attempt_counters'[t][e]
               = CountOf(Components(t)', Len(Components(t)'), e)
  BY <1>1, CountEmpty DEF Forget, NoAttempts, IndexInv, CountersMatch
<1>3. \A t \in Thoughts : Ranked(Components(t)')
  BY <1>1, RankedEmpty DEF IndexInv, AttemptIndexIsRank
<1>4. CountersMatch'
  BY <1>2 DEF CountersMatch, CountOf
<1>5. AttemptIndexIsRank'
  BY <1>3 DEF IndexInv, AttemptIndexIsRank, Ranked, CountOf
<1>. QED
  BY <1>4, <1>5

LEMMA IndexUnchanged ==
  ASSUME IndexInv, UNCHANGED <<active, attempt_counters, sealed>>
  PROVE  CountersMatch' /\ AttemptIndexIsRank'
<1>1. \A t \in Thoughts : Components(t)' = Components(t)
  BY DEF Components
<1>2. CountersMatch'
  BY <1>1 DEF IndexInv, CountersMatch, CountOf
<1>3. AttemptIndexIsRank'
  BY <1>1 DEF IndexInv, AttemptIndexIsRank, Ranked, CountOf
<1>. QED
  BY <1>2, <1>3

LEMMA IndexNext ==
  ASSUME IndexInv, [StoreNext]_storeVars
  PROVE  IndexInv'
<1>. StoreTypeOK
  BY DEF IndexInv
<1>0. StoreTypeOK'
  BY TypeNext
<1>1. ASSUME NEW ev \in Inbound, NEW ts \in Stamp, CaptureOpen(ev, ts)
      PROVE  IndexInv'
  BY <1>0, <1>1, IndexOpen, StampsType DEF IndexInv
<1>2. ASSUME NEW ev \in Inbound, NEW ts \in Stamp, CaptureSeal(ev, ts)
      PROVE  IndexInv'
  BY <1>0, <1>2, IndexSeal, StampsType DEF IndexInv
<1>3. ASSUME NEW ev \in Inbound, CaptureUnknown(ev)
      PROVE  IndexInv'
  BY <1>0, <1>3, IndexUnchanged DEF IndexInv, CaptureUnknown, storeVars
<1>4. CASE OrphanSweep
  BY <1>0, <1>4, IndexForget DEF IndexInv, OrphanSweep
<1>5. CASE Restart
  BY <1>0, <1>5, IndexForget, RestartForgets DEF IndexInv, Restart
<1>6. CASE Tick
  BY <1>0, <1>6, IndexUnchanged DEF IndexInv, Tick
<1>7. CASE UNCHANGED storeVars
  BY <1>0, <1>7, IndexUnchanged DEF IndexInv, storeVars
<1>. QED
  BY <1>1, <1>2, <1>3, <1>4, <1>5, <1>6, <1>7 DEF StoreNext

LEMMA IndexInit == StoreInit => IndexInv
<1>. SUFFICES ASSUME StoreInit PROVE IndexInv
  OBVIOUS
<1>1. \A t \in Thoughts : Components(t) = <<>>
  BY DEF StoreInit, Components
<1>2. CountersMatch
  BY <1>1, CountEmpty DEF StoreInit, NoAttempts, CountersMatch
<1>3. AttemptIndexIsRank
  BY <1>1, RankedEmpty DEF StoreInit, AttemptIndexIsRank
<1>. QED
  BY <1>2, <1>3, TypeInit DEF IndexInv

LEMMA IndexInvariant == StoreSpec => []IndexInv
<1>1. IndexInv /\ [StoreNext]_storeVars => IndexInv'
  BY IndexNext
<1>. QED
  BY <1>1, IndexInit, PTL DEF StoreSpec

(* A counter always equals the number of components of its type in flight: *)
(* no seal, sweep or restart leaves one behind (partial.rs:261-301).       *)
THEOREM CountersAlwaysMatch == StoreSpec => []CountersMatch
<1>1. IndexInv => CountersMatch
  BY DEF IndexInv
<1>. QED
  BY <1>1, IndexInvariant, PTL

(* In every in-flight and sealed trace the attempt_index of a component is *)
(* its rank among the components of its type (partial.rs:16-23).           *)
THEOREM AttemptIndicesAreRanks == StoreSpec => []AttemptIndexIsRank
<1>1. IndexInv => AttemptIndexIsRank
  BY DEF IndexInv
<1>. QED
  BY <1>1, IndexInvariant, PTL

----------------------------------------------------------------------------
(* No event is in two traces.  The strengthening: an in-flight trace holds *)
(* events of its own thought only, so that two in-flight traces share none *)
(* and the one that is sealed next is disjoint from the others.            *)

EventsInv ==
  /\ StoreTypeOK
  /\ \A t \in Thoughts : \A x \in EvIds(Components(t)) :
       x \in 1..Len(delivered) /\ delivered[x].thought_id = t
  /\ \A n \in 1..Len(sealed) : EvIds(sealed[n].components) \subseteq 1..Len(delivered)
  /\ NoEventTwice

LEMMA EvIdsEmpty == EvIds(<<>>) = {}
  BY DEF EvIds

LEMMA EvIdsAppend ==
  ASSUME NEW S, NEW s \in Seq(S), NEW c \in S
  PROVE  EvIds(Append(s, c)) = EvIds(s) \cup {c.ev}
<1>1. /\ Len(s) \in Nat
      /\ Len(Append(s, c)) = Len(s) + 1
      /\ Append(s, c)[Len(s) + 1] = c
      /\ \A j \in 1..Len(s) : Append(s, c)[j] = s[j]
  OBVIOUS
<1>2. 1..(Len(s) + 1) = (1..Len(s)) \cup {Len(s) + 1}
  BY <1>1
<1>. QED
  BY <1>1, <1>2 DEF EvIds

(* An accepted event gets a new number; the old ones keep their meaning.   *)
LEMMA AcceptEffect ==
  ASSUME StoreTypeOK, NEW ev \in Inbound, Accept(ev)
  PROVE  /\ Len(delivered') = Len(delivered) + 1
         /\ delivered'[Len(delivered) + 1] = ev
         /\ \A x \in 1..Len(delivered) : delivered'[x] = delivered[x]
         /\ Len(delivered) \in Nat
  BY DEF StoreTypeOK, Accept

LEMMA EventsOpen ==
  ASSUME EventsInv, NEW ev \in Inbound, NEW ts \in Stamps, CaptureOpen(ev, ts)
  PROVE  EventsInv'
<1>. DEFINE t0 == ev.thought_id
            id == Len(delivered) + 1
<1>1. /\ StoreTypeOK /\ Known(ev) /\ Accept(ev) /\ t0 \in Thoughts
      /\ UNCHANGED sealed
  BY StoreAssumption DEF EventsInv, CaptureOpen, Accept, InboundEvent
<1>2. StoreTypeOK'
  BY <1>1, TypeOpen
<1>3. \A t \in Thoughts :
        EvIds(Components(t)') = IF t = t0 THEN EvIds(Components(t)) \cup {id}
                                ELSE EvIds(Components(t))
  <2>1. /\ Components(t0) \in Seq(TraceComponent)
        /\ ComponentOf(ev) \in TraceComponent
        /\ ComponentOf(ev).ev = id
    BY <1>1, ComponentsType, ComponentType DEF ComponentOf
  <2>2. EvIds(Append(Components(t0), ComponentOf(ev))) =
          EvIds(Components(t0)) \cup {id}
    BY <2>1, EvIdsAppend
  <2>3. \A t \in Thoughts :
          Components(t)' = IF t = t0 THEN Append(Components(t0), ComponentOf(ev))
                           ELSE Components(t)
    BY <1>1, OpenEffect
  <2>4. \A t \in Thoughts : EvIds(Components(t)') =
          EvIds(IF t = t0 THEN Append(Components(t0), ComponentOf(ev))
                ELSE Components(t))
    BY <2>3
  <2>. QED
    BY <2>2, <2>4
<1>4. \A t \in Thoughts : \A x \in EvIds(Components(t)') :
        x \in 1..Len(delivered') /\ delivered'[x].thought_id = t
  BY <1>1, <1>3, AcceptEffect DEF EventsInv
<1>5. \A n \in 1..Len(sealed) :
        EvIds(sealed[n].components) \subseteq 1..Len(delivered')
  BY <1>1, AcceptEffect DEF EventsInv
<1>6. \A t \in Thoughts, n \in 1..Len(sealed) :
        EvIds(Components(t)') \cap EvIds(sealed[n].components) = {}
  <2>1. \A n \in 1..Len(sealed) : id \notin EvIds(sealed[n].components)
    BY <1>1, AcceptEffect DEF EventsInv
  <2>. QED
    BY <1>3, <2>1 DEF EventsInv, NoEventTwice
<1>7. NoEventTwice'
  BY <1>1, <1>6 DEF EventsInv, NoEventTwice
<1>. QED
  BY <1>1, <1>2, <1>4, <1>5, <1>7 DEF EventsInv

LEMMA EventsSeal ==
  ASSUME EventsInv, NEW ev \in Inbound, NEW ts \in Stamps, CaptureSeal(ev, ts)
  PROVE  EventsInv'
<1>. DEFINE t0  == ev.thought_id
            id  == Len(delivered) + 1
            new == Len(sealed) + 1
            own == EvIds(Components(t0)) \cup {id}
<1>1. StoreTypeOK /\ Known(ev) /\ Accept(ev) /\ t0 \in Thoughts
  BY StoreAssumption DEF EventsInv, CaptureSeal, Accept, InboundEvent
<1>2. StoreTypeOK'
  BY <1>1, TypeSeal
<1>3. /\ \A t \in Thoughts :
           Components(t)' = IF t = t0 THEN <<>> ELSE Components(t)
      /\ Len(sealed') = new
      /\ \A n \in 1..Len(sealed) : sealed'[n] = sealed[n]
      /\ sealed'[new].components = Append(Components(t0), ComponentOf(ev))
      /\ Len(sealed) \in Nat
  BY <1>1, SealEffect DEF StoreTypeOK
<1>4. /\ \A n \in 1..Len(sealed) :
           EvIds(sealed'[n].components) = EvIds(sealed[n].components)
      /\ EvIds(sealed'[new].components) = own
  BY <1>1, <1>3, EvIdsAppend, ComponentsType, ComponentType DEF ComponentOf
<1>5. \A t \in Thoughts :
        EvIds(Components(t)') = IF t = t0 THEN {} ELSE EvIds(Components(t))
  BY <1>3, EvIdsEmpty
<1>6. \A t \in Thoughts : \A x \in EvIds(Components(t)') :
        x \in 1..Len(delivered') /\ delivered'[x].thought_id = t
  BY <1>1, <1>5, AcceptEffect DEF EventsInv
<1>7. own \subseteq 1..Len(delivered')
  BY <1>1, AcceptEffect DEF EventsInv
<1>8. \A n \in 1..Len(sealed) : EvIds(sealed[n].components) \cap own = {}
  <2>1. \A n \in 1..Len(sealed) : id \notin EvIds(sealed[n].components)
    BY <1>1, AcceptEffect DEF EventsInv
  <2>. QED
    BY <1>1, <2>1 DEF EventsInv, NoEventTwice
<1>9. \A t \in Thoughts \ {t0} : EvIds(Components(t)) \cap own = {}
  <2>1. \A t \in Thoughts : id \notin EvIds(Components(t))
    BY <1>1, AcceptEffect DEF EventsInv
  <2>. QED
    BY <1>1, <2>1 DEF EventsInv
<1>10. \A n \in 1..Len(sealed') :
         EvIds(sealed'[n].components) \subseteq 1..Len(delivered')
  <2>1. \A n \in 1..Len(sealed) :
          EvIds(sealed[n].components) \subseteq 1..Len(delivered')
    <3>1. \A n \in 1..Len(sealed) :
            EvIds(sealed[n].components) \subseteq 1..Len(delivered)
      BY DEF EventsInv
    <3>2. 1..Len(delivered) \subseteq 1..Len(delivered')
      BY <1>1, AcceptEffect
    <3>. QED
      BY <3>1, <3>2
  <2>2. 1..Len(sealed') = (1..Len(sealed)) \cup {new}
    BY <1>3
  <2>. QED
    BY <1>4, <1>7, <2>1, <2>2
<1>11. NoEventTwice'
  <2>1. 1..Len(sealed') = (1..Len(sealed)) \cup {new} /\ new \notin 1..Len(sealed)
    BY <1>3
  <2>2. \A m, n \in 1..Len(sealed') : m # n =>
          EvIds(sealed'[m].components) \cap EvIds(sealed'[n].components) = {}
    <3>1. \A m, n \in 1..Len(sealed) : m # n =>
            EvIds(sealed[m].components) \cap EvIds(sealed[n].components) = {}
      BY DEF EventsInv, NoEventTwice
    <3>. QED
      BY <1>4, <1>8, <2>1, <3>1
  <2>3. \A t \in Thoughts, n \in 1..Len(sealed') :
          EvIds(Components(t)') \cap EvIds(sealed'[n].components) = {}
    <3>1. \A t \in Thoughts, n \in 1..Len(sealed) :
            EvIds(Components(t)) \cap EvIds(sealed[n].components) = {}
      BY DEF EventsInv, NoEventTwice
    <3>. QED
      BY <1>4, <1>5, <1>9, <2>1, <3>1
  <2>. QED
    BY <2>2, <2>3 DEF NoEventTwice
<1>. QED
  BY <1>2, <1>6, <1>10, <1>11 DEF EventsInv

LEMMA EventsForget ==
  ASSUME EventsInv, StoreTypeOK', NEW S, Forget(S), UNCHANGED <<delivered, sealed>>
  PROVE  EventsInv'
<1>1. \A t \in Thoughts :
        EvIds(Components(t)') = IF t \in S THEN {} ELSE EvIds(Components(t))
  BY ForgetEffect, EvIdsEmpty DEF EventsInv
<1>2. NoEventTwice'
  BY <1>1 DEF EventsInv, NoEventTwice
<1>. QED
  BY <1>1, <1>2 DEF EventsInv

LEMMA EventsUnchanged ==
  ASSUME EventsInv, StoreTypeOK', UNCHANGED <<active, delivered, sealed>>
  PROVE  EventsInv'
<1>1. \A t \in Thoughts : Components(t)' = Components(t)
  BY DEF Components
<1>2. NoEventTwice'
  BY <1>1 DEF EventsInv, NoEventTwice
<1>. QED
  BY <1>1, <1>2 DEF EventsInv

LEMMA EventsNext ==
  ASSUME EventsInv, [StoreNext]_storeVars
  PROVE  EventsInv'
<1>. StoreTypeOK
  BY DEF EventsInv
<1>0. StoreTypeOK'
  BY TypeNext
<1>1. ASSUME NEW ev \in Inbound, NEW ts \in Stamp, CaptureOpen(ev, ts)
      PROVE  EventsInv'
  BY <1>1, EventsOpen, StampsType
<1>2. ASSUME NEW ev \in Inbound, NEW ts \in Stamp, CaptureSeal(ev, ts)
      PROVE  EventsInv'
  BY <1>2, EventsSeal, StampsType
<1>3. ASSUME NEW ev \in Inbound, CaptureUnknown(ev)
      PROVE  EventsInv'
  BY <1>0, <1>3, EventsUnchanged DEF CaptureUnknown, storeVars
<1>4. CASE OrphanSweep
  BY <1>0, <1>4, EventsForget DEF OrphanSweep
<1>5. CASE Restart
  BY <1>0, <1>5, EventsForget, RestartForgets DEF Restart
<1>6. CASE Tick
  BY <1>0, <1>6, EventsUnchanged DEF Tick
<1>7. CASE UNCHANGED storeVars
  BY <1>0, <1>7, EventsUnchanged DEF storeVars
<1>. QED
  BY <1>1, <1>2, <1>3, <1>4, <1>5, <1>6, <1>7 DEF StoreNext

LEMMA EventsInit == StoreInit => EventsInv
<1>. SUFFICES ASSUME StoreInit PROVE EventsInv
  OBVIOUS
<1>1. \A t \in Thoughts : Components(t) = <<>>
  BY DEF StoreInit, Components
<1>. QED
  BY <1>1, EvIdsEmpty, TypeInit DEF StoreInit, EventsInv, NoEventTwice

(* No event is in two traces, sealed or in flight (partial.rs:258-269).    *)
THEOREM EventsInOneTrace == StoreSpec => []NoEventTwice
<1>1. EventsInv /\ [StoreNext]_storeVars => EventsInv'
  BY EventsNext
<1>2. EventsInv => NoEventTwice
  BY DEF EventsInv
<1>. QED
  BY <1>1, <1>2, EventsInit, PTL DEF StoreSpec

----------------------------------------------------------------------------
(* Traces are well formed.  FirstNamed alone is not inductive: it says     *)
(* nothing of a trace whose events named no level so far, and the next     *)
(* event would then not be free to name the first one.  FirstOf adds it.   *)

(* x is the first value of s[1], ..., s[n] that is known, if there is one. *)
FirstOf(n, s, x) ==
  /\ \A i \in 1..n : (\A j \in 1..(i - 1) : s[j] = None)
                       => x = s[i] \/ \A j \in 1..i : s[j] = None
  /\ (\A j \in 1..n : s[j] = None) => x = None

LevelsOf(d, cs) == [i \in 1..Len(cs) |-> d[cs[i].ev].trace_level]
TasksOf(d, cs)  == [i \in 1..Len(cs) |-> d[cs[i].ev].task_id]

(* The components cs, the level and the task come from events of thought t *)
(* among the events d, in their order.                                     *)
BuiltFrom(d, t, cs, level, task) ==
  /\ \A i \in 1..Len(cs) : /\ cs[i].ev \in 1..Len(d)
                           /\ d[cs[i].ev].thought_id = t
                           /\ d[cs[i].ev].event_type = cs[i].event_type
  /\ \A i, j \in 1..Len(cs) : i < j => cs[i].ev < cs[j].ev
  /\ FirstOf(Len(cs), LevelsOf(d, cs), level)
  /\ FirstOf(Len(cs), TasksOf(d, cs), task)

TraceBuiltFrom(d, tr) ==
  BuiltFrom(d, tr.thought_id, tr.components, tr.trace_level, tr.task_id)

WellFormedInv ==
  /\ StoreTypeOK
  /\ \A t \in Thoughts : active[t] # NoTrace =>
       /\ TraceBuiltFrom(delivered, active[t])
       /\ \A i \in 1..Len(active[t].components) :
            active[t].components[i].event_type # SealType
  /\ \A n \in 1..Len(sealed) :
       /\ TraceBuiltFrom(delivered, sealed[n])
       /\ \A i \in 1..Len(sealed[n].components) :
            sealed[n].components[i].event_type = SealType
              <=> i = Len(sealed[n].components)

LEMMA FirstOfAppend ==
  ASSUME NEW n \in Nat, NEW s, NEW r, NEW x, FirstOf(n, s, x),
         \A i \in 1..n : r[i] = s[i]
  PROVE  FirstOf(n + 1, r, FirstKnown(x, r[n + 1]))
<1>. DEFINE y == FirstKnown(x, r[n + 1])
<1>1. ASSUME NEW i \in 1..(n + 1), \A j \in 1..(i - 1) : r[j] = None
      PROVE  y = r[i] \/ \A j \in 1..i : r[j] = None
  <2>1. CASE i \in 1..n
    <3>1. \A j \in 1..(i - 1) : s[j] = None
      BY <1>1, <2>1
    <3>2. x = s[i] \/ \A j \in 1..i : s[j] = None
      BY <2>1, <3>1 DEF FirstOf
    <3>. QED
      BY <1>1, <2>1, <3>2 DEF FirstKnown
  <2>2. CASE i = n + 1
    <3>1. \A j \in 1..n : s[j] = None
      BY <1>1, <2>2
    <3>2. x = None
      BY <3>1 DEF FirstOf
    <3>. QED
      BY <2>2, <3>2 DEF FirstKnown
  <2>. QED
    BY <2>1, <2>2
<1>2. ASSUME \A j \in 1..(n + 1) : r[j] = None
      PROVE  y = None
  <2>1. (\A j \in 1..n : s[j] = None) /\ r[n + 1] = None
    BY <1>2
  <2>. QED
    BY <2>1 DEF FirstOf, FirstKnown
<1>. QED
  BY <1>1, <1>2 DEF FirstOf

(* A trace still tells the truth when more events were accepted.           *)
LEMMA BuiltLater ==
  ASSUME NEW d \in Seq(Inbound), NEW e \in Inbound, NEW t, NEW cs, NEW lv, NEW tk,
         BuiltFrom(d, t, cs, lv, tk)
  PROVE  BuiltFrom(Append(d, e), t, cs, lv, tk)
<1>1. /\ Len(Append(d, e)) = Len(d) + 1 /\ Len(d) \in Nat
      /\ \A x \in 1..Len(d) : Append(d, e)[x] = d[x]
  OBVIOUS
<1>2. \A i \in 1..Len(cs) : cs[i].ev \in 1..Len(d)
  BY DEF BuiltFrom
<1>3. /\ LevelsOf(Append(d, e), cs) = LevelsOf(d, cs)
      /\ TasksOf(Append(d, e), cs) = TasksOf(d, cs)
  BY <1>1, <1>2 DEF LevelsOf, TasksOf
<1>. QED
  BY <1>1, <1>2, <1>3 DEF BuiltFrom

LEMMA BuiltEmpty ==
  ASSUME NEW d, NEW t
  PROVE  BuiltFrom(d, t, <<>>, None, None)
  BY DEF BuiltFrom, FirstOf

(* The component of the event just accepted goes on top.                   *)
LEMMA BuiltAppend ==
  ASSUME NEW d \in Seq(Inbound), NEW e \in Inbound,
         NEW cs \in Seq(TraceComponent), NEW c \in TraceComponent,
         NEW lv, NEW tk, BuiltFrom(d, e.thought_id, cs, lv, tk),
         c.ev = Len(d) + 1, c.event_type = e.event_type
  PROVE  BuiltFrom(Append(d, e), e.thought_id, Append(cs, c),
                   FirstKnown(lv, e.trace_level), FirstKnown(tk, e.task_id))
<1>. DEFINE d1 == Append(d, e)
            r  == Append(cs, c)
            n  == Len(cs)
<1>1. /\ n \in Nat /\ Len(r) = n + 1 /\ r[n + 1] = c
      /\ \A i \in 1..n : r[i] = cs[i]
  OBVIOUS
<1>2. /\ Len(d) \in Nat /\ Len(d1) = Len(d) + 1 /\ d1[Len(d) + 1] = e
      /\ \A x \in 1..Len(d) : d1[x] = d[x]
  OBVIOUS
<1>. HIDE DEF d1, r, n
<1>3. \A i \in 1..n : /\ cs[i].ev \in 1..Len(d)
                      /\ d[cs[i].ev].thought_id = e.thought_id
                      /\ d[cs[i].ev].event_type = cs[i].event_type
  BY DEF BuiltFrom, n
<1>4. 1..(n + 1) = (1..n) \cup {n + 1}
  BY <1>1
<1>5. \A i \in 1..Len(r) : /\ r[i].ev \in 1..Len(d1)
                           /\ d1[r[i].ev].thought_id = e.thought_id
                           /\ d1[r[i].ev].event_type = r[i].event_type
  BY <1>1, <1>2, <1>3, <1>4
<1>6. \A i, j \in 1..Len(r) : i < j => r[i].ev < r[j].ev
  <2>1. \A i, j \in 1..n : i < j => cs[i].ev < cs[j].ev
    BY DEF BuiltFrom, n
  <2>2. ASSUME NEW i \in 1..(n + 1), NEW j \in 1..(n + 1), i < j
        PROVE  r[i].ev < r[j].ev
    <3>1. i \in 1..n /\ cs[i].ev \in 1..Len(d)
      BY <1>1, <1>3, <2>2
    <3>2. CASE j = n + 1
      BY <1>1, <1>2, <3>1, <3>2
    <3>3. CASE j \in 1..n
      BY <1>1, <2>1, <2>2, <3>1, <3>3
    <3>. QED
      BY <1>4, <3>2, <3>3
  <2>. QED
    BY <1>1, <2>2
<1>7. FirstOf(Len(r), LevelsOf(d1, r), FirstKnown(lv, e.trace_level))
  <2>1. FirstOf(n, LevelsOf(d, cs), lv)
    BY DEF BuiltFrom, n
  <2>2. \A i \in 1..n : LevelsOf(d1, r)[i] = LevelsOf(d, cs)[i]
    <3>1. ASSUME NEW i \in 1..n
          PROVE  /\ LevelsOf(d1, r)[i] = d1[r[i].ev].trace_level
                 /\ LevelsOf(d, cs)[i] = d[cs[i].ev].trace_level
      BY <1>1 DEF LevelsOf, n
    <3>. QED
      BY <1>1, <1>2, <1>3, <3>1
  <2>3. LevelsOf(d1, r)[n + 1] = e.trace_level
    BY <1>1, <1>2 DEF LevelsOf
  <2>. QED
    BY <1>1, <2>1, <2>2, <2>3, FirstOfAppend
<1>8. FirstOf(Len(r), TasksOf(d1, r), FirstKnown(tk, e.task_id))
  <2>1. FirstOf(n, TasksOf(d, cs), tk)
    BY DEF BuiltFrom, n
  <2>2. \A i \in 1..n : TasksOf(d1, r)[i] = TasksOf(d, cs)[i]
    <3>1. ASSUME NEW i \in 1..n
          PROVE  /\ TasksOf(d1, r)[i] = d1[r[i].ev].task_id
                 /\ TasksOf(d, cs)[i] = d[cs[i].ev].task_id
      BY <1>1 DEF TasksOf, n
    <3>. QED
      BY <1>1, <1>2, <1>3, <3>1
  <2>3. TasksOf(d1, r)[n + 1] = e.task_id
    BY <1>1, <1>2 DEF TasksOf
  <2>. QED
    BY <1>1, <2>1, <2>2, <2>3, FirstOfAppend
<1>9. BuiltFrom(d1, e.thought_id, r,
                FirstKnown(lv, e.trace_level), FirstKnown(tk, e.task_id))
  BY <1>5, <1>6, <1>7, <1>8 DEF BuiltFrom
<1>. QED
  BY <1>9 DEF d1, r

(* The trace that an accepted event leaves is built from the events so far.*)
LEMMA AssembledIsBuilt ==
  ASSUME WellFormedInv, NEW ev \in Inbound, Known(ev), NEW ts \in Stamps
  PROVE  TraceBuiltFrom(Append(delivered, ev), Assembled(ev, ts))
<1>. DEFINE t  == ev.thought_id
            cs == Components(t)
            lv == IF active[t] = NoTrace THEN None ELSE active[t].trace_level
            tk == IF active[t] = NoTrace THEN None ELSE active[t].task_id
<1>0. StoreTypeOK /\ delivered \in Seq(Inbound)
  BY DEF WellFormedInv, StoreTypeOK
<1>1. t \in Thoughts
  BY StoreAssumption DEF InboundEvent
<1>2. BuiltFrom(delivered, t, cs, lv, tk)
  <2>1. CASE active[t] = NoTrace
    BY <2>1, BuiltEmpty DEF Components
  <2>2. CASE active[t] # NoTrace
    <3>1. active[t].thought_id = t
      BY <1>0, <1>1, <2>2 DEF StoreTypeOK
    <3>. QED
      BY <1>1, <2>2, <3>1 DEF WellFormedInv, TraceBuiltFrom, Components
  <2>. QED
    BY <2>1, <2>2
<1>3. /\ cs \in Seq(TraceComponent)
      /\ ComponentOf(ev) \in TraceComponent
      /\ ComponentOf(ev).ev = Len(delivered) + 1
      /\ ComponentOf(ev).event_type = ev.event_type
  BY <1>0, <1>1, ComponentsType, ComponentType DEF ComponentOf
<1>4. /\ Assembled(ev, ts).trace_level = FirstKnown(lv, ev.trace_level)
      /\ Assembled(ev, ts).task_id = FirstKnown(tk, ev.task_id)
  BY <1>0, <1>1 DEF Assembled, OpenedBy, FirstKnown, StoreTypeOK, CompleteTrace
<1>5. /\ Assembled(ev, ts).thought_id = t
      /\ Assembled(ev, ts).components = Append(cs, ComponentOf(ev))
  BY <1>0, AssembledTrace
<1>. HIDE DEF cs, lv, tk
<1>6. BuiltFrom(Append(delivered, ev), t, Append(cs, ComponentOf(ev)),
                FirstKnown(lv, ev.trace_level), FirstKnown(tk, ev.task_id))
  BY <1>0, <1>2, <1>3, BuiltAppend
<1>. QED
  BY <1>4, <1>5, <1>6 DEF TraceBuiltFrom

(* Its components before the last do not seal.                             *)
LEMMA AssembledTypes ==
  ASSUME WellFormedInv, NEW ev \in Inbound, Known(ev), NEW ts \in Stamps
  PROVE  LET cs == Assembled(ev, ts).components IN
         /\ Len(cs) = Len(Components(ev.thought_id)) + 1
         /\ cs[Len(cs)].event_type = ev.event_type
         /\ \A i \in 1..(Len(cs) - 1) : cs[i].event_type # SealType
<1>. DEFINE s == Components(ev.thought_id)
            c == ComponentOf(ev)
<1>0. StoreTypeOK /\ ev.thought_id \in Thoughts
  BY StoreAssumption DEF WellFormedInv, InboundEvent
<1>1. s \in Seq(TraceComponent) /\ c.event_type = ev.event_type
  BY <1>0, ComponentsType DEF ComponentOf
<1>2. \A i \in 1..Len(s) : s[i].event_type # SealType
  BY <1>0 DEF WellFormedInv, Components
<1>3. Assembled(ev, ts).components = Append(s, c)
  BY <1>0, AssembledTrace
<1>. HIDE DEF s, c
<1>4. /\ Len(Append(s, c)) = Len(s) + 1 /\ Len(s) \in Nat
      /\ Append(s, c)[Len(s) + 1] = c
      /\ \A i \in 1..Len(s) : Append(s, c)[i] = s[i]
  BY <1>1
<1>. QED
  BY <1>1, <1>2, <1>3, <1>4 DEF s

LEMMA WellFormedOpen ==
  ASSUME WellFormedInv, NEW ev \in Inbound, NEW ts \in Stamps, CaptureOpen(ev, ts)
  PROVE  WellFormedInv'
<1>. DEFINE tr == Assembled(ev, ts)
<1>1. /\ StoreTypeOK /\ Known(ev) /\ ev.event_type # SealType
      /\ delivered \in Seq(Inbound) /\ delivered' = Append(delivered, ev)
      /\ active' = [active EXCEPT ![ev.thought_id] = tr]
      /\ UNCHANGED sealed
  BY DEF WellFormedInv, StoreTypeOK, CaptureOpen, Accept
<1>2. StoreTypeOK'
  BY <1>1, TypeOpen
<1>3. /\ TraceBuiltFrom(delivered', tr)
      /\ \A i \in 1..Len(tr.components) : tr.components[i].event_type # SealType
  <2>1. tr.components \in Seq(TraceComponent)
    BY <1>1, AssembledTrace DEF CompleteTrace
  <2>2. /\ Len(tr.components) \in Nat \ {0}
        /\ tr.components[Len(tr.components)].event_type = ev.event_type
        /\ \A i \in 1..(Len(tr.components) - 1) :
             tr.components[i].event_type # SealType
    BY <1>1, <2>1, AssembledTypes, ComponentsType, AssembledTrace
  <2>. QED
    BY <1>1, <2>2, AssembledIsBuilt
<1>. HIDE DEF tr
<1>4. ASSUME NEW t \in Thoughts, active'[t] # NoTrace
      PROVE  /\ TraceBuiltFrom(delivered', active'[t])
             /\ \A i \in 1..Len(active'[t].components) :
                  active'[t].components[i].event_type # SealType
  <2>1. CASE t = ev.thought_id
    BY <1>1, <1>3, <2>1 DEF StoreTypeOK
  <2>2. CASE t # ev.thought_id
    <3>1. active'[t] = active[t]
      BY <1>1, <2>2 DEF StoreTypeOK
    <3>. QED
      BY <1>1, <1>4, <3>1, BuiltLater DEF WellFormedInv, TraceBuiltFrom
  <2>. QED
    BY <2>1, <2>2
<1>5. \A n \in 1..Len(sealed) : TraceBuiltFrom(delivered', sealed[n])
  BY <1>1, BuiltLater DEF WellFormedInv, TraceBuiltFrom
<1>. QED
  BY <1>1, <1>2, <1>4, <1>5 DEF WellFormedInv

LEMMA WellFormedSeal ==
  ASSUME WellFormedInv, NEW ev \in Inbound, NEW ts \in Stamps, CaptureSeal(ev, ts)
  PROVE  WellFormedInv'
<1>. DEFINE tr  == [Assembled(ev, ts) EXCEPT !.completed_at = ts]
            new == Len(sealed) + 1
<1>1. /\ StoreTypeOK /\ Known(ev) /\ ev.event_type = SealType
      /\ delivered \in Seq(Inbound) /\ delivered' = Append(delivered, ev)
      /\ active' = [active EXCEPT ![ev.thought_id] = NoTrace]
      /\ sealed' = Append(sealed, tr) /\ sealed \in Seq(CompleteTrace)
  BY DEF WellFormedInv, StoreTypeOK, CaptureSeal, Accept
<1>2. StoreTypeOK'
  BY <1>1, TypeSeal
<1>3. /\ tr.thought_id = Assembled(ev, ts).thought_id
      /\ tr.trace_level = Assembled(ev, ts).trace_level
      /\ tr.task_id = Assembled(ev, ts).task_id
      /\ tr.components = Assembled(ev, ts).components
      /\ tr.components \in Seq(TraceComponent)
      /\ tr \in CompleteTrace
  <2>1. PICK a \in CompleteTrace : a = Assembled(ev, ts)
    BY <1>1, AssembledTrace
  <2>2. tr = [a EXCEPT !.completed_at = ts]
    BY <2>1
  <2>. HIDE DEF tr
  <2>. QED
    BY <2>1, <2>2 DEF CompleteTrace
<1>4. TraceBuiltFrom(delivered', tr)
  BY <1>1, <1>3, AssembledIsBuilt DEF TraceBuiltFrom
<1>5. \A i \in 1..Len(tr.components) :
        tr.components[i].event_type = SealType <=> i = Len(tr.components)
  <2>1. /\ Len(tr.components) \in Nat
        /\ tr.components[Len(tr.components)].event_type = ev.event_type
        /\ \A i \in 1..(Len(tr.components) - 1) :
             tr.components[i].event_type # SealType
    BY <1>1, <1>3, AssembledTypes
  <2>. QED
    BY <1>1, <2>1
<1>. HIDE DEF tr
<1>6. ASSUME NEW t \in Thoughts, active'[t] # NoTrace
      PROVE  active'[t] = active[t] /\ active[t] # NoTrace
  BY <1>1, <1>6 DEF StoreTypeOK
<1>7. \A t \in Thoughts : active'[t] # NoTrace =>
        /\ TraceBuiltFrom(delivered', active'[t])
        /\ \A i \in 1..Len(active'[t].components) :
             active'[t].components[i].event_type # SealType
  BY <1>1, <1>6, BuiltLater DEF WellFormedInv, TraceBuiltFrom
<1>8. /\ Len(sealed) \in Nat /\ 1..Len(sealed') = (1..Len(sealed)) \cup {new}
      /\ sealed'[new] = tr /\ \A n \in 1..Len(sealed) : sealed'[n] = sealed[n]
  BY <1>1, <1>3
<1>9. \A n \in 1..Len(sealed) : TraceBuiltFrom(delivered', sealed[n])
  BY <1>1, BuiltLater DEF WellFormedInv, TraceBuiltFrom
<1>10. \A n \in 1..Len(sealed') :
         /\ TraceBuiltFrom(delivered', sealed'[n])
         /\ \A i \in 1..Len(sealed'[n].components) :
              sealed'[n].components[i].event_type = SealType
                <=> i = Len(sealed'[n].components)
  <2>1. ASSUME NEW n \in 1..Len(sealed)
        PROVE  /\ TraceBuiltFrom(delivered', sealed'[n])
               /\ \A i \in 1..Len(sealed'[n].components) :
                    sealed'[n].components[i].event_type = SealType
                      <=> i = Len(sealed'[n].components)
    BY <1>8, <1>9 DEF WellFormedInv
  <2>. QED
    BY <1>4, <1>5, <1>8, <2>1
<1>. QED
  BY <1>2, <1>7, <1>10 DEF WellFormedInv

LEMMA WellFormedNext ==
  ASSUME WellFormedInv, [StoreNext]_storeVars
  PROVE  WellFormedInv'
<1>. StoreTypeOK
  BY DEF WellFormedInv
<1>0. StoreTypeOK'
  BY TypeNext
<1>1. ASSUME NEW ev \in Inbound, NEW ts \in Stamp, CaptureOpen(ev, ts)
      PROVE  WellFormedInv'
  BY <1>1, WellFormedOpen, StampsType
<1>2. ASSUME NEW ev \in Inbound, NEW ts \in Stamp, CaptureSeal(ev, ts)
      PROVE  WellFormedInv'
  BY <1>2, WellFormedSeal, StampsType
<1>3. ASSUME NEW S, Forget(S), UNCHANGED <<delivered, sealed>>
      PROVE  WellFormedInv'
  <2>1. \A t \in Thoughts : active'[t] # NoTrace => active'[t] = active[t]
    BY <1>3 DEF Forget
  <2>. QED
    BY <1>0, <1>3, <2>1 DEF WellFormedInv
<1>4. CASE UNCHANGED <<active, delivered, sealed>>
  BY <1>0, <1>4 DEF WellFormedInv
<1>5. CASE OrphanSweep
  BY <1>3, <1>5 DEF OrphanSweep
<1>6. CASE Restart
  BY <1>3, <1>6, RestartForgets DEF Restart
<1>. QED
  BY <1>1, <1>2, <1>4, <1>5, <1>6
  DEF StoreNext, CaptureUnknown, Tick, storeVars

LEMMA WellFormedInit == StoreInit => WellFormedInv
  BY TypeInit DEF StoreInit, WellFormedInv

LEMMA WellFormedImplies == WellFormedInv => TracesWellFormed
<1>. SUFFICES ASSUME WellFormedInv PROVE TracesWellFormed
  OBVIOUS
<1>1. ASSUME NEW tr \in CompleteTrace, TraceBuiltFrom(delivered, tr)
      PROVE  FirstNamed(tr) /\ InOrderOf(tr.thought_id, tr.components)
  <2>. DEFINE cs == tr.components
  <2>1. InOrderOf(tr.thought_id, cs)
    BY <1>1 DEF TraceBuiltFrom, BuiltFrom, InOrderOf
  <2>2. ASSUME NEW i \in 1..Len(cs)
        PROVE  /\ (\A j \in 1..(i - 1) : delivered[cs[j].ev].trace_level = None)
                    => \/ tr.trace_level = delivered[cs[i].ev].trace_level
                       \/ \A j \in 1..i : delivered[cs[j].ev].trace_level = None
               /\ (\A j \in 1..(i - 1) : delivered[cs[j].ev].task_id = None)
                    => \/ tr.task_id = delivered[cs[i].ev].task_id
                       \/ \A j \in 1..i : delivered[cs[j].ev].task_id = None
    <3>1. Len(cs) \in Nat
      BY DEF CompleteTrace
    <3>2. \A j \in 1..Len(cs) :
            /\ LevelsOf(delivered, cs)[j] = delivered[cs[j].ev].trace_level
            /\ TasksOf(delivered, cs)[j] = delivered[cs[j].ev].task_id
      BY DEF LevelsOf, TasksOf
    <3>3. /\ FirstOf(Len(cs), LevelsOf(delivered, cs), tr.trace_level)
          /\ FirstOf(Len(cs), TasksOf(delivered, cs), tr.task_id)
      BY <1>1 DEF TraceBuiltFrom, BuiltFrom
    <3>. HIDE DEF cs
    <3>. QED
      BY <2>2, <3>1, <3>2, <3>3 DEF FirstOf
  <2>3. FirstNamed(tr)
    BY <2>2 DEF FirstNamed
  <2>. QED
    BY <2>1, <2>3
<1>2. ASSUME NEW t \in Thoughts
      PROVE  /\ InOrderOf(t, Components(t))
             /\ active[t] # NoTrace => FirstNamed(active[t])
             /\ \A i \in 1..Len(Components(t)) :
                  Components(t)[i].event_type # SealType
  <2>1. CASE active[t] = NoTrace
    BY <2>1 DEF Components, InOrderOf
  <2>2. CASE active[t] # NoTrace
    <3>1. active[t] \in CompleteTrace /\ active[t].thought_id = t
      BY <2>2 DEF WellFormedInv, StoreTypeOK
    <3>. QED
      BY <1>1, <2>2, <3>1 DEF WellFormedInv, Components
  <2>. QED
    BY <2>1, <2>2
<1>3. \A n \in 1..Len(sealed) : sealed[n] \in CompleteTrace
  BY DEF WellFormedInv, StoreTypeOK
<1>. QED
  BY <1>1, <1>2, <1>3 DEF WellFormedInv, TracesWellFormed

(* A trace holds events of its own thought only, in the order they were    *)
(* accepted, under the first task and level they named, and a sealed trace *)
(* ends with the one event that seals (partial.rs:230-268).                *)
THEOREM TracesAreWellFormed == StoreSpec => []TracesWellFormed
<1>1. WellFormedInv /\ [StoreNext]_storeVars => WellFormedInv'
  BY WellFormedNext
<1>. QED
  BY <1>1, WellFormedInit, WellFormedImplies, PTL DEF StoreSpec

(* What the store holds is sound, one with the other: shapes, counters,    *)
(* ranks, order and no event in two places (partial.rs:157-304).           *)
THEOREM StoreTracesAreSound == StoreSpec => []TracesAreSound
<1>1. StoreTypeOK /\ CountersMatch /\ AttemptIndexIsRank /\ TracesWellFormed
        /\ NoEventTwice => TracesAreSound
  BY DEF TracesAreSound
<1>. QED
  BY <1>1, StoreTypeCorrect, CountersAlwaysMatch, AttemptIndicesAreRanks,
     TracesAreWellFormed, EventsInOneTrace, PTL

(* A step that ends a trace restarts the process, sweeps a trace that is   *)
(* over age or unreadable, or seals that very trace.                       *)
EndsOnlyStale ==
  \A t \in Thoughts :
    (active[t] # NoTrace /\ active'[t] = NoTrace) =>
      \/ restarts' > restarts
      \/ Stale(active[t], clock)
      \/ Len(sealed') > Len(sealed) /\ sealed'[Len(sealed')].thought_id = t

LEMMA StepEndsOnlyStale ==
  ASSUME StoreTypeOK, [StoreNext]_storeVars
  PROVE  EndsOnlyStale
<1>. SUFFICES ASSUME NEW t \in Thoughts, active[t] # NoTrace, active'[t] = NoTrace
              PROVE  \/ restarts' > restarts
                     \/ Stale(active[t], clock)
                     \/ /\ Len(sealed') > Len(sealed)
                        /\ sealed'[Len(sealed')].thought_id = t
  BY DEF EndsOnlyStale
<1>1. ASSUME NEW ev \in Inbound, NEW ts \in Stamp, CaptureOpen(ev, ts)
      PROVE  FALSE
  <2>1. Known(ev) /\ ts \in Stamps
    BY <1>1, StampsType DEF CaptureOpen, Accept
  <2>2. Assembled(ev, ts) # NoTrace
    BY <2>1, AssembledTrace, NoTraceAssumption
  <2>. QED
    BY <1>1, <2>2 DEF CaptureOpen, StoreTypeOK
<1>2. ASSUME NEW ev \in Inbound, NEW ts \in Stamp, CaptureSeal(ev, ts)
      PROVE  Len(sealed') > Len(sealed) /\ sealed'[Len(sealed')].thought_id = t
  <2>1. t = ev.thought_id
    BY <1>2 DEF CaptureSeal, StoreTypeOK
  <2>2. Len(sealed) \in Nat
    BY DEF StoreTypeOK
  <2>. QED
    BY <1>2, <2>1, <2>2, SealEffect, StampsType
<1>3. CASE OrphanSweep
  BY <1>3 DEF OrphanSweep, Forget, Purged
<1>4. CASE Restart
  BY <1>4 DEF Restart, StoreTypeOK
<1>5. CASE UNCHANGED active
  BY <1>5
<1>. QED
  BY <1>1, <1>2, <1>3, <1>4, <1>5 DEF StoreNext, CaptureUnknown, Tick, storeVars

(* Only a restart, a seal or a sweep of a trace that is over age (or whose *)
(* start cannot be read) ends a trace: the sweep of one thought never      *)
(* takes another along (partial.rs:286-301).                               *)
THEOREM SweepSparesTheOthers == StoreSpec => OnlyStaleTracesAreLost
<1>1. StoreTypeOK /\ [StoreNext]_storeVars => EndsOnlyStale
  BY StepEndsOnlyStale
<1>. QED
  BY <1>1, StoreTypeCorrect, PTL
  DEF StoreSpec, OnlyStaleTracesAreLost, EndsOnlyStale

----------------------------------------------------------------------------
(* The store implements the abstract assembler of TraceAssembly.tla.  With *)
(* CountersMatch the counter the code reads is the rank that the abstract  *)
(* step gives the item, so each capture is a Gather or a HandOver.         *)

PendingBar == [t \in Thoughts |-> Components(t)]
EmittedBar == [n \in 1..Len(sealed) |-> [thought_id |-> sealed[n].thought_id,
                                         items      |-> sealed[n].components]]

LEMMA NextItemIsComponent ==
  ASSUME IndexInv, NEW ev \in Inbound, Known(ev)
  PROVE  Assembly!NextItem(ev.thought_id, ev.event_type, Len(delivered) + 1)
           = ComponentOf(ev)
<1>1. ev.thought_id \in Thoughts
  BY StoreAssumption DEF InboundEvent
<1>2. AttemptIndex(ev) = CountOf(Components(ev.thought_id),
                                 Len(Components(ev.thought_id)), ev.event_type)
  BY <1>1 DEF IndexInv, CountersMatch, Known, AttemptIndex
<1>3. PendingBar[ev.thought_id] = Components(ev.thought_id)
  BY <1>1 DEF PendingBar
<1>. QED
  BY <1>2, <1>3, CountsAgree DEF ComponentOf, Assembly!NextItem, PendingBar

LEMMA AcceptedId ==
  ASSUME StoreTypeOK, NEW ev \in Inbound, Accept(ev)
  PROVE  /\ ev.thought_id \in Thoughts /\ ev.event_type \in EventTypes
         /\ Len(delivered) + 1 \in 1..MaxDelivered
  BY StoreAssumption DEF StoreTypeOK, Accept, Known, InboundEvent

LEMMA OpenGathers ==
  ASSUME IndexInv, NEW ev \in Inbound, NEW ts \in Stamps, CaptureOpen(ev, ts)
  PROVE  Assembly!Gather(ev.thought_id, ev.event_type, Len(delivered) + 1)
<1>1. StoreTypeOK /\ Known(ev) /\ ev.thought_id \in Thoughts
  BY StoreAssumption DEF IndexInv, CaptureOpen, Accept, InboundEvent
<1>2. \A t \in Thoughts :
        Components(t)' = IF t = ev.thought_id
                         THEN Append(Components(t), ComponentOf(ev))
                         ELSE Components(t)
  BY <1>1, OpenEffect
<1>3. PendingBar' = [PendingBar EXCEPT ![ev.thought_id] = Append(@, ComponentOf(ev))]
  BY <1>1, <1>2 DEF PendingBar
<1>4. EmittedBar' = EmittedBar
  BY DEF EmittedBar, CaptureOpen
<1>5. ev.event_type # SealType
  BY DEF CaptureOpen
<1>. QED
  BY <1>1, <1>3, <1>4, <1>5, NextItemIsComponent
  DEF Assembly!Gather, PendingBar, EmittedBar

LEMMA SealHandsOver ==
  ASSUME IndexInv, NEW ev \in Inbound, NEW ts \in Stamps, CaptureSeal(ev, ts)
  PROVE  Assembly!HandOver(ev.thought_id, Len(delivered) + 1)
<1>. DEFINE t0  == ev.thought_id
            new == [thought_id |-> t0,
                    items      |-> Append(Components(t0), ComponentOf(ev))]
<1>1. /\ StoreTypeOK /\ Known(ev) /\ t0 \in Thoughts
      /\ ev.event_type = SealType
  BY StoreAssumption DEF IndexInv, CaptureSeal, Accept, InboundEvent
<1>2. /\ \A t \in Thoughts :
           Components(t)' = IF t = t0 THEN <<>> ELSE Components(t)
      /\ Len(sealed') = Len(sealed) + 1
      /\ \A n \in 1..Len(sealed) : sealed'[n] = sealed[n]
      /\ sealed'[Len(sealed) + 1].components
           = Append(Components(t0), ComponentOf(ev))
      /\ sealed'[Len(sealed) + 1].thought_id = t0
  BY <1>1, SealEffect
<1>3. PendingBar' = [PendingBar EXCEPT ![t0] = <<>>]
  BY <1>1, <1>2 DEF PendingBar
<1>4. EmittedBar' = Append(EmittedBar, new)
  <2>1. Len(sealed) \in Nat
    BY <1>1 DEF StoreTypeOK
  <2>2. Len(EmittedBar) = Len(sealed)
    BY <2>1 DEF EmittedBar
  <2>3. Append(EmittedBar, new) =
          [n \in 1..(Len(sealed) + 1) |->
             IF n = Len(sealed) + 1 THEN new ELSE EmittedBar[n]]
    BY <2>1, <2>2 DEF EmittedBar
  <2>4. EmittedBar' = [n \in 1..(Len(sealed) + 1) |->
                         [thought_id |-> sealed'[n].thought_id,
                          items      |-> sealed'[n].components]]
    BY <1>2 DEF EmittedBar
  <2>5. \A n \in 1..(Len(sealed) + 1) :
          [thought_id |-> sealed'[n].thought_id, items |-> sealed'[n].components]
            = IF n = Len(sealed) + 1 THEN new ELSE EmittedBar[n]
    <3>1. \A n \in 1..Len(sealed) : n # Len(sealed) + 1 /\
            EmittedBar[n] = [thought_id |-> sealed'[n].thought_id,
                             items      |-> sealed'[n].components]
      BY <1>2, <2>1 DEF EmittedBar
    <3>2. 1..(Len(sealed) + 1) = (1..Len(sealed)) \cup {Len(sealed) + 1}
      BY <2>1
    <3>. QED
      BY <1>2, <3>1, <3>2
  <2>. QED
    BY <2>3, <2>4, <2>5
<1>5. Assembly!NextItem(t0, SealType, Len(delivered) + 1) = ComponentOf(ev)
  BY <1>1, NextItemIsComponent
<1>. QED
  BY <1>1, <1>3, <1>4, <1>5 DEF Assembly!HandOver, PendingBar, EmittedBar

LEMMA ForgetLoses ==
  ASSUME IndexInv, NEW S, Forget(S), UNCHANGED sealed
  PROVE  Assembly!Lose(S)
<1>1. PendingBar' = [t \in Thoughts |-> IF t \in S THEN <<>> ELSE PendingBar[t]]
  BY ForgetEffect DEF IndexInv, PendingBar
<1>2. EmittedBar' = EmittedBar
  BY DEF EmittedBar
<1>. QED
  BY <1>1, <1>2 DEF Assembly!Lose, PendingBar, EmittedBar

LEMMA NothingMoves ==
  ASSUME UNCHANGED <<active, sealed>>
  PROVE  UNCHANGED Assembly!assemblyVars
  BY DEF Assembly!assemblyVars, Components

LEMMA StepRefines ==
  ASSUME IndexInv, [StoreNext]_storeVars
  PROVE  [Assembly!AssemblyNext]_(Assembly!assemblyVars)
<1>. StoreTypeOK
  BY DEF IndexInv
<1>1. ASSUME NEW ev \in Inbound, NEW ts \in Stamp, CaptureOpen(ev, ts)
      PROVE  Assembly!AssemblyNext
  <2>1. Accept(ev)
    BY <1>1 DEF CaptureOpen
  <2>. QED
    BY <1>1, <2>1, AcceptedId, OpenGathers, StampsType DEF Assembly!AssemblyNext
<1>2. ASSUME NEW ev \in Inbound, NEW ts \in Stamp, CaptureSeal(ev, ts)
      PROVE  Assembly!AssemblyNext
  <2>1. Accept(ev)
    BY <1>2 DEF CaptureSeal
  <2>2. Assembly!HandOver(ev.thought_id, Len(delivered) + 1)
    BY <1>2, SealHandsOver, StampsType
  <2>3. ev.thought_id \in Thoughts /\ Len(delivered) + 1 \in 1..MaxDelivered
    BY <2>1, AcceptedId
  <2>4. \E t \in Thoughts, id \in 1..MaxDelivered : Assembly!HandOver(t, id)
    BY <2>2, <2>3 DEF Assembly!HandOver
  <2>. QED
    BY <2>4 DEF Assembly!AssemblyNext
<1>3. ASSUME NEW ev \in Inbound, CaptureUnknown(ev)
      PROVE  UNCHANGED Assembly!assemblyVars
  BY <1>3, NothingMoves DEF CaptureUnknown, storeVars
<1>4. CASE OrphanSweep
  <2>1. Purged(clock) \in SUBSET Thoughts
    BY DEF Purged
  <2>2. Assembly!Lose(Purged(clock))
    BY <1>4, ForgetLoses DEF OrphanSweep
  <2>. QED
    BY <2>1, <2>2 DEF Assembly!AssemblyNext
<1>5. CASE Restart
  <2>1. Assembly!Lose(Thoughts)
    BY <1>5, RestartForgets, ForgetLoses DEF Restart
  <2>. QED
    BY <2>1 DEF Assembly!AssemblyNext
<1>6. CASE Tick
  BY <1>6, NothingMoves DEF Tick
<1>7. CASE UNCHANGED storeVars
  BY <1>7, NothingMoves DEF storeVars
<1>. QED
  BY <1>1, <1>2, <1>3, <1>4, <1>5, <1>6, <1>7 DEF StoreNext

LEMMA InitRefines == StoreInit => Assembly!AssemblyInit
<1>. SUFFICES ASSUME StoreInit PROVE Assembly!AssemblyInit
  OBVIOUS
<1>1. \A t \in Thoughts : Components(t) = <<>>
  BY DEF StoreInit, Components
<1>2. Len(sealed) = 0
  BY DEF StoreInit
<1>. QED
  BY <1>1, <1>2 DEF Assembly!AssemblyInit

(* Whatever events arrive, are swept or are lost to a restart, the store   *)
(* behaves like the abstract assembler (partial.rs:207-303).               *)
THEOREM StoreImplementsAssembly == StoreSpec => ImplementsAssembly
<1>1. IndexInv /\ [StoreNext]_storeVars
        => [Assembly!AssemblyNext]_(Assembly!assemblyVars)
  BY StepRefines
<1>. QED
  BY <1>1, InitRefines, IndexInvariant, PTL
  DEF StoreSpec, ImplementsAssembly, Assembly!AssemblySpec
=============================================================================
