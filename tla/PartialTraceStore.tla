------------------------- MODULE PartialTraceStore -------------------------
(***************************************************************************)
(* src/capture/partial.rs: the in-memory store that assembles component    *)
(* events into complete traces.                                            *)
(*                                                                         *)
(* HashMaps are total functions: a thought without an entry in `active`    *)
(* has NoTrace, and an absent attempt counter is 0 (`or_insert(0)`).       *)
(* The payload of an event is its position in `delivered`; trace_id is the *)
(* thought id (client.rs passes it for every new trace) and is not kept    *)
(* twice.  Whoever calls holds the store's mutex, so each method is one    *)
(* step.                                                                   *)
(***************************************************************************)
EXTENDS Naturals, Sequences, FiniteSets

CONSTANTS
  Thoughts,       \* thought ids
  EventTypes,     \* the known reasoning-event types
  SealType,       \* ACTION_RESULT
  UnknownTypes,   \* event-type strings that do not parse
  Tasks, Levels,  \* task ids and trace levels an event may carry
  None,           \* Option::None
  NoTrace,        \* no entry in `active`
  BadStamps,      \* timestamp strings that do not parse as RFC 3339
  Inbound,        \* the events the agent may send (their timestamp apart)
  MaxAge,         \* max_age_secs of the orphan sweep
  MaxClock,       \* bound: the clock stops here
  MaxDelivered,   \* bound: events accepted in one behaviour
  MaxRestarts     \* bound: process restarts in one behaviour

InboundEvent ==
  [thought_id : Thoughts, event_type : EventTypes \cup UnknownTypes,
   task_id : Tasks \cup {None}, trace_level : Levels \cup {None}]

ASSUME StoreAssumption ==
  /\ SealType \in EventTypes
  /\ EventTypes \cap UnknownTypes = {}
  /\ Inbound \subseteq InboundEvent
  /\ BadStamps \cap Nat = {}
  /\ None \notin Tasks \cup Levels \cup BadStamps \cup Nat
  /\ {MaxAge, MaxClock, MaxDelivered, MaxRestarts} \subseteq Nat

VARIABLES
  active,            \* thought -> its in-flight trace, or NoTrace
  attempt_counters,  \* thought -> event type -> next attempt_index
  delivered,         \* history: the known events accepted, in lock order
  sealed,            \* history: the traces returned as Sealed
  clock,             \* wall-clock seconds (Utc::now(), and the agent's)
  restarts           \* how many times the process was restarted

storeVars == <<active, attempt_counters, delivered, sealed, clock, restarts>>

Stamps == 0..MaxClock \cup BadStamps

TraceComponent ==
  [event_type : EventTypes, attempt_index : Nat, ev : Nat]

CompleteTrace ==
  [thought_id : Thoughts, task_id : Tasks \cup {None},
   trace_level : Levels \cup {None}, started_at : Stamps,
   completed_at : Stamps \cup {None}, components : Seq(TraceComponent)]

(* No entry is not an entry.                                               *)
ASSUME NoTraceAssumption == NoTrace \notin CompleteTrace

NoAttempts == [e \in EventTypes |-> 0]

StoreInit ==
  /\ active = [t \in Thoughts |-> NoTrace]
  /\ attempt_counters = [t \in Thoughts |-> NoAttempts]
  /\ delivered = <<>>
  /\ sealed = <<>>
  /\ clock = 0
  /\ restarts = 0

----------------------------------------------------------------------------
(* capture(): one inbound event.                                           *)

(* ReasoningEventType::parse knows the type.                               *)
Known(ev) == ev.event_type \in EventTypes

(* Mutant: the index is read after the increment.                          *)
AttemptIndexAfterIncrement(ev) ==
  attempt_counters[ev.thought_id][ev.event_type] + 1

(* Read before the increment.                                              *)
AttemptIndex(ev) == attempt_counters[ev.thought_id][ev.event_type]

(* The component pushed for an event.                                      *)
ComponentOf(ev) ==
  [event_type    |-> ev.event_type,
   attempt_index |-> AttemptIndex(ev),
   ev            |-> Len(delivered) + 1]

OpenedBy(ev, ts) ==
  [thought_id |-> ev.thought_id, task_id |-> ev.task_id,
   trace_level |-> ev.trace_level, started_at |-> ts,
   completed_at |-> None, components |-> <<>>]

(* Mutant: the last value wins.                                            *)
LastKnown(old, new) == IF new = None THEN old ELSE new

(* A late value fills an absent one and never replaces a present one.      *)
FirstKnown(old, new) == IF old = None THEN new ELSE old

(* The thought's trace, opened if there was none, with the late fields     *)
(* filled and the component appended.                                      *)
Assembled(ev, ts) ==
  LET tr == IF active[ev.thought_id] = NoTrace
            THEN OpenedBy(ev, ts) ELSE active[ev.thought_id]
  IN  [tr EXCEPT !.task_id     = FirstKnown(@, ev.task_id),
                 !.trace_level = FirstKnown(@, ev.trace_level),
                 !.components  = Append(@, ComponentOf(ev))]

Accept(ev) ==
  /\ Known(ev)
  /\ Len(delivered) < MaxDelivered
  /\ delivered' = Append(delivered, ev)

(* Opened or Appended: the trace stays in flight.                          *)
CaptureOpen(ev, ts) ==
  /\ Accept(ev)
  /\ ev.event_type # SealType
  /\ active' = [active EXCEPT ![ev.thought_id] = Assembled(ev, ts)]
  /\ attempt_counters' =
       [attempt_counters EXCEPT ![ev.thought_id][ev.event_type] = @ + 1]
  /\ UNCHANGED <<sealed, clock, restarts>>

(* Mutants: the seal leaves the counters, or the trace, behind.            *)
CaptureSealKeepsCounters(ev, ts) ==
  /\ Accept(ev)
  /\ ev.event_type = SealType
  /\ sealed' = Append(sealed, [Assembled(ev, ts) EXCEPT !.completed_at = ts])
  /\ active' = [active EXCEPT ![ev.thought_id] = NoTrace]
  /\ UNCHANGED <<attempt_counters, clock, restarts>>

CaptureSealKeepsTrace(ev, ts) ==
  /\ Accept(ev)
  /\ ev.event_type = SealType
  /\ sealed' = Append(sealed, [Assembled(ev, ts) EXCEPT !.completed_at = ts])
  /\ active' = [active EXCEPT ![ev.thought_id] =
                  [Assembled(ev, ts) EXCEPT !.completed_at = ts]]
  /\ attempt_counters' = [attempt_counters EXCEPT ![ev.thought_id] = NoAttempts]
  /\ UNCHANGED <<clock, restarts>>

(* Sealed: the trace leaves the store together with its counters.          *)
CaptureSeal(ev, ts) ==
  /\ Accept(ev)
  /\ ev.event_type = SealType
  /\ sealed' = Append(sealed, [Assembled(ev, ts) EXCEPT !.completed_at = ts])
  /\ active' = [active EXCEPT ![ev.thought_id] = NoTrace]
  /\ attempt_counters' = [attempt_counters EXCEPT ![ev.thought_id] = NoAttempts]
  /\ UNCHANGED <<clock, restarts>>

(* UnknownEvent: returned before anything is touched.                      *)
CaptureUnknown(ev) ==
  /\ ~Known(ev)
  /\ UNCHANGED storeVars

----------------------------------------------------------------------------
(* orphan_sweep(now, max_age_secs), and what happens around the store.     *)

Stale(tr, now) ==
  \/ tr.started_at \in BadStamps
  \/ tr.started_at \in Nat /\ now > tr.started_at + MaxAge

(* Mutant: one stale trace takes the whole store along.                    *)
PurgedAll(now) ==
  {t \in Thoughts : active[t] # NoTrace
                    /\ \E u \in Thoughts : active[u] # NoTrace /\ Stale(active[u], now)}

Purged(now) == {t \in Thoughts : active[t] # NoTrace /\ Stale(active[t], now)}

(* Mutant: the sweep purges traces and leaves their counters.              *)
ForgetKeepsCounters(S) ==
  /\ active' = [t \in Thoughts |-> IF t \in S THEN NoTrace ELSE active[t]]
  /\ UNCHANGED attempt_counters

(* Forget the traces of the thoughts in S and their counters.              *)
Forget(S) ==
  /\ active' = [t \in Thoughts |-> IF t \in S THEN NoTrace ELSE active[t]]
  /\ attempt_counters' =
       [t \in Thoughts |-> IF t \in S THEN NoAttempts ELSE attempt_counters[t]]

OrphanSweep ==
  /\ Forget(Purged(clock))
  /\ UNCHANGED <<delivered, sealed, clock, restarts>>

(* The process dies and starts again: PartialTraceStore::new().            *)
Restart ==
  /\ restarts < MaxRestarts
  /\ restarts' = restarts + 1
  /\ active' = [t \in Thoughts |-> NoTrace]
  /\ attempt_counters' = [t \in Thoughts |-> NoAttempts]
  /\ UNCHANGED <<delivered, sealed, clock>>

Tick ==
  /\ clock < MaxClock
  /\ clock' = clock + 1
  /\ UNCHANGED <<active, attempt_counters, delivered, sealed, restarts>>

(* The agent stamps an event with its clock, or with something unreadable. *)
Stamp == {clock} \cup BadStamps

StoreNext ==
  \/ \E ev \in Inbound, ts \in Stamp : CaptureOpen(ev, ts)
  \/ \E ev \in Inbound, ts \in Stamp : CaptureSeal(ev, ts)
  \/ \E ev \in Inbound : CaptureUnknown(ev)
  \/ OrphanSweep
  \/ Restart
  \/ Tick

StoreSpec == StoreInit /\ [][StoreNext]_storeVars

----------------------------------------------------------------------------
(* Properties.                                                             *)

(* Every variable has the shape the code gives it: at most one in-flight   *)
(* trace per thought, its own, unsealed and non-empty; a sealed trace is   *)
(* completed (partial.rs:113-166).                                         *)
StoreTypeOK ==
  /\ active \in [Thoughts -> CompleteTrace \cup {NoTrace}]
  /\ \A t \in Thoughts : active[t] # NoTrace =>
       /\ active[t].thought_id = t
       /\ active[t].completed_at = None
       /\ active[t].components # <<>>
  /\ \A n \in 1..Len(sealed) : sealed[n].completed_at # None
  /\ attempt_counters \in [Thoughts -> [EventTypes -> Nat]]
  /\ delivered \in Seq(Inbound)
  /\ sealed \in Seq(CompleteTrace)
  /\ clock \in 0..MaxClock
  /\ restarts \in 0..MaxRestarts

Components(t) == IF active[t] = NoTrace THEN <<>> ELSE active[t].components

(* The trace assembler that TraceAssembly.tla specifies: pending items are *)
(* the components in flight, finished traces the sealed ones.              *)
Assembly == INSTANCE TraceAssembly WITH
  Ids     <- 1..MaxDelivered,
  pending <- [t \in Thoughts |-> Components(t)],
  emitted <- [n \in 1..Len(sealed) |->
                [thought_id |-> sealed[n].thought_id,
                 items      |-> sealed[n].components]]

(* How many of the first n components of cs are of type e.                 *)
CountOf(cs, n, e) == Cardinality({j \in 1..n : cs[j].event_type = e})

(* A counter always equals the number of components of its type in the     *)
(* thought's in-flight trace: seal, sweep and restart never leave a        *)
(* counter behind that would make a later trace of the thought start at a  *)
(* non-zero attempt_index (partial.rs:261-264, 298-301).                   *)
CountersMatch ==
  \A t \in Thoughts, e \in EventTypes :
    attempt_counters[t][e] = CountOf(Components(t), Len(Components(t)), e)

Ranked(cs) ==
  \A i \in 1..Len(cs) :
    cs[i].attempt_index = CountOf(cs, i - 1, cs[i].event_type)

(* In every trace, in flight or sealed, the attempt_index of a component   *)
(* is its rank among the components of its type: 0, 1, 2, ... without gap  *)
(* or repetition, whatever was interleaved, swept or sealed before         *)
(* (partial.rs:16-23).                                                     *)
AttemptIndexIsRank ==
  /\ \A t \in Thoughts : Ranked(Components(t))
  /\ \A n \in 1..Len(sealed) : Ranked(sealed[n].components)

InOrderOf(t, cs) ==
  /\ \A i \in 1..Len(cs) : /\ cs[i].ev \in 1..Len(delivered)
                           /\ delivered[cs[i].ev].thought_id = t
                           /\ delivered[cs[i].ev].event_type = cs[i].event_type
  /\ \A i, j \in 1..Len(cs) : i < j => cs[i].ev < cs[j].ev

(* The task and level a trace carries are the first ones its events named. *)
FirstNamed(tr) ==
  LET sent(i)     == delivered[tr.components[i].ev]
      NoLevel(n)  == \A j \in 1..n : sent(j).trace_level = None
      NoTask(n)   == \A j \in 1..n : sent(j).task_id = None
  IN \A i \in 1..Len(tr.components) :
       /\ NoLevel(i - 1) => tr.trace_level = sent(i).trace_level \/ NoLevel(i)
       /\ NoTask(i - 1)  => tr.task_id = sent(i).task_id \/ NoTask(i)

(* A trace holds events of its own thought only, in the order they were    *)
(* accepted, under the first task and level they named, and a sealed trace *)
(* holds one sealing event, which is last (partial.rs:230-268).            *)
TracesWellFormed ==
  /\ \A t \in Thoughts :
       /\ InOrderOf(t, Components(t))
       /\ active[t] # NoTrace => FirstNamed(active[t])
       /\ \A i \in 1..Len(Components(t)) : Components(t)[i].event_type # SealType
  /\ \A n \in 1..Len(sealed) :
       LET cs == sealed[n].components IN
       /\ FirstNamed(sealed[n])
       /\ InOrderOf(sealed[n].thought_id, cs)
       /\ \A i \in 1..Len(cs) : cs[i].event_type = SealType <=> i = Len(cs)

EvIds(cs) == {cs[i].ev : i \in 1..Len(cs)}

(* No event sits in two traces: not in two sealed ones, nor in a sealed    *)
(* one and an in-flight one (partial.rs:265-268 moves the trace out).      *)
NoEventTwice ==
  /\ \A m, n \in 1..Len(sealed) :
       m # n => EvIds(sealed[m].components) \cap EvIds(sealed[n].components) = {}
  /\ \A t \in Thoughts, n \in 1..Len(sealed) :
       EvIds(Components(t)) \cap EvIds(sealed[n].components) = {}

(* What the store holds is sound, one with the other: shapes, counters,    *)
(* ranks, order and no event in two places (partial.rs:157-304).           *)
TracesAreSound ==
  /\ StoreTypeOK
  /\ CountersMatch
  /\ AttemptIndexIsRank
  /\ TracesWellFormed
  /\ NoEventTwice

(* Only a restart, a seal or a sweep of a trace that is over age (or whose *)
(* start cannot be read) ends a trace: the sweep of one thought never      *)
(* takes another along (partial.rs:286-301).                               *)
OnlyStaleTracesAreLost ==
  [][\A t \in Thoughts :
       (active[t] # NoTrace /\ active'[t] = NoTrace) =>
         \/ restarts' > restarts
         \/ Stale(active[t], clock)
         \/ Len(sealed') > Len(sealed) /\ sealed'[Len(sealed')].thought_id = t]_storeVars

(* Every step of the store is a step of the abstract assembler: counters   *)
(* stand for ranks, and traces are handed over or lost as a whole          *)
(* (partial.rs:207-303).                                                   *)
ImplementsAssembly == Assembly!AssemblySpec
=============================================================================
