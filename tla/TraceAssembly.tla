--------------------------- MODULE TraceAssembly ---------------------------
(***************************************************************************)
(* What the capture store promises, without saying how it counts: events   *)
(* of one thought are gathered in the order they are accepted; the sealing *)
(* event hands the whole gathering over as one trace, whose items carry    *)
(* the number of earlier items of the same type; a gathering can be lost,  *)
(* but only as a whole.  PartialTraceStore.tla refines this module.        *)
(***************************************************************************)
EXTENDS Naturals, Sequences, FiniteSets

CONSTANTS
  Thoughts,      \* thought ids
  EventTypes,    \* the reasoning-event types
  SealType,      \* the one event type that completes a trace
  Ids            \* identities of accepted events

VARIABLES
  pending,       \* thought -> the items gathered and not yet handed over
  emitted        \* the finished traces, in the order they were handed over

assemblyVars == <<pending, emitted>>

(* How many of the first n items of a sequence are of type e.              *)
CountOf(items, n, e) == Cardinality({j \in 1..n : items[j].event_type = e})

(* An accepted event, numbered by its rank among the items of its type.    *)
NextItem(t, e, id) ==
  [event_type    |-> e,
   attempt_index |-> CountOf(pending[t], Len(pending[t]), e),
   ev            |-> id]

AssemblyInit ==
  /\ pending = [t \in Thoughts |-> <<>>]
  /\ emitted = <<>>

Gather(t, e, id) ==
  /\ e # SealType
  /\ pending' = [pending EXCEPT ![t] = Append(@, NextItem(t, e, id))]
  /\ UNCHANGED emitted

HandOver(t, id) ==
  /\ emitted' = Append(emitted,
                  [thought_id |-> t,
                   items      |-> Append(pending[t], NextItem(t, SealType, id))])
  /\ pending' = [pending EXCEPT ![t] = <<>>]

Lose(S) ==
  /\ pending' = [t \in Thoughts |-> IF t \in S THEN <<>> ELSE pending[t]]
  /\ UNCHANGED emitted

AssemblyNext ==
  \/ \E t \in Thoughts, e \in EventTypes, id \in Ids : Gather(t, e, id)
  \/ \E t \in Thoughts, id \in Ids : HandOver(t, id)
  \/ \E S \in SUBSET Thoughts : Lose(S)

AssemblySpec == AssemblyInit /\ [][AssemblyNext]_assemblyVars
=============================================================================
