-------------------------------- MODULE Relay --------------------------------
(* Relay mode (role/relay.rs, role/handler.rs): an Edge runtime in a task of *)
(* its own hands the batches that peers send to LensCoreHandler, which       *)
(* persists each one and answers with what it inserted.  ret_relay.rs starts *)
(* the same runtime on another transport; its handle is the same.            *)
(*                                                                           *)
(* The Edge runtime and the persist Engine are external.  Peers send a batch *)
(* again until they hold an answer, and an answer may be lost; the Engine    *)
(* inserts the events of a batch that it does not hold yet, in one           *)
(* transaction, or fails.  When Edge::run returns, its handlers are gone,    *)
(* each wherever it was.                                                     *)
EXTENDS Naturals, FiniteSets

CONSTANTS Batches,   \* the batches peers want to deliver
          EventsOf   \* EventsOf[b]: the trace events of batch b

ASSUME RelayAssumption == /\ IsFiniteSet(Batches)
                          /\ DOMAIN EventsOf = Batches
                          /\ \A b \in Batches : IsFiniteSet(EventsOf[b])

VARIABLES relay,        \* the listener task: "off", "running" or "ended"
          relaySignal,  \* the watch channel: "armed", "sent" or "dropped"
          relayExit,    \* how the task ended: "none", "ok" or "error"
          delivery,     \* delivery[b]: "peer", "handling", or the summary to send
          stored,       \* the trace events in the Engine
          answered,     \* the batches an AccordEventsResponse was built for
          claimed       \* the insertions those responses report, added up

relayVars == <<relay, relaySignal, relayExit, delivery, stored, answered, claimed>>
handlerVars == <<delivery, stored, answered, claimed>>
taskVars == <<relay, relaySignal, relayExit>>

Events == UNION {EventsOf[b] : b \in Batches}
Deliveries(b) == {[at |-> "peer"], [at |-> "handling"], [at |-> "answered"]}
                    \union [at : {"summary"}, inserted : 0..Cardinality(EventsOf[b])]

RelayInit == /\ relay = "off"
             /\ relaySignal = "armed"
             /\ relayExit = "none"
             /\ delivery = [b \in Batches |-> [at |-> "peer"]]
             /\ stored = {}
             /\ answered = {}
             /\ claimed = 0

-----------------------------------------------------------------------------
(* The handler *)

Deliver(b) == /\ relay = "running"
              /\ delivery[b].at = "peer"
              /\ delivery' = [delivery EXCEPT ![b] = [at |-> "handling"]]
              /\ UNCHANGED <<taskVars, stored, answered, claimed>>

\* (mutant) Counting the whole batch as inserted
InsertedAll(b) == Cardinality(EventsOf[b])

\* trace_events_inserted of the summary; the rest of the batch is deduplicated
Inserted(b) == Cardinality(EventsOf[b] \ stored)

\* receive_and_persist commits.
ReceiveAndPersist(b) ==
    /\ relay = "running"
    /\ delivery[b].at = "handling"
    /\ stored' = stored \union EventsOf[b]
    /\ delivery' = [delivery EXCEPT ![b] = [at |-> "summary", inserted |-> Inserted(b)]]
    /\ UNCHANGED <<taskVars, answered, claimed>>

\* (mutant) An error of persist answered with an empty summary
PersistFailsQuietly(b) ==
    /\ relay = "running"
    /\ delivery[b].at = "handling"
    /\ delivery' = [delivery EXCEPT ![b] = [at |-> "summary", inserted |-> 0]]
    /\ UNCHANGED <<taskVars, stored, answered, claimed>>

\* receive_and_persist fails, before or after it commits: the handler returns
\* HandlerError::Persist, and the peer holds no answer.
PersistFails(b) ==
    /\ relay = "running"
    /\ delivery[b].at = "handling"
    /\ stored' \in {stored, stored \union EventsOf[b]}
    /\ delivery' = [delivery EXCEPT ![b] = [at |-> "peer"]]
    /\ UNCHANGED <<taskVars, answered, claimed>>

\* The response repeats the summary; it reaches the peer, or is lost and the
\* peer sends the batch again.
Respond(b) ==
    /\ relay = "running"
    /\ delivery[b].at = "summary"
    /\ answered' = answered \union {b}
    /\ claimed' = claimed + delivery[b].inserted
    /\ \E at \in {"answered", "peer"} : delivery' = [delivery EXCEPT ![b] = [at |-> at]]
    /\ UNCHANGED <<taskVars, stored>>

HandlerNext(b) == Deliver(b) \/ ReceiveAndPersist(b) \/ PersistFails(b) \/ Respond(b)

-----------------------------------------------------------------------------
(* The life of the listener task *)

\* LensCore::relay after its last fallible step
StartRelay == /\ relay = "off"
              /\ relay' = "running"
              /\ UNCHANGED <<relaySignal, relayExit, handlerVars>>

\* Handlers end with the runtime; batches without an answer are at the peer.
Abandon == delivery' = [b \in Batches |-> IF delivery[b].at = "answered"
                                            THEN delivery[b] ELSE [at |-> "peer"]]

\* Edge::run returns because it was told to; a dropped sender may end it too.
RelayStops == /\ relay = "running"
              /\ relaySignal # "armed"
              /\ relay' = "ended"
              /\ relayExit' = "ok"
              /\ Abandon
              /\ UNCHANGED <<relaySignal, stored, answered, claimed>>

\* Edge::run returns an error or its task panics.
RelayFails == /\ relay = "running"
              /\ relay' = "ended"
              /\ relayExit' = "error"
              /\ Abandon
              /\ UNCHANGED <<relaySignal, stored, answered, claimed>>
=============================================================================
