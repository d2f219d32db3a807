----------------------------- MODULE NodeProofs -----------------------------
(* A node that was shut down is down, a batch that was answered for is stored *)
(* and its insertions are claimed once, and a read tells the truth about the  *)
(* log: for any requests, batches and bounds.                                 *)
EXTENDS Node, FiniteSetTheorems, WellFoundedInduction, TLAPS

InFlightOverHttp == \E r \in request : r.q.kind \notin OracleKinds

\* There is no HTTP task before node() returned a handle, each half of the
\* handle has been waited for once the next one is told, and a request over
\* HTTP is in flight only while the task of the listener is there to finish it.
StopInv == /\ host \in {"fresh", "failed"} => http = "off"
           /\ host \in {"joins relay", "down"} => http = "ended"
           /\ host = "down" => relay = "ended"
           /\ InFlightOverHttp => http \in {"serving", "draining"}

LEMMA StopInvInit == NodeInit => StopInv
  BY DEF NodeInit, RelayInit, StopInv, InFlightOverHttp

\* StopInv is inductive on its own: it needs neither the types nor the bounds.
LEMMA StopInvStep == StopInv /\ [NodeNext]_nodeVars => StopInv'
<1> SUFFICES ASSUME StopInv, [NodeNext]_nodeVars PROVE StopInv'
  OBVIOUS
<1> USE DEF StopInv, InFlightOverHttp
<1>1. CASE LifeNext
  <2> USE DEF hostVars, httpVars, readVars, relayVars, handlerVars
  <2>1. CASE StartNode
    BY <2>1 DEF StartNode, StartRelay
  <2>2. CASE StartFails
    BY <2>2 DEF StartFails
  <2>3. CASE HttpBinds \/ HttpBindFails
    BY <2>3 DEF HttpBinds, HttpBindFails
  <2>4. CASE HttpDrains
    BY <2>4 DEF HttpDrains
  <2>5. CASE HttpEnds
    BY <2>5 DEF HttpEnds
  <2>6. CASE Shutdown
    BY <2>6 DEF Shutdown
  <2>7. CASE JoinHttp
    BY <2>7 DEF JoinHttp, HttpJoined
  <2>8. CASE JoinRelay
    BY <2>8 DEF JoinRelay
  <2>9. CASE ShutdownAgain \/ DropHandle
    BY <2>9 DEF ShutdownAgain, DropHandle
  <2> QED
    BY <1>1, <2>1, <2>2, <2>3, <2>4, <2>5, <2>6, <2>7, <2>8, <2>9 DEF LifeNext
<1>2. CASE ReadNext
  <2> USE DEF hostVars, httpVars, relayVars
  <2>1. CASE Tick \/ PutDetectionEvent
    BY <2>1 DEF Tick, PutDetectionEvent
  <2>2. ASSUME NEW q \in Requests, Ask(q) PROVE StopInv'
    <3>1. http = "serving" \/ q.kind \in OracleKinds
      BY <2>2 DEF Ask
    <3>2. request' = {[q |-> q, now |-> now]} /\ UNCHANGED <<host, http, relay>>
      BY <2>2 DEF Ask
    <3>3. ASSUME NEW r \in request', r.q.kind \notin OracleKinds PROVE http' = "serving"
      <4>1. r = [q |-> q, now |-> now]
        BY <3>2
      <4>2. r.q = q
        BY <4>1
      <4> QED BY <3>1, <3>2, <3>3, <4>2
    <3> QED BY <3>2, <3>3
  <2>3. CASE Serve \/ ServeFails
    BY <2>3 DEF Serve, ServeFails
  <2> QED
    BY <1>2, <2>1, <2>2, <2>3 DEF ReadNext
<1>3. CASE RelayNext
  <2> USE DEF hostVars, httpVars, readVars
  <2>1. relay' = relay \/ relay' = "ended"
    BY <1>3 DEF RelayNext, HandlerNext, Deliver, ReceiveAndPersist, PersistFails,
                Respond, RelayStops, RelayFails, taskVars
  <2> QED
    BY <1>3, <2>1 DEF RelayNext
<1>4. CASE UNCHANGED nodeVars
  BY <1>4 DEF nodeVars
<1> QED
  BY <1>1, <1>2, <1>3, <1>4 DEF NodeNext

\* When shutdown() has returned, the HTTP task and the relay task are over and
\* no request accepted over HTTP is left without its end (node.rs:656-669).
THEOREM ShutdownIsComplete == NodeSpec => []StopIsComplete
<1>1. StopInv => StopIsComplete
  BY DEF StopInv, StopIsComplete, InFlightOverHttp
<1> QED
  BY <1>1, StopInvInit, StopInvStep, PTL DEF NodeSpec

-----------------------------------------------------------------------------
(* What the relay answered for is stored *)

\* A summary is only there to be sent once the Engine has committed its batch.
AckInv == /\ delivery = [b \in Batches |-> delivery[b]]
          /\ answered \subseteq Batches
          /\ AnsweredIsStored
          /\ \A b \in Batches : delivery[b].at = "summary" => EventsOf[b] \subseteq stored

LEMMA AckInvInit == NodeInit => AckInv
  BY DEF NodeInit, RelayInit, AckInv, AnsweredIsStored

\* What a handler step may do to one delivery keeps AckInv.
LEMMA AckInvDelivery ==
  ASSUME AckInv, NEW b \in Batches, NEW d,
         delivery' = [delivery EXCEPT ![b] = d],
         stored \subseteq stored',
         d.at = "summary" => EventsOf[b] \subseteq stored',
         answered' = answered \/ (answered' = answered \union {b} /\ EventsOf[b] \subseteq stored')
  PROVE  AckInv'
<1>1. /\ delivery' = [c \in Batches |-> delivery'[c]]
      /\ delivery'[b] = d
      /\ \A c \in Batches \ {b} : delivery'[c] = delivery[c]
  BY DEF AckInv
<1>2. /\ answered' \subseteq Batches
      /\ \A c \in answered' : EventsOf[c] \subseteq stored'
  BY DEF AckInv, AnsweredIsStored
<1>3. ASSUME NEW c \in Batches, delivery'[c].at = "summary" PROVE EventsOf[c] \subseteq stored'
  BY <1>1, <1>3 DEF AckInv
<1> QED
  BY <1>1, <1>2, <1>3 DEF AckInv, AnsweredIsStored

\* The end of the runtime takes deliveries back to the peer, and no answer.
LEMMA AckInvAbandon ==
  ASSUME AckInv, Abandon, UNCHANGED <<stored, answered>> PROVE AckInv'
<1>1. delivery' = [c \in Batches |-> delivery'[c]]
  BY DEF Abandon
<1>2. ASSUME NEW c \in Batches, delivery'[c].at = "summary" PROVE FALSE
  <2>1. CASE delivery[c].at = "answered"
    BY <1>2, <2>1 DEF Abandon
  <2>2. CASE delivery[c].at # "answered"
    BY <1>2, <2>2 DEF Abandon
  <2> QED BY <2>1, <2>2
<1> QED
  BY <1>1, <1>2 DEF AckInv, AnsweredIsStored

LEMMA AckInvStep == AckInv /\ [NodeNext]_nodeVars => AckInv'
<1> SUFFICES ASSUME AckInv, [NodeNext]_nodeVars PROVE AckInv'
  OBVIOUS
<1>1. ASSUME UNCHANGED handlerVars PROVE AckInv'
  BY <1>1 DEF AckInv, AnsweredIsStored, handlerVars
<1>2. CASE LifeNext
  <2>1. UNCHANGED handlerVars
    BY <1>2 DEF LifeNext, StartNode, StartRelay, StartFails, HttpBinds, HttpBindFails,
                HttpDrains, HttpEnds, Shutdown, JoinHttp, JoinRelay, ShutdownAgain,
                DropHandle, relayVars, handlerVars
  <2> QED BY <1>1, <2>1
<1>3. CASE ReadNext
  <2>1. UNCHANGED handlerVars
    BY <1>3 DEF ReadNext, Tick, PutDetectionEvent, Ask, Serve, ServeFails, relayVars, handlerVars
  <2> QED BY <1>1, <2>1
<1>4. ASSUME NEW b \in Batches, HandlerNext(b) PROVE AckInv'
  <2>1. CASE Deliver(b)
    BY <2>1, AckInvDelivery DEF Deliver
  <2>2. CASE ReceiveAndPersist(b)
    BY <2>2, AckInvDelivery DEF ReceiveAndPersist
  <2>3. CASE PersistFails(b)
    BY <2>3, AckInvDelivery DEF PersistFails
  <2>4. CASE Respond(b)
    <3>1. EventsOf[b] \subseteq stored
      BY <2>4 DEF Respond, AckInv
    <3>2. PICK at \in {"answered", "peer"} : delivery' = [delivery EXCEPT ![b] = [at |-> at]]
      BY <2>4 DEF Respond
    <3>3. answered' = answered \union {b} /\ stored' = stored
      BY <2>4 DEF Respond
    <3>4. [at |-> at].at # "summary"
      BY <3>2
    <3> QED BY <3>1, <3>2, <3>3, <3>4, AckInvDelivery
  <2> QED
    BY <1>4, <2>1, <2>2, <2>3, <2>4 DEF HandlerNext
<1>5. CASE RelayStops \/ RelayFails
  BY <1>5, AckInvAbandon DEF RelayStops, RelayFails
<1>6. CASE UNCHANGED nodeVars
  BY <1>1, <1>6 DEF nodeVars, handlerVars
<1> QED
  BY <1>2, <1>3, <1>4, <1>5, <1>6 DEF NodeNext, RelayNext

\* Whatever peers resend, and wherever a handler or the relay is interrupted, a
\* batch that LensCoreHandler answered for is in the Engine (handler.rs:76-94).
THEOREM AnsweredBatchesAreStored == NodeSpec => []AnsweredIsStored
<1>1. AckInv => AnsweredIsStored
  BY DEF AckInv
<1> QED
  BY <1>1, AckInvInit, AckInvStep, PTL DEF NodeSpec

-----------------------------------------------------------------------------
(* What the relay claims is backed *)

\* The events that the answers already given report as inserted, and those that
\* the summaries under way will: no event is in two of them.
Backed(told, due) ==
    /\ told \subseteq stored
    /\ Cardinality(told) = claimed
    /\ \A b \in Batches : due[b] \subseteq stored /\ told \intersect due[b] = {}
    /\ \A b, c \in Batches : b # c => due[b] \intersect due[c] = {}
    /\ \A b \in Batches : delivery[b].at = "summary" =>
                             Cardinality(due[b]) = delivery[b].inserted

ClaimInv == /\ AckInv
            /\ \A b \in Batches : delivery[b] \in Deliveries(b)
            /\ stored \subseteq Events
            /\ \E told \in SUBSET stored : \E due \in [Batches -> SUBSET stored] :
                  Backed(told, due)

LEMMA EventsAreFinite == IsFiniteSet(Events) /\ \A S \in SUBSET Events : IsFiniteSet(S)
<1>1. IsFiniteSet({EventsOf[b] : b \in Batches})
  <2>1. [b \in Batches |-> EventsOf[b]] \in Surjection(Batches, {EventsOf[b] : b \in Batches})
    BY DEF Surjection
  <2> QED
    BY <2>1, RelayAssumption, FS_Surjection
<1>2. \A S \in {EventsOf[b] : b \in Batches} : IsFiniteSet(S)
  BY RelayAssumption
<1>3. IsFiniteSet(Events)
  BY <1>1, <1>2, FS_UNION DEF Events
<1> QED
  BY <1>3, FS_Subset

LEMMA ClaimInvInit == NodeInit => ClaimInv
<1> SUFFICES ASSUME NodeInit PROVE ClaimInv
  OBVIOUS
<1>1. AckInv
  BY AckInvInit
<1>2. \A b \in Batches : delivery[b] = [at |-> "peer"]
  BY DEF NodeInit, RelayInit
<1>3. stored = {} /\ claimed = 0
  BY DEF NodeInit, RelayInit
<1>4. Backed({}, [b \in Batches |-> {}])
  BY <1>2, <1>3, FS_EmptySet DEF Backed
<1> QED
  BY <1>1, <1>2, <1>3, <1>4 DEF ClaimInv, Deliveries

\* A step of the handler of b that claims nothing keeps what is due.
LEMMA ClaimInvKeeps ==
  ASSUME ClaimInv, AckInv',
         stored \subseteq stored', stored' \subseteq Events, claimed' = claimed,
         \A b \in Batches : \/ delivery'[b] = delivery[b]
                            \/ delivery'[b] \in {[at |-> "peer"], [at |-> "handling"]}
  PROVE  ClaimInv'
<1>1. PICK told \in SUBSET stored, due \in [Batches -> SUBSET stored] : Backed(told, due)
  BY DEF ClaimInv
<1>2. ASSUME NEW b \in Batches
      PROVE  /\ delivery'[b] \in Deliveries(b)
             /\ delivery'[b].at = "summary" => delivery'[b] = delivery[b]
  BY <1>2 DEF ClaimInv, Deliveries
<1>3. told \in SUBSET stored' /\ due \in [Batches -> SUBSET stored']
  OBVIOUS
<1>4. Backed(told, due)'
  BY <1>1, <1>2 DEF Backed
<1> QED
  BY <1>2, <1>3, <1>4 DEF ClaimInv, Deliveries

\* What a commit inserts was not in the Engine, so nobody has claimed it.
LEMMA ClaimInvPersist ==
  ASSUME ClaimInv, AckInv', NEW b \in Batches, ReceiveAndPersist(b) PROVE ClaimInv'
<1>1. PICK told \in SUBSET stored, due \in [Batches -> SUBSET stored] : Backed(told, due)
  BY DEF ClaimInv
<1>2. PICK new : new = EventsOf[b] \ stored
  OBVIOUS
<1>3. PICK n : n = Cardinality(new)
  OBVIOUS
<1>4. /\ stored' = stored \union EventsOf[b] /\ claimed' = claimed
      /\ delivery' = [delivery EXCEPT ![b] = [at |-> "summary", inserted |-> n]]
  BY <1>2, <1>3 DEF ReceiveAndPersist, Inserted
<1>5. /\ delivery'[b] = [at |-> "summary", inserted |-> n]
      /\ \A c \in Batches \ {b} : delivery'[c] = delivery[c]
  BY <1>4 DEF ClaimInv, AckInv
<1>6. n \in 0..Cardinality(EventsOf[b])
  <2>1. IsFiniteSet(EventsOf[b]) /\ new \subseteq EventsOf[b]
    BY <1>2, RelayAssumption
  <2>2. IsFiniteSet(new) /\ Cardinality(new) <= Cardinality(EventsOf[b])
    BY <2>1, FS_Subset
  <2> QED
    BY <1>3, <2>1, <2>2, FS_CardinalityType
<1>7. \A c \in Batches : delivery'[c] \in Deliveries(c)
  <2>1. delivery'[b] \in Deliveries(b)
    BY <1>5, <1>6 DEF Deliveries
  <2> QED
    BY <1>5, <2>1 DEF ClaimInv, Deliveries
<1>8. PICK d : d = [due EXCEPT ![b] = new]
  OBVIOUS
<1>9. d[b] = new /\ \A c \in Batches \ {b} : d[c] = due[c]
  BY <1>8
<1>10. d \in [Batches -> SUBSET stored'] /\ told \in SUBSET stored'
  BY <1>2, <1>4, <1>8
<1>11. Backed(told, d)'
  <2>1. \A c \in Batches : d[c] \subseteq stored' /\ told \intersect d[c] = {}
    BY <1>1, <1>2, <1>4, <1>9 DEF Backed
  <2>2. \A c, e \in Batches : c # e => d[c] \intersect d[e] = {}
    BY <1>1, <1>2, <1>9 DEF Backed
  <2>3. ASSUME NEW c \in Batches, delivery'[c].at = "summary"
        PROVE  Cardinality(d[c]) = delivery'[c].inserted
    BY <1>1, <1>3, <1>5, <1>9, <2>3 DEF Backed
  <2> QED
    BY <1>1, <1>4, <1>10, <2>1, <2>2, <2>3 DEF Backed
<1>12. stored' \subseteq Events
  BY <1>4 DEF ClaimInv, Events
<1> QED
  BY <1>7, <1>10, <1>11, <1>12 DEF ClaimInv, Deliveries

\* An answer turns what was due into what was told.
LEMMA ClaimInvRespond ==
  ASSUME ClaimInv, AckInv', NEW b \in Batches, Respond(b) PROVE ClaimInv'
<1>1. PICK told \in SUBSET stored, due \in [Batches -> SUBSET stored] : Backed(told, due)
  BY DEF ClaimInv
<1>2. PICK at \in {"answered", "peer"} : delivery' = [delivery EXCEPT ![b] = [at |-> at]]
  BY DEF Respond
<1>3. /\ delivery'[b] = [at |-> at]
      /\ \A c \in Batches \ {b} : delivery'[c] = delivery[c]
  BY <1>2 DEF ClaimInv, AckInv
<1>4. stored' = stored /\ claimed' = claimed + delivery[b].inserted
  BY DEF Respond
<1>5. PICK t, d : t = told \union due[b] /\ d = [due EXCEPT ![b] = {}]
  OBVIOUS
<1>6. d[b] = {} /\ \A c \in Batches \ {b} : d[c] = due[c]
  BY <1>5
<1>7. t \in SUBSET stored' /\ d \in [Batches -> SUBSET stored']
  BY <1>4, <1>5
<1>8. Cardinality(t) = claimed'
  <2>1. IsFiniteSet(told) /\ IsFiniteSet(due[b])
    BY EventsAreFinite DEF ClaimInv
  <2>2. told \intersect due[b] = {}
    BY <1>1 DEF Backed
  <2>3. Cardinality(t) = Cardinality(told) + Cardinality(due[b])
    <3>1. Cardinality(told) \in Nat /\ Cardinality(due[b]) \in Nat
      BY <2>1, FS_CardinalityType
    <3>2. Cardinality(told \union due[b])
            = Cardinality(told) + Cardinality(due[b]) - Cardinality(told \intersect due[b])
      BY <2>1, FS_Union
    <3>3. Cardinality(told \intersect due[b]) = 0
      BY <2>2, FS_EmptySet
    <3>4. PICK m, n, k \in Nat : m = Cardinality(told) /\ n = Cardinality(due[b])
            /\ k = Cardinality(told \intersect due[b])
      BY <3>1, <3>3
    <3>5. Cardinality(t) = m + n - k
      BY <1>5, <3>2, <3>4
    <3> QED
      BY <3>3, <3>4, <3>5
  <2>4. delivery[b].at = "summary"
    BY DEF Respond
  <2> QED
    BY <1>1, <1>4, <2>3, <2>4 DEF Backed
<1>9. Backed(t, d)'
  <2>1. \A c \in Batches : d[c] \subseteq stored' /\ t \intersect d[c] = {}
    BY <1>1, <1>4, <1>5, <1>6 DEF Backed
  <2>2. \A c, e \in Batches : c # e => d[c] \intersect d[e] = {}
    BY <1>1, <1>6 DEF Backed
  <2>3. ASSUME NEW c \in Batches, delivery'[c].at = "summary"
        PROVE  Cardinality(d[c]) = delivery'[c].inserted
    BY <1>1, <1>3, <1>6, <2>3 DEF Backed
  <2> QED
    BY <1>7, <1>8, <2>1, <2>2, <2>3 DEF Backed
<1>10. \A c \in Batches : delivery'[c] \in Deliveries(c)
  BY <1>3 DEF ClaimInv, Deliveries
<1>11. stored' \subseteq Events
  BY <1>4 DEF ClaimInv
<1> QED
  BY <1>7, <1>9, <1>10, <1>11 DEF ClaimInv, Deliveries

LEMMA ClaimInvStep == ClaimInv /\ [NodeNext]_nodeVars => ClaimInv'
<1> SUFFICES ASSUME ClaimInv, [NodeNext]_nodeVars PROVE ClaimInv'
  OBVIOUS
<1>1. AckInv'
  BY AckInvStep DEF ClaimInv
<1>2. ASSUME UNCHANGED handlerVars PROVE ClaimInv'
  BY <1>1, <1>2, ClaimInvKeeps DEF ClaimInv, handlerVars
<1>3. CASE LifeNext
  BY <1>2, <1>3 DEF LifeNext, StartNode, StartRelay, StartFails, HttpBinds, HttpBindFails,
               HttpDrains, HttpEnds, Shutdown, JoinHttp, JoinRelay, ShutdownAgain,
               DropHandle, relayVars, handlerVars
<1>4. CASE ReadNext
  BY <1>2, <1>4 DEF ReadNext, Tick, PutDetectionEvent, Ask, Serve, ServeFails, relayVars,
                    handlerVars
<1>5. ASSUME NEW b \in Batches, HandlerNext(b) PROVE ClaimInv'
  <2>1. CASE Deliver(b) \/ PersistFails(b)
    <3>1. \A c \in Batches : \/ delivery'[c] = delivery[c]
                             \/ delivery'[c] \in {[at |-> "peer"], [at |-> "handling"]}
      BY <2>1 DEF Deliver, PersistFails, ClaimInv, AckInv
    <3>2. stored \subseteq stored' /\ stored' \subseteq Events /\ claimed' = claimed
      BY <2>1 DEF Deliver, PersistFails, ClaimInv, Events
    <3> QED
      BY <1>1, <3>1, <3>2, ClaimInvKeeps
  <2> QED
    BY <1>1, <1>5, <2>1, ClaimInvPersist, ClaimInvRespond DEF HandlerNext
<1>6. CASE RelayStops \/ RelayFails
  <2>1. \A c \in Batches : delivery'[c] \in {delivery[c], [at |-> "peer"]}
    BY <1>6 DEF RelayStops, RelayFails, Abandon
  <2> QED
    BY <1>1, <1>6, <2>1, ClaimInvKeeps DEF RelayStops, RelayFails, ClaimInv
<1>7. CASE UNCHANGED nodeVars
  BY <1>2, <1>7 DEF nodeVars, handlerVars
<1> QED
  BY <1>3, <1>4, <1>5, <1>6, <1>7 DEF NodeNext, RelayNext

LEMMA ClaimsHold == ClaimInv => AnsweredIsStored /\ ClaimsAreBacked
<1> SUFFICES ASSUME ClaimInv PROVE claimed <= Cardinality(stored)
  BY DEF ClaimInv, AckInv, ClaimsAreBacked
<1>1. PICK told \in SUBSET stored, due \in [Batches -> SUBSET stored] : Backed(told, due)
  BY DEF ClaimInv
<1> QED
  BY <1>1, EventsAreFinite, FS_Subset DEF Backed, ClaimInv

-----------------------------------------------------------------------------
(* The types, and what the replies were computed from *)

LifeInv ==
    /\ host \in {"fresh", "failed", "holds", "joins http", "joins relay", "down", "dropped"}
    /\ outcome \in {"none", "ok", "relay error"}
    /\ http \in {"off", "spawned", "serving", "draining", "ended"}
    /\ {httpSignal, relaySignal} \subseteq {"armed", "sent", "dropped"}
    /\ relay \in {"off", "running", "ended"}
    /\ relayExit \in {"none", "ok", "error"}
    /\ (host \in {"fresh", "failed"}) <=> (http = "off")
    /\ (host \in {"fresh", "failed", "holds"}) => (httpSignal = "armed" /\ relaySignal = "armed")

LEMMA LifeInvInit == NodeInit => LifeInv
  BY DEF NodeInit, RelayInit, LifeInv

LEMMA LifeInvStep == LifeInv /\ [NodeNext]_nodeVars => LifeInv'
<1> SUFFICES ASSUME LifeInv, [NodeNext]_nodeVars PROVE LifeInv'
  OBVIOUS
<1>1. CASE LifeNext
  <2> USE DEF LifeInv, hostVars, httpVars, readVars, relayVars, handlerVars
  <2>1. CASE StartNode \/ StartFails
    BY <2>1 DEF StartNode, StartRelay, StartFails
  <2>2. CASE HttpBinds \/ HttpBindFails \/ HttpDrains \/ HttpEnds
    BY <2>2 DEF HttpBinds, HttpBindFails, HttpDrains, HttpEnds
  <2>3. CASE Shutdown \/ JoinHttp
    BY <2>3 DEF Shutdown, JoinHttp
  <2>4. CASE JoinRelay \/ ShutdownAgain \/ DropHandle
    BY <2>4 DEF JoinRelay, ShutdownAgain, DropHandle
  <2> QED
    BY <1>1, <2>1, <2>2, <2>3, <2>4 DEF LifeNext
<1>2. CASE ReadNext
  BY <1>2 DEF ReadNext, Tick, PutDetectionEvent, Ask, Serve, ServeFails, LifeInv, hostVars,
              httpVars, relayVars
<1>3. CASE RelayNext
  <2>1. relaySignal' = relaySignal /\ relay' \in {relay, "ended"}
        /\ relayExit' \in {relayExit, "ok", "error"}
    BY <1>3 DEF RelayNext, HandlerNext, Deliver, ReceiveAndPersist, PersistFails, Respond,
                RelayStops, RelayFails, taskVars
  <2> QED
    BY <1>3, <2>1 DEF RelayNext, LifeInv, hostVars, httpVars
<1>4. CASE UNCHANGED nodeVars
  BY <1>4 DEF nodeVars, LifeInv
<1> QED
  BY <1>1, <1>2, <1>3, <1>4 DEF NodeNext

\* The events of the log are numbered, and a reply is the answer to its request
\* about the log as long as it was when the Engine was read.
ReplyInv(r) == /\ r.q \in Requests /\ r.now \in 0..now /\ r.seen \in 0..Len(events)
               /\ r.answer = Answer([q |-> r.q, now |-> r.now], Log(r.seen))

ReadInv ==
    /\ now \in 0..MaxTime
    /\ events \in Seq(Rows)
    /\ \A i \in 1..Len(events) : events[i].id = i
    /\ \A r \in request : r \in [q : Requests, now : 0..now]
    /\ \A r \in replies : ReplyInv(r)

LEMMA ReadInvInit == NodeInit => ReadInv
  BY NodeAssumption DEF NodeInit, ReadInv

LEMMA ReadInvStep == ReadInv /\ [NodeNext]_nodeVars => ReadInv'
<1> SUFFICES ASSUME ReadInv, [NodeNext]_nodeVars PROVE ReadInv'
  OBVIOUS
<1>0. now \in Nat /\ Len(events) \in Nat /\ MaxTime \in Nat
  BY NodeAssumption DEF ReadInv
<1>1. ASSUME UNCHANGED readVars PROVE ReadInv'
  BY <1>1 DEF ReadInv, ReplyInv, Log, readVars
<1>2. CASE Tick
  <2>1. now' = now + 1 /\ now' \in 0..MaxTime /\ 0..now \subseteq 0..now'
        /\ UNCHANGED <<events, request, replies>>
    BY <1>0, <1>2 DEF Tick
  <2>2. \A r \in request : r \in [q : Requests, now : 0..now']
    BY <2>1 DEF ReadInv
  <2>3. \A r \in replies : ReplyInv(r)'
    BY <2>1 DEF ReadInv, ReplyInv, Log
  <2> QED
    BY <2>1, <2>2, <2>3 DEF ReadInv
<1>3. CASE PutDetectionEvent
  <2>1. PICK s \in Shapes :
          events' = Append(events,
              [id |-> Len(events) + 1, trace |-> s.trace, detector |-> s.detector,
               severity |-> s.severity, variant |-> s.variant, ts |-> now])
    BY <1>3 DEF PutDetectionEvent
  <2>2. PICK e : e = [id |-> Len(events) + 1, trace |-> s.trace, detector |-> s.detector,
               severity |-> s.severity, variant |-> s.variant, ts |-> now]
    OBVIOUS
  <2>3. e \in Rows /\ e.id = Len(events) + 1
    <3>1. Len(events) + 1 \in 1..MaxEvents
      BY <1>0, <1>3, NodeAssumption DEF PutDetectionEvent
    <3>2. s.severity \in Severities /\ s.variant \in Variants
      BY NodeAssumption
    <3> QED
      BY <2>2, <3>1, <3>2 DEF ReadInv, Rows
  <2>4. /\ events' \in Seq(Rows) /\ Len(events') = Len(events) + 1
        /\ events'[Len(events) + 1] = e
        /\ \A i \in 1..Len(events) : events'[i] = events[i]
    BY <1>0, <2>1, <2>2, <2>3 DEF ReadInv
  <2>5. \A i \in 1..Len(events') : events'[i].id = i
    <3>1. 1..Len(events') = 1..Len(events) \union {Len(events) + 1}
      BY <1>0, <2>4
    <3> QED
      BY <2>3, <2>4, <3>1 DEF ReadInv
  <2>6. UNCHANGED <<now, request, replies>>
    BY <1>3 DEF PutDetectionEvent
  <2>7. ASSUME NEW r \in replies PROVE ReplyInv(r)'
    <3>1. r.seen \in 0..Len(events) /\ ReplyInv(r)
      BY DEF ReadInv, ReplyInv
    <3>2. Log(r.seen)' = Log(r.seen)
      BY <1>0, <2>4, <3>1 DEF Log
    <3>3. r.seen \in 0..Len(events')
      BY <1>0, <2>4, <3>1
    <3> QED
      BY <2>6, <3>1, <3>2, <3>3 DEF ReplyInv
  <2> QED
    BY <2>4, <2>5, <2>6, <2>7 DEF ReadInv
<1>4. ASSUME NEW q \in Requests, Ask(q) PROVE ReadInv'
  <2>1. request' = {[q |-> q, now |-> now]} /\ UNCHANGED <<events, now, replies>>
    BY <1>4 DEF Ask
  <2>2. \A r \in request' : r \in [q : Requests, now : 0..now]
    BY <1>0, <2>1
  <2> QED
    BY <2>1, <2>2 DEF ReadInv, ReplyInv, Log
<1>5. CASE Serve
  <2>1. PICK r \in request :
          /\ request' = {}
          /\ replies' = replies \union {[q |-> r.q, now |-> r.now, seen |-> Len(events),
                                         answer |-> Answer(r, Log(Len(events)))]}
          /\ UNCHANGED <<events, now>>
    BY <1>5 DEF Serve
  <2>2. PICK new : new = [q |-> r.q, now |-> r.now, seen |-> Len(events),
                          answer |-> Answer(r, Log(Len(events)))]
    OBVIOUS
  <2>3. r.q \in Requests /\ r.now \in 0..now /\ r = [q |-> r.q, now |-> r.now]
    BY DEF ReadInv
  <2>4. /\ new.q = r.q /\ new.now = r.now /\ new.seen = Len(events)
        /\ new.answer = Answer([q |-> new.q, now |-> new.now], Log(new.seen))
    BY <2>2, <2>3
  <2>5. ReplyInv(new)'
    BY <1>0, <2>1, <2>3, <2>4 DEF ReplyInv, Log
  <2>6. \A a \in replies : ReplyInv(a)'
    BY <2>1 DEF ReadInv, ReplyInv, Log
  <2> QED
    BY <2>1, <2>2, <2>5, <2>6 DEF ReadInv
<1>6. CASE ServeFails
  BY <1>6 DEF ServeFails, ReadInv, ReplyInv, Log
<1>7. CASE LifeNext \/ RelayNext
  BY <1>1, <1>7 DEF LifeNext, RelayNext, StartNode, StartFails, HttpBinds, HttpBindFails,
                    HttpDrains, HttpEnds, Shutdown, JoinHttp, JoinRelay, ShutdownAgain,
                    DropHandle
<1>8. CASE UNCHANGED nodeVars
  BY <1>1, <1>8 DEF nodeVars, readVars
<1> QED
  BY <1>2, <1>3, <1>4, <1>5, <1>6, <1>7, <1>8 DEF NodeNext, ReadNext

LEMMA NodeShapesHold == LifeInv /\ ReadInv /\ ClaimInv => NodeTypeOK
<1> SUFFICES ASSUME LifeInv, ReadInv, ClaimInv PROVE NodeTypeOK
  OBVIOUS
<1>1. \A i \in DOMAIN events : events[i] \in Rows
  BY DEF ReadInv
<1>2. \A r \in request : r.q \in Requests /\ r.now \in 0..now
  BY DEF ReadInv
<1>3. answered \subseteq Batches
  BY DEF ClaimInv, AckInv
<1> QED
  BY <1>1, <1>2, <1>3 DEF NodeTypeOK, LifeInv, ReadInv, ReplyInv, ClaimInv

\* The state has its types and the life cycles agree, what was answered for is
\* stored, and what the answers claim to have inserted adds up to no more than
\* the Engine holds, whatever is resent or interrupted (handler.rs:75-94).
THEOREM AcksAreAlwaysTrue == NodeSpec => []AcksAreTrue
<1>1. LifeInv /\ ReadInv /\ ClaimInv => AcksAreTrue
  BY NodeShapesHold, ClaimsHold DEF AcksAreTrue
<1> QED
  BY <1>1, LifeInvInit, LifeInvStep, ReadInvInit, ReadInvStep, ClaimInvInit, ClaimInvStep,
     PTL DEF NodeSpec

-----------------------------------------------------------------------------
(* What a page without a cursor shows *)

\* Every set of numbers has a smallest one; induction over a log rests on it.
LEMMA SmallestNumber ==
  ASSUME NEW T, T \subseteq Nat, T # {} PROVE \E m \in T : \A n \in T : m <= n
<1> DEFINE R == OpToRel(<, Nat)
<1>1. \A m, n \in Nat : m < n => <<m, n>> \in R
  BY DEF OpToRel
<1>2. IsWellFoundedOn(R, Nat)
  BY NatLessThanWellFounded
<1> HIDE DEF R
<1>3. PICK m \in T : \A n \in T : ~ (<<n, m>> \in R)
  BY <1>2, WFMin
<1>4. ASSUME NEW n \in T PROVE m <= n
  <2>1. m \in Nat /\ n \in Nat
    OBVIOUS
  <2>2. ~ (n < m)
    BY <1>1, <1>3, <2>1
  <2> QED BY <2>1, <2>2
<1> QED BY <1>4

\* A list of rows: finitely many, each with an id of its own.
Numbered(rows) == /\ IsFiniteSet(rows)
                  /\ \A e \in rows : e.id \in Nat
                  /\ \A e, f \in rows : e.id = f.id => e = f

LEMMA FirstRow ==
  ASSUME NEW rows, Numbered(rows), rows # {}
  PROVE  \E e \in rows : \A f \in rows : e.id <= f.id
<1>1. {e.id : e \in rows} \subseteq Nat /\ {e.id : e \in rows} # {}
  BY DEF Numbered
<1>2. PICK m \in {e.id : e \in rows} : \A n \in {e.id : e \in rows} : m <= n
  BY <1>1, SmallestNumber
<1> QED BY <1>2

LEMMA PartsAreNumbered ==
  ASSUME NEW rows, Numbered(rows), NEW part \in SUBSET rows
  PROVE  Numbered(part) /\ Cardinality(part) \in Nat /\ Cardinality(part) <= Cardinality(rows)
<1>1. IsFiniteSet(part) /\ Cardinality(part) <= Cardinality(rows)
  BY FS_Subset DEF Numbered
<1> QED BY <1>1, FS_CardinalityType DEF Numbered

\* Nothing is left out of a list that is short enough.
LEMMA TakeTakesAll ==
  ASSUME NEW rows, Numbered(rows), NEW n \in Nat, Cardinality(rows) <= n
  PROVE  Take(rows, n) = rows
<1>1. ASSUME NEW e \in rows PROVE Cardinality({f \in rows : f.id < e.id}) < n
  <2>1. PICK before : before = {f \in rows : f.id < e.id}
    OBVIOUS
  <2>2. before \subseteq rows \ {e}
    BY <2>1 DEF Numbered
  <2>3. IsFiniteSet(rows \ {e}) /\ Cardinality(rows \ {e}) = Cardinality(rows) - 1
    BY FS_RemoveElement DEF Numbered
  <2>4. Cardinality(before) <= Cardinality(rows \ {e}) /\ Cardinality(before) \in Nat
    BY <2>2, <2>3, FS_Subset, FS_CardinalityType
  <2>5. Cardinality(rows) \in Nat
    BY PartsAreNumbered
  <2> QED BY <2>1, <2>3, <2>4, <2>5
<1> QED BY <1>1 DEF Take

\* A list that leaves something out is full.
LEMMA TakeIsFull ==
  ASSUME NEW rows, Numbered(rows), NEW n \in Nat, Take(rows, n) # rows
  PROVE  Cardinality(Take(rows, n)) >= n
<1>1. PICK taken : taken = Take(rows, n)
  OBVIOUS
<1>2. taken \subseteq rows
  BY <1>1 DEF Take
<1>3. PICK e \in rows \ taken : \A f \in rows \ taken : e.id <= f.id
  <2>1. rows \ taken # {} /\ Numbered(rows \ taken)
    BY <1>1, <1>2, PartsAreNumbered
  <2> QED BY <2>1, FirstRow
<1>4. PICK before : before = {f \in rows : f.id < e.id}
  OBVIOUS
<1>5. before \subseteq taken
  BY <1>3, <1>4 DEF Numbered
<1>6. ~ (Cardinality(before) < n)
  BY <1>1, <1>3, <1>4 DEF Take
<1>7. Cardinality(before) \in Nat
  BY <1>4, PartsAreNumbered
<1>8. Cardinality(taken) \in Nat /\ Cardinality(before) <= Cardinality(taken)
  BY <1>2, <1>5, PartsAreNumbered
<1> QED BY <1>1, <1>6, <1>7, <1>8

LEMMA TakeTakesOne ==
  ASSUME NEW rows, Numbered(rows), rows # {}, NEW n \in Nat \ {0}
  PROVE  Take(rows, n) # {}
<1>1. PICK e \in rows : \A f \in rows : e.id <= f.id
  BY FirstRow
<1>2. {f \in rows : f.id < e.id} = {}
  BY <1>1 DEF Numbered
<1>3. Cardinality({f \in rows : f.id < e.id}) < n
  BY <1>2, FS_EmptySet
<1> QED BY <1>3 DEF Take

\* The row that is taken beyond the page tells whether the page is the last.
LEMMA LastPageIsWhole ==
  ASSUME NEW rows, Numbered(rows), NEW size \in Nat \ {0}, Page(rows, size).cursor = {}
  PROVE  Page(rows, size).items = rows
<1>1. PICK taken, items : taken = Take(rows, size + 1) /\ items = Take(taken, size)
  OBVIOUS
<1>2. Page(rows, size).items = items
  BY <1>1 DEF Page
<1>3. ~ (Cardinality(taken) > size /\ items # {})
  BY <1>1 DEF Page
<1>4. Numbered(taken) /\ Cardinality(taken) \in Nat
  BY <1>1, PartsAreNumbered DEF Take
<1>5. Cardinality(taken) <= size
  <2>1. CASE taken = {}
    BY <2>1, FS_EmptySet
  <2>2. CASE taken # {}
    BY <1>1, <1>3, <1>4, <2>2, TakeTakesOne
  <2> QED BY <2>1, <2>2
<1>6. taken = rows
  BY <1>1, <1>4, <1>5, TakeIsFull
<1> QED BY <1>1, <1>2, <1>4, <1>5, <1>6, TakeTakesAll

LEMMA TheOne ==
  ASSUME NEW S, AtMostOne(S), S # {} PROVE S = {The(S)}
  BY DEF AtMostOne, The

LEMMA LogIsNumbered ==
  ASSUME ReadInv, NEW n \in 0..Len(events)
  PROVE  /\ Numbered(Log(n))
         /\ \A e \in Log(n) : e.ts \in Int /\ SeverityLevel[e.severity] \in Nat
<1>0. Len(events) \in Nat
  BY DEF ReadInv
<1>1. IsFiniteSet(Log(n))
  <2>1. [k \in 1..n |-> events[k]] \in Surjection(1..n, Log(n))
    BY DEF Surjection, Log
  <2> QED BY <1>0, <2>1, FS_Interval, FS_Surjection
<1>2. \A k \in 1..n : k \in 1..Len(events) /\ events[k] \in Rows /\ events[k].id = k
  BY <1>0 DEF ReadInv
<1>3. \A e \in Rows : e.ts \in Int /\ SeverityLevel[e.severity] \in Nat
  <2>1. \A e \in Rows : e.ts \in 0..MaxTime /\ e.severity \in Severities
    BY DEF Rows
  <2>2. \A s \in Severities : SeverityLevel[s] \in Nat
    BY DEF Severities, SeverityLevel
  <2> QED BY <2>1, <2>2, NodeAssumption
<1> QED BY <1>1, <1>2, <1>3 DEF Log, Numbered

\* The rows that the code's filters leave are those that belong to the listing.
LEMMA ListingsAreWhole ==
  ASSUME ReadInv, NEW r \in replies, r.q.kind \in {"scores", "events"},
         r.answer.status = 200, 0 \notin r.q.page_size, r.answer.cursor = {}
  PROVE  r.answer.items = {e \in Log(r.seen) : Belongs(r.q, e)}
<1>1. PICK q, rows : q = r.q /\ rows = Log(r.seen)
  OBVIOUS
<1>2. q \in Requests /\ r.seen \in 0..Len(events)
      /\ r.answer = Answer([q |-> q, now |-> r.now], rows)
  BY <1>1 DEF ReadInv, ReplyInv
<1>3. Numbered(rows) /\ \A e \in rows : e.ts \in Int /\ SeverityLevel[e.severity] \in Nat
  BY <1>1, <1>2, LogIsNumbered
<1>4. PageSize(q) \in Nat \ {0}
  <2>1. q.page_size \subseteq Nat \ {0}
    BY <1>1, <1>2, RequestAssumption
  <2> QED BY <2>1 DEF PageSize, The
<1>5. CASE q.kind = "scores"
  <2>1. PICK rs : rs = {e \in EngineRead(rows, q.trace, {}, q.since) : NotAfter(e, q.until)}
    OBVIOUS
  <2>2. r.answer = Page(rs, PageSize(q))
    BY <1>2, <1>5, <2>1 DEF Answer, GetScores
  <2>3. rs \subseteq rows
    BY <2>1 DEF EngineRead
  <2>4. r.answer.items = rs
    <3>1. Numbered(rs)
      BY <1>3, <2>3, PartsAreNumbered
    <3>2. Page(rs, PageSize(q)).cursor = {}
      BY <2>2
    <3>3. Page(rs, PageSize(q)).items = rs
      BY <1>4, <3>1, <3>2, LastPageIsWhole
    <3> QED BY <2>2, <3>3
  <2>5. AtMostOne(q.trace)
    BY <1>2, <1>5, RequestAssumption
  <2>6. ASSUME NEW e \in rows PROVE (e \in rs) <=> Belongs(q, e)
    BY <1>5, <2>1, <2>5 DEF EngineRead, NotAfter, Belongs, AtMostOne
  <2> QED BY <1>1, <2>3, <2>4, <2>6
<1>6. CASE q.kind = "events"
  <2>1. PICK rs : rs = {e \in EngineRead(rows, {}, q.detector, q.since) :
                          /\ SeverityLevel[e.severity] >= MinLevel(q.severity)
                          /\ NotAfter(e, q.until)}
    OBVIOUS
  <2>2. q.severity \subseteq Severities /\ r.answer = Page(rs, PageSize(q))
    BY <1>2, <1>6, <2>1 DEF Answer, GetDetectionEvents, Failure
  <2>3. rs \subseteq rows
    BY <2>1 DEF EngineRead
  <2>4. r.answer.items = rs
    <3>1. Numbered(rs)
      BY <1>3, <2>3, PartsAreNumbered
    <3>2. Page(rs, PageSize(q)).cursor = {}
      BY <2>2
    <3>3. Page(rs, PageSize(q)).items = rs
      BY <1>4, <3>1, <3>2, LastPageIsWhole
    <3> QED BY <2>2, <3>3
  <2>5. AtMostOne(q.detector) /\ AtMostOne(q.severity)
    BY <1>2, <1>6, RequestAssumption
  <2>6. ASSUME NEW e \in rows
        PROVE  (SeverityLevel[e.severity] >= MinLevel(q.severity)) <=>
               (\A s \in q.severity : SeverityLevel[e.severity] >= SeverityLevel[s])
    <3>1. CASE q.severity = {}
      BY <1>3, <3>1 DEF MinLevel
    <3>2. CASE q.severity # {}
      BY <2>5, <3>2, TheOne DEF MinLevel
    <3> QED BY <3>1, <3>2
  <2>7. ASSUME NEW e \in rows PROVE (e \in rs) <=> Belongs(q, e)
    BY <1>6, <2>1, <2>5, <2>6 DEF EngineRead, NotAfter, Belongs, AtMostOne
  <2> QED BY <1>1, <2>3, <2>4, <2>7
<1> QED BY <1>1, <1>5, <1>6

\* A page without a cursor is the last one: nothing that the query asks for and
\* that was stored when the Engine was read is missing on it, and nothing else
\* is on it (node.rs:150-152, node.rs:311-336).
THEOREM NoCursorIsLastPage == NodeSpec => []NoCursorMeansLastPage
<1>1. ReadInv => NoCursorMeansLastPage
  BY ListingsAreWhole DEF NoCursorMeansLastPage
<1> QED
  BY <1>1, ReadInvInit, ReadInvStep, PTL DEF NodeSpec

-----------------------------------------------------------------------------
(* The ways to count a window agree *)

\* The events of a log that a window counts
Counted(w, rows, s) == {e \in rows : /\ e.ts >= w[1] /\ e.ts <= w[2]
                                     /\ \A allowed \in w[3] : e.detector \in allowed
                                     /\ e.severity = s}

LEMMA CountsAreCounted ==
  ASSUME ReadInv, NEW r \in replies, CountsAWindow(r), NEW s \in Severities
  PROVE  Counts(r, s) = Cardinality(Counted(Window(r), Log(r.seen), s))
<1>1. PICK q, rows, w : q = r.q /\ rows = Log(r.seen) /\ w = Window(r)
  OBVIOUS
<1>2. q \in Requests /\ r.now \in 0..now /\ r.seen \in 0..Len(events)
      /\ r.answer = Answer([q |-> q, now |-> r.now], rows)
  BY <1>1 DEF ReadInv, ReplyInv
<1>3. \A e \in rows : e.ts \in Int
  BY <1>1, <1>2, LogIsNumbered
<1>4. ASSUME NEW start \in Int, NEW end \in Int, NEW filter, NEW part,
             w = <<start, end, filter>>,
             part = {e \in rows : /\ e.ts >= start
                                  /\ \A allowed \in filter : e.detector \in allowed}
             \/ part = {e \in rows : e.ts >= start},
             r.answer = ComputeAggregate(part, start, end, filter),
             r.q.kind \in {"aggregate", "for_agent_window"}
      PROVE  Counts(r, s) = Cardinality(Counted(w, rows, s))
  <2>1. PICK counted : counted = {e \in part :
                                    /\ InWindow(e.ts, start, end)
                                    /\ \A allowed \in filter : e.detector \in allowed}
    OBVIOUS
  <2>2. r.answer.severity = [t \in Severities |-> Cardinality({e \in counted : e.severity = t})]
    BY <1>4, <2>1 DEF ComputeAggregate
  <2>3. {e \in counted : e.severity = s} = Counted(w, rows, s)
    BY <1>3, <1>4, <2>1 DEF Counted, InWindow
  <2> QED BY <1>4, <2>2, <2>3 DEF Counts
<1>5. CASE q.kind = "aggregate"
  <2>1. PICK start, end : start = WindowStart(q, r.now) /\ end = WindowEnd(q, r.now)
    OBVIOUS
  <2>2. start \in Int /\ end \in Int
    <3>1. q.since \subseteq Int /\ q.until \subseteq Int
      BY <1>2, <1>5, RequestAssumption
    <3> QED BY <1>2, <2>1, <3>1, NodeAssumption DEF WindowStart, WindowEnd, The
  <2>3. PICK filter, part : filter = {{d} : d \in q.detector}
                            /\ part = EngineRead(rows, {}, q.detector, {start})
    OBVIOUS
  <2>4. w = <<start, end, filter>>
    BY <1>1, <1>5, <2>1, <2>3 DEF Window
  <2>5. r.answer = ComputeAggregate(part, start, end, filter)
    BY <1>2, <1>5, <2>1, <2>3 DEF Answer, GetManifoldConformityAggregate
  <2>6. part = {e \in rows : /\ e.ts >= start
                             /\ \A allowed \in filter : e.detector \in allowed}
    <3>1. AtMostOne(q.detector)
      BY <1>2, <1>5, RequestAssumption
    <3>2. ASSUME NEW e \in rows
          PROVE  (q.detector = {} \/ e.detector \in q.detector) <=>
                 (\A allowed \in filter : e.detector \in allowed)
      BY <2>3, <3>1 DEF AtMostOne
    <3> QED BY <2>3, <3>2 DEF EngineRead
  <2> QED BY <1>1, <1>4, <1>5, <2>2, <2>4, <2>5, <2>6
<1>6. CASE q.kind = "for_agent_window"
  <2>1. PICK start, end : start = The(q.since) /\ end = The(q.until)
    OBVIOUS
  <2>2. q.since = {start} /\ start \in Int /\ end \in Int
    BY <1>2, <1>6, <2>1, RequestAssumption, TheOne
  <2>3. w = <<start, end, q.filter>>
    BY <1>1, <1>6, <2>1 DEF Window
  <2>4. PICK part : part = EngineRead(rows, {}, {}, q.since)
    OBVIOUS
  <2>5. r.answer = ComputeAggregate(part, start, end, q.filter)
    BY <1>2, <1>6, <2>1, <2>4 DEF Answer, ForAgentWindow
  <2>6. part = {e \in rows : e.ts >= start}
    BY <2>2, <2>4 DEF EngineRead
  <2> QED BY <1>1, <1>4, <1>6, <2>2, <2>3, <2>5, <2>6
<1>7. CASE q.kind = "events"
  <2>1. r.answer.items = {e \in rows : Belongs(q, e)}
    BY <1>1, <1>7, ListingsAreWhole DEF CountsAWindow
  <2>2. PICK start, end : start = The(q.since) /\ end = The(q.until)
    OBVIOUS
  <2>3. q.since = {start} /\ q.until = {end} /\ AtMostOne(q.detector) /\ q.severity = {}
    BY <1>1, <1>2, <1>7, <2>2, RequestAssumption, TheOne DEF CountsAWindow
  <2>4. w = <<start, end, {{d} : d \in q.detector}>>
    BY <1>1, <1>7, <2>2 DEF Window
  <2>5. ASSUME NEW e \in rows
        PROVE  Belongs(q, e) <=>
               /\ e.ts >= w[1] /\ e.ts <= w[2]
               /\ \A allowed \in w[3] : e.detector \in allowed
    <3>1. Belongs(q, e) <=> /\ e.ts >= start /\ e.ts <= end
                            /\ \A d \in q.detector : e.detector = d
      BY <1>7, <2>3 DEF Belongs
    <3>2. (\A d \in q.detector : e.detector = d) <=>
          (\A allowed \in {{d} : d \in q.detector} : e.detector \in allowed)
      OBVIOUS
    <3> QED BY <2>4, <3>1, <3>2
  <2>6. {e \in r.answer.items : e.severity = s} = Counted(w, rows, s)
    BY <2>1, <2>5 DEF Counted
  <2> QED BY <1>1, <1>7, <2>6 DEF Counts
<1> QED BY <1>1, <1>5, <1>6, <1>7 DEF CountsAWindow

\* An aggregate of the API, one of the oracle and a listing count the same
\* events of the same window and log, and no fewer of a longer log
\* (aggregate.rs:78-122, node.rs:494-530, oracle.rs:49-74).
THEOREM WindowCountsAlwaysAgree == NodeSpec => []WindowCountsAgree
<1>1. ReadInv => WindowCountsAgree
  <2> SUFFICES ASSUME ReadInv, NEW r1 \in replies, NEW r2 \in replies,
                      CountsAWindow(r1), CountsAWindow(r2), Window(r1) = Window(r2),
                      r1.seen <= r2.seen, NEW s \in Severities
               PROVE  /\ Counts(r1, s) <= Counts(r2, s)
                      /\ (r1.seen = r2.seen) => (Counts(r1, s) = Counts(r2, s))
    BY DEF WindowCountsAgree
  <2>1. PICK w, n1, n2 : w = Window(r1) /\ n1 = r1.seen /\ n2 = r2.seen
    OBVIOUS
  <2>2. n1 \in 0..Len(events) /\ n2 \in 0..Len(events) /\ Len(events) \in Nat /\ n1 <= n2
    <3>1. ReplyInv(r1) /\ ReplyInv(r2) /\ Len(events) \in Nat
      BY DEF ReadInv
    <3> QED BY <2>1, <3>1 DEF ReplyInv
  <2>3. Counted(w, Log(n1), s) \subseteq Counted(w, Log(n2), s)
    BY <2>2 DEF Counted, Log
  <2>4. IsFiniteSet(Counted(w, Log(n2), s))
    <3>1. IsFiniteSet(Log(n2)) /\ Counted(w, Log(n2), s) \subseteq Log(n2)
      BY <2>2, LogIsNumbered DEF Numbered, Counted
    <3> QED BY <3>1, FS_Subset
  <2>5. Cardinality(Counted(w, Log(n1), s)) <= Cardinality(Counted(w, Log(n2), s))
    BY <2>3, <2>4, FS_Subset
  <2> QED BY <2>1, <2>5, CountsAreCounted
<1> QED
  BY <1>1, ReadInvInit, ReadInvStep, PTL DEF NodeSpec
=============================================================================
