-------------------------------- MODULE Node --------------------------------
(* Node mode (role/node.rs, install_node and LensNode in ffi/pyo3.rs): a     *)
(* relay and a read API over the same Engine, started by one call and        *)
(* stopped through one handle.  Three tasks move independently: the host     *)
(* that holds the handle, the HTTP task and the relay task; requests are     *)
(* answered and detection events are stored meanwhile.                       *)
EXTENDS NodeScores, Relay, Sequences

CONSTANTS RatchetVersion,    \* ScoringConfig::ratchet_calibration_version
          Requests,          \* the requests clients send
          Shapes,            \* [trace, detector, severity, variant] of new rows
          MaxTime, MaxEvents, MaxReplies, MaxWork   \* bounds of the runs

ASSUME NodeAssumption == /\ RatchetVersion \in Nat
                         /\ Day \in Nat \ {0}
                         /\ {MaxTime, MaxEvents, MaxReplies, MaxWork} \subseteq Nat
                         /\ \A s \in Shapes : s.severity \in Severities
                                               /\ s.variant \in Variants

\* The types of the query structs: an Option is a set of at most one value, a
\* window of the oracle has both its ends.
AtMostOne(S) == \A x, y \in S : x = y

ASSUME RequestAssumption ==
    \A q \in Requests :
        /\ q.kind \in {"scores", "events", "aggregate", "for_agent_window"} =>
              /\ q.since \subseteq Int /\ AtMostOne(q.since)
              /\ q.until \subseteq Int /\ AtMostOne(q.until)
        /\ q.kind = "scores" => AtMostOne(q.trace)
        /\ q.kind = "events" => AtMostOne(q.severity)
        /\ q.kind \in {"events", "aggregate"} => AtMostOne(q.detector)
        /\ q.kind \in {"scores", "events"} =>
              q.page_size \subseteq Nat /\ AtMostOne(q.page_size)
        /\ q.kind = "for_agent_window" => q.since # {} /\ q.until # {}

VARIABLES host,        \* what the holder of the handle is doing
          outcome,     \* what node() and shutdown() returned last
          http,        \* the HTTP task
          httpSignal,  \* its watch channel: "armed", "sent" or "dropped"
          events,      \* the detection events in the Engine, in its order
          now,         \* Utc::now, in days
          request,     \* the request in flight, {} or one [q, now]
          replies      \* the answers so far, with the length of the log they saw

hostVars == <<host, outcome>>
httpVars == <<http, httpSignal>>
readVars == <<events, now, request, replies>>
nodeVars == <<host, outcome, http, httpSignal, events, now, request, replies,
              relay, relaySignal, relayExit, delivery, stored, answered, claimed>>

NodeInit == /\ host = "fresh"
            /\ outcome = "none"
            /\ http = "off"
            /\ httpSignal = "armed"
            /\ events = <<>>
            /\ now = 0
            /\ request = {}
            /\ replies = {}
            /\ RelayInit

-----------------------------------------------------------------------------
(* Starting: the relay first, then the HTTP task *)

\* LensCore::node succeeds; the HTTP task binds later.
StartNode == /\ host = "fresh"
             /\ StartRelay
             /\ host' = "holds"
             /\ outcome' = "ok"
             /\ http' = "spawned"
             /\ UNCHANGED <<httpSignal, readVars>>

\* (mutant) Serving reads although the relay did not start
StartFailsButServes == /\ host = "fresh"
                       /\ host' = "failed"
                       /\ outcome' = "relay error"
                       /\ http' = "spawned"
                       /\ UNCHANGED <<httpSignal, readVars, relayVars>>

\* No SQLite backend, no signer, no transport or no Edge: nothing is spawned.
StartFails == /\ host = "fresh"
              /\ host' = "failed"
              /\ outcome' = "relay error"
              /\ UNCHANGED <<httpVars, readVars, relayVars>>

-----------------------------------------------------------------------------
(* The HTTP task; calls to the ScoresOracle do not pass through it *)

OracleKinds == {"for_trace", "for_agent_window", "detector_history"}

HttpBinds == /\ http = "spawned"
             /\ http' = "serving"
             /\ UNCHANGED <<hostVars, httpSignal, readVars, relayVars>>

\* The address is taken: a log line, and the task is over.
HttpBindFails == /\ http = "spawned"
                 /\ http' = "ended"
                 /\ UNCHANGED <<hostVars, httpSignal, readVars, relayVars>>

\* changed() returns when a value is sent and when the sender is gone.
HttpTold == httpSignal # "armed"

\* Graceful shutdown: no new connection, and the open request is finished.
HttpDrains == /\ http = "serving"
              /\ HttpTold
              /\ http' = "draining"
              /\ UNCHANGED <<hostVars, httpSignal, readVars, relayVars>>

HttpEnds == /\ http = "draining"
            /\ \A r \in request : r.q.kind \in OracleKinds
            /\ http' = "ended"
            /\ UNCHANGED <<hostVars, httpSignal, readVars, relayVars>>

-----------------------------------------------------------------------------
(* Stopping *)

\* (mutant) A shutdown that only waits
JoinWithoutTelling == /\ host = "holds"
                      /\ host' = "joins http"
                      /\ UNCHANGED <<outcome, httpVars, readVars, relayVars>>

\* NodeHandle::shutdown tells the HTTP task and awaits it.
Shutdown == /\ host = "holds"
            /\ host' = "joins http"
            /\ httpSignal' = "sent"
            /\ UNCHANGED <<outcome, http, readVars, relayVars>>

\* (mutant) Telling the HTTP task without awaiting it
HttpJoinedEarly == TRUE

HttpJoined == http = "ended"

\* Then it tells the relay and awaits it.
JoinHttp == /\ host = "joins http"
            /\ HttpJoined
            /\ host' = "joins relay"
            /\ relaySignal' = "sent"
            /\ UNCHANGED <<outcome, httpVars, readVars, relay, relayExit, handlerVars>>

JoinRelay == /\ host = "joins relay"
             /\ relay = "ended"
             /\ host' = "down"
             /\ outcome' = IF relayExit = "ok" THEN "ok" ELSE "relay error"
             /\ UNCHANGED <<httpVars, readVars, relayVars>>

\* A second shutdown() of LensNode finds no handle.
ShutdownAgain == /\ host = "down"
                 /\ outcome' = "ok"
                 /\ UNCHANGED <<host, httpVars, readVars, relayVars>>

\* The handle is dropped, and both senders with it.
DropHandle == /\ host = "holds"
              /\ host' = "dropped"
              /\ httpSignal' = "dropped"
              /\ relaySignal' = "dropped"
              /\ UNCHANGED <<outcome, http, readVars, relay, relayExit, handlerVars>>

-----------------------------------------------------------------------------
(* The Engine and the clients *)

\* Events, requests and batches under way or done, bounded together
Begun == {b \in Batches : delivery[b].at # "peer" \/ EventsOf[b] \subseteq stored}
Work == Len(events) + Cardinality(replies) + Cardinality(request) + Cardinality(Begun)

Tick == /\ now < MaxTime
        /\ now' = now + 1
        /\ UNCHANGED <<hostVars, httpVars, events, request, replies, relayVars>>

\* put_detection_event of the pipeline that shares the Engine
PutDetectionEvent ==
    /\ Len(events) < MaxEvents
    /\ Work < MaxWork
    /\ \E s \in Shapes :
          events' = Append(events,
              [id |-> Len(events) + 1, trace |-> s.trace, detector |-> s.detector,
               severity |-> s.severity, variant |-> s.variant, ts |-> now])
    /\ UNCHANGED <<hostVars, httpVars, now, request, replies, relayVars>>

\* A connection is accepted while the listener is open; the oracle is a call.
Ask(q) == /\ request = {}
          /\ Cardinality(replies) < MaxReplies
          /\ Work < MaxWork
          /\ http = "serving" \/ q.kind \in OracleKinds
          /\ request' = {[q |-> q, now |-> now]}
          /\ UNCHANGED <<hostVars, httpVars, events, now, replies, relayVars>>

Answer(r, rows) ==
    LET q == r.q
    IN  CASE q.kind = "scores"      -> GetScores(q, rows)
          [] q.kind = "by_trace"    -> GetScoreByTrace(q, rows)
          [] q.kind = "events"      -> GetDetectionEvents(q, rows)
          [] q.kind = "by_id"       -> GetDetectionEventById(q, rows)
          [] q.kind = "aggregate"   -> GetManifoldConformityAggregate(q, rows, r.now)
          [] q.kind = "bundles"     -> [status |-> 200,
                                        bundles |-> GetCalibrationBundles(RatchetVersion)]
          [] q.kind = "bundle"      -> GetCalibrationBundleByVersion(q.version, RatchetVersion)
          [] q.kind = "for_trace"   -> ForTrace(q, rows)
          [] q.kind = "for_agent_window" -> ForAgentWindow(q, rows)
          [] q.kind = "detector_history" -> DetectorHistory(q, rows)

\* The first n events of the log
Log(n) == {events[k] : k \in 1..n}

\* The Engine reads the log as it is now; what follows the await is local.
Serve == \E r \in request :
            /\ request' = {}
            /\ replies' = replies \union {[q |-> r.q, now |-> r.now, seen |-> Len(events),
                                           answer |-> Answer(r, Log(Len(events)))]}
            /\ UNCHANGED <<hostVars, httpVars, events, now, relayVars>>

\* The read of the Engine fails: 500 internal_error, or OracleError::Persist.
ServeFails == \E r \in request :
                 /\ r.q.kind \notin {"bundles", "bundle"}
                 /\ request' = {}
                 /\ UNCHANGED <<hostVars, httpVars, events, now, replies, relayVars>>

-----------------------------------------------------------------------------
LifeNext == \/ StartNode \/ StartFails
            \/ HttpBinds \/ HttpBindFails \/ HttpDrains \/ HttpEnds
            \/ Shutdown \/ JoinHttp \/ JoinRelay \/ ShutdownAgain \/ DropHandle

ReadNext == Tick \/ PutDetectionEvent \/ (\E q \in Requests : Ask(q)) \/ Serve \/ ServeFails

RelayNext == /\ \/ \E b \in Batches : HandlerNext(b)
                \/ RelayStops
                \/ RelayFails
             /\ UNCHANGED <<hostVars, httpVars, readVars>>
             /\ Work' <= MaxWork

NodeNext == LifeNext \/ ReadNext \/ RelayNext

\* The runtime polls every task that can move, and Edge::run returns once it
\* was told to.  Nobody has to call shutdown(), and an Engine may always fail.
NodeFairness == /\ WF_nodeVars(HttpBinds \/ HttpBindFails)
                /\ WF_nodeVars(HttpDrains \/ HttpEnds)
                /\ WF_nodeVars(JoinHttp \/ JoinRelay)
                /\ WF_nodeVars(Serve \/ ServeFails)
                /\ WF_nodeVars(relaySignal = "sent" /\ RelayStops
                                 /\ UNCHANGED <<hostVars, httpVars, readVars>>)

NodeSpec == NodeInit /\ [][NodeNext]_nodeVars /\ NodeFairness

-----------------------------------------------------------------------------
(* Properties *)

Rows == [id : 1..MaxEvents, trace : {s.trace : s \in Shapes},
         detector : {s.detector : s \in Shapes}, severity : Severities,
         variant : Variants, ts : 0..MaxTime]

\* The type of the state; and the three life cycles agree: a task exists once
\* node() has returned a handle, and a handle that is held keeps both senders
\* (node.rs:724-776).
NodeTypeOK ==
    /\ host \in {"fresh", "failed", "holds", "joins http", "joins relay", "down", "dropped"}
    /\ outcome \in {"none", "ok", "relay error"}
    /\ http \in {"off", "spawned", "serving", "draining", "ended"}
    /\ {httpSignal, relaySignal} \subseteq {"armed", "sent", "dropped"}
    /\ relay \in {"off", "running", "ended"}
    /\ relayExit \in {"none", "ok", "error"}
    /\ \A i \in DOMAIN events : events[i] \in Rows
    /\ now \in 0..MaxTime
    /\ \A r \in request : r.q \in Requests /\ r.now \in 0..now
    /\ \A r \in replies : r.q \in Requests /\ r.now \in 0..now /\ r.seen \in 0..Len(events)
    /\ \A b \in Batches : delivery[b] \in Deliveries(b)
    /\ stored \subseteq Events /\ answered \subseteq Batches
    /\ (host \in {"fresh", "failed"}) <=> (http = "off")
    /\ (host = "holds") => (httpSignal = "armed" /\ relaySignal = "armed")

\* A page without a cursor is the last one (node.rs:150-152, `None` = last
\* page): whatever was stored when it was read and belongs to the listing, by
\* the conditions of the query, is on it.  (Pages of at least one row.)
Belongs(q, e) ==
    /\ \A s \in q.since : e.ts >= s
    /\ \A u \in q.until : e.ts <= u
    /\ q.kind = "scores" => \A t \in q.trace : e.trace = t
    /\ q.kind = "events" =>
          /\ \A d \in q.detector : e.detector = d
          /\ \A s \in q.severity : SeverityLevel[e.severity] >= SeverityLevel[s]

NoCursorMeansLastPage ==
    \A r \in replies :
        LET q == r.q
            a == r.answer
        IN  (q.kind \in {"scores", "events"} /\ a.status = 200
               /\ 0 \notin q.page_size /\ a.cursor = {}) =>
            a.items = {e \in Log(r.seen) : Belongs(q, e)}

\* The ways to count a window agree, whenever they are asked: an aggregate of
\* the API, one of the oracle and a listing of the same window and detector
\* that has no further page count the same events, or the one that saw the
\* longer log counts more of them, severity by severity.
Window(r) ==
    LET q == r.q
    IN  CASE q.kind = "aggregate" ->
               <<WindowStart(q, r.now), WindowEnd(q, r.now), {{d} : d \in q.detector}>>
          [] q.kind = "for_agent_window" -> <<The(q.since), The(q.until), q.filter>>
          [] q.kind = "events" -> <<The(q.since), The(q.until), {{d} : d \in q.detector}>>

Counts(r, s) ==
    IF r.q.kind \in {"aggregate", "for_agent_window"} THEN r.answer.severity[s]
    ELSE Cardinality({e \in r.answer.items : e.severity = s})

CountsAWindow(r) ==
    \/ r.q.kind \in {"aggregate", "for_agent_window"}
    \/ /\ r.q.kind = "events"
       /\ r.answer.status = 200
       /\ r.q.severity = {} /\ 0 \notin r.q.page_size
       /\ r.q.since # {} /\ r.q.until # {}
       /\ r.answer.cursor = {}

WindowCountsAgree ==
    \A r1, r2 \in replies :
        (/\ CountsAWindow(r1) /\ CountsAWindow(r2)
         /\ Window(r1) = Window(r2)
         /\ r1.seen <= r2.seen) =>
        \A s \in Severities :
            /\ Counts(r1, s) <= Counts(r2, s)
            /\ (r1.seen = r2.seen) => (Counts(r1, s) = Counts(r2, s))

\* A batch whose answer was built is stored, and no event is reported as
\* inserted twice, however often peers send it and wherever the handler or the
\* relay is interrupted (handler.rs:82-94).
AnsweredIsStored == \A b \in answered : EventsOf[b] \subseteq stored
ClaimsAreBacked == claimed <= Cardinality(stored)
AcksAreTrue == NodeTypeOK /\ AnsweredIsStored /\ ClaimsAreBacked

\* When shutdown() has returned, both tasks are over and no accepted request
\* was left without its answer, whatever it returned (node.rs:656-660, "await
\* both").
StopIsComplete == (host = "down") => /\ http = "ended"
                                     /\ relay = "ended"
                                     /\ \A r \in request : r.q.kind \in OracleKinds

\* shutdown() returns: with a request in flight, a listener that never bound,
\* or a relay that has long failed.
ShutdownReturns == (host = "joins http") ~> (host = "down")
=============================================================================
