----------------------------- MODULE NodeScores -----------------------------
(* What the read API of a node (role/node.rs) and the ScoresOracle answer    *)
(* about a log of detection events, as operators on that log.                *)
(*                                                                           *)
(* A row is a record [id, trace, detector, severity, variant, ts], and its   *)
(* id its place in the log; a list of rows is the set of them, for every     *)
(* list here is in the order of the log.  An optional query parameter is a   *)
(* set of at most one value, {} when absent; so is the cursor of a page, and *)
(* a path segment that may not parse.                                        *)
EXTENDS Integers, FiniteSets

SeverityLevel == [info |-> 0, warning |-> 1, critical |-> 2]
Severities == DOMAIN SeverityLevel
Variants == {"numeric", "indeterminate", "unavailable"}

The(S) == CHOOSE x \in S : TRUE

\* A reply with an error for a body
Failure(status) == [status |-> status]

\* Engine::get_detection_events: the log, cut to the filter
EngineRead(rows, trace, detector, since) ==
    {e \in rows : /\ trace = {} \/ e.trace \in trace
                  /\ detector = {} \/ e.detector \in detector
                  /\ \A s \in since : e.ts >= s}

NotAfter(e, until) == \A u \in until : e.ts <= u

-----------------------------------------------------------------------------
(* Listings *)

\* The first n rows
Take(rows, n) == {e \in rows : Cardinality({f \in rows : f.id < e.id}) < n}

Last(rows) == CHOOSE e \in rows : \A f \in rows : f.id <= e.id

PageSize(q) == IF q.page_size = {} THEN 100 ELSE The(q.page_size)

\* (mutant) Taking the page itself, without the row that tells of more
PageWithoutLookahead(matching, size) ==
    [status |-> 200, items |-> Take(matching, size), cursor |-> {}]

\* One row more than the page is taken, to know whether anything is left.
Page(matching, size) ==
    LET taken == Take(matching, size + 1)
        items == Take(taken, size)
    IN  [status |-> 200, items |-> items,
         cursor |-> IF Cardinality(taken) > size /\ items # {} THEN {Last(items).id}
                                                            ELSE {}]

\* q.cursor is read by neither listing: every request starts at the first row.
GetScores(q, rows) ==
    Page({e \in EngineRead(rows, q.trace, {}, q.since) : NotAfter(e, q.until)},
         PageSize(q))

MinLevel(severity) ==
    IF severity = {} THEN 0 ELSE SeverityLevel[The(severity)]

GetDetectionEvents(q, rows) ==
    IF ~ q.severity \subseteq Severities THEN Failure(400)
    ELSE Page({e \in EngineRead(rows, {}, q.detector, q.since) :
                  /\ SeverityLevel[e.severity] >= MinLevel(q.severity)
                  /\ NotAfter(e, q.until)},
              PageSize(q))

-----------------------------------------------------------------------------
(* Single rows *)

Found(rows) == IF rows = {} THEN Failure(404)
               ELSE [status |-> 200, items |-> rows, cursor |-> {}]

GetScoreByTrace(q, rows) == Found(EngineRead(rows, q.trace, {}, {}))

GetDetectionEventById(q, rows) ==
    IF q.id = {} THEN Failure(400)
    ELSE Found(Take({e \in EngineRead(rows, {}, {}, {}) : e.id \in q.id}, 1))

-----------------------------------------------------------------------------
(* Aggregates *)

\* (mutant) A window without its end
InHalfOpenWindow(ts, start, end) == ~ (ts < start \/ ts >= end)

InWindow(ts, start, end) == ~ (ts < start \/ ts > end)

\* filter is an optional set of detectors: {} admits all, {{}} admits none.
ComputeAggregate(rows, start, end, filter) ==
    LET counted == {e \in rows : /\ InWindow(e.ts, start, end)
                                 /\ \A allowed \in filter : e.detector \in allowed}
    IN  [status |-> 200,
         traces_scored |-> Cardinality(counted),
         conformity |-> [v \in Variants |-> Cardinality({e \in counted : e.variant = v})],
         severity |-> [s \in Severities |-> Cardinality({e \in counted : e.severity = s})],
         detector_fire_counts |->
             [d \in {e.detector : e \in counted} |->
                 Cardinality({e \in counted : e.detector = d})]]

\* Without parameters the window is the day that ends now.
CONSTANT Day
WindowEnd(q, now) == IF q.until = {} THEN now ELSE The(q.until)
WindowStart(q, now) == IF q.since = {} THEN WindowEnd(q, now) - Day
                                       ELSE The(q.since)

GetManifoldConformityAggregate(q, rows, now) ==
    LET start == WindowStart(q, now)
    IN  ComputeAggregate(EngineRead(rows, {}, q.detector, {start}),
                         start, WindowEnd(q, now), {{d} : d \in q.detector})

-----------------------------------------------------------------------------
(* Calibration bundles: synthesised from the configured version *)

Bundle(v, current) == [version |-> v, is_current |-> v = current]

GetCalibrationBundles(current) ==
    IF current = 0 THEN <<Bundle(0, 0)>>
    ELSE [v \in 1..current |-> Bundle(v, current)]

\* The version is any i32 that parses.
GetCalibrationBundleByVersion(version, current) ==
    IF version = {} THEN Failure(400)
    ELSE LET v == The(version)
         IN  IF v = 0 \/ v > current THEN Failure(404)
             ELSE [status |-> 200, bundle |-> Bundle(v, current)]

-----------------------------------------------------------------------------
(* ScoresOracle: the same reads inside the process, without a listener *)

ForTrace(q, rows) ==
    [status |-> 200, items |-> EngineRead(rows, q.trace, {}, {}), cursor |-> {}]

ForAgentWindow(q, rows) ==
    ComputeAggregate(EngineRead(rows, {}, {}, q.since),
                     The(q.since), The(q.until), q.filter)

DetectorHistory(q, rows) ==
    [status |-> 200, cursor |-> {},
     items |-> {e \in EngineRead(rows, {}, q.detector, q.since) :
                   SeverityLevel[e.severity] >= MinLevel(q.severity)}]
=============================================================================
