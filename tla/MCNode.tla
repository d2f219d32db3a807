------------------------------- MODULE MCNode -------------------------------
EXTENDS Node

Shape(t, d, s, v) == [trace |-> t, detector |-> d, severity |-> s, variant |-> v]

MCShapes == {Shape("t1", "manifold", "info", "numeric"),
             Shape("t2", "manifold", "critical", "indeterminate")}

Scores(trace, until, size, cursor) ==
    [kind |-> "scores", trace |-> trace, since |-> {}, until |-> until,
     page_size |-> size, cursor |-> cursor]

DetectionEvents(severity, since, until, size) ==
    [kind |-> "events", detector |-> {}, severity |-> severity, since |-> since,
     until |-> until, page_size |-> size]

Aggregate(since, until) ==
    [kind |-> "aggregate", detector |-> {}, since |-> since, until |-> until]

MCRequests == {Scores({}, {}, {1}, {}),
               Scores({"t1"}, {0}, {1}, {1}),
               Scores({}, {}, {0}, {}),
               DetectionEvents({}, {0}, {1}, {}),
               DetectionEvents({"warning"}, {}, {}, {1}),
               DetectionEvents({"severe"}, {}, {}, {1}),
               Aggregate({0}, {1}),
               Aggregate({}, {}),
               [kind |-> "for_agent_window", since |-> {0}, until |-> {1}, filter |-> {}],
               [kind |-> "by_trace", trace |-> {"t1"}],
               [kind |-> "by_id", id |-> {1}],
               [kind |-> "bundles"],
               [kind |-> "bundle", version |-> {2}],
               [kind |-> "for_trace", trace |-> {"t2"}],
               [kind |-> "detector_history", detector |-> {"manifold"}, since |-> {1},
                severity |-> {"info"}]}

MCBatches == {"b1", "b2"}
MCEventsOf == [b \in MCBatches |-> IF b = "b1" THEN {1, 2} ELSE {2, 3}]
=============================================================================
