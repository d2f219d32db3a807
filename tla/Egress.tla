------------------------------ MODULE Egress ------------------------------
(***************************************************************************)
(* What leaves a client for the upstream lenses:                           *)
(*   src/capture/seal.rs    the canonical content of a trace, its          *)
(*                          signature and its verification                 *)
(*   src/capture/batch.rs   signed traces to a batch                       *)
(*   src/config/egress.rs   the per-upstream filter over a batch           *)
(*                                                                         *)
(* The dispatcher that applies the filters is not in the repository: here  *)
(* it sends one copy of the batch through any configured filters, one      *)
(* after the other (a relay's upstream has a filter of its own).           *)
(*                                                                         *)
(* A component's data is a function from its keys to the shapes strip_empty*)
(* tells apart:                                                            *)
(*   null, blank ("", [], {}), hollow (what strips to blank), zero (0 and  *)
(*   false), text, holed (an array with a null in it), list.               *)
(***************************************************************************)
EXTENDS Sequences, FiniteSets, Functions, Correlation

CONSTANTS
  Traces,        \* the traces of the batch
  Bodies,        \* the captured traces they can be
  FilterArgs,    \* what operators pass to EgressFilter, one record each
  Severities,    \* severity annotations an event can carry
  NoSeverity,    \* an event without one
  Unsigned,      \* signature None
  Inputs,        \* the client's correlation arguments
  MaxHops        \* bound: filters a copy goes through

VARIABLES
  traces,    \* t -> [body, signature]
  inputs,    \* the client's correlation arguments
  outcome,   \* what the last call of sign_trace or build_batch_bytes said
  copy       \* [hops, batch]: the batch after the filters in hops, or NoCopy

egressVars == <<traces, inputs, outcome, copy>>

NoCopy == [hops |-> <<>>, batch |-> [events |-> <<>>]]

----------------------------------------------------------------------------
(* strip_empty and the canonical envelope.                                 *)

Shapes == {"null", "blank", "hollow", "zero", "text", "holed", "list"}

StripEmpty(v) ==
  CASE v = "hollow" -> "blank" [] v = "holed" -> "list" [] OTHER -> v

IsEmpty(v) == v \in {"null", "blank"}

(* Mutant: is_empty by truthiness, as Python would have it.                *)
StripFalsy(d) ==
  [k \in {k \in DOMAIN d : StripEmpty(d[k]) \notin {"null", "blank", "zero"}} |->
     StripEmpty(d[k])]

StripData(d) ==
  [k \in {k \in DOMAIN d : ~IsEmpty(StripEmpty(d[k]))} |-> StripEmpty(d[k])]

(* data_with_attempt_index: the index goes inside data.                    *)
WithAttemptIndex(c) ==
  [k \in DOMAIN c.data \cup {"attempt_index"} |->
     IF k = "attempt_index" THEN "zero" ELSE c.data[k]]

CanonicalComponent(body, c) ==
  [component_type |-> c.component_type,
   agent_id_hash  |-> IF c.agent_id_hash = Empty THEN body.agent_id_hash
                                                 ELSE c.agent_id_hash,
   data           |-> StripData(WithAttemptIndex(c))]

Map(f(_), s) == [i \in DOMAIN s |-> f(s[i])]

(* retain: the elements of s that are in S, in their order.                *)
Retain(s, S) ==
  LET upTo[n \in 0..Len(s)] ==
        IF n = 0 THEN <<>>
        ELSE IF s[n] \in S THEN Append(upTo[n - 1], s[n]) ELSE upTo[n - 1]
  IN  upTo[Len(s)]

BuildCanonicalEnvelope(body) ==
  [body EXCEPT !.components = Map(LAMBDA c : CanonicalComponent(body, c), @)]

(* canon_version_for_trace_schema: the signed envelope names its schema.   *)
CanonVersion(body) == IF body.schema_major < 3 THEN "V1Python" ELSE "V2Jcs"

CanonicalBytes(body) == <<CanonVersion(body), BuildCanonicalEnvelope(body)>>

(* verify_trace_signature, fail closed, on the trace as it is received.    *)
VerifyTraceSignature(tr) == tr.signature = CanonicalBytes(tr.body)

----------------------------------------------------------------------------
(* EgressFilter: an argument that is not given has its default.            *)

Levels == <<"generic", "detailed", "full_traces">>

LevelOrd(l) == CHOOSE i \in DOMAIN Levels : Levels[i] = l

SeverityOrd(s) ==
  CASE s = "info" -> 0 [] s = "warning" -> 1 [] s = "critical" -> 2

KnownSeverities == {"info", "warning", "critical"}

(* Mutant: redaction only for those who ask for it.                        *)
PermissiveDefaults ==
  [min_severity |-> NoSeverity,
   include_detection_events |-> TRUE, include_scores |-> TRUE,
   redact_user_prompts |-> FALSE, redact_completions |-> TRUE]

Defaults ==
  [min_severity |-> NoSeverity,
   include_detection_events |-> TRUE, include_scores |-> TRUE,
   redact_user_prompts |-> TRUE, redact_completions |-> TRUE]

(* parse_level and parse_severity: a string they do not know is refused.   *)
Parses(args) ==
  /\ args.trace_level \in {Levels[i] : i \in DOMAIN Levels}
  /\ "min_severity" \in DOMAIN args => args.min_severity \in KnownSeverities

WithAll(args) ==
  [k \in DOMAIN Defaults \cup {"trace_level"} |->
     IF k \in DOMAIN args THEN args[k] ELSE Defaults[k]]

Upstreams == {args \in FilterArgs : Parses(args)}

----------------------------------------------------------------------------
(* apply_egress_filter.                                                    *)

ScoreFields == {"conformity", "k_eff", "n_eff", "cohort_id", "phase"}

DetectionComponentTypes == {"llm_call"}

(* Mutant: an unknown severity is below every gate.                        *)
PassesKnown(f, ev) ==
  \/ f.min_severity = NoSeverity
  \/ ev.severity = NoSeverity
  \/ /\ ev.severity \in KnownSeverities
     /\ SeverityOrd(ev.severity) >= SeverityOrd(f.min_severity)

Passes(f, ev) ==
  \/ f.min_severity = NoSeverity
  \/ ev.severity \notin KnownSeverities
  \/ SeverityOrd(ev.severity) >= SeverityOrd(f.min_severity)

Redacts(f, k) ==
  \/ k = "user_prompt" /\ f.redact_user_prompts
  \/ k = "llm_completion" /\ f.redact_completions

FilterData(f, d) ==
  [k \in DOMAIN d \ (IF f.include_scores THEN {} ELSE ScoreFields) |->
     IF Redacts(f, k) THEN "null" ELSE d[k]]

KeepsComponent(f, c) ==
  f.include_detection_events \/ c.component_type \notin DetectionComponentTypes

ApplyComponentFilters(f, cs) ==
  Map(LAMBDA c : [c EXCEPT !.data = FilterData(f, @)],
      Retain(cs, {c \in Range(cs) : KeepsComponent(f, c)}))

FilterEvent(f, ev) ==
  [ev EXCEPT !.trace_level = f.trace_level,
             !.trace.body.components = ApplyComponentFilters(f, @)]

ApplyEgressFilter(batch, f) ==
  [batch EXCEPT
     !.trace_level = f.trace_level,
     !.events = Map(LAMBDA ev : FilterEvent(f, ev),
                    Retain(@, {ev \in Range(@) : Passes(f, ev)}))]

----------------------------------------------------------------------------
IsBody(b) ==
  /\ DOMAIN b = {"agent_id_hash", "trace_level", "schema_major", "components"}
  /\ b.components \in Seq(Range(b.components))
  /\ \A c \in Range(b.components) :
       /\ DOMAIN c = {"component_type", "agent_id_hash", "data"}
       /\ c.data \in [DOMAIN c.data -> Shapes]

IsFilterArgs(args) ==
  /\ "trace_level" \in DOMAIN args
  /\ DOMAIN args \subseteq DOMAIN Defaults \cup {"trace_level"}
  /\ \A k \in DOMAIN args \ {"trace_level", "min_severity"} : args[k] \in BOOLEAN

(* The types of what callers pass; no signature is not a signature, and no *)
(* severity is none that is known.                                         *)
ASSUME EgressAssumption ==
  /\ \A b \in Bodies : IsBody(b) /\ CanonicalBytes(b) # Unsigned
  /\ \A args \in FilterArgs : IsFilterArgs(args)
  /\ \A in \in Inputs : \A f \in CoordFields : in.coord[f] \in Int \cup {NoCoord}
  /\ NoSeverity \notin KnownSeverities
  /\ MaxHops \in Nat

EgressInit ==
  /\ traces \in [Traces -> {[body |-> b, signature |-> Unsigned] : b \in Bodies}]
  /\ inputs \in Inputs
  /\ outcome = "none"
  /\ copy = NoCopy

(* sign_trace: nothing is stamped when the signer fails.                   *)
SignTrace(t) ==
  /\ traces[t].signature = Unsigned
  /\ \/ /\ traces' = [traces EXCEPT ![t].signature = CanonicalBytes(traces[t].body)]
        /\ outcome' = "sealed"
     \/ /\ outcome' = "TraceSealError"
        /\ UNCHANGED traces
  /\ UNCHANGED <<inputs, copy>>

WireEvent(t, level) ==
  [trace_level |-> level, severity |-> NoSeverity,
   trace |-> [id |-> t, body |-> BuildCanonicalEnvelope(traces[t].body),
              signature |-> traces[t].signature]]

(* build_batch_bytes on a list of traces: all of it or nothing.            *)
BuildBatch(ts, level) ==
  /\ copy = NoCopy
  /\ outcome' = IF ts = <<>> THEN "EmptyBatch"
                ELSE IF \E i \in DOMAIN ts : traces[ts[i]].signature = Unsigned
                     THEN "UnsignedTrace" ELSE "built"
  /\ copy' = IF outcome' # "built" THEN copy
             ELSE [hops  |-> <<>>,
                   batch |-> [trace_level |-> level,
                              correlation_metadata |-> BlockOf(inputs),
                              events |-> Map(LAMBDA t : WireEvent(t, level), ts)]]
  /\ UNCHANGED <<traces, inputs>>

(* External: a batch is annotated before any filter sees it.               *)
Annotate(sev) ==
  /\ copy # NoCopy /\ copy.hops = <<>>
  /\ \A i \in DOMAIN copy.batch.events : copy.batch.events[i].severity = NoSeverity
  /\ copy' = [copy EXCEPT !.batch.events =
               Map(LAMBDA ev : [ev EXCEPT !.severity = sev[ev.trace.id]], @)]
  /\ UNCHANGED <<traces, inputs, outcome>>

(* The dispatcher sends the copy through an upstream's filter.             *)
Forward(args) ==
  /\ copy # NoCopy
  /\ Len(copy.hops) < MaxHops
  /\ copy' = [hops  |-> Append(copy.hops, args),
              batch |-> ApplyEgressFilter(copy.batch, WithAll(args))]
  /\ UNCHANGED <<traces, inputs, outcome>>

EgressNext ==
  \/ \E t \in Traces : SignTrace(t)
  \/ \E n \in 0..Cardinality(Traces) : \E ts \in [1..n -> Traces] :
       \E i \in DOMAIN Levels : BuildBatch(ts, Levels[i])
  \/ \E sev \in [Traces -> Severities \cup {NoSeverity}] : Annotate(sev)
  \/ \E args \in Upstreams : Forward(args)

EgressSpec == EgressInit /\ [][EgressNext]_egressVars

----------------------------------------------------------------------------
(* Properties.                                                             *)

(* The wire form of every copy, whatever it went through.                  *)
EgressTypeOK ==
  /\ inputs \in Inputs
  /\ Len(copy.hops) <= MaxHops
  /\ \A i \in DOMAIN copy.batch.events :
       LET ev == copy.batch.events[i]
       IN  /\ ev.trace_level = copy.batch.trace_level
           /\ ev.trace.signature # Unsigned
           /\ \A j \in DOMAIN ev.trace.body.components :
                "attempt_index" \in DOMAIN ev.trace.body.components[j].data

Captured(ev) == traces[ev.trace.id].body.components

Says(c, k) == k \in DOMAIN c.data /\ ~IsEmpty(StripEmpty(c.data[k]))

OptsOut(args, k) == k \in DOMAIN args /\ args[k] = FALSE

(* What a filter, as its operator wrote it, must not let through: whole    *)
(* components, and the values of keys.                                     *)
Bars(args, c) ==
  OptsOut(args, "include_detection_events") /\ c.component_type = "llm_call"

Clears(args, k) ==
  \/ OptsOut(args, "include_scores") /\ k \in ScoreFields
  \/ ~OptsOut(args, "redact_user_prompts") /\ k = "user_prompt"
  \/ ~OptsOut(args, "redact_completions") /\ k = "llm_completion"

(* A receiver's verify_trace_signature accepts a copy of a trace exactly   *)
(* when no filter on its way took anything from what was captured: what    *)
(* the signature covers is what is on the wire (capture/batch.rs), nulls   *)
(* included (config/egress.rs), whatever the number of hops.               *)
VerifiesIffUntouched ==
  EgressTypeOK /\ \A i \in DOMAIN copy.batch.events :
    LET ev == copy.batch.events[i]
    IN  VerifyTraceSignature(ev.trace) <=>
          \A h \in DOMAIN copy.hops, j \in DOMAIN Captured(ev) :
            LET c == Captured(ev)[j]
            IN  /\ ~Bars(copy.hops[h], c)
                /\ \A k \in DOMAIN c.data : Clears(copy.hops[h], k) => ~Says(c, k)

(* What one filter of the way forbids stays away through every later one;  *)
(* an operator who says nothing about redaction gets it.                   *)
RedactionSticks ==
  \A i \in DOMAIN copy.batch.events :
    LET cs == copy.batch.events[i].trace.body.components
    IN  \A j \in DOMAIN cs, h \in DOMAIN copy.hops :
          /\ ~Bars(copy.hops[h], cs[j])
          /\ \A k \in DOMAIN cs[j].data : Clears(copy.hops[h], k) => ~Says(cs[j], k)

(* Each gate of the way drops the events known to be below it and no other:*)
(* the events left are those of the batch, in its order.                   *)
Below(args, ev) ==
  /\ "min_severity" \in DOMAIN args
  /\ \/ ev.severity = "info" /\ args.min_severity # "info"
     \/ ev.severity = "warning" /\ args.min_severity = "critical"

GateStep ==
  \A args \in Upstreams : copy'.hops = Append(copy.hops, args) =>
    Map(LAMBDA ev : <<ev.trace.id, ev.severity>>, copy'.batch.events)
      = Map(LAMBDA ev : <<ev.trace.id, ev.severity>>,
            Retain(copy.batch.events,
                   {ev \in Range(copy.batch.events) : ~Below(args, ev)}))

GateIsExact == [][GateStep]_copy

(* What a filter is there for: what it forbids is gone for good, and what  *)
(* it lets through is all that passes its gate.                            *)
FiltersHold == []RedactionSticks /\ GateIsExact

(* Without share_location no copy says where the user is; with it, no      *)
(* coordinate on the wire tells apart points less than half a cell away,   *)
(* and none is further than half a cell from the truth.                    *)
LocationIsCoarse ==
  copy # NoCopy /\ copy.batch.correlation_metadata # NoBlock =>
    LET block == copy.batch.correlation_metadata
        Near(x) == x - Grain .. x + Grain
    IN  /\ (PlaceFields \cup CoordFields) \cap DOMAIN block # {} => inputs.share_location
        /\ DOMAIN block # {}
        /\ \A f \in CoordFields \cap DOMAIN block :
             /\ 2 * Abs(10 * Abs(inputs.coord[f]) - Grain * block[f].tenths) <= Grain
             /\ 20 * (1 + Cardinality({x \in Near(inputs.coord[f]) :
                                          FuzzLocationToRegion(x) = block[f]})) >= Grain
=============================================================================
