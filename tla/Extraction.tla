----------------------------- MODULE Extraction -----------------------------
(***************************************************************************)
(* src/patterns_from_cirislens_core/extraction: from the components of a   *)
(* trace to the columns of its row, one component after the other.  The    *)
(* schema cache is external: it is not loaded, or gives the field rules of *)
(* an event type.                                                          *)
(*                                                                         *)
(* A JSON value is a node: its kind, what it says, and, for an object or   *)
(* an array, its members by key or by index.                               *)
(***************************************************************************)
EXTENDS Naturals, SequencesExt

CONSTANTS
  Caches,         \* what the schema cache may hold, one may be NotLoaded
  TraceIds,       \* trace_id of a trace, if it has one
  TraceComponents,\* the components a trace may have
  MaxComponents,  \* bound: components of a trace
  NotLoaded

(* The rules of an event type are a list.                                  *)
ASSUME ExtractionAssumption ==
  \A loaded \in Caches \ {NotLoaded} : \A e \in DOMAIN loaded :
    loaded[e] \in Seq(ToSet(loaded[e]))

VARIABLES
  schema,         \* the schema cache of this call
  components,     \* the components of the trace that were gone through
  row             \* metadata

extractionVars == <<schema, components, row>>

Node(kind, is) == [kind |-> kind, is |-> is, at |-> <<>>]
Missing == Node("missing", "")

At(node, key) == IF key \in DOMAIN node.at THEN node.at[key] ELSE Missing

(* The parts of a dotted path, one after the other; no parts, the data.    *)
ResolveJsonPath(data, path) == FoldLeft(At, data, path)

----------------------------------------------------------------------------
(* Conversion to the type of a column.                                     *)

(* The texts that parse, and what numbers and truth values turn into.      *)
ParsesAs == [float |-> {"1", "1.5"}, int |-> {"1"}, boolean |-> {"1", "yes"}]
KindsAs == [float |-> {"int", "float"}, int |-> {"int"}, boolean |-> {"bool", "int"}]

Blank == <<"", "">>

(* A value that does not convert is an empty string, not an absent one.    *)
ConvertValue(v, data_type) ==
  IF data_type \in DOMAIN KindsAs
  THEN IF \/ v.kind \in KindsAs[data_type]
          \/ v.kind = "string" /\ v.is \in ParsesAs[data_type]
       THEN <<data_type, v.is>> ELSE Blank
  ELSE IF v.kind = "null" /\ data_type # "json" THEN Blank
  ELSE <<"text", v>>

----------------------------------------------------------------------------
(* The three kinds of columns that no rule asks for.                       *)

StepColumn ==
  [THOUGHT_START |-> "thought_start_at", SNAPSHOT_AND_CONTEXT |-> "snapshot_at",
   DMA_RESULTS |-> "dma_results_at", ASPDMA_RESULT |-> "aspdma_at",
   IDMA_RESULT |-> "idma_at", TSASPDMA_RESULT |-> "tsaspdma_at",
   CONSCIENCE_RESULT |-> "conscience_at", ACTION_RESULT |-> "action_result_at"]

FullColumn ==
  [DMA_RESULTS |-> "dma_results", ASPDMA_RESULT |-> "aspdma_result",
   IDMA_RESULT |-> "idma_result", TSASPDMA_RESULT |-> "tsaspdma_result",
   CONSCIENCE_RESULT |-> "conscience_result", ACTION_RESULT |-> "action_result"]

(* Where a weight is looked for, in this order, and what has to be there.  *)
WeightSources ==
  [SNAPSHOT_AND_CONTEXT |->
     [memory_count |-> << <<"relevant_memories", "array">> >>,
      context_tokens |-> << <<"context_tokens", "int">>, <<"total_tokens", "int">>,
                            <<"gathered_context", "string">> >>,
      conversation_turns |-> << <<"conversation_history", "array">> >>],
   ASPDMA_RESULT |->
     [alternatives_considered |-> << <<"action_options", "array">>,
        <<"evaluated_actions", "array">>, <<"alternatives", "array">> >>],
   CONSCIENCE_RESULT |->
     [conscience_checks_count |-> << <<"checks", "array">>,
        <<"ethical_checks", "array">>, <<"check_results", "array">> >>]]

CheckFields == {"entropy_passed", "coherence_passed", "optimization_veto_passed",
                "epistemic_humility_passed", "integrity_check_passed"}

(* The length of an array, a number, or a quarter of a text's length.      *)
Weight(node) == IF node.kind = "array" THEN <<"length", Cardinality(DOMAIN node.at)>>
                ELSE <<node.kind, node.is>>

ExtractObservationWeight(type, data) ==
  LET sources == IF type \in DOMAIN WeightSources THEN WeightSources[type] ELSE <<>>
      found(col) == SelectSeq(sources[col], LAMBDA s : At(data, s[1]).kind = s[2])
      checks == CheckFields \cap DOMAIN data.at
  IN  [col \in {c \in DOMAIN sources : found(c) # <<>>} |-> Weight(At(data, found(col)[1][1]))]
      @@ IF type = "CONSCIENCE_RESULT" /\ checks # {}
         THEN "conscience_checks_count" :> <<"length", Cardinality(checks)>> ELSE <<>>

----------------------------------------------------------------------------
(* One component after the other into the row.                             *)

EventType(c) ==
  IF At(c, "event_type").kind = "string" THEN At(c, "event_type").is ELSE "unknown"

(* A component without data is its own data.                               *)
Data(c) == IF At(c, "data") = Missing THEN c ELSE At(c, "data")

(* Mutant: a field that an earlier attempt gave stays.                     *)
PutNew(r, column, value) == r @@ (column :> value)

Put(r, column, value) ==
  [x \in DOMAIN r \cup {column} |-> IF x = column THEN value ELSE r[x]]

PutAll(r, given) ==
  [x \in DOMAIN r \cup DOMAIN given |-> IF x \in DOMAIN given THEN given[x] ELSE r[x]]

ExtractStep(r, c) ==
  IF At(c, "timestamp").kind = "string" /\ EventType(c) \in DOMAIN StepColumn
  THEN Put(r, StepColumn[EventType(c)], <<"text", At(c, "timestamp")>>) ELSE r

Resolves(c, rule) == ResolveJsonPath(Data(c), rule.json_path) # Missing

Extracted(c, rule) ==
  ConvertValue(ResolveJsonPath(Data(c), rule.json_path), rule.data_type)

ExtractField(r, c, rule) ==
  IF Resolves(c, rule) THEN Put(r, rule.db_column, Extracted(c, rule)) ELSE r

(* Mutant: the component is kept whole whatever the row has.               *)
StoreOverRules(r, c) ==
  IF EventType(c) \notin DOMAIN FullColumn THEN r
  ELSE Put(r, FullColumn[EventType(c)], <<"text", Data(c)>>)

(* Kept whole, unless its column has something already.                    *)
StoreFullComponent(r, c) ==
  IF EventType(c) \notin DOMAIN FullColumn THEN r
  ELSE IF FullColumn[EventType(c)] \in DOMAIN r THEN r
  ELSE Put(r, FullColumn[EventType(c)], <<"text", Data(c)>>)

RulesFor(c) == IF EventType(c) \in DOMAIN schema THEN schema[EventType(c)] ELSE <<>>

ExtractFields(r, c) ==
  LET rules == RulesFor(c)
      after[i \in 0..Len(rules)] ==
        IF i = 0 THEN r ELSE ExtractField(after[i - 1], c, rules[i])
  IN  after[Len(rules)]

(* Without a loaded cache the row is empty, the trace's id included.       *)
Begun(loaded, id) ==
  IF loaded = NotLoaded \/ id = "" THEN <<>> ELSE [trace_id |-> <<"text", id>>]

ExtractionInit ==
  /\ schema \in Caches
  /\ components = <<>>
  /\ \E id \in TraceIds \cup {""} : row = Begun(schema, id)

(* The call returns the row, and the next one is made.                     *)
ExtractNext(id) ==
  /\ schema' \in Caches
  /\ components' = <<>>
  /\ row' = Begun(schema', id)

ExtractComponent(c) ==
  LET weighed == PutAll(ExtractStep(row, c), ExtractObservationWeight(EventType(c), Data(c)))
  IN  /\ schema # NotLoaded
      /\ Len(components) < MaxComponents
      /\ components' = Append(components, c)
      /\ row' = StoreFullComponent(ExtractFields(weighed, c), c)
      /\ UNCHANGED schema

ExtractionNext ==
  \/ \E c \in TraceComponents : ExtractComponent(c)
  \/ \E id \in TraceIds \cup {""} : ExtractNext(id)

ExtractionSpec == ExtractionInit /\ [][ExtractionNext]_extractionVars

----------------------------------------------------------------------------
(* Properties.                                                             *)

(* What a component gives a column by rule, weight or step: one value, or  *)
(* none.  The last rule that finds something decides.                      *)
Gives(c, column) ==
  LET rules   == RulesFor(c)
      found   == {i \in DOMAIN rules : rules[i].db_column = column /\ Resolves(c, rules[i])}
      weights == ExtractObservationWeight(EventType(c), Data(c))
      isStep  == /\ EventType(c) \in DOMAIN StepColumn
                 /\ StepColumn[EventType(c)] = column
                 /\ At(c, "timestamp").kind = "string"
  IN  IF found # {} THEN {Extracted(c, rules[Max(found)])}
      ELSE IF column \in DOMAIN weights THEN {weights[column]}
      ELSE {v \in {<<"text", At(c, "timestamp")>>} : isStep}

Columns ==
  {r.db_column : r \in UNION {ToSet(schema[e]) : e \in DOMAIN schema}}
    \cup Range(StepColumn) \cup Range(FullColumn)
    \cup UNION {DOMAIN WeightSources[e] : e \in DOMAIN WeightSources}
    \cup {"trace_id"}

Giving(column) == {i \in DOMAIN components : Gives(components[i], column) # {}}

KeptWhole(c, column) ==
  EventType(c) \in DOMAIN FullColumn /\ FullColumn[EventType(c)] = column

Whole(column) == {i \in DOMAIN components : KeptWhole(components[i], column)}

FollowsAttempts(column) ==
  IF Giving(column) \cup Whole(column) = {}
  THEN column \in DOMAIN row =>
         column = "trace_id" /\ row[column] \in {<<"text", id>> : id \in TraceIds}
  ELSE /\ column \in DOMAIN row
       /\ {row[column]} = IF Giving(column) # {}
                          THEN Gives(components[Max(Giving(column))], column)
                          ELSE {<<"text", Data(components[Min(Whole(column))])>>}

(* However often a step was tried, the row is as if each column had been   *)
(* looked up by itself: it is of the last component that gives it anything,*)
(* so that nothing stays of an attempt that a later one replaced; the JSON *)
(* of a component, when no rule wants its column, is of the first attempt; *)
(* and no other column is there, but for the trace's id                    *)
(* (metadata.rs:51-126, 241-243).                                          *)
RowFollowsAttempts ==
  schema # NotLoaded => \A column \in Columns : FollowsAttempts(column)
=============================================================================
