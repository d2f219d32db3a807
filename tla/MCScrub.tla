------------------------------ MODULE MCScrub ------------------------------
(* Two workers, texts cut into chunks of two tokens and an encoding of      *)
(* three, and checkpoints whose id2label is whole, missing or sparse; and,  *)
(* beside them, rows of traces with up to three components.                 *)
EXTENDS Scrub, Extraction

CONSTANTS w1, w2

Leaf(key, words) ==
  [path |-> <<key>>, string |-> TRUE, text |-> [i \in DOMAIN words |-> Word(words[i])]]
Number == [path |-> <<"score">>, string |-> FALSE, text |-> <<Word("1989")>>]

Story  == Leaf("reasoning", <<"Rome", "Lee", "Ann", "Ann">>)
Couple == Leaf("reasoning", <<"Ann", "said", "1989">>)
Name   == Leaf("reasoning", <<"ann">>)
Nested(leaf) == [leaf EXCEPT !.path = @ \o <<"a", "b">>]

MCBatches == {
  <<>>,
  << <<Story, Number, Name>>, <<Couple, Story>> >>,
  << <<Nested(Couple), Leaf("agent", <<"Ann">>)>>, <<Nested(Nested(Couple))>> >>,
  << <<Name, Couple, Couple>>, <<Story>> >>,
  << <<Leaf("agent", <<"march_1989", "555-123-1989", "555-123-4567", "a@b.org",
                       "10.0.0.1", "https://b.org", "123-45-6789", "4111-1111-1111-1111">>),
       Leaf("reasoning", <<"10.0.0.1">>)>> >>,
  << <<Couple>>, <<Leaf("agent", <<"(555)123-45671989">>)>> >>,
  << <<Leaf("agent", <<"a@b.org0.._0..1989", "said", "10.0.0.1https://b.org">>)>>,
     <<Leaf("agent", <<"(555)123-4567555-123-4567">>)>> >> }

MCProbeLists == {{}, {"said"}}

MCConfigs == {[ids |-> 0..6, num_labels |-> 7], [ids |-> 0..8, num_labels |-> 9],
              [ids |-> {}, num_labels |-> None], [ids |-> {}, num_labels |-> 7],
              [ids |-> {0, 1, 2}, num_labels |-> 7]}

Object(members) == [kind |-> "object", is |-> "", at |-> members]
List(members) == [kind |-> "array", is |-> "", at |-> members]

Step(type, data) ==
  Object("event_type" :> Node("string", type) @@ "timestamp" :> Node("string", "now") @@ data)

(* A step without data, with data that passes, that does not convert, that  *)
(* is listed; the others, with something to weigh.                          *)
MCTraceComponents ==
  {Step("CONSCIENCE_RESULT", <<>>),
   Step("CONSCIENCE_RESULT", "data" :> Object("entropy_passed" :> Node("bool", "true"))),
   Step("CONSCIENCE_RESULT", "data" :> Object("entropy_passed" :> Node("string", "maybe")
                                                @@ "checks" :> Node("null", ""))),
   Step("CONSCIENCE_RESULT", "data" :> Object("checks" :>
          List("0" :> Object("score" :> Node("string", "1.5"))))),
   Step("ASPDMA_RESULT", "data" :> Object("alternatives" :> List("0" :> Node("int", "1")))),
   Step("SNAPSHOT_AND_CONTEXT", "data" :> Object("total_tokens" :> Node("int", "1")
          @@ "relevant_memories" :> List(<<>>))),
   Step("SNAPSHOT_AND_CONTEXT", "data" :> Object("gathered_context" :> Node("string", "long"))),
   Object("event_type" :> Node("null", ""))}

Rule(path, column, type) == [json_path |-> path, db_column |-> column, data_type |-> type]

MCCaches ==
  {NotLoaded,
   "CONSCIENCE_RESULT" :> << Rule(<<"entropy_passed">>, "passed", "boolean"),
                             Rule(<<"checks", "0", "score">>, "passed", "float") >>,
   "CONSCIENCE_RESULT" :> << Rule(<<"checks">>, "conscience_result", "string") >>
     @@ "SNAPSHOT_AND_CONTEXT" :> << Rule(<<>>, "memory_count", "json") >>
     @@ "ASPDMA_RESULT" :> << Rule(<<"alternatives", "0">>, "trace_id", "string") >>}

(* The two share nothing: a behaviour is of one or of the other.            *)
NothingToScrub ==
  /\ backbone = "ort"
  /\ backend = [c \in DOMAIN backend |-> Unloaded]
  /\ job = [w \in Workers |-> Idle]

AllInit == ScrubInit /\ ExtractionInit /\ (schema = NotLoaded \/ NothingToScrub)

AllNext ==
  \/ ScrubNext /\ schema = NotLoaded /\ UNCHANGED extractionVars
  \/ ExtractionNext /\ NothingToScrub /\ UNCHANGED scrubVars

AllSpec == AllInit /\ [][AllNext]_<<scrubVars, extractionVars>>

Symmetry == Permutations(Workers)
=============================================================================
