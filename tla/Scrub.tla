------------------------------- MODULE Scrub -------------------------------
(***************************************************************************)
(* The scrubber of src/patterns_from_cirislens_core/scrubber: worker       *)
(* threads scrub batches of traces through one process-wide NER cache and  *)
(* two lazily loaded NER backends, while the operator edits the            *)
(* environment variables the code reads.  Built with `ner` and `ner-ort`.  *)
(*                                                                         *)
(* A trace is the sequence of its JSON leaves in walk order, each with the *)
(* keys above it.  A text is a sequence of tokens <<word, 0>>; a           *)
(* placeholder is <<kind, n>>, n the number in [PER_n] and 1 for the kinds *)
(* that are not numbered.  The tokenizer and the models are external.      *)
(***************************************************************************)
EXTENDS Naturals, FiniteSets, SequencesExt

CONSTANTS
  Workers,              \* threads in scrub_traces_batch / scrub_trace
  Batches,              \* what they are given
  ScrubFields,          \* keys whose subtree goes through NER
  MaxDepth,             \* MAX_DEPTH of the walker
  MaxTokensPerChunk,    \* MAX_TOKENS_PER_CHUNK
  MaxLength,            \* with_truncation of the tokenizer
  Backbones,            \* values of CIRISLENS_NER_BACKBONE, within KnownBackbones
  ProbeLists,           \* values of CIRISLENS_LEAK_PROBES, sets of words
  Configs,              \* config.json of a checkpoint, as [ids, num_labels]
  None

KnownBackbones == {"xlm-r", "distilbert", "ort"}
TraceLevels == {"generic", "detailed", "full_traces", "unknown"}
ScrubErrors == {"InvalidLevel", "WalkerDepthExceeded", "NerNotConfigured", "NerFailed",
                "YearResidue", "ProbeMatch"}

(* A leaf: the keys above it, and its text if it is a string.              *)
Leaves == [path : Seq(STRING), string : BOOLEAN, text : Seq(STRING \X Nat)]

ASSUME ScrubAssumption ==
  /\ Batches \subseteq Seq(Seq(Leaves))
  /\ None \notin TraceLevels \cup ScrubErrors \cup {"failed"}
  /\ Backbones \subseteq KnownBackbones
  /\ MaxTokensPerChunk \in Nat \ {0}
  /\ MaxLength \in Nat

----------------------------------------------------------------------------
(* The regex pass: what each pattern makes of a word, in the order applied.*)

Word(w) == <<w, 0>>
Mark(kind) == <<kind, 1>>

(* A year next to a hyphen is a match of its own.  What is glued to a phone *)
(* number, an address or a URL is not, before that is taken away: these     *)
(* patterns need no word boundary, and the one that asked for the boundary  *)
(* has had its turn.  (0.. stands for more digits than an identifier has.)  *)
Patterns == <<
  [w \in {"march_1989", "0.._0..1989"} |-> <<Mark("IDENTIFIER")>>],
  [w \in {"1989", "555-123-1989"} |->
     IF w = "1989" THEN <<Mark("YEAR")>> ELSE <<Word("555-123-"), Mark("YEAR")>>],
  [w \in {"a@b.org", "a@b.org0.._0..1989"} |->
     <<Mark("EMAIL")>> \o (IF w = "a@b.org" THEN <<>> ELSE <<Word("0.._0..1989")>>)],
  [w \in {"555-123-4567", "(555)123-45671989", "(555)123-4567555-123-4567"} |->
     CASE w = "555-123-4567" -> <<Mark("PHONE")>>
       [] w = "(555)123-45671989" -> <<Mark("PHONE"), Word("1989")>>
       [] OTHER -> <<Mark("PHONE"), Word("555-123-4567")>>],
  [w \in {"10.0.0.1"} |-> <<Mark("IP_ADDRESS")>>],
  [w \in {"https://b.org", "10.0.0.1https://b.org"} |->
     (IF w = "https://b.org" THEN <<>> ELSE <<Word("10.0.0.1")>>) \o <<Mark("URL")>>],
  [w \in {"123-45-6789"} |-> <<Mark("SSN")>>],
  [w \in {"4111-1111-1111-1111"} |-> <<Mark("CREDIT_CARD")>>] >>

Matches(pattern, token) == token[2] = 0 /\ token[1] \in DOMAIN pattern

ReplacePattern(text, pattern) ==
  FlattenSeq([i \in DOMAIN text |->
    IF Matches(pattern, text[i]) THEN pattern[text[i][1]] ELSE <<text[i]>>])

ScrubString(text) == FoldLeft(ReplacePattern, text, Patterns)

Texts(trace) == {trace[i].text : i \in {j \in DOMAIN trace : trace[j].string}}

YearMatch(trace) ==
  \E text \in Texts(trace) : \E token \in ToSet(text) : Matches(Patterns[2], token)

(* Mutant: patterns are trusted to leave no year behind.                   *)
NoYearResidue(trace) == FALSE

YearResidue(trace) == YearMatch(trace)

ProbeMatch(trace, probes) ==
  \E text \in Texts(trace) : ToSet(text) \cap {Word(p) : p \in probes} # {}

----------------------------------------------------------------------------
(* NER.  What a checkpoint calls a word is external, and so is the order   *)
(* of its classes; the labels the code reads them with are not.            *)

Outside == <<"O", "">>
Begin(tag) == <<"B", tag>>
Inside(tag) == <<"I", tag>>

Wikiann == <<Outside, Begin("PER"), Inside("PER"), Begin("ORG"), Inside("ORG"),
             Begin("LOC"), Inside("LOC")>>
Hrl == <<Outside, Begin("DATE"), Inside("DATE")>> \o Tail(Wikiann)

Classes(model) == IF model = "distilbert" THEN Hrl ELSE Wikiann

TrueLabel(model, token) ==
  CASE token = Word("Ann")  -> Begin("PER")
    [] token = Word("Lee")  -> Inside("PER")
    [] token = Word("ann")  -> Begin("PER")
    [] token = Word("Rome") -> Begin("LOC")
    [] token = Word("1989") /\ model = "distilbert" -> Begin("DATE")
    [] OTHER -> Outside

(* argmax, 0-based as in id2label.                                         *)
LabelId(model, token) ==
  (CHOOSE k \in DOMAIN Classes(model) : Classes(model)[k] = TrueLabel(model, token)) - 1

(* The entries of id2label that parse, by id, also those the checkpoint    *)
(* has no class for, or the default of a checkpoint without entries; empty *)
(* when the labels cannot be inferred.                                     *)
ParseLabels(model, cfg) ==
  LET ids == SelectSeq([k \in 1..Max(cfg.ids) + 1 |-> k - 1], LAMBDA id : id \in cfg.ids)
      name(id) == IF id < Len(Classes(model)) THEN Classes(model)[id + 1] ELSE Outside IN
  IF cfg.ids # {} THEN [k \in DOMAIN ids |-> name(ids[k])]
  ELSE IF cfg.num_labels \in {None, Len(Classes(model))} THEN Classes(model)
  ELSE <<>>

Unloaded == [model |-> None, labels |-> <<>>]
Failed == [model |-> "failed", labels |-> <<>>]

(* Mutant: the classifier takes any number of labels.                      *)
LoadAnyWidth(model, cfg) ==
  LET labels == ParseLabels(model, cfg) IN
  IF labels = <<>> THEN Failed ELSE [model |-> model, labels |-> labels]

(* candle builds the classifier with as many rows as there are labels and  *)
(* fails when the weights have another shape; ort finds out in forward.    *)
Load(model, cfg) ==
  LET labels == ParseLabels(model, cfg) IN
  IF labels = <<>> \/ (model # "ort" /\ Len(labels) # Len(Classes(model)))
  THEN Failed ELSE [model |-> model, labels |-> labels]

Label(b, token) ==
  LET k == LabelId(b.model, token) + 1
  IN  IF k \in DOMAIN b.labels THEN b.labels[k] ELSE Outside

(* Windows of the encoding, which the tokenizer has truncated.             *)
PreChunk(text) ==
  LET full  == SubSeq(text, 1, IF Len(text) < MaxLength THEN Len(text) ELSE MaxLength)
      count == (Len(full) + MaxTokensPerChunk - 1) \div MaxTokensPerChunk
      End(k) == IF k * MaxTokensPerChunk < Len(full) THEN k * MaxTokensPerChunk ELSE Len(full)
  IN  [k \in 1..count |-> [from |-> (k - 1) * MaxTokensPerChunk, to |-> End(k)]]

(* A span starts at every entity token that does not continue the one      *)
(* before it; spans do not cross chunks.  Offsets are within the text.     *)
CollapseBio(b, text, chunk) ==
  LET at(i) == Label(b, text[i])
      continues(i) == /\ i - 1 > chunk.from
                      /\ at(i)[1] = "I" /\ at(i)[2] = at(i - 1)[2]
      starts(i) == i > chunk.from /\ i <= chunk.to /\ at(i) # Outside /\ ~continues(i)
      end(i) == CHOOSE j \in i..chunk.to :
                  /\ \A k \in i + 1 .. j : continues(k)
                  /\ j = chunk.to \/ ~continues(j + 1)
      order == SelectSeq([i \in DOMAIN text |-> i], starts)
  IN  [k \in DOMAIN order |->
         [from |-> order[k] - 1, to |-> end(order[k]), tag |-> at(order[k])[2]]]

(* Chunks go through the model shortest first.                             *)
Spans(b, text) ==
  LET length(c) == c.to - c.from
      before(c, d) == \/ length(c) < length(d)
                      \/ length(c) = length(d) /\ c.from < d.from
      chunks == SortSeq(PreChunk(text), before)
  IN  FlattenSeq([k \in DOMAIN chunks |-> CollapseBio(b, text, chunks[k])])

(* Mutants: spans in the order found; one counter for all tags.            *)
AsFound(spans) == spans
NextOfAnyTag(tags, tag) == Len(tags) + 1

ByStart(spans) == SortSeq(spans, LAMBDA s, t : s.from < t.from)
NextNumber(tags, tag) == Len(SelectSeq(tags, LAMBDA t : t = tag)) + 1

ReplaceSpans(text, spans) ==
  LET put(acc, s) ==
        IF s.from < acc.cursor THEN acc
        ELSE [out |-> acc.out \o SubSeq(text, acc.cursor + 1, s.from)
                        \o << <<s.tag, NextNumber(acc.tags, s.tag)>> >>,
              tags |-> Append(acc.tags, s.tag), cursor |-> s.to]
      all == FoldLeft(put, [out |-> <<>>, tags |-> <<>>, cursor |-> 0], ByStart(spans))
  IN  all.out \o SubSeq(text, all.cursor + 1, Len(text))

ScrubWithNer(b, text) == ReplaceSpans(text, Spans(b, text))

----------------------------------------------------------------------------
(* The walker.                                                             *)

(* One short ASCII word without an upper-case letter is taken for a label. *)
Capitalised == {"Ann", "Lee", "Rome"}

LooksLikeSchemaLabel(text) ==
  Len(text) = 1 /\ text[1][2] = 0 /\ text[1][1] \notin Capitalised

InScope(leaf) == ToSet(leaf.path) \cap ScrubFields # {}

Eligible(leaf) ==
  /\ leaf.string /\ InScope(leaf)
  /\ leaf.text # <<>> /\ ~LooksLikeSchemaLabel(leaf.text)

TooDeep(batch) ==
  \E i \in DOMAIN batch : \E j \in DOMAIN batch[i] : Len(batch[i][j].path) > MaxDepth

CollectNerInputs(trace) ==
  LET upTo[i \in 0..Len(trace)] ==
        IF i = 0 THEN <<>>
        ELSE IF Eligible(trace[i]) THEN Append(upTo[i - 1], trace[i].text)
        ELSE upTo[i - 1]
  IN  upTo[Len(trace)]

(* ner_inputs after the first n traces of a batch.                         *)
InputsUpTo(batch, n) ==
  LET after[i \in 0..Len(batch)] ==
        IF i = 0 THEN <<>> ELSE after[i - 1] \o CollectNerInputs(batch[i])
  IN  after[n]

NerInputs(batch) == InputsUpTo(batch, Len(batch))

(* Mutant: the second walk has a condition of its own.                     *)
InjectInto(leaf) == leaf.string /\ InScope(leaf) /\ leaf.text # <<>>

(* The second walk's condition; it has to be the first one's.              *)
Consumes(leaf) ==
  /\ leaf.string /\ InScope(leaf)
  /\ leaf.text # <<>> /\ ~LooksLikeSchemaLabel(leaf.text)

(* Mutant: every trace reads the outputs from the beginning.               *)
NoBoundary(batch, i) == 0

(* boundaries[i]: how many outputs the traces before this one have.        *)
Boundary(batch, i) == Len(InputsUpTo(batch, i - 1))

(* How many outputs the first i leaves of a trace take.                    *)
Turn(trace, i) == Cardinality({k \in 1..i : Consumes(trace[k])})

(* A string takes the next output of its trace, if there is one left.      *)
InjectWalk(trace, outputs) ==
  [i \in DOMAIN trace |->
     LET leaf == trace[i]
         n    == Turn(trace, i)
         after == IF Consumes(leaf) /\ n <= Len(outputs) THEN outputs[n] ELSE leaf.text
     IN  IF leaf.string THEN [leaf EXCEPT !.text = ScrubString(after)] ELSE leaf]

(* Without NER no output is consumed.                                      *)
WalkRegexOnly(trace) ==
  [i \in DOMAIN trace |->
     IF trace[i].string THEN [trace[i] EXCEPT !.text = ScrubString(@)] ELSE trace[i]]

WalkBatch(batch, outputs) ==
  [i \in DOMAIN batch |->
     LET from == Boundary(batch, i)
     IN  InjectWalk(batch[i],
           SubSeq(outputs, from + 1, from + Len(CollectNerInputs(batch[i]))))]

----------------------------------------------------------------------------
VARIABLES
  backbone, \* CIRISLENS_NER_BACKBONE, as the environment has it now
  backend,  \* the two OnceLocks: Unloaded, Failed or a model with its labels
  cache,    \* NER_CACHE: what NER made of a text
  job       \* what each worker is doing, with its last answer

scrubVars == <<backbone, backend, cache, job>>

Ok(traces) == [error |-> None, traces |-> traces]
Err(error) == [error |-> error, traces |-> <<>>]

Idle == [pc |-> "idle", level |-> None, batch |-> <<>>, misses |-> {},
         known |-> <<>>, probes |-> <<>>, answer |-> Err(None)]

ScrubInit ==
  /\ backbone \in Backbones
  /\ backend = [c \in {"candle", "ort"} |-> Unloaded]
  /\ cache = <<>>
  /\ job = [w \in Workers |-> Idle]

(* The operator edits the environment, which is read at every use.         *)
SetEnv ==
  /\ backbone' \in Backbones
  /\ UNCHANGED <<backend, cache, job>>

(* The call returns; what it worked with is dropped, and after an error    *)
(* the batch too.  The probe lists it read stay for the properties.        *)
ReturnWith(w, answer, probes) ==
  LET done == [Idle EXCEPT !.level = job[w].level, !.batch = job[w].batch,
                           !.probes = probes, !.answer = answer]
  IN  job' = [job EXCEPT ![w] = IF answer.error = None THEN done
                                ELSE [Idle EXCEPT !.answer = answer]]

Return(w, answer) == ReturnWith(w, answer, <<>>)

(* The checks of every trace, in order; one that fails rejects the batch.  *)
(* probes[i] is the list as it was when trace i was looked at.             *)
Checked(values, probes) ==
  LET refusal(i) == IF YearResidue(values[i]) THEN "YearResidue"
                    ELSE IF ProbeMatch(values[i], probes[i]) THEN "ProbeMatch" ELSE None
      refused == {i \in DOMAIN values : refusal(i) # None}
  IN  IF refused = {} THEN Ok(values)
      ELSE Err(refusal(CHOOSE i \in refused : \A j \in refused : i <= j))

(* Every trace reads the list anew, and the operator may have edited it.   *)
ReturnChecked(w, values) ==
  \E probes \in [DOMAIN values -> ProbeLists] :
    ReturnWith(w, Checked(values, probes), probes)

(* A level and a batch arrive.                                             *)
ScrubTracesBatch(w, level, batch) ==
  /\ job[w].pc = "idle"
  /\ job' = [job EXCEPT ![w] = [Idle EXCEPT !.pc = "begin", !.level = level, !.batch = batch]]
  /\ UNCHANGED <<backbone, backend, cache>>

(* Levels without NER: nothing another worker does can be seen.            *)
WithoutNer(w) ==
  LET j == job[w] IN
  /\ j.pc = "begin"
  /\ \/ j.level = "unknown" /\ Return(w, Err("InvalidLevel"))
     \/ j.level # "unknown" /\ j.batch = <<>> /\ Return(w, Ok(<<>>))
     \/ j.level = "generic" /\ j.batch # <<>> /\ Return(w, Ok(j.batch))
     \/ j.level = "detailed" /\ j.batch # <<>> /\ TooDeep(j.batch)
        /\ Return(w, Err("WalkerDepthExceeded"))
     \/ j.level = "detailed" /\ j.batch # <<>> /\ ~TooDeep(j.batch)
        /\ ReturnChecked(w, [i \in DOMAIN j.batch |-> WalkRegexOnly(j.batch[i])])
  /\ UNCHANGED <<backbone, backend, cache>>

(* The backend the environment names, loaded at its first use and for good.*)
Choice == IF backbone = "ort" THEN "ort" ELSE "candle"

GetOrInit ==
  IF backend[Choice] # Unloaded THEN {backend}
  ELSE {[backend EXCEPT ![Choice] = b] :
          b \in {Failed} \cup {Load(backbone, cfg) : cfg \in Configs}}

IsConfigured(loaded) == loaded[Choice] # Failed

(* full_traces: the first look at the backend and the collecting walk.     *)
Collect(w) ==
  LET j == job[w] IN
  /\ j.pc = "begin" /\ j.level = "full_traces" /\ j.batch # <<>>
  /\ backend' \in GetOrInit
  /\ \/ ~IsConfigured(backend') /\ Return(w, Err("NerNotConfigured"))
     \/ IsConfigured(backend') /\ TooDeep(j.batch)
        /\ Return(w, Err("WalkerDepthExceeded"))
     \/ IsConfigured(backend') /\ ~TooDeep(j.batch) /\ NerInputs(j.batch) = <<>>
        /\ ReturnChecked(w, WalkBatch(j.batch, <<>>))
     \/ IsConfigured(backend') /\ ~TooDeep(j.batch) /\ NerInputs(j.batch) # <<>>
        /\ job' = [job EXCEPT ![w].pc = "look_up"]
  /\ UNCHANGED <<backbone, cache>>

(* The answers of the model and the cache, spread over the batch again.    *)
Outputs(batch, known) ==
  LET inputs == NerInputs(batch) IN [k \in DOMAIN inputs |-> known[inputs[k]]]

(* scrub_batch under the cache lock: hits, and misses each listed once.    *)
LookUp(w) ==
  LET texts == ToSet(NerInputs(job[w].batch))
      hits  == texts \cap DOMAIN cache
      found == [t \in hits |-> cache[t]] IN
  /\ job[w].pc = "look_up"
  /\ backend' \in GetOrInit
  /\ \/ ~IsConfigured(backend') /\ Return(w, Err("NerNotConfigured"))
     \/ IsConfigured(backend') /\ hits = texts
        /\ ReturnChecked(w, WalkBatch(job[w].batch, Outputs(job[w].batch, found)))
     \/ IsConfigured(backend') /\ hits # texts
        /\ job' = [job EXCEPT ![w].pc = "infer", ![w].known = found,
                              ![w].misses = texts \ hits]
  /\ UNCHANGED <<backbone, cache>>

(* The misses under the backend's lock, with the backend named by now; the *)
(* tokenizer or the forward pass may fail.                                 *)
Infer(w) ==
  LET j == job[w] IN
  /\ j.pc = "infer"
  /\ backend' \in GetOrInit
  /\ LET b == backend'[Choice] IN
     \/ b = Failed /\ Return(w, Err("NerNotConfigured"))
     \/ b # Failed /\ Return(w, Err("NerFailed"))
     \/ /\ b # Failed /\ (Choice = "ort" => Len(b.labels) = Len(Classes(b.model)))
        /\ job' = [job EXCEPT ![w].pc = "insert",
                     ![w].known = [t \in j.misses \cup DOMAIN j.known |->
                                     IF t \in j.misses THEN ScrubWithNer(b, t) ELSE j.known[t]]]
  /\ UNCHANGED <<backbone, cache>>

(* The results enter the cache; the second walk and the checks follow.     *)
Insert(w) ==
  LET j == job[w] IN
  /\ j.pc = "insert"
  /\ cache' = [t \in j.misses \cup DOMAIN cache |->
                 IF t \in j.misses THEN j.known[t] ELSE cache[t]]
  /\ ReturnChecked(w, WalkBatch(j.batch, Outputs(j.batch, j.known)))
  /\ UNCHANGED <<backbone, backend>>

ScrubNext ==
  \/ SetEnv
  \/ \E w \in Workers, level \in TraceLevels, batch \in Batches : ScrubTracesBatch(w, level, batch)
  \/ \E w \in Workers : WithoutNer(w)
  \/ \E w \in Workers : Collect(w)
  \/ \E w \in Workers : LookUp(w)
  \/ \E w \in Workers : Infer(w)
  \/ \E w \in Workers : Insert(w)

ScrubSpec == ScrubInit /\ [][ScrubNext]_scrubVars

----------------------------------------------------------------------------
(* Properties.                                                             *)

Models == {backend[c] : c \in {d \in DOMAIN backend : backend[d] \notin {Unloaded, Failed}}}

(* The workers whose last call returned a batch.                           *)
Answered == {w \in Workers : /\ job[w].pc = "idle"
                             /\ job[w].level \in TraceLevels \ {"unknown"}
                             /\ job[w].answer.error = None}

(* What scrubbing a leaf on its own may give at a level, with these models.*)
Alone(leaf, level, models) ==
  IF ~leaf.string \/ level = "generic" THEN {leaf.text}
  ELSE IF level = "full_traces" /\ Eligible(leaf)
       THEN {ScrubString(ScrubWithNer(b, leaf.text)) : b \in models}
       ELSE {ScrubString(leaf.text)}

AsAlone(in, out, level, models) ==
  /\ Len(out) = Len(in)
  /\ \A i \in DOMAIN in :
       /\ Len(out[i]) = Len(in[i])
       /\ \A j \in DOMAIN in[i] :
            /\ out[i][j].path = in[i][j].path
            /\ out[i][j].text \in Alone(in[i][j], level, models)

(* Batching, deduplication, the shared cache and other workers cannot be   *)
(* told from the outside: a returned batch has the traces it was given, in *)
(* order, and each string is what scrubbing it alone with a loaded model   *)
(* gives (ner.rs:119-190, walker.rs:81-107).                               *)
BatchingIsInvisible ==
  \A w \in Answered : AsAlone(job[w].batch, job[w].answer.traces, job[w].level, Models)

(* Words every checkpoint the code can load calls a name.                  *)
Names == {t \in {Word("Ann"), Word("Lee"), Word("Rome")} :
            \A m \in KnownBackbones : TrueLabel(m, t) # Outside}

(* In every string the placeholders of a tag are numbered 1, 2, ... from   *)
(* left to right, however the text was cut into chunks (ner.rs:287-319).   *)
PlaceholdersCountUp ==
  \A w \in Answered : \A i \in DOMAIN job[w].answer.traces :
    \A text \in Texts(job[w].answer.traces[i]) : \A tag \in {"PER", "LOC", "DATE"} :
      LET marks == SelectSeq(text, LAMBDA t : t[2] > 0 /\ t[1] = tag)
      IN  \A k \in DOMAIN marks : marks[k][2] = k

(* Glued to a placeholder whose pattern asks for no word boundary.         *)
Glued(text, k) ==
  \E n \in {k - 1, k + 1} \cap DOMAIN text :
    text[n] \in {Mark("EMAIL"), Mark("PHONE"), Mark("URL")}

(* No batch is returned with a year, with a probe on the list its trace    *)
(* was held against, or, at full_traces, with a name in a text that is in  *)
(* scope and no label.  What another pattern would still match escapes     *)
(* only where it was glued to an address, a phone number or a URL, and a   *)
(* name only behind the tokenizer's MaxLength tokens                       *)
(* (mod.rs:102-138, regex.rs:103-126, ner.rs:476-497).                     *)
NothingUnscrubbedLeaves ==
  \A w \in Answered : job[w].level # "generic" =>
    LET in == job[w].batch  out == job[w].answer.traces IN
    \A i \in DOMAIN out :
      /\ ~YearMatch(out[i]) /\ ~ProbeMatch(out[i], job[w].probes[i])
      /\ \A text \in Texts(out[i]) : \A k \in DOMAIN text :
           (\E p \in ToSet(Patterns) : Matches(p, text[k])) => Glued(text, k)
      /\ job[w].level = "full_traces" =>
           \A j \in DOMAIN out[i] : Eligible(in[i][j]) =>
             LET text == in[i][j].text IN
             ToSet(out[i][j].text) \cap Names
               \subseteq ToSet(SubSeq(text, MaxLength + 1, Len(text)))
=============================================================================
