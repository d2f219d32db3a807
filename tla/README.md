# A TLA+ model of CIRISLensCore

CIRISLensCore is a Rust library that turns an agent's reasoning events into
signed traces, passes them through a consent gate, persists them, relays
batches of other nodes, scores traces against calibration bundles and evicts
old ones. This directory holds TLA+ modules of it, the TLC configurations that
check them and TLAPS proofs about them. File and line numbers without a prefix
are relative to `src/src/`; `scrubber/` and `extraction/` are directories of
`src/patterns_from_cirislens_core/`, the code of the service this library
replaces, which the repository keeps as the reference of what is to be lifted
into it and does not build.

Storage, the federation directory, keys and the clock belong to the sibling
crate `ciris_persist` (the *Engine* below). It is not part of the repository; its calls are
modelled from how this code uses them: atomic where the code
relies on it, and free to fail before or after it commits.

## 1. The system

| component | code | state | operations | model |
|---|---|---|---|---|
| trace assembly | `capture/partial.rs`, `capture/event.rs` | traces in flight and attempt counters, per thought | `capture`, `orphan_sweep` | `PartialTraceStore` |
| consent gate | `capture/consent.rs` | none: reads attestations and the operator's configuration | `resolve_grant`, `resolve_consent`, `..._via_engine` | `Consent` |
| client mode | `capture/client.rs`, `batch.rs`, `seal.rs` | the store behind a mutex, the tee counter, the tee directory | `capture_event`, `orphan_sweep` | `CaptureClient` |
| client mode, Python host | `capture/py_engine.rs`, `ffi/pyo3.rs` (PyLensClient) | the store behind a mutex, the tee counter | `prepare`, `apply_signature_and_batch`, `tee_write`, `capture_event` | `PyEngineCapture` |
| scoring | `pipeline/lifecycle.rs`, `scoring/`, `detector/manifold.rs`, `cohort/declared.rs`, `extract/projection.rs` | the bundle of the deployed `LensCore` | `LensCore::process` | `Scoring`, `Detection` |
| detection events | `signing/event.rs` | none | `prepare_detection`, `sign_detection`, `assemble_event` | `Detection` |
| batch detection from Python | `ffi/pyo3.rs` (process_trace_batch) | none | `process_trace_batch`, `process_one` | `Detection` |
| retention | `retention/`, `config/retention.rs` | none: the Engine's store | `plan_eviction`, `execute_plan`, `evict_per_retention_policy` | `Retention` |
| relay | `role/relay.rs`, `role/handler.rs`, `role/ret_relay.rs` | the listener task | `relay`, `attach_handler`, `handle`, `shutdown` | `Relay` |
| node | `role/node.rs`, `config/node.rs` | the HTTP task and its handle | the read API, `node`, `shutdown`, `install_node` | `NodeScores`, `Node` |
| trace seal and wire form | `capture/seal.rs`, `capture/batch.rs` | the signature of a trace | `strip_empty`, `build_canonical_envelope`, `sign_trace`, `verify_trace_signature`, `build_batch_bytes` | `Egress`; as one step in `CaptureClient` |
| correlation metadata | `capture/correlation.rs` | none | `build`, `fuzz_location_to_region` | `Correlation` |
| egress filter | `config/egress.rs`, `config/upstream.rs` | none | `apply_egress_filter`, `passes_severity_gate`, `parse_*` | `Egress` |
| audit | `audit/` | a `LensAudit`'s way to an Engine | `log_action`, `log_consent_event`, `log_wbd`, `log_identity_change` | `Audit` |
| aggregates and oracle | `scores/` | none | `compute_aggregate`, `ScoresOracle` | `NodeScores` |
| axis calibration | `detector/axis_metrics.rs`, `detector/correlated_action.rs`, `detector/distributive_access.rs`, `scoring/axis_calibration.rs`, evidence references of `signing/event.rs` | the bundle in use | the measures, `score_against_axis`, `severity_scaled_score`, `from_yaml`, `build_axis_evidence_refs` | `AxisMetrics`, `AxisScoring` |
| effective sample size and capacity | `scoring/n_eff.rs`, `scoring/capacity.rs`, `capacity/` | none | `kish_n_eff`, the confidence band, the composite, the attestation | `Capacity` |
| scrubber | `scrubber/` | the NER cache, two lazily loaded backends | `scrub_traces_batch`, `scrub_trace`, `scrub_batch` | `Scrub` |
| metadata extraction | `extraction/` | none | `extract_trace_metadata`, `resolve_json_path` | `Extraction` |
| canonical egress, wire signer, observability, coherence ratchet, resourcing | `canonical/`, `wire/`, `observability/`, `detector/coherence_ratchet.rs`, `cohort/resourcing.rs` | none | conversions, names, enums | not modelled |

How they interact:

- A host calls `capture_event` from many tasks. The store assembles under a
  mutex; the call whose event seals a trace takes it out of the store and
  carries it, without the mutex, through consent, signing, the tee and
  `Engine::receive_and_persist`. Nobody else has that trace any more.
- In Python, the same path is driven from outside: `prepare` runs the store and
  the gate, the binding calls the host Engine's `local_sign`, tees, and calls
  `receive_and_persist`.
- A relay hands batches of other nodes to the Engine, so rows with old
  timestamps arrive at any time. Retention passes delete from the same store.
- `LensCore::process` scores a verified trace with the bundle of the `LensCore`
  it was called on, signs twice (ML-DSA over bytes and Ed25519 signature) and
  returns an event that its caller puts. `process_trace_batch` does the same
  through the host Engine's methods, without a bundle.

- A sealed batch that leaves for an upstream passes that upstream's filter, and a
  relay's upstream has one more. The receiver verifies the signature over what is
  left, so the filter decides what can be verified.
- `LensAudit` builds an entry and drives the host Engine through six calls that
  hash, sign and record it; each may raise, or let another Python thread run.
- Scrub workers share one cache and the loaded backends, and read the operator's
  environment at each call.

- A node is a relay and an HTTP task over one Engine. One call starts both and one
  handle stops both, one after the other; reads, detections and batches of peers go
  on meanwhile, and either task may end on its own.

What is hard about it: concurrent calls that share the store but not the trace
they carry; consent that changes between two awaits; errors of the Engine that
do not say whether it committed; cancellation at an await; restarts with
process-local counters; late attestations and late rows; overlapping eviction
passes that work from stale summaries; a lens redeployed in the middle of a
call; batches that must survive the failure of a member; two tasks that are
stopped through one handle, with requests in flight; a filter that rewrites what is
already signed, once per hop; an audit entry that is built in five calls; two walks
over a document that have to agree on every leaf, with a cache and other threads
between them; and measures of a cohort whose records lack fields. `PROJECT.json`
lists each hazard at its line, with the properties that would notice.

What makes each component correct:

- *assembly*: an event is in one trace; attempt indices are ranks; only stale
  traces are lost;
- *consent*: the newest word on the dimension decides, in whatever order words
  arrive; a withdrawal sticks;
- *client mode*: a sealed trace is stored at most once, under consent that was
  read for it, as it was signed, and with a working Engine it is stored;
- *Python host*: what the caller is told is true, and nothing leaves but with what the
  host answered when it was asked to sign that very thing;
- *scoring*: a number is earned and can be reproduced; batches report the truth;
- *retention*: what is due goes, nothing else does, and a pass ends;
- *relay*: what was answered for is stored, and answers add up;
- *egress*: a copy verifies exactly when nothing was taken from it, what a filter
  forbids stays away, and a location is no more exact than the user allowed;
- *audit*: an entry is sealed and logged once, and the caller is not misled;
- *axes and capacity*: no number without a calibration, or from silence other than that of
  nothing measured; worse is never milder, a verdict cites what it used, nobody attests their own capacity;
- *scrubber*: batching and caching cannot be told from the answers, and no year, probe
  or name in reach of the model leaves;
- *extraction*: a row follows the last attempt at each step;
- *node*: an answer is true of the log it read, the ways to count a window agree,
  and a shutdown ends and is complete.

## 2. Modules

```
TraceAssembly <--refined by-- PartialTraceStore -----+--> CaptureClient --refines--> TraceDelivery
      ^                                               |        ^
      | EXTENDS                                       |     Consent
TraceDelivery <--refined by-- PyEngineCapture <------+

Scoring --> Detection        Retention        Correlation --> Egress
NodeScores --+--> Node       AuditLog <--refined by-- Audit
Relay -------+               AxisMetrics --+--> AxisScoring
                                           +--> Capacity
Scrub        Extraction

proofs: PartialTraceStoreProofs, CaptureClientProofs, PyEngineCaptureProofs,
        DetectionProofs, NodeProofs, EgressProofs (egress, scrubber),
        RowProofs (retention, extraction), AttestationProofs (audit, axes, capacity)
```

| module | what it is |
|---|---|
| `TraceAssembly` | abstract: events of a thought gathered in order, handed over as a whole or lost as a whole, numbered by rank |
| `TraceDelivery` | abstract: `TraceAssembly`, and each trace handed over is open, then stored or dropped for good; a crash drops what is open |
| `PartialTraceStore` | the store of `capture/partial.rs` |
| `Consent` | `capture/consent.rs` over a directory that grows one row at a time, in any order of timestamps |
| `CaptureClient` | `CaptureClient::capture_event` and its helpers over the two modules above |
| `PyEngineCapture` | `PyEngineCapture` and the binding that drives it, against a host Engine that may raise or answer nonsense |
| `Scoring` | pure operators: from a trace and a bundle to a verdict |
| `Detection` | workers in `LensCore::process`, Python batches, publication and redeployment |
| `Retention` | eviction passes over an Engine's store |
| `Relay` | the batch handler and the life of the listener task, against peers that resend and an Engine that fails |
| `NodeScores` | pure operators: every route of the read API, the aggregate and the oracle, from a log of events to an answer; a list of rows is a set of rows, whose place in the log is their id and gives the order |
| `Node` | both tasks of a node, the handle, clients and a growing log; extends the two modules above |
| `Correlation` | pure operators: the correlation block of a batch, with the fuzzed location |
| `Egress` | traces that are sealed, put into a batch and sent through any filters, hop after hop |
| `AuditLog` | abstract: a log to which a call appends its entry at most once before it is answered |
| `Audit` | threads in the `log_*` methods of `LensAudit`, one action per call of the host Engine |
| `AxisMetrics` | pure operators: Gini, HHI, rates, fractions and variation, as ratios of integers |
| `AxisScoring` | a corpus of aggregates, bundles that supersede each other, and verdicts with their evidence |
| `Capacity` | Kish's sample size, the confidence band, and attestations made here or received |
| `Scrub` | workers in `scrub_traces_batch` over the shared cache and backends |
| `Extraction` | the components of a trace, one after the other, into the columns of its row |
| `MC*` | the instance of a module that TLC checks: its inputs and bounds |
| `*Proofs` | theorems and their TLAPS proofs |

How state and actions correspond to the code:

- `PartialTraceStore`: `active` and `attempt_counters` are the two maps of the
  struct. `capture` is one call under the mutex, so it is one step, split by its
  outcome: `CaptureOpen` (Opened, Appended), `CaptureSeal` (Sealed) and
  `CaptureUnknown` (Rejected). `OrphanSweep` is the sweep, `Restart` an empty
  store. `delivered` and `sealed` are history. A timestamp is a number or one of
  `BadStamps`, which do not parse and make a trace stale at once, as the code does.
- `Consent`: `rows` are the attestations in order of arrival, `config` the
  configured timestamp. `ResolveGrant` and `ResolveConsent` are the functions of the same
  names; `ResolutionAt(n)` is what they answered after n arrivals.
- `CaptureClient`: `call[c]` is the program counter and the locals of a
  `capture_event` future; one action per stretch between two awaits
  (`CaptureSealing`, `ConsentGranted`/`Blocked`/`Unreadable`, `SealSignWrap`,
  `TeeWrite`, `Persist`). `PersistFails` and `Cancel` may leave the batch stored
  or not. `heard` and `stored` bracket the life of a call in numbers of
  attestations (history). A signature is what it covers.
- `PyEngineCapture`: one action per call of the binding into the host Engine,
  since each such call may let another Python thread in. An answer to `local_sign` is a
  record of what was asked and whether it is the signature, too short, or 64 other bytes;
  `WellFormed` looks at the length only, as the binding does.
- `Scoring`: NaN is `None`; a value whose square overflows is `Huge`; a distance
  is the data it was computed from, so that two distances are equal only if they
  were computed from the same vector and centroid. `detect()` returns
  `DetectionResult::None` in every build of this commit, so its other results
  have no branch.
- `Detection`: `job[w]` is a call of `process` and the caller's put;
  `batch[b]` a `process_trace_batch`. An event holds the trace it is about
  (the code holds its hash). `Redeploy` replaces the lens while calls are in
  flight; these keep the one they were made on. An Engine's signature may be too
  short or forged; `assemble_event` sees the first only, persist refuses both.
- `Retention`: `policy` is chosen in `Init` and stays. A pass reads a summary,
  plans from it, deletes batch after batch, and may fail at each step. `disk` is
  the figure the Engine reports, which need not fall after a delete. The unit is a row.
  The fields of the policy that `plan_eviction` does not read
  (`per_level_max_age`, `detection_events_max_age_days`) are left out.
- `Relay`: one action per stretch of `handle` between two awaits; `stored` is the
  Engine, `answered` and `claimed` (history) are what the responses said. A
  handler ends with the runtime wherever it was, and its peer sends again.
  The counts of a response are abstracted to the inserted ones; the deduplicated
  rest follows from the batch.
- `Node`: `host`, `http` and `relay` are the program counters of the holder of the
  handle and of the two tasks; `httpSignal` and `relaySignal` the watch channels, of
  which dropping the sender is a value of its own. `Ask` accepts a request and
  `Serve` is the read of the Engine with all that follows it, which is local; a
  request carries the time at which it was made, since a default window ends then.
  An optional parameter is a set of at most one value. The Engine's own filter
  includes its lower bound, as the comment of `compute_aggregate` has it. Python
  holds the interpreter lock in `LensNode.shutdown`, so there is one host.
- `Correlation`, `Egress`: a coordinate is a whole number of 1/64 degrees, so each is an
  `f64` and `{:.1}` rounds it exactly, ties to even. A component's data maps keys to the
  shapes `strip_empty` tells apart; a signature is the canonical bytes it covers. A
  filter argument that is not given is a key that is missing, and `WithAll` puts the
  default. The dispatcher is not in the repository: `Forward` sends one copy through
  any configured filter, up to `MaxHops` times, and `Annotate` gives events the
  severities a producer writes, unknown ones included.
- `Audit`: `step[c]` names the Engine call a thread is about to make and `draft[c]` is the
  entry so far. `Raise` may end a call anywhere, after the entry was recorded too. The
  sovereign branch always raises, as the code does. A hash is what it covers.
- `AxisMetrics`, `AxisScoring`: a measure is an exact ratio in lowest terms, roots taken to
  1/100; `Log10` is the table of logarithms up to the size of the cohort. The median is the
  value of middle rank. The corpus
  maps an agent to a record that may lack fields; `Field` puts the default the code
  puts. `LoadBundle` refuses what `from_yaml` refuses. Nothing in the pipeline calls
  these scorers yet, so who loads a bundle and attests is external. In the evidence, a
  cohort is delineated by its members or by an algorithm, and `prior` is what the caller gives
  for the bundle that was superseded, present in a transition only.
- `Capacity`: factors and correlations are multiples of 1/Grain, or not finite; a cohort has at
  most `MaxSample` samples where a property speaks of all of them. `Receive` is
  any bytes of a peer, through the `Deserialize` impls.
- `Scrub`: `backend` are the two `OnceLock`s, `cache` the `NER_CACHE`, `job[w]` the locals
  of a worker; one action per stretch between two locks. The operator may edit the
  environment at any time, between two traces of a batch too: the probe list is read for
  each trace (`ReturnChecked`). A document is the sequence of
  its leaves in walk order. The regexes are what they make of representative words, those
  glued to an address, a phone number or a URL among them, where the pattern of the one
  asks for no word boundary and that of the other does; the model is a table of labels; chunking, span collapsing, label parsing,
  numbering and the two walks are as in the code.
- `Extraction`: `components` are those gone through, `row` the columns so far; one action per
  component, all four sources of columns in it. `MCScrub` gives each behaviour to
  one of `Scrub` and `Extraction`, `MCAxis` to one of `AxisScoring` and `Capacity`,
  `MCPartialTraceStore` to one of `PartialTraceStore` and `Consent`.

## 3. Runs

`CHECK_DEADLOCK FALSE` everywhere: the bounds on history (events delivered, rows
ingested, attestations, events minted) end every behaviour, and the program
itself may be idle for ever.

| run | bounds | what it shows |
|---|---|---|
| `store` | 2 thoughts, 2 known event types and 1 unknown, 4 events, 1 restart, 1 unreadable timestamp | types, counters, ranks, well-formed traces and no event in two of them (`TracesAreSound`); a sweep loses only stale traces; it implements `TraceAssembly`. Beside it a directory of 3 rows of any type, one the lens does not know included: the newest row decides, a withdrawal sticks |
| `client_safety` | 2 callers, 3 events, 2 rows, 2 dimensions, 1 restart, failures of directory, signer, Engine and cancellation | at most one stored batch per trace, consent that covers it, the signature over what is stored; implements `TraceDelivery` |
| `client_live` | 2 callers, 4 events, failing tee | sealed traces are stored |
| `client_mirror` | 1 restart | a disagreement, see section 6 |
| `py_engine` | 2 threads, 4 events, an Engine that fails at every call, 1 restart | answers are true, nothing leaves but with the answer to its own signing, and tee and Engine agree; implements `TraceDelivery` |
| `retention` | 2 passes, 3 rows over 3 days, batches of 2, 7 policies | what is due goes, nothing else does, pressure spares the newest, passes end |
| `detection` | 1 worker, 1 batch of up to 2 traces, 3 bundles, 3 traces and a malformed one | numbers are earned, events reproducible and verifiable, reports true, batches return |
| `node` | 2 overlapping batches, 15 requests, and up to 3 of: events (2), requests, answers (2), batches; 2 instants | a page without a cursor is the last, windows count alike, answers of the relay are true, a shutdown is complete and returns |
| `egress` | 2 traces, 4 bodies, 8 filters, 2 hops, 3 severities, 9 correlation inputs | a copy verifies if and only if it was left alone, what a filter forbids stays away and its gate is exact, a location is coarse |
| `audit` | 2 threads, 6 requests of all four methods, 3 entries, 2 instants | entries are sealed and in place; implements `AuditLog` |
| `axis` | 3 agents, 2 records, 8 axes, 4 bundles of which 2 must be refused and 1 lacks the mark of an axis without variance; 2 keys, 5 factor values | numbers need a calibration and, but for what section 6 lists, a signal; measures keep their range, severity is a ramp, evidence names its sources, capacity is not inflated |
| `scrub` | 2 workers, 7 batches, 3 backbones, 5 checkpoint configurations, windows of 2 tokens in an encoding of 3; rows of up to 3 components under 3 schemas | batching is invisible, nothing unscrubbed leaves but what was glued or is beyond the tokenizer, placeholders count up, rows follow attempts |

Why the bounds are enough. Four events let one thought repeat a type, be
swept or sealed, and be reopened, while another goes on; one restart is enough
since it resets all process-local state. Three rows, in `store`, are needed for a grant, a
withdrawal and a row that could hide it, with equal timestamps among them; in
`client_safety` two are enough for the gate to open and to close while a call is on its way.
Two callers are all that can compete for a trace or a tee number, and three
events let both seal one, one of them with two components. In retention, three rows with batches
of two give a full and a short batch; two passes give a stale
summary; three days separate old, due and new. For scoring, the bundles are one
that scores, one that lists a cohort twice under its gate, and one that
validation must refuse; the traces are complete, incomplete in profile and in a
feature that is imputed, and lacking one that is not. For the node, `MaxWork` bounds
what was stored, asked and delivered together: pages of one row with two events
tell a last page from another, two answers with an event between them compare two
readers, and two batches that share an event meet in the Engine. For egress, two hops
show what a second filter lets back in, one body's prompt is empty before any
filter sees it, so that redaction takes nothing from it, and the coordinates lie on both sides of zero,
on a tie and beside one. For audit, three entries let a thread log again while the
other is in the middle. For the axes, one, two and three agents give a median, a
silent and a skewed cohort, and two verdicts are enough to compare them. For the scrubber, the
texts are longer than a chunk and longer than the encoding, two workers compete for the
same text with different backends, and the checkpoints have all, some and none of their
labels. Beyond these, more of the
same adds only permutations; what depends on the sizes is what
section 5 proves without bounds.

Each property of a passing run has a mutant in `PROJECT.json`: a plausible bug in
one mapped definition (a counter not reset, a level stamped after signing, a
gate skipped, the looser of two cutoffs), under which TLC finds it violated.

## 4. Fairness

Fairness is only stated where liveness is checked.

- `ClientSpec`: weak fairness of `Advance(c)` per call: tokio polls a task that is
  ready, and every Engine call a future awaits ends with a result or an error.
  Nothing makes a host send another event, and cancellation is never forced.
- `DetectionFairSpec`: weak fairness of `BatchStep(b)`: `process_trace_batch` is a
  loop on the thread of its caller.
- `RetentionFairSpec`: weak fairness of a pass that was started (plan, delete,
  end), since it is a future its caller drives. No pass has to start. That
  `PassesEnd` holds also needs arrivals to be bounded, as the instance has them:
  the code's loop ends at the first short batch, and rows that arrive behind the
  cutoff as fast as they are deleted would keep it going.

- `NodeSpec`: weak fairness of each task's own steps: binding (or failing to), the
  graceful end, the two joins, the answer to an accepted request, and `Edge::run`
  returning once it was *told* to. A dropped sender obliges the relay to nothing,
  clients need not ask, and nobody has to call `shutdown`. That an accepted request
  ends rests on the Engine's reads ending, with a result or an error.

The other specifications (`AuditSpec`, `EgressSpec`, `AxisSpec`, `CapacitySpec`,
`ScrubSpec`, `ExtractionSpec`, the safety runs of client mode) state none.

## 5. Proofs

The eight `*Proofs` modules are checked by `tlapm`. They hold for every value of the
constants that the named assumptions allow; no bound of a run enters but as a natural
number. The assumptions are types of what callers pass, markers that are not
values, and, in `BundleAssumption` and `DetectionAssumption`, that a hash or a version
names one bundle:

- `StoreAssumption`, `NoTraceAssumption`: types of the events; no event type is both known
  and unknown; `None` and `NoTrace` are not values;
- `ConsentAssumption`, `ClientAssumption`: the three groups of attestation types are
  disjoint, the consent dimension is none of the others, a configured timestamp is not a
  grant's; `SignatureAssumption`: no signature is not a signature;
- `PyEngineAssumption`: no answer is none of the binding's three answers;
- `EgressAssumption`, `CorrelationAssumption`: the shapes of bodies, filter arguments and
  coordinates, and that the names of the three groups of fields differ;
- `NodeAssumption`, `RequestAssumption`, `RelayAssumption`: the types of the query structs
  (an `Option` holds at most one value, a window of the oracle has both ends) and of
  the rows; finitely many batches of finitely many events;
- `AuditAssumption`: an idle caller's `NoEntry` is not an entry;
- `RetentionAssumption`: policies are records of numbers or `None`, which is not a number,
  and a batch has at least one row;
- `RecordAssumption`: finitely many agents, whose records hold natural numbers, a Boolean
  and finitely many counts of models; the table `Log10` reaches to their number;
- `BundleAssumption`: a hash names one bundle and is not the mark of none, an axis has
  ratios for thresholds and bounds and an anchor that is not positive;
- `CapacityAssumption`: a grain is positive, `NotFinite` is not a number;
- `ExtractionAssumption`: the rules of an event type are a list;
- `ScrubAssumption`: a batch is a list of lists of leaves, `None` is neither a level nor an
  error, the backbones are known ones, a chunk holds at least one token;
- `ScoringAssumption`: the field order is a sequence without repetitions;
  `EnvelopeAssumption`: no envelope is not an envelope;
- `DetectionAssumption`: the version of the call site is not that of a published bundle,
  and a version names one bundle, which is what makes a version useful to an auditor.

| theorem | statement |
|---|---|
| `StoreTypeCorrect` | `StoreSpec => []StoreTypeOK` |
| `CountersAlwaysMatch` | a counter is the number of components of its type in flight |
| `AttemptIndicesAreRanks` | in every trace, in flight or sealed, attempt indices are ranks |
| `EventsInOneTrace` | no event is in two traces |
| `TracesAreWellFormed` | a trace holds events of its own thought, in the order they were accepted, under the first task and level they named; only a sealed one ends with the event that seals, and it does |
| `StoreTracesAreSound` | `TracesAreSound`: the five above together |
| `SweepSparesTheOthers` | only a seal, a restart, or a sweep of a trace that is over age or has no readable start ends a trace |
| `StoreImplementsAssembly` | the store refines `TraceAssembly` |
| `ClientComposes` | inside client mode the store and the directory behave as they do alone: `ClientSafetySpec => StoreSpec /\ ConsentSpec` |
| `ClientTypeCorrect` | `ClientSafetySpec => []ClientTypeOK` |
| `GrantIsAlwaysNewest` | emission under CEG authority names a grant the key issued, and no withdrawal is newer |
| `WithdrawalsStick` | once the newest word is a withdrawal, emission is blocked until a newer row arrives |
| `EachSealAtMostOnce` | a sealed trace is stored at most once, carried by at most one call, and not carried on once stored |
| `ConsentAlwaysCovers` | a stored batch was sent while the gate was open at a moment between its seal and its storage, whose stamp it carries |
| `StoredAsSigned` | what is stored is what was signed |
| `ClientImplementsDelivery` | `CaptureClient` refines `TraceDelivery` |
| `PyTypeCorrect` | `PySpec => []PyTypeOK` |
| `AnswersAreAlwaysTrue` | what is reported as persisted is stored, what is reported as blocked is not, nothing is stored twice |
| `NothingEverLeavesUnsigned` | what reaches the tee or the Engine carries 64 bytes that the host answered when it was asked to sign that very content, level included, and both get the same; they are its signature wherever the host does not answer wrongly |
| `PythonImplementsDelivery` | `PyEngineCapture` refines `TraceDelivery` |
| `DetectionTypeCorrect` | `DetectionSpec => []DetectionTypeOK` |
| `ReturnedEventsAlwaysVerify` | what `process` returns passes the hybrid check of persist |
| `ReportsAreAlwaysTrue` | no event is stored twice, and a batch accounts for each of its traces: failed, or reported once and stored |
| `EventsAreReproducible` | a stored event's verdict is that of the row published under its version |
| `NumbersAreEarned` | a stored number comes from a published bundle, its cohort at or above the gate, and a complete vector |
| `ShutdownIsComplete` | when `shutdown` has returned, both tasks are over and no HTTP request is left behind |
| `AnsweredBatchesAreStored` | a batch the relay answered for is in the Engine |
| `AcksAreAlwaysTrue` | that, the types and life cycles of both tasks, and: the answers together claim no more insertions than there were |
| `NoCursorIsLastPage` | a page without a cursor lacks nothing that the query asks for, and holds nothing else |
| `WindowCountsAlwaysAgree` | an aggregate, the oracle and a listing count a window alike, and no fewer of a longer log |
| `CopiesVerifyIffUntouched` | a copy verifies exactly when no filter took anything from what was captured |
| `FiltersAlwaysHold` | what a filter forbids stays away through later ones; a gate drops what is known to be below it and nothing else |
| `LocationIsAlwaysCoarse` | a shared location is within half a cell of the truth, the same for half a cell around it, and absent unless shared |
| `BatchesAsIfAlone` | what a call of the scrubber returns is, leaf by leaf, what its text gives alone, with no batch, no cache and no other worker, under a model that was loaded |
| `EntriesAlwaysSealed` | an entry of the audit chain is signed by the key it names, over its content and hash, and stands in its place |
| `AuditIsALog` | `Audit` refines `AuditLog` |
| `MeasuresInRange` | types, and: the Gini coefficient is below one, concentrations lie between one part in their number and one, at most half of a cohort is below its median |
| `NumbersHaveSignal` | a number that leaves the lens has a bundle that calibrates its axis; a cohort that shows nothing gets none on compute, models and informational asymmetry nor on an axis marked as without variance (but agent capabilities), and elsewhere the score of a measure of nothing |
| `EvidenceIsNamed` | it names the bundle it applied, in a transition the one before too and not the same, and either exactly the members of its cohort or how to derive them |
| `SeverityRamps` | a concern is scored between the anchor and twice the anchor; under one bundle a worse measure is never scored milder |
| `SamplesNeverInflated` | Kish's size is at most the number of samples, at least one where there is one, and with the confidence band never grows with the correlation; the band is zero exactly up to the gate |
| `CapacityNeverInflated` | that, and: nobody attests their own capacity, made here or received, and the composite is bounded by the weakest factor |
| `RetentionTypeCorrect` | `RetentionSpec => []RetentionTypeOK` |
| `RowsGoWhenDue` | a row is deleted only over age, or in the older half of a pressed window with a newer row beside it |
| `AgedRowsGo` | when a pass ends its deletions, nothing that was over age when it planned is left |
| `RowsFollowAttempts` | a column is of the last component that gives it anything, or of the first where it is kept whole; no other column is there but the id of the trace |

The argument for the store. Ranks are not inductive: the next index is read from
a counter, in another map, that three operations clean up. `IndexInv` joins the
types, `CountersMatch` and the rank property; a step appends a component
numbered by a counter that equals the count, and `RankedAppend` and `NextRank` say
that this keeps ranks. For `EventsInOneTrace`, `EventsInv` adds that an in-flight trace
holds delivered events of its own thought only, so that two of them share none, and
that sealed traces hold delivered events, so that the next one is new to them all. The refinement
needs the counters again: a step of the store is a step of `TraceAssembly` because the
counter is the rank, and a sweep or a restart is `Lose`. `SweepSparesTheOthers` needs
only that a step touches one thought, or restarts.

The argument for client mode. `ClientComposes` comes first: every step of the client is
a step of the store and one of the directory, or leaves them alone, so that what is proved of
each alone holds inside. Of the directory, `ConsentInv` says that no two rows have the same id,
so the newest row is unique whatever the order of arrival; both consent
theorems follow. `ConsentCovers` speaks of a batch in the Engine, while the gate was
read two awaits earlier: `ClientInv` gives each call that is on its way out a moment of
its own lifetime at which the gate was open (`OpenMoment`), and since rows are only ever
added, what the gate said then is never said differently (`MomentStays`). The content of a
call is what it signed, and `Exclusive` says that a sealed trace is with one call or in one
stored batch: that is `AtMostOnce`, and it is what keeps an outcome of `TraceDelivery`
once it is decided. A cancelled or failed call may or may not have stored its batch;
either way the trace leaves its only holder.

The argument for the Python host is the same with fewer parts: the level is stamped before
the signature is asked for, so whatever the Engine answers, a call that tees or persists holds
a `SignedBatch`: the answer to its own content as it still stands. That the 64 bytes verify is
not claimed: nobody looks before the host does. `Agree` says that what the tee has of a trace is what its
thread is about to store, or stored, so that mirror and Engine never differ. `ToldInv` ties what was reported to what is stored. A trace that consent
blocks is handed over and dropped in one step.

The argument for detection. Neither property speaks of calls in flight,
where the event comes from, and `published` and `bundle` change while a call
runs. `DetectionInv` adds that every envelope, in a worker, in a batch or in
persist, is `Sound`: version, cohort and verdict are those of *one* bundle that was
published, or of none. Publication only enlarges the set of bundles
(`SoundGrows`), redeployment changes none of the envelopes, and a put moves one into the
store (`OneMoreEvent`). Both theorems then follow from what a verdict says of its
bundle (`NumericVerdict`, `VectorIsComplete`, `HydratedIsRow`).

For the reports, `AccountInv` adds that an id belongs to one worker, one batch or one
event of persist (`Busy`, `Carried`), all of them given out before, and that what a batch has
reported, failed and still has to do make up the batch; each report is `Found` in persist, which
only grows. `SigningInv` says what each kind of signature is at each step of a call:
persist refuses a short one and a forged one, so what is stored carries both.

The argument for the node. `StopIsComplete` speaks of the end only; `StopInv` follows
the host there: no HTTP task without a handle, the HTTP task over when the relay is
told, and a request over HTTP in flight only while that task serves or drains. For
the relay, `AckInv` adds that a summary waiting to be sent is of a batch that is
stored; storing never undoes this, and the end of the runtime only takes summaries
away. Neither needs any assumption on requests, batches or bounds.

That the answers add up is about numbers that several handlers report of batches that
overlap. `ClaimInv` turns them into sets: what was claimed in answers and what each summary
under way will claim are pairwise disjoint sets of stored events of these sizes
(`Backed`). An event enters the Engine once, so the set a handler adds is new to all of them;
an answer moves a set from what is due to what was told, and a handler that dies takes
its set away.

For the reads, `ReadInv` says that a reply is the answer about the log as long as it was when
the Engine was read. Then each property is about operators on a log: a page that is not
full holds everything (`SmallestNumber` gives the induction over the places of the log), and the
three ways to count a window count the same set of rows, which grows with the log.

The argument for egress. A copy is what is left after any number of filters. `EgressInv` says
of each event what it may differ in (`IsCopyOf`): its components are what
the filters of its way leave of those captured, in their order (`IsLeftOf`), each with the
keys that none of them forbids, and they are as many only if nothing was barred. One more
filter keeps this (`ForwardKeepsInv`), where `Retain`, the recursion that keeps some members of
a list, is unfolded by induction over the places of the list. Then the canonical
bytes of a copy are those that were signed exactly if nothing was taken. The first form of
`VerifiesIffUntouched` said that every redacted trace fails to verify. The attempt to
prove it showed that this is false: an `llm_call` whose prompt is already
empty loses nothing, since the canonical form strips empty values. The property now says what
is true, and a body of the run is such a call. The location is arithmetic on grains, with
ties to even.

The argument for audit. The invariant says what a draft is at each step: `FormAt` gives its
form from its id, its request and its time alone, so that what the hash and the
signature cover is known although other threads moved the chain in between. The chain
holds `Signed` entries, each at its own number; the hash and the signature do not
cover that number, so giving it a place breaks neither. For the refinement, an
invoked entry must be new to the log: ids are given out once (`minted`), every entry of the
chain has an id given out before, and two drafts never share one. Recording is then
`AppendEntry`, an answer `Respond`, a refusal `Refuse`, and every other step a stutter.

The argument for retention. `OnlyDueRowsAreDeleted` speaks of the store when a batch is
deleted, while the cutoff comes from a summary that may be arbitrarily old.
`RetentionInv` adds what is left of that summary: its window is a window, the cutoff is the
tighter of the two that it and the clock gave, and `NewestKept`: the newest row it saw, or
a newer one, is still stored, or has gone over age. That is the conjunct that passes
could break for each other, and `NewestSurvives` shows that they do not: the newest row
of the store is before a cutoff only if it is over age, since before a midpoint
(`BeforeCutoffIsDue`) there would have to be a newer one. A short batch is all that
was eligible (`BatchIsBeforeCutoff`), hence `AgedRowsGo`. Neither needs the bounds, nor
that the disk figure ever falls.

The argument for extraction. `RowFollowsAttempts` says of a whole row what the components made of
it one by one. `RowInv` says it of every column, of a rule or not. What a component gives is a
recursive function over the rules of its event type, the later of two rules for one column
winning; `FieldsGive` says which columns it defines and which rule each is of. One more
component then either gives a column nothing, and the last that did stays the last, or gives
it something and is the last itself (`AttemptFollows`); the one column that is kept whole needs
that it is never taken away (`WholeIsKept`).

The argument for the scrubber. A call collects the texts of a batch, drops the repeated ones,
asks a cache that others write, infers the rest and hands the results out again by counting
eligible leaves. `ScrubInv` is about texts, not places: all that the cache or a worker
knows of a text is what *some* loaded model made of it (`Knows`), and what a worker knows and what
it misses cover every text of its batch. A loaded model stays (`LoadedStays`), so knowing is
never undone by a step of another worker. That the walk meets the texts in the order in which they
were collected, so that the counter points at the right one, is `CollectedInTurn` and
`WalkedAlone`. The model is not determined: a cached text keeps the model that first read
it, which is the defect of the salt in section 6, and the property says so.

The argument for axes and capacity. Their states are simple; what is hard is the arithmetic, and
it must be done without a solver for products of variables. A ratio is compared by
cross-multiplication, reduction divides both sides alike (`GcdDivides`, `RatioIs`, `LeqIs`), and
the sums are recursive functions unfolded by induction on their length: `TotalIsMonotone`,
`SquareOfTotal` (the sum of squares is at most the square of the sum, and at least one part in the
length of it) and `DifferencesAreBounded` (all pairwise differences of n values are at most
2 (n - 1) times their sum) give the ranges of HHI and Gini; half of the ranks lie below the
middle. The ramp is monotone because each of its parts is (`DifferenceGrows`, `QuotientGrows`,
`ClampGrows`). The invariant `AttestInv` adds that a verdict is what the bundle in use
says of its measure, and that a bundle never succeeds itself, which is what keeps the two
bundles of a transition apart. That silence is not scored where the code promises it, and is
the measure of nothing where it does not, goes axis by axis: a silent field has its default in
every record (`SilenceIs`), and a sum of nothing is nothing. `Further`, in the property of the ramp, leaves out the far pole of a corridor only:
there a measure further up is not worse.

Only model-checked:

- every liveness property (`SealedIsStored`, `BatchesReturn`,
  `ShutdownReturns`, `PassesEnd`), since fairness
  is stated with `ENABLED`, which is beyond the prover here;
- `NothingUnscrubbedLeaves` and `PlaceholdersCountUp`: what a text becomes goes through a sort of the spans, folds over
  chunks and patterns and several filters, of which the library has no facts that this prover can
  use, and each would need an induction over texts. What is proved is that a
  batch is scrubbed text by text; that each text comes out clean is checked on the texts of the run.
- `AxisScoring`'s measures are exact; how floating-point rounding moves them is neither
  checked nor proved.

The library's induction theorems take an operator as a parameter and cannot be instantiated here.
What is proved of a recursive function (`Retain`, the sums of the axes, the rules of an
extraction, the inputs of the scrubber) goes by the smallest number of a
set instead (`SmallestNumber`, `LargestNumber`); a general theory of a recursive operator's values is out of reach.

## 6. Where the code and its documentation disagree

One of these is a run that TLC ends with a counterexample: in `client_mirror` the tee is a
mirror of each batch (`client.rs:389-392`), yet its counter restarts at 0 with the
process and the files are overwritten.

The others were seen while modelling. The models do what the code does.

Capture and consent:

- `consent.rs:12-13` says that a withdrawn grant must never fall back to configuration. A
  newer row of a type that `resolve_grant` does not know makes it answer Absent
  (`consent.rs:194-196`), and Absent falls back. `WithdrawalSticks` therefore lets
  any newer row of the dimension end a withdrawal.
- `partial.rs:11-13` calls a purged trace "never-sealed (dropped)", but the next event
  reopens the thought and its tail is sealed as a complete trace numbered from 0.
- `consent.rs:29-31` says that a recant stops emission immediately, while the gate is
  read once per seal and two awaits follow (what does hold is `ConsentCovers`).
- `py_engine.rs:83-89` has the caller persist and then tee; the binding tees first
  (`ffi/pyo3.rs:911`), so a mirror may hold a batch that was never stored.
- Of the host's signature the binding looks at the length only (`ffi/pyo3.rs:894`): 64 wrong
  bytes are mirrored and sent to persist, and it is left to persist to refuse them. The
  `signatures_verified` of the summary, which `ffi/pyo3.rs:917-922` describes as what confirms the
  signature, is never looked at.

Scoring and axes:

- `cohort/declared.rs:50-52` sends incomplete profiles to AmbiguousCohort, and `process`
  never asks whether a profile is complete; `scoring/result.rs:122-125` has a variant
  for a failed local signature, which `process` reports as an error instead.
- `axis_metrics.rs:319-324` has the metric itself as the ceiling of an unbounded measure;
  the code takes twice the threshold.
- The statistical floor of an axis (`scoring/axis_calibration.rs:257`) is parsed and
  never consulted: a cohort of one agent is scored.
- No signal is not a number, says MISSION anti-pattern #9, which `axis_metrics.rs:364-368`
  quotes. A cohort in which every field is missing gets one on `agent_capabilities`,
  `participation_exclusion` and `aggregate_footprint`; on `federation_membership` and
  `rights_asymmetry` too (`axis_metrics.rs:265-297`), when the bundle does not mark the
  axis as without variance, which `axis_calibration.rs:312-338` does not require.

Egress, audit and retention:

- `config/egress.rs:217-219` says that a filtered trace contains only components at or
  below the ceiling; the function stamps the level and drops none for it.
- `audit/api.rs:86` has no duration for a revoke or an expire; one that is given is
  passed on. An entry's hash and signature do not cover its place in the chain. A
  caller that repeats a call after an error may have its entry twice, under two ids.
- `retention/mod.rs:35` lists the audit cap as enforced through `archive_audit_range`;
  `execute_plan` only logs the range (`eviction.rs:146`).

Node:

- `node.rs:641-643` says that dropping the handle does not stop the node. The handle owns
  the sender of the HTTP task's signal; `changed()` returns when the sender is gone as it
  does when a value is sent, and the read API stops (`node.rs:765`).
- `ffi/pyo3.rs:1543-1562` has `install_node` start the read API although the relay
  failed, while `node` returns before it spawns the HTTP task (`StartFails`);
  `NodeError::Http` (`node.rs:788-790`) is never built, so a bind that failed is not
  reported.
- `config/node.rs:36-39` describes a middleware that checks every request against the peer
  list; the list is carried to the node and no route reads it.
- The calibration bundle 0 that `get_calibration_bundles` lists is not found by its
  version, and negative versions, which it never lists, are; the cursor of a page is
  not read when it is sent back.

Scrubber and extraction:

- `scrubber/ner.rs:116` salts the cache by a `CACHE_VERSION` that does not exist; the cache is
  not keyed by backend either, so a text keeps what the first model made of it.
- `ner.rs:108` chunks long texts transparently, after a tokenizer that truncates: a name past
  its limit stays. `NothingUnscrubbedLeaves` says exactly that.
- Three patterns ask for no word boundary at one end (`regex.rs:37-42`), so what is glued to
  an address, a phone number or a URL stays, though the pattern matches it once it stands
  alone: `(555)123-4567555-123-4567` becomes `[PHONE]555-123-4567`. Only years are looked for
  again (`mod.rs:131`). The property excepts what stands beside such a placeholder.
- The probe list is read for each trace (`regex.rs:147`), so a batch may be held against two
  lists.
- The year pattern runs before the structured ones, so `555-123-1989` becomes
  `555-123-[YEAR]`; a lone lower-case word is taken for a schema label and skips NER; keys are
  never scrubbed; `fields_modified` counts every string of the second walk; and
  `ner.rs:12-14` still says that `is_configured` answers false.
- A value that fails to convert replaces an earlier good one by an empty string, and a row
  may mix the JSON of a first attempt with columns of the last. The design has since
  dropped the schema rules (`FSD/OPEN_QUESTIONS.md`, OQ-09).

## 7. Plan

Order of work: what a host loses or leaks if it is wrong comes first.

1. Done: trace assembly, consent, client mode and the Python host, with their proofs and
   refinements; retention, scoring and detection, relay and node, the seal with correlation
   and egress, audit with its abstract log, axes, evidence and capacity, the
   scrubber's batching and the extraction, each with its proofs.
2. Proof left: `NothingUnscrubbedLeaves` and `PlaceholdersCountUp`, for which the chunks and spans of a text
   become recursive functions first.
3. `Relay` composed with `Retention`: a relayed row that is already over age.

Runs are merged when new modules need their place; each remains about one part of
the system. `store`, `axis` and `scrub` hold two parts each, side by side.

## 8. Not modelled, and why

- The text of canonical bytes, hashes and key formats (`capture/seal.rs`, `wire/`): the models
  say what a signature covers, not how it is written; the repository compares
  these bytes with fixtures.
- Canonical egress (`canonical/`): a conversion of an event to a publication with a table
  of enrolled names. The wire signer adapts a signer of persist and keeps no state;
  its two signatures are modelled where they are asked for. Observability is names.
- `detector/coherence_ratchet.rs` is an enum, and the classifier of `cohort/resourcing.rs`
  is a `todo!` that nothing calls.
- Floating-point rounding of the measures, and the Mahalanobis distance: measures are
  exact ratios; the gates and the ramps that read them are modelled.
- The tokenizer and the NER models, beyond a table of labels; the regular expressions, beyond
  what they make of representative words; `extract_models_used`, a list of names.
- The second stamp of a sealed trace (`deployment_profile`), which is set beside the level before
  the signature; the level stands for both.
- Conversions of the Python binding that keep no state (configuration objects, the oracle's
  dictionaries), and the peer list, which no route reads.
- The Engine's insides: deduplication, the directory's replication, the audit log's
  hash chain.
