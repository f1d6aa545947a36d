# LeanLM in TLA+

A model, its TLC checks and its TLAPS proofs, of LeanLM: a local
question-answering program over a corpus of documents
(`src/src/leanlm`, Python; paths below are relative to that directory).

The project states what the program guarantees: which calls may follow which,
what a failure leaves behind, what the threads of the workspace server and of
the llama-cli backend see of each other, what an ingest leaves in the corpus,
what happens to the passages and the answer of a request on their way, and what
a benchmark means. Texts are sequences of words, lines or positions; wording is
not modelled.

## 1. The system

| component | code | state it keeps | operations |
|---|---|---|---|
| State machine | `runtime/state_machine.py` | `state` | `transition`: ten states, a table of legal moves, RTS-001 otherwise |
| Inference context (IEC) | `contracts/iec.py` | immutable value, enriched by each stage | `evolve`, `with_stage`, `with_warning`, `with_error` |
| Pipeline | `runtime/pipeline.py` | none of its own | `run`: ten stages in order, failure handling, `stop_after` |
| Capabilities CAP-001..007 | `contracts/capability.py`, `packages/*/contracts.py` | policies, a model handle | precondition, `run`, postcondition |
| Runtime | `runtime/runtime.py` | `_loaded`, `_session`, `_document_ids`, the machine, the corpus, the backend | `load`, `ask`, `ingest`, `open_session`, `close_session`, `use_documents`, `status`, `close` |
| Sessions | `runtime/session.py` | sessions and their request counters | `create`, `next_request_id`, `close`, `cleanup` |
| Contract check | `runtime/dic.py` | none | `verify`: DIC-01 .. DIC-07 |
| Telemetry | `shared/telemetry.py` | spans of a request | `span` |
| Offline guard | `trust/offline_guard.py` | two patched functions of `socket`, violations | `__enter__`, `__exit__` |
| Corpus store | `runtime/corpus.py` | SQLite file, connection, two caches | `upsert_document`, `clear`, `context_package`, `corpus_checksum`, session and metrics rows |
| Workspace server | `apps/workspace/server.py` | lock, lazily built runtime | `ask`, `ingest`, `status` under the lock, `corpus` without it, stop |
| Backends | `packages/inference/{backends,contracts,cleaning}.py` | model handle, child process, two threads, a prompt file | select, `load`, `generate`, clean the output |
| Context optimization | `packages/context`, `shared/text.py` | none | intent, budget, noise and duplicate removal, merging |
| Evidence retrieval | `packages/retrieval` | none | off-topic gate, ranking, selection under the budget |
| Prompt and validation | `packages/inference/services.py`, `packages/validation` | none | cut the evidence, cite, ground, judge |
| Ingestion, understanding | `packages/{ingestion,understanding}`, `contracts/ddp.py` | the state of one document | describe, load, analyse, segment, store |
| Benchmarks, accuracy, scoring | `benchmarks`, two commands of `apps/cli.py` | runs, results, reports | run scenarios and probes on a runtime, aggregate, score |
| Sampler and metrics | `packages/performance` | peaks | `sample`, `reset` |
| Packaging, preflight, profiles, the other commands | `packages/packaging`, `runtime/preflight.py`, `runtime/profiles.py`, `apps/cli.py` | files | read or write once, print |

**How they interact.** Everything goes through one runtime object. `ask` calls
`load` (backend, machine), picks or opens a session (session manager, store),
enters the offline guard and hands an IEC to the pipeline. The pipeline moves the
machine and calls one handler per stage inside a telemetry span; document
discovery reads the store through its cache, and each capability reads what the
ones before it have added to the IEC. After the pipeline, in a `finally`,
the guard's report goes into the trace; then the metrics row is written, the
contract is verified and the machine goes back to READY. `ingest` takes one file
after the other through two capabilities and stores it in a transaction of its own.
The workspace server calls the same runtime from one thread per HTTP request; a lock
serialises all endpoints but one. The SQLite file is shared with other processes. The
benchmark harness and the accuracy evaluator call `ask` and change the runtime's document
selection and its `_loaded` flag between calls; the score reads the files they write.

**What is hard.**

- *Partial failure.* The pipeline catches `LeanLMError`; everything else leaves
  it at once, with the machine wherever it was. The next call starts from there.
  `ingest` clears, then stores document by document; any of them may fail.
- *Order.* `finally`, metrics after a failure, and the trace entry of the runtime
  happen after the stages that might want them. Duplicates are removed in the order
  in which the corpus lists them.
- *Interleaving.* One endpoint takes no lock, the server is stopped without it,
  and all threads share one SQLite connection, so that a `with connection:` of
  one thread commits the statements of another. A generation of llama-cli is a caller, two
  threads and a child with two pipes.
- *Timeouts.* The deadline of a generation is looked at between two characters; a
  second attempt may start while the first child is still there.
- *Caches.* Two caches that are filled some steps after the read they store, and
  emptied before the transaction that makes them wrong.
- *Numbers.* Token estimates of two counters, budgets with floors and caps, first
  passages that are taken whatever they cost, sensors that report 0.
- *Restarts.* Sessions live in memory, their rows and metrics in the file.

**What makes each component correct.** State machine: refusals only when a stage
is out of order. Pipeline: stages in order, nothing run without its
preconditions, failures visible. Runtime: a caller who gets a context back may ask
again; every call ends. Guard: patched exactly while the pipeline runs. Store: caches
equal the committed corpus, documents whole or absent. Server: one model, one call at a
time, nothing reported as ingested that is not stored, no request left hanging.
Backends: an answer is the whole output of a child that succeeded, nothing is left
behind, generation ends. Optimization: nothing said with a figure lost, no growth, no more context under
more pressure. Retrieval: evidence within the budget. Validation: what passes is
supported by the corpus. Ingestion: the corpus is what the report says. Understanding: the
units read in order are the document, each under its own headings. Benchmarks: a pass
means that every run was made and succeeded, a statistic that it was measured as declared.

## 2. Modules

| module | models |
|---|---|
| `StateMachine` | the ten states and `_ALLOWED` |
| `PipelineStages` | the ten stages; per stage the state it enters, and what its handler demands and adds |
| `InferenceContract` | abstract: what a caller may rely on about one request |
| `LeanLMRuntime` | `load`, sessions, `ask` step by step, failures, restart; implements `InferenceContract` |
| `CorpusStore` | the file, the transaction and the caches, as operators per statement |
| `Workspace` | the server's threads, lock and shutdown over `CorpusStore` |
| `PassageText` | counters, content words, shingles and overlap of `shared/text.py` |
| `ContextOptimization` | intent, budget, the four clean-up passes |
| `Retrieval` | off-topic gate, ranking and floors, one round of the greedy fit |
| `AnswerText` | the text of the simulated backend, cleaning of an output, grounding and verdict |
| `ResourceSampling` | the sensors with their fallbacks, peaks, the warnings of the metrics stage |
| `AnswerPath` | the data of one request through CAP-003 .. CAP-007, over the five above |
| `InferenceBackends` | selection, load, the flags of the command and `generate`, with the threads and the child of llama-cli |
| `Understanding` | structure analysis and segmentation of one document |
| `Ingestion` | `runtime.ingest` with CAP-001 and CAP-002, over `Understanding` |
| `Benchmarks` | harness, accuracy evaluator, disqualification and thermal deduction |
| `LeanLMRuntimeProofs`, `RuntimeContractProofs`, `WorkspaceProofs`, `AnswerPathProofs`, `BenchmarksProofs`, `IngestionProofs`, `InferenceBackendsProofs` | theorems |
| `FoldLemmas` | induction, least and greatest elements, folds and sums, for the proofs above |
| `MCLeanLMRuntime`, `MCWorkspace`, `MCAnswerPath`, `MCInferenceBackends`, `MCIngestion`, `MCBenchmarks` | values of the constants for TLC, symmetries |

The modules meet in what one assumes and another shows. `LeanLMRuntime` executes
one call at a time, and `Workspace` shows (`OneCallAtATime`, checked and
proved) that the server calls it so. It lets RET-002, CTX-003 and backend errors
happen at any time; `AnswerPath` and `InferenceBackends` say when they do. `Workspace`
ingests documents that always succeed or fail as a whole; `Ingestion` says how they
fail. `Benchmarks` sees the runtime from outside: loaded, usable, its selection.

Definitions whose comment starts with *Mutant:* are never part of a
specification. Each one is a definition with a plausible bug in it;
substituting it for the definition that follows must break the property that
`PROJECT.json` names beside it.

### LeanLMRuntime

A call is in progress when `pc` is not `"idle"`:

    idle -> loading -> session -> (stage -> handler)* -> exit -> record -> return -> idle
                                        \-> raise -> idle

| variable | code |
|---|---|
| `machine` | `StateMachine.state` |
| `loaded`, `current` | `LeanLMRuntime._loaded`, `._session` |
| `call`, `stage`, `pc`, `outcome` | arguments, position and result of the call |
| `iec` | the `InferenceExecutionContext` that `ask` holds, as the set of its parts, its stages, errors (none or one), warnings, trace keys, DIC verdict |
| `spans` | `Telemetry.records` |
| `guard` | active, and whether it refused a connection |
| `sessions` | the session manager, and which ids earlier processes have used |
| `rows`, `metricsRows`, `hasUnits` | tables `sessions` and `metrics`; whether the selection holds a unit |

A failed stage is recorded in the context exactly once, so `errors` is 0 or 1; the
warnings kept are the two a verdict or a stage is about (`over_window`,
`out_of_process`). `Faults` selects what the environment may do: `load`, `handler`
(the handler of any stage raises what is no `LeanLMError`), `store`, `kill`.

### CorpusStore and Workspace

A document is *absent*, *hollow* (its row, not all its units) or *whole*. `file` is
the committed content, `pending` what the connection inside a transaction sees.
Document ids come from the content of the file, so that one id always means the same
units and a package or a checksum can be modelled by the content it was read from.

`Workspace` cuts each request where other threads can come in between: waiting for
the lock, `_State.get` in three steps (test, assign, return), the cache test and
the fill of `context_package` and `corpus_checksum`, and `upsert_document`
statement by statement, each of which may fail, the `COMMIT` too. The constructor of the
runtime may raise (`GetFails`), and the model may not return from a question (`AskStalls`,
which is what `InferenceBackends` finds for a silent child). Stopping is four steps:
`serve_forever` returns, `close_session` runs on the shared connection, the connection is
closed, the process ends (`Exit`). A thread that touches a closed store gets an exception
(`HitsClosedStore`); the threads are daemons, so that the end of the process cuts them off
wherever they are and their connections roll back.

### AnswerPath and the modules under it

A text is the sequence of its words and its length in characters; a word is a model
value of which the constants say whether it is ignored (stop words, single
characters), is a group of digits or a sign that may stand between two groups, has the stem of another or
belongs to a marker list. A figure is a run of such groups and signs, read without its spaces (`Numbers`). Ratios
are in hundredths and rounded down; a BM25 weight is any of a few numbers that is zero exactly
when the unit has none of the terms, so every ranking the weights can produce is a behaviour. `stage` is
the capability that works next; each action is one capability, except selection, which is
one action per round of the greedy loop (`SelectBest`, `FinishSelection`).

A machine whose backend is `"simulated"` answers out of its prompt: `Simulated` quotes the first three
sentences of the first excerpt with its label, or refuses in the words the prompt prescribes. Evidence that
the character limit has cut off entirely leaves it the question alone, which it then repeats.

`Hosts` are states of the sensors: what `/proc/meminfo`, a thermal zone or `psutil` would say, each
possibly absent. `Sample` turns a host into an observation with the fallbacks of the code, 0 where
nothing could be read. The runtime's one sampler keeps the peaks: `Ask` resets them, and each
stage whose span ends samples once more (`EndsStage`), so that `peak` is the hottest reading since the
request began. The last stage compares it with the policy (`FinalizeMetrics`, `Warnings`).

### InferenceBackends

`pc` is the line of `generate()` the calling thread is at; `run[g]` holds what
belongs to generation `g`: the child, its two pipes, the drainer, the ticker and the
prompt file. Characters are counted, stderr lines are `"log"` or `"invalid argument"`. Time
is the flag `late`, raised at any moment after a generation has begun. A request is up to
two generations: `_infer` calls again after a `TypeError`, which backends without streaming
hooks raise at once and a hook may raise later. The other backends are one step each.

`Builds` are the builds of llama-cli there can be, each the set of flags it accepts; `cli` is the one
installed and what its `--help` has brought: its flags, nothing after an exception or a timeout, or the text
of an error, which the code takes for a list of flags (`ErrorTexts`: the flags that such a text names). The
backend object asks once and keeps the result for good (`AsksForHelp`). The flags in `FixedFlags` are in every
command and never asked for, so that a build may lack one. `Command` is the flags `_build_command`
takes from it; a child complains about a flag its build does not know and fails (`Refuses`).

### Ingestion and Understanding

`disk` is a function from paths to files that may be edited or removed between any two steps;
`store` maps document ids (the content of a file) to units. One action each: collecting the
paths, clearing, describing, loading, storing, reporting; `Dies` is an exception that is no
`LeanLMError`. A line is a record of its class, its token count, whether it ends a sentence or is long and, for a
heading, level and title; a text of several sentences in one line stands as one line for each, so that a sentence is a run of lines
none of which but the last ends it (`SameSentence`), and the tokens of a text are the sum of those of its lines;
a block and a unit hold the positions of their lines, so that what was lost, repeated or
moved can be seen. All of `Understanding` are operators, evaluated once per document.

### Benchmarks

`runtime` is the part of the runtime the harness touches: loaded, usable (an unexpected
exception behind the first stages leaves it in flight for good), the selection. A request ends as an answer with a
reading of the sensors, as a refusal or as a crash. The three nested loops of a scenario are one
counter: `Planned` is how many requests they make, `QuestionOf` and `IsWarmup` say what the k-th of
them is; `runs` is what has happened of the plan.

## 3. Runs

All with breadth-first TLC. `S` sessions, `R` requests per session, `T` threads,
`D` documents.

| run | bounds | question |
|---|---|---|
| `RuntimeFaults` | 2 S, 2 R, all faults | Whatever fails, and in whatever state earlier calls left the machine: order, readiness, guard scope, failure transparency, DIC verdict, the IEC only grows, the contract is implemented; a failed load is final |
| `RuntimeHealthy` | 2 S, 2 R, kills only, stops before inference | LeanLMErrors leave no mark: the machine rests between calls, the current session is open |
| `RuntimeProgress` | 1 S, 2 R, all faults | every call ends |
| `WorkspaceServer` | 3 T, 1 D, 4 runtimes, cold or warm, stop | what the lock guarantees: a fresh checksum, answers from the committed corpus, one call at a time, no orphaned transaction, whole documents, nothing reported that is not stored |
| `WorkspaceShared` | 2 T, 1 D, 3 runtimes, stop, another process writes | old answers are possible, answers from half documents are not, and every request ends while the process lives and the models return |
| `AnswerPath` | corpora of 1 or 2 of ten passages or 3 of five, 3 questions, 4 machines, 5 states of the sensors, 11 outputs | what is said with figures survives optimization, growth is rounding, pressure lowers the budget, evidence fits it, a pass is supported, heat that cuts the budget is reported |
| `LlamaCli` | pipes of 1, 2 characters, 2 lines, 2 generations, 4 builds, a `--help` that may fail in silence or with one of 2 texts, hooks that raise either kind | an answer is whole, a rejected flag is named and is none that a build was heard about, nothing is left behind, generation ends |
| `Ingestion` | 2 calls of 6 kinds over ten files, edits, SQLite errors | the corpus is what was reported |
| `Segmentation` | all documents of up to 4 lines of twelve kinds and of 5 lines of seven | no line lost, repeated or moved; sections kept; sizes kept as far as sentences can be cut |
| `Benchmarks` | 6 campaigns of up to 2 scenarios, 6 machines, all pairs of probes | a pass, a statistic, an accuracy and a disqualification mean what they say |

Some guarantees hold up to a request that breaks them, and say so:
`ChecksumFreshUnderLock` until somebody asks for `/api/corpus`, `DocumentsStayWhole`,
`AnswersWhole` and `IngestedIsStored` until a server that has answered a question is stopped.
`AnswersFromCommitted`, `OneCallAtATime` and `TransactionOwned` hold with the unlocked
reader and the shutdown included; the first needs that no other process writes (without
that `AnswersWhole` is what is left: the package cache of a process does not see the
commits of another one).
`FiguresStayWhole` excepts exact duplicates of an earlier passage with other figures, `NothingLeftBehind` is about generations that do
not end in a foreign exception. `RejectedFlagIsNamed` and `NothingLeftBehind` except a drainer that takes more than the two
seconds it is given (`missed`), `FlagsFitTheBuild` an answer after a `--help` that printed an error. What `SectionsKept` says of paths is about documents that skip no heading
level; that a unit stays in one section, and `UnitsFit`, are about documents that repeat no title. `UnitsFit` also
needs limits that leave each other room (`LimitsAgree`), as the defaults of `SegmentationPolicy` and all four
files of `configs/runtime` do, and leaves units alone that hold a sentence above the target (`LongSentence`). Section 4 says
what happens to the others.

**Why these bounds.** One session with two requests shows what a first request leaves
to a second; two sessions show a closed, a current and a passed session side by side, and
a restart between them. Three threads are a reader, a writer and one that comes
in between; the known races need two or three. Each request builds at most one
runtime, and one may be there before: one runtime more than threads never runs
out. One document is enough because the store's operations touch one
document at a time and treat all alike, and a document has three contents;
ingesting it again after it was reported is the second write. `StopStages`
has one stage of each kind: before the machine moves, where the CLI stops,
after the model has run.
Three passages are one kept, one duplicate of it and one that is a duplicate of
the duplicate only, which is what a relation that is not transitive needs; the ten contain
each kind of unit the passes tell apart, and lengths on both sides of the merging threshold, the
budget and the evidence limit. `NearDuplicate` is 50 instead of 92 because passages of five or six words overlap
less than real ones; the other policies have the program's values. A pipe that holds one
element blocks as soon as a real one could, two lines and two characters fill it, and two generations
are all a request can have. Five lines are a heading with a sibling, text before and
after, and a line that overflows; the limits of the segmenter are scaled to lines of up
to five tokens. A campaign of two scenarios shows what the first hands to the second.

Symmetry is used in safety runs only; ids, threads, handles and documents are
interchangeable. Deadlock checking is off where the system ends normally: when all
requests of `Workspace` are served, when `InferenceBackends` has used up its generations,
when the calls of `Ingestion` are done and when a command of `Benchmarks` has finished. The
runs of the runtime and of `AnswerPath` check it.

**Fairness.** `RuntimeProgress` assumes that a call that has begun goes on
(`WF(Progress)`); callers owe nothing. For model inference that is the backend's promise to
return, which `LlamaCli` looks into: there the caller, the drainer and the ticker are
scheduled, the deadline arrives, and a child that has not stalled goes on writing or exits. A child may
stall at any time, and nothing is claimed then: the deadline is looked at only after a
character has arrived, so the caller waits with the silent child. `on_progress` may take as long as
it likes. `WorkspaceShared` assumes that every thread is scheduled
while the process lives (`WF` of each thread's steps, `Runs`) and not that a model returns: a question may
stall, and then holds the lock under which the others wait. `RequestsEnd` says so, and so is the
end of the process excepted. The lock needs no fairness: a finite number of requests
wait, each takes it once.

## 4. Where the program does not do what the repository says

Two disagreements have a run in which TLC produces the history.

| run | code | said in |
|---|---|---|
| `FindTwoModels` | the unlocked endpoint builds a second runtime, both load | `apps/workspace/server.py:13-14` |
| `FindUnpenalised` | the temperature of a run never reaches the score: the harness does not aggregate it (`benchmarks/harness.py:30-35, 204-238`), so the thermal deduction cannot apply | `benchmarks/scoring.py:53-54`; `tests/submission/test_scoring.py:126-131` uses a campaign written by hand |

The others were met while modelling. The models contain the behaviour, and the properties
are stated with it or beside it; no run is spent on them.

- A failed `load` leaves LOADING; all later calls get RTS-001 with no stage out of order
  (`runtime/state_machine.py:3-4`; `FailedLoadIsFinal` states it).
- `stop_after` at model inference or later raises RTS-001 (`runtime/pipeline.py:74-76`,
  `runtime/state_machine.py:35`; `ReturnImpossible`).
- A refused connection leaves `ask` as an exception, and the context with the report is lost
  (`trust/offline_guard.py:3-5`, `docs/TRACEABILITY.md:55`; `Unwind`).
- The backend's name enters the trace after the stage that reads it, so that the out-of-process warning never
  appears (`packages/performance/contracts.py:70-74`, `tests/pipeline/test_end_to_end.py:196`; `MetricsWarnings`).
- The unlocked endpoint caches the checksum of a corpus that is gone (`runtime/corpus.py:84`; `ChecksumKept`).
- Stopping commits a half-written document, and a question that has waited for the ingest is then answered
  from it (`tests/integration/test_runtime.py:51-56`; `CloseSession` of `Workspace`).
- Exact duplicates are compared by their content words, and a digit that stands alone is none: "5 500" replaces
  "9 500", and "5 days" replaces "9 days" (`packages/context/services.py:273`, `shared/text.py:107`, against
  `:29-31`). `FiguresStayWhole` was first stated for figures of one word, and then for all; it holds for
  neither, and now names the passages that are lost so (`LostToTwin`).
- "answer" without a colon counts as the announcement of the answer: what stands before it is cut off
  (`packages/inference/cleaning.py:133-166`, against `tests/capability/test_cleaning.py:149-154`).
- A hook that raises leaves the child running, and a failing `Popen` leaves the prompt file
  (`packages/inference/backends.py:422`; `HookRaises`, `SpawnFails`).
- A `--help` that fails and says why is kept as the list of flags, as nobody looks at its return code: no flag
  is supported for the life of the process, the child starts in conversation mode, and nothing fails loudly
  (`packages/inference/backends.py:305-311`, against `:283-288` and `:316`; `AsksForHelp`). `FlagsFitTheBuild`
  leaves the answers of such a child alone.
- A file edited between its checksum and its reading is stored with the new text under the old id
  (`packages/ingestion/services.py:137`; `Edited`).
- "Never fold across a heading" (`packages/understanding/services.py:218`) holds for headings of different
  titles only: the test at `:213` compares paths, so that a small unit joins the one before it across two
  sections of the same title. A document of small sections with one title then becomes a single unit
  without any limit of size. `UnitsFit` was first stated for these documents too; it turned out
  not to be inductive (`Foldable`).
- `max_tokens` limits sentences only: an oversized text is cut where `sentences` finds an end of sentence or an empty
  line (`shared/text.py:27`, `packages/understanding/services.py:257-270`), and a table, a list or a listing whose
  lines end without one of `. ! ? ; :` is a single sentence and becomes a unit of any size. `UnitsFit` was first stated for a
  `SplitOversized` that cut at every line; it now excepts such sentences (`SameSentence`, `LongSentence`).
- Only the first question of a cold scenario starts cold (`benchmarks/harness.py:116-122`; `Slot`).
- Each sample of the memory falls back on its own and then reports 0 (`packages/performance/services.py:84-102, 181-194`),
  and the mean of a campaign includes these zeros: 0 and 400 MB of free memory make 200, which is below the margin of
  256 and disqualifies a campaign in which no run was (`benchmarks/scoring.py:140-157`, against `:143-148`). "Never evidence of
  failure" was first stated for machines on which a sensor answers in all runs or in none;
  `SilenceAloneNeverDisqualifies` says what holds on all.
- The naive baseline removes warm-ups as a prefix of a list in which they are interleaved
  (`benchmarks/naive.py:139`); the baseline is not modelled.

## 5. What is proved

`LeanLMRuntimeProofs`, for every set of sessions, every bound on requests, every
choice of stop stages and faults, with or without enforcement; the only assumption
is `RuntimeAssumption` of `LeanLMRuntime`.

- **Type correctness.** `TypeOK` is not inductive: opening a request needs room in its
  session, a handler needs a stage between 1 and 10, and leaving the pipeline
  needs a context that belongs to a request. `TypeInv` adds the three (`Room`, `AtStage`,
  `Identified`). Theorems `TypeCorrect`, `TypesHold`.
- **The guard.** `GuardScope` is inductive over `TypeInv`: it relates `guard` to `pc`
  and every action moves both. Theorem `GuardIsScoped`.
- **Readiness.** `ReadyInv` carries `ReturnedMeansReady` back to the steps before the
  return: with no stop stage, a request at `exit` or behind has a machine that is
  COMPLETED, FAILED or has been abandoned, and an exception never counts as a
  return. Theorem `ReturnedIsReady`.
- **The pipeline.** `PipelineInv` says, at every control point, how far the request has
  come: the reported stages are exactly those before `stage`, all completed; their
  parts are in the context; spans and stages agree. A failed stage is the last one.
  The three theorems `StagesRunInOrder`, `PreconditionsAreMet` and
  `FailuresAreTransparent` follow from it.

`RuntimeContractProofs`, under the same assumption.

- **Refinement.** Under the mapping stated in `LeanLMRuntime`, every step is one of
  `InferenceContract` or none. `ShownInv` adds what the mapping needs to `PipelineInv`: no request
  means no context, an exception leaves before anything has failed, the pipeline has not passed
  its stop stage, and a session that does not exist has opened nothing. One lemma per step of
  the contract (`ContractOpens`, `ContractReports`, `ContractCompletes`, `ContractForgets`),
  and two for the steps it does not see. Theorem `RuntimeImplementsContract`.
- **Enrichment.** `ContextSteps` says what a step can do to the context at all: a handler, nothing,
  dropping it, or a new one in the place of none; `StageKeeps` settles the handlers. Theorem
  `ContextIsEnriched`.

In the same module, what a call leaves behind: the first two theorems under the same
assumption, the last two where the
environment does not fail in the way the theorem names.

- **A failed load.** A machine that is LOADING has no model (`LoadInv`), and LOADING does not
  lead to itself. Theorem `FailedLoadStays`.
- **The verdict.** `ReportableInv` carries the absence of breaches from the guard to the context, and the
  metrics of a completed request from stage 9 to the return. Theorem `VerdictsAreTwo`.
- **Without store failures** (`"store" \notin Faults`): theorem `CurrentStaysOpen`.
- **With kills only, and nobody abandoning a request after inference:** `MachineInv` gives the state of the
  machine at every point of a call, so that no transition is ever refused. Theorem
  `RefusalsLeaveNoMark`; with a failing load, or a later stop, it is false.

`WorkspaceProofs`, for every number of requests, runtimes and documents, with or
without other processes and the shutdown; the only assumptions are
`WorkspaceAssumption` of `Workspace` and `StoreAssumption` of `CorpusStore`.

- **Types and the lock.** `TypeOK` needs to know that a thread that touches the store has
  been given a runtime and a document (`Placed`). Mutual exclusion is
  `LockInv`: whoever is inside a body is the one in `lock`, and the requests without the
  lock never reach the steps of the others. `Inv` is their conjunction; the lemmas
  `OneThread` and `OneMove` reduce a step to the one record it changes. Theorems
  `WorkspaceTypes`, `LockExcludes`.
- **Transactions.** `TransactionOwned` is inductive over `Inv` once it also says that the
  connection is open (`TransactionInv`): otherwise the owner could run into a closed
  connection with the transaction still there. Threads that are not writing leave the
  transaction alone (`QuietSteps`), a write moves its thread on (`WriteSteps`), and what
  may follow a write ends it (`WriterSteps`). Theorem `TransactionsAreOwned`.
- **Caches,** while no other process writes (`~Outsiders`). What a cache holds is right because of who may
  still fill it: a runtime that is not the server's yet is blank and nobody else's (`UnusedInv`), the
  runtime at work is fresh and any other one blank (`FreshInv`), caches stay blank while a document is
  written (`WriterInv`), and what a thread has read and not yet stored is what is committed (`SeenInv`).
  A reader without the lock takes the checksum out of all four, which is what `NoReader` says. Theorems
  `AnswersAreCommitted`, `ChecksumsAreFresh`.
- **Documents,** also beside other processes. A writing connection sees the corpus and its document as far as
  it has come (`PendingInv`), so that every commit adds a whole one; nothing half-written is committed,
  cached or read (`WholeInv`); closing commits nothing as long as no model was loaded, and models are loaded
  for questions (`LoadedInv`). Theorems `DocumentsAreWhole`, `AnswersFromWhole`, and without other
  processes `StoredForGood`.

`AnswerPathProofs`, for every corpus, question, machine, counter and output. The assumptions are those of the
modules under it: every word is in `WordOrder`, a text has at least as many characters as words, a corpus is a
sequence of units and an output one of words, each with a length (`TextAssumption`, `PathAssumption`,
`OutputAssumption`).

- **Evidence.** `EvidenceFitsBudget` is inductive together with `StartsEmpty`: nothing is
  chosen before the selection begins, so the first round meets an empty list and every later one
  passes the check of the greedy fit (`BudgetInv`). What the operators compute for budget, units and costs
  plays no part in this one. Theorem `EvidenceWithinBudget`.
- **The budget.** Each of the three factors is a share and grows with a calmer machine, so does the
  least of them, and rounding down, the caps and the floors keep the order (`BudgetGrows`); what
  output and overhead leave of the window bounds the evidence (`WindowHolds`). The invariant adds
  only that the budget in force was computed from the question and the readings of this request
  (`BudgetIsComputed`). `PathAssumption` says that sizes and readings are whole numbers. Theorem
  `BudgetIsMonotone`.
- **Heat.** `HeatInv` keeps the peak above the observation from the stage that made it on, through every
  sample after it, and the warnings those of that peak. A budget that was cut for heat was cut at the
  threshold of `BudgetPolicy`, which is the one `PerformancePolicy` warns at; nothing but these two
  numbers in two files makes it true. Theorem `HeatIsKnown`.
- **Support.** `SupportInv` follows a passage from the corpus to the verdict: the units, the ranked pool and the
  chosen evidence are `Sourced`, which means that their words are words of their document, and merging two
  units of one document keeps it so; ranking only permutes, selection only takes away. Nothing is gathered for a
  question that is off topic. A verdict that passes was given on the evidence there is, and a judged sentence then shares
  a gram with a passage. Theorem `PassesAreSupported`.
- **Figures.** The invariant says no more than that the units are what `Optimize` makes of the corpus
  (`FiguresInv`); the work is in its folds, followed position by position: a near duplicate
  has the figures and the topic of the one it duplicates, whichever of the two is later (`NearKeepsFigures`); of exact
  duplicates the first one stays (`ExactKeepsFirst`), and unless it is a twin with other figures it has the same ones;
  words that stand in a row still do in the merged text (`MergeKeepsWords`). `AtInOrder` says that a sequence keeps its
  order when positions are removed. Theorem `FiguresSurvive`.
- **Growth,** for a corpus stored with the heuristic counter. Removing units removes tokens (`FewerTokens`), and
  two texts joined cost at most one token more than apart, as both shares round up (`JoiningIsRounding`,
  `MergingIsRounding`). With a model's tokenizer in one of the two places nothing of the kind holds.
  Theorem `GrowthIsBounded`.

`BenchmarksProofs`, for every campaign, evaluation file and set of sensors.

- **Campaigns.** `CampaignInv` keeps, for every result, that it was made of the scenario at its
  position from as many runs as were planned and judged on them, and for the runs under way that
  only an answer is a success (`RunsHonest`). Theorem `PassMeansEveryRun`.
- **Conditions.** A statistic is about finished runs, but what they found was left by the scenario before.
  `ConditionsInv` keeps, while a scenario is under way, that its selection is in force, that nothing has
  been loaded before the first run of a cold start, and that the question asked last has the model loaded
  or the runtime stuck (`UnderWay`). A measured run that is not cold comes after a run of the same question
  as soon as there are warm-ups (`MeasuredIsNotFirst`, by the arithmetic of the plan), so it finds the
  model loaded. `CampaignAssumption` holds what the harness makes of its arguments. Theorem
  `RunsAreAsDeclared`.
- **Means.** `ReadingsInv` keeps that there are finitely many measured runs and that each has a reading of
  the one machine in use. A sum over them is zero when all are silent, and lies between their number times
  the least and the greatest otherwise (`TotalWithin`), so that no mean crosses a limit that no run has
  crossed. `SensorAssumption` says no more than that readings are whole numbers and that the 0 of a silent sensor
  is one of them. Theorem `SilenceAloneIsNoFailure`.
- **Accuracy.** `EvaluationInv` keeps that every probe so far was judged by `ProbeResult` on what
  was answered; two lemmas say what a verdict means. Theorem `AccuracyCountsAnswers`.

`IngestionProofs`, for every folder, edit of its files while a call runs, sequence of calls and
policy of the segmenter.

- **Reports.** `ReportIsCorpus` speaks of a call that has ended. `ReportInv` carries it through the call:
  every file before the one in work is ingested or failed (`FilesCounted`), what was ingested is
  stored, and with `replace` nothing else is (`StoreMatches`). What the segmenter makes of a text
  plays no part in this one: it yields units or none. Theorem `ReportsAreTrue`.
- **Refusals.** The answer COR-002 can only come from the call's first step, which is before the corpus
  is emptied. Theorem `RefusalsKeepCorpus`.
- **Documents.** The corpus holds nothing but what `BuildStructuredDocument` makes of the lines stored with
  it (`DocumentsInv`). What that is follows from one invariant per fold, carried from element to element:
  the blocks read so far hold the lines so far in order, each once, and its headings apart (`Kept`, `ReadUpTo`);
  the sentences of a text are all of it in its order, each a run of lines that go on (`SentencesOf`); a text that is split is
  cut between them, not changed, and two pieces in a row are more than one piece may hold (`Cut`); units that
  take a text in, in pieces or whole, folded or not, have taken exactly that text (`Taken`, `TakenWhole`).
- **Segmentation.** Over the blocks so far, three invariants. `Whole`: units and collected blocks are their
  prose in order. `Sectioned`: the path is that of the headings so far, and everything collected is under the last
  of them; that a heading extends the path as `TitlesAfter` says is where a document may skip no level
  (`WellNested`). `Sized`: no unit is too long, and the one the next small piece would be folded into has room
  for it; a new heading makes a new path, as no path so far ends with its title, so nothing is folded into what was
  there before it. Pieces of one text need the limits to agree: the one before a small piece is not small itself, for the two
  are above the target, so the small one is folded into a unit that is that piece. Theorems
  `LinesAreConserved`, `SectionsAreKept`, `UnitsAreFit`.

`InferenceBackendsProofs`, for every size of pipe, length of output, number of generations and
whatever the hooks raise.

- **The pieces of a generation.** `Orderly` keeps what holds of every generation, also of those
  whose child or ticker outlives its call: each line the child has said is in the pipe or with the
  drainer, and a drainer that has ended leaves an empty pipe and a child that is gone.
  `GenerationMoves` settles all steps of child and threads at once: they move one generation, within
  `Moves`.
- **The calling thread.** `CallInv` says, at each `pc`, what that thread may rely on: once it waits,
  all output has been read and the child writes no more; behind the `finally`, no outcome means a
  child that has exited. At `judge` the drainer has ended or was given up, unless a hook has raised.
  `Left` is what remains once the call is over, and stays while the threads of earlier calls go on.
  Theorems `AnswersAreWhole`, `RejectionsAreNamed`, `NothingStays`.
- **The flags,** for every set of builds. `FitInv` adds to what a generation is that its child was started
  with a command made after the help had been asked for, complains about a flag only if its build does
  not know one, and fails then; and that a `--help` that worked has named what the build accepts of `Probed`. The
  rest is the selection of the flags: a command without a way out of conversation mode comes from a text that names
  none (`CommandIsComplete`). Theorem `FlagsFit`.

`FoldLemmas` serves the modules that compute with data. The library's induction theorems take an
operator as a parameter, which the provers cannot instantiate; stated about a *set* of numbers that
holds 0 and every successor, induction can be used, and follows from the library's theorem about the order of
the naturals (`Induct`, `InductTo`). From it: among finitely many positions one is highest
(`HighestOf`), `Min` and `Max` are what they should be, the recursive equation behind the folds of the
community modules has a solution (`FoldExists`), a fold over a sequence is the last of a row of states each of which
is a step from the one before (`FoldSolves`, `FoldSteps`), and a sum is bounded by its terms (`SumWithin`).
`AnswerPathProofs` unfolds the passes of optimization with it, `IngestionProofs` every pass over lines, blocks and pieces.

`PreconditionsAreMet` and `RefusalsKeepCorpus` state properties that no run spends its time on any more.
Each other invariant is first checked by the runs through what it implies, and its proof has one
step per action.

**Model-checked only.** Liveness (`CallEnds`, `RequestsEnd`, `GenerateEnds`), which is out of the
prover's reach. Every safety property a passing run checks is also a theorem.

## 6. Not modelled

- Field contents of the metrics: DIC-02, the evidence half of DIC-04.
- Timings, token rates and ratios of the metrics, the simulation warning; durations; the event bus; logging; wording of
  templates, prompts and pages.
- Text normalization, language detection and the patterns behind the classes of lines and words:
  the models take the classes the code tells apart.
- Sampling parameters, and the HTTP protocol and the loopback check of llama-server.
- The resource sampler's thread: no component starts it.
- `remove_document`, which no component calls.
- Two offline guards at a time: `LeanLMRuntime` has one; each guard of a second runtime would
  restore what it found, and leaving in the order of entering leaves the first guard's function in `socket`.
- The naive baseline, the regression comparison, the profiler and the sums of points: arithmetic
  over finished results.
- Packaging (files and a shell script written from finished results), serialization, profiles,
  configuration, preflight, the page of the server, the commands that only print: no state machine.

## 7. What is left

- An abstract specification of the workspace server, in which every request is one step on a corpus of
  whole documents, and `Workspace` shown to implement it until the server is stopped.
- Parts that have hazards and no model: the naive baseline, the download script that packaging writes, two offline
  guards at a time.
