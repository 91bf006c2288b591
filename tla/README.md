# TrajCert: a verification development in TLA+

TrajCert is a command-line program (`src/src/trajcert`) that runs a catalog of scientific
experiments over a configuration, keeps every result under `outputs/` with records that let a
later command reuse it, draws a statistical synthesis from all of them and exports the rendered
tables and figures to `results/`. It makes two promises. A command that is issued again "resumes
from the nearest valid checkpoint" (`src/README.md`), and what it resumes from is evidence of the
present configuration. And the scientific verdicts it publishes follow from the evidence: bounds
are bounds, a certificate is not revoked by accident, a failed check reaches the tables.

This directory states both and checks them: TLA+ modules, TLC runs on small instances, and TLAPS
proofs for every value of the constants of the ten parts everything else stands on.

All source paths below are relative to `src/src/trajcert/`.

## 1. The system

One command is one process (`cli.py`). Commands share nothing but the workspace: configuration
and lock file, `outputs/` and `results/`. No file is ever locked. A run of an experiment may
hand cells, and a cell may hand batches of seeds, to a pool of processes.

| component | state it keeps | operations | what makes it correct |
|---|---|---|---|
| Cell runner (`experiments/runner.py`) | per cell: `completion.json`, `artifact_index.json`, the scientific artifacts, `running.json`, `failure.json` | `run_cell`: reuse, or withdraw, execute, index, complete, with three exits | completion is written last and vouches for what is there; what is returned is what status reads; a crash costs no more than the attempt |
| Records and compatibility (`experiments/artifacts.py`, `models.py`) | the records' digests of configuration, dependencies and artifacts | `completion_is_compatible`, `cell_dependency_material`, `verified_upstream_completion_and_index` | stale or damaged evidence is never taken for current, valid evidence never recomputed |
| Status (`experiments/status.py`) | none; reads the files of a cell one by one | `inspect_cell_status`, `aggregate_experiment_status` | what it reports of a cell that is being run was true at some moment |
| Workflows (`experiments/workflows.py`) | the command's plan, context, readiness of dependencies, tally | `run_experiment`, `experiment_status`, `preprocess`, `report` | gates open exactly when the dependencies are completed; run and status agree |
| Batched recovery (`experiments/checkpointing.py`) | per batch a result file and a checkpoint record; the pool and its futures | `_recovered_batches`, `_recover_batch` | batches of one configuration, every seed once, in order |
| Synthesis gate (`experiments/synthesis.py`) | source data, all or nothing | `synthesis_dependency_fingerprint`, `execute_statistical_synthesis` | one configuration's evidence, and the present one's |
| Storage (`storage.py`) | temporary file, name, directory | `atomic_replace`, `atomic_write_bytes` | whole or not at all, durable once returned as far as its directory is |
| Report export (`reporting/export.py`) | `results/`, a staged tree, a backup beside the target | `export_report`, `replace_tree`, `validate_results_layout` | published trees are whole, of the sources they name, and survive a failing replacement |
| Configuration, plan, dispatch (`config.py`, `experiments/plan.py`, `catalog.py`, `dispatch.py`, `provenance.py`, `paths.py`) | none; four readers of one configuration | validators, `build_experiment_plan`, the handlers, the cell directories | what one accepts the next can execute; two cells never share a directory unnoticed |
| Preparation (`data/real_trajectories.py`, `experiments/real_trajectory.py`, `workflows.preprocess`) | prepared cohort, eligibility report, law inventory | `preprocess`, the cell's summary at a horizon | what is left alone as current is what would be written; every row accounted for |
| Event ledger, maturity, partitions (`data/`) | the stream of matured events | `mature_ledger`, `finest_band`, coarsening | each event in one band, in the order of maturity, none before its time |
| Anytime certification (`inference/confidence.py`, `envelope.py`, `certification.py`, `experiments/anytime.py`, `power.py`) | counts, running regions, a stream's record | `confidence_sequence_update`, checkpoints, combination of batches | regions only shrink, a stream whose regions cover is never wrong, evidence adds up |
| Projection (`inference/projection.py`) | a queue of boxes, an incumbent, caps | three best-first searches | whatever stops the search, the bound returned is one |
| Solver and population experiments (`math/`, `experiments/safety.py`, `timing.py`, ...) | a bracket; the answers of a cell | `solve_hidden_mass_interval`, nine executors | roots are sharp however the bisection ends; verdicts of the same answer agree |
| Publication rows (`reporting/publication_rows.py`, `supplementary_rows.py`) | none | joins and folds of the evidence | a failed comparison reaches the tables, on its own row |
| Command line, telemetry, tables and figures | none | parsing, printing, drawing | not modelled |

Interactions: `run_experiment` asks status for the readiness of the dependencies and takes its
configuration **once**, then takes a context per cell from the files that are there when its turn
comes, the lock file among them, and calls `run_cell`, or hands the call to a pool whose workers load
the configuration again; `run_cell` calls an executor, which for two experiments goes through batched
recovery and for the synthesis through the gate; the executors of streams call the projection at every
checkpoint, those of the population experiments the solver; every write of every component is an
`atomic_replace`; a completed synthesis is rendered; a report demands the synthesis, copies what is
rendered and replaces trees. `preprocess` writes what the real-trajectory cells read without a look at
its inventory.

The hard behaviours, listed with their lines under `hazards` in `PROJECT.json`: processes that
raise, are interrupted or are killed between any two file operations; the configuration edited
between two reads of it; a status command reading while a run writes; batches finishing in any
order and raising in the middle; readiness read once and used much later; two renames and a
recursive removal that are not one step; searches that stop at a cap, a stall or an arithmetic
error with a box in hand; tolerant and exact comparisons of one number in different modules; entries
found again by name; verdicts folded on their way to a table.

## 2. The modules

| module | models | composes |
|---|---|---|
| `PublishedResult` | what a reader of a cell may rely on: nothing, or one whole publication of one configuration | abstract specification of `CellRunner` |
| `CellRunner` | `run_cell`, one file operation per action | `INSTANCE PublishedResult` |
| `StatusInspection` | a second process in `inspect_cell_status` | extends `CellRunner`, interleaves with it |
| `BatchRecovery` | `checkpointing.py` with its pool | stands for the executor of a coverage or power cell |
| `ExperimentPipeline` | commands over root, ordinary experiments and synthesis | an attempt of a cell is `CellRunner` coarsened to result, index, completion |
| `ReportTree` | rendering, `export_report`, `replace_tree` | starts where `ExperimentPipeline` ends, with a synthesis that completed |
| `AtomicReplace` | `atomic_replace` under power loss | the assumption every other module makes of a write |
| `PreparedCohort` | rows, eligibility, strata, summaries at a horizon | |
| `Preprocessing` | `preprocess` and the cells that read what it wrote | extends `PreparedCohort` |
| `Certification` | `classify_certification` | used by the three below and the populations |
| `BoxSearch` | boxes, their interval bounds, splitting | |
| `RiskProjection` | `project_upper_risk` box by box | extends `BoxSearch`, `Certification` |
| `EventLedger` | ledgers, bands, order of maturity, counts, coarsening | |
| `ConfidenceRegion` | raw and running regions, envelopes | extends `BoxSearch`, `EventLedger` |
| `AnytimeMonitor` | coverage, power and trace streams and their evidence | extends `ConfidenceRegion` |
| `InformationProfile` | population quantities over a profile of given shape | extends `Certification` |
| `HiddenMassSolver` | `solve_hidden_mass_interval` step by step | extends `InformationProfile` |
| `PopulationExperiments` | nine executors and the oracle they compare with | extends `HiddenMassSolver` |
| `StudyPlan` | when a configuration is accepted, its cells, their directories | |
| `PublicationRows` | every row with a verdict, and the joins for the figures | extends `StudyPlan` |
| `Campaign` | a study from its configuration to its publication data | extends `PublicationRows` |
| `CellRunnerProofs`, `AtomicReplaceProofs`, `BatchRecoveryProofs`, `ExperimentPipelineProofs`, `PublicationProofs`, `PreprocessingProofs`, `AnytimeMonitorProofs`, `NumericalKernelProofs` | proofs | each extends its module and `TLAPS`; `CellRunnerProofs` extends `StatusInspection`, which has the runner in it; `NumericalKernelProofs` is about `RiskProjection` and `HiddenMassSolver`, `PublicationProofs` about `ReportTree` and `Campaign` |
| `MC...` | instances for TLC | `MCNumericalKernel` holds `RiskProjection` and `PopulationExperiments`, `MCPreparedFiles` `Preprocessing` and `AtomicReplace`, each behaviour running one of the two |

### CellRunner and PublishedResult

The five files of the cell are the variables `completion`, `index`, `artifact`, `running` and
`failure`; a file that is not there is `NoFile` and one that cannot be read as what it should be
is `Damaged`. `pc` is the process's place in `run_cell`: `InTry`, `InHandler` and `BeforeTry` name
the regions that decide what an exception does there. `command` is what the run was given: `ctx`,
the context whose digests the command took, `cfg`, what the executor computes from, `pooled` and
`overwrite`. A digest is the value it is a digest of, so a comparison of digests is a comparison of
values; an artifact's content is the inputs it was computed from and a `salt` for everything two
executions may differ in, timings above all. Every write may raise *after* its file is in place,
since `atomic_replace` still synchronises the directory and reads the digest back: this is why a
failed run has to retract a completion of its own. `ErrorInTry` is a call that raises before it has
any effect, `Propagate` an interrupt or an error outside the try block, `Kill` the end of the
process. `Damage` and `EditInputs` happen at any moment. `WorkerLoadsConfig` is the second read of
the configuration in a pool worker (`workflows.py`, 576).

`PublishedResult` has one attempt at a time, which names the inputs it was started under and
computes from those, or, if it loads its inputs for itself, from what it has loaded last. The
mapping takes `ctx`, `cfg` and `pooled` to the attempt, and a completion to a publication exactly
when it verifies. So the refinement says of a run in one process that its artifacts are of the
inputs the completion names, and of a run in a pool only that they are of one configuration.

### StatusInspection

One action per read of `inspect_cell_status`. The history variable `truth` collects what
`DiskVerdict`, the same function evaluated at once, has been since the inspection began.

### BatchRecovery

A worker is a record with the step it is at: record, digest, result, compute, mark. `Pick` hands
out the batches in order, `Collect` waits for the futures in order. The payload of a batch is its
configuration and its seeds, as the computation is a function of them. `SeedRanges` is the loop
of `batch_seed_ranges`. A worker that dies breaks the pool; together with the end of the process
this is `Kill`.

### ExperimentPipeline

`StartCommand` is the part of `run_experiment` before its loop: readiness and configuration are
taken there, once. For each cell there is the step it is at (`at`), the fingerprint it was
given (`ctx`) and the configuration its executor sees (`loaded`). A command that keeps its cells to
itself has one of them under way. In a pool (`cmd.pooled`, `workflows.py`, 536 to 578) contexts are
taken for all of them while the earlier ones are waiting or at work, and each worker loads the
configuration that is there by then (`WorkerLoadsConfig`, 576); `strayed` remembers that one of them
got another than its command. The lock file is digested again for every context (721, 746 to 750) and
again by status, so `Fingerprint` reads `lock` as it is, and `EditLock` may come between any two cells;
`relocked` remembers that one did. A cell's fingerprint is the value of what
`cell_dependency_material` and `synthesis_dependency_fingerprint` list. `ContextOf` distinguishes the
two exceptions the context of the synthesis may raise, because the status command catches only one of
them. Files are lost, never corrupted, here: `CellRunner` shows that a corrupted file is treated as
a lost one. The gate of a command and a status are evaluated at one moment, although the code reads
cell after cell and digests the lock file for each; how far a status read file by file may be trusted
is the question of `StatusInspection`.

### ReportTree

`results/` is, per owner, its tree and the backup beside it; the report of everything replaces
`results/` itself, with a backup beside that. A tree is the version of the source data and the
versions its rendered files are of. `experiment` stands for every experiment other than the
synthesis: their trees never meet. A removal is two steps with `Partial` in between.

### AtomicReplace

A call makes the directory if it is absent (`MakeDirectory`), creates a temporary file, writes and
synchronises it, gives it the name, synchronises the directory and reads the digest back. The page
cache is `path`; what is durable is `durable` and the set `renamed` of names given since the
directory was last synchronised: after a power loss any one of them may be there, and one whose
contents were not synchronised may be torn. A directory the call has made is `made` and not
`durable`: only its own entries are synchronised (`storage.py`, 148), never its entry in the one
above, so a power loss may take it with all it holds, and `gone` is the last version lost in this
way. A directory that has survived a power loss is on disk. A missing chain of parents is one
directory. The temporary file of a killed process stays, and so does one whose creation was
interrupted before the `try` (139 to 143); it has a name of its own that nobody reads. On Windows
`fsync_directory` does nothing (`paths.py`, 247) and durability of the name is not claimed; the module
is the POSIX branch.

### PreparedCohort and Preprocessing

A row is the seven fields the checks read, and a frame of rows a function of row numbers, of which
filtering keeps some: counting what is left is the size of a set, which the proofs need.
`PreparedCohort` makes of a dataset the cohort with its report of why each other row is excluded, and
of the cohort the summary of a stratum at a censoring horizon in a partition. `Preprocessing` is the
command: `job.step` is the file it writes next, the inventories come last, `CohortIsCurrent` and its
counterpart for the laws are the checks that leave everything as it is. Datasets are replaced and the
configuration is edited between and during calls, except that a dataset is not replaced between its
digest and its rows. A prepared law is identified with what its manifest covers.

### EventLedger, ConfidenceRegion and AnytimeMonitor

An age is an integer, a band is closed above, an event matures at the end of its band or, if it is
never judged, at the horizon. One action of `AnytimeMonitor` is one iteration of a loop over the
matured events: counts, running region, the comparators, and the checkpoint when one is due. The
three kinds of task are the three loops; a coverage stream goes on after its sequence has emptied,
a power stream and a trace end. The roots that invert the mixture martingale are a constant of the module
(`RootsBracketTheFrequency` is what is asked of it). The projection called at a checkpoint is any
answer `RiskProjection` is proved to give: `ProjectionBounds` holds bounds that are sound for the
envelope, the sharpest there is and the one the search starts from.

### BoxSearch and RiskProjection

Masses are integers in units of `1/Unit`, on which directed rounding is exact, and the entropy is a
constant with the assumed bounds. `ProjectionStep` and `MinimumStep` take a foremost box off the
queue, bound it, split it along its widest side and enter the halves that survive;
`ProjectionFallback` is a `NumericalError` anywhere in such a step, with the box in hand and any of
its halves entered. `found` collects the results of the three searches and `history`
what the stall test looks at; node cap, stall, convergence, decision, resolution and error are the
exits. An error in one of the two minimum searches is not turned into a bound: the call raises.

### InformationProfile, HiddenMassSolver and PopulationExperiments

Information is the floor plus `Excess`, a function that falls to the point of minimum information
and rises after it; it may be flat there up to rounding. An action of the solver is one probe or one
midpoint; `shortcut` is any pair of certified masses the probe may return, and `Roundings` the
difference between the floor the budget was compared with and the one the bisection sees. The latent
risk of the point of minimum information is not the risk of its hidden mass: the code divides the
harmful mass by the resolved one (`math/information.py`, 56), so `ThetaDagger` is `Quotient`, a
constant that rounds as it likes, and the three masses of a summary add up to one only within the
comparison guard (`data/summaries.py`, 52). The information a cell has at its own horizon is
evaluated with a rounding of its own, `experiment.rounding`, clamped to the floor and given to
the solver as a budget (`HorizonInformation`, `experiments/real_trajectory.py`, 205 to 218).
`PopulationExperiments` lists, for each executor, the calls it makes in their order (`Calls`) and the
judgements of the answers as operators named after the functions that make them. The oracle is what it
returns: the masses within the budget.

### StudyPlan, PublicationRows and Campaign

A configuration is a record of the fields the validators, the planner, the dispatcher and the
synthesis read; budgets and offsets are in units of the comparison guard, so that two of them are
equal or farther apart than it. Two of its fields are not written by the user but turn out in the data:
`cohort`, the kinds of decisions there are, and `emptied`, the streams whose sequence is empty before
their first checkpoint. A name is its text and the token `semantic_slug` makes of it, empty if the
text has no letter and no digit: then there is no directory, and both run and status of the experiment raise
(`HasDirectory`). `Campaign` is load, plan, every experiment in the order of the catalog (`Passes`
times, since a cell whose directory another one took has to be run again), synthesis.
`EvidenceJoins` is what the synthesis demands before its source data are written: each figure finds
the cells it shows, and no table is empty, which `write_source_data` refuses (`source_data.py`, 102). The
operators are named after the tables; those that have a row for every cell of a completed experiment
cannot be empty and are left out, and so is the rendering that follows. A row is the table it is in, the
cells it speaks of and its pass column; a failing comparison is an experiment, a cell and the part of the
check.

## 3. The runs

| run | checks | shows |
|---|---|---|
| `cell_runner` | `CompletionVouches`, `CompletedUnderOneConfiguration`, `VerdictMatchesDisk`, `ValidCompletionKept`, `RefinesPublishedResult`, `EventuallyCompleted` | one cell, in the command or in a pool, run again and again with errors, interrupts, kills, damage and edits anywhere |
| `parallel_reload` | `ReusedIsOfItsContext` violated | finding 1 |
| `status_inspection` | `ReportedStateHeld` | COMPLETED and RUNNING, the two answers a gate or an operator acts on, held at some moment of the inspection |
| `batch_recovery` | `EvidenceOfItsContext`, `SeedsUsedOnceInOrder`, `EventuallyRecorded` | a pool of two over changing batch layouts |
| `pipeline` | `SynthesisOfOneConfiguration`, `SynthesisIsCurrent`, `RunAgreesWithStatus` | commands in any order, in turn or in a pool, never mix evidence and agree with status, as far as no worker and no lock file edited meanwhile says otherwise |
| `pipeline_liveness` | `EventuallySynthesised` | coming back to the experiments gets the synthesis completed |
| `report_tree` | `ExportSurvivesOneMishap`, `ExportedAsRendered`, `EventuallyPublished` | reports of everything, the summary and an experiment, killed or failing anywhere |
| `prepared_files` | `CurrentMeansPrepared`, `EveryRowAccountedFor`; `NeverTorn`, `ReturnedIsDurable` | `preprocess` under edits, replaced datasets, kills between two writes, lost and damaged files; beside it two writers of one file, in a directory that is there or not, and power losses |
| `stream` | `RunningCoversPrefix`, `ValidStreamNeverFalse`, `NoLookAhead`, `CoarseningCommutes`, `EvidenceAddsUp` | coverage, power and trace streams over short ledgers of four laws |
| `coverage_count` | `FailuresWithinStreams` violated | finding 2 |
| `campaign` | `LoadedStudyExpands`, `CellsFindTheirEntry`, `EvidenceGateClosedOnlyFor`, `PublishedUnderFigureContract`, `FailureIsPublished` | 1,652 configurations around the shipped one, from validator to table |
| `numerical_kernel` | `UpperIsProven`, `VerdictIsTrue`; `RootsAreSharp`, `NeverRaises`, `SolverAgreesWithOracle`, `VerdictsAgree`, `TimingOnlyTightens`, `ForeignErrorNeedsHigherFloor`, `DiagnosticContainsTruth` | the projection with its caps, stalls and errors; the solver and nine executors |

Each property of a passing run has a mutant in `PROJECT.json`, a change of one definition that a
plausible edit of the code would make, under which TLC finds that property violated. The mutants
stand in the modules before the definitions they replace, under a comment that begins `Mutant`.

The four properties of `campaign` that begin with what is accepted do not say that all goes well:
they list exactly the configurations for which it does not, so that a validator that is added or
dropped changes what TLC finds.

### Bounds

* `MaxDisturbances`, `MaxMishaps`, `MaxAccidents`: how many things go wrong (errors, kills, damage,
  power losses). Two in `cell_runner`, `batch_recovery`, `report_tree` and for the writers of one
  file, so that a second mishap meets the remains of a first: a backup left behind, a record without
  its result, a marker without its process. Three for `preprocess`, where a mixture takes a kill and
  two edits. One in `pipeline`, `pipeline_liveness` and `status_inspection`, where another process or
  other commands already supply what meets the remains; in the two pipelines `MaxDisturbances` counts
  failures, kills, lost files and commands with `--overwrite` together.
* `MaxEdits`: two in `cell_runner`, `status_inspection` and `batch_recovery`, so that the inputs can
  change and change back while a cell runs; two in `pipeline` as well, of the configuration, of the
  lock file or of one each, and there a lock file edited to and fro between two cells is what
  `RunAgreesWithStatus` has to except. One in `pipeline_liveness`.
* Two values of the inputs and two salts: a mixture of two contexts, or of two executions, is
  visible with two. Two artifacts: a cell can be half written. Five seeds in batches of two and six
  in batches of three: a short last batch, and fewer batches after an edit than before it.
* An ordinary experiment of two cells in `pipeline`: one done and one not. Only one of them has
  two salts; a recomputed cell that comes out differently is what staleness is about. In
  `pipeline_liveness` every experiment has one cell with one salt: the order of the experiments, what
  each waits for and the two readings of a pool are all that recovery depends on, and its graph has
  no symmetry to reduce it.
* `MaxVersions`: computations of the synthesis in `report_tree`, replacements of the file in
  `prepared_files`. Two versions of the source data suffice to render one and export the other. They
  bound counters only.
* `prepared_files`: two datasets of seven and four rows that fail none, one or several checks, with
  copies of a flow and latencies before, at and after a horizon; four configurations, one of which
  names columns the dataset has not.
* `stream`: every ledger of three events, and for coverage streams the four-event ones whose
  sequence empties at the third; two streams, so that evidence is added up; two bands coarsened
  from four.
* `numerical_kernel`: masses in eighths for the projection, five nodes, a stall window of three: every
  exit is taken. Sixteenths for the populations, whose summaries have every mass, none, or one
  missing, and floors without timing information, a little and more than any budget. A rounding is
  minus three, none or three against a guard of three, so that one evaluation stays within the guard and two
  together do not, and it moves the crossing of a budget next to the point of minimum information by a tick,
  which is what the tolerances of the judgements are for. `Flat` is a law whose profile rounding hides
  for several ticks around that point, with truths on it, in the flat part and beyond it. Masses sum to
  one, to a tick less and to two more, and the latent risk is rounded down.
* `campaign`: a sound study and every study that differs from it by one or two edits; a wrong
  configuration that needs three wrong entries at once is not covered.

`CHECK_DEADLOCK FALSE` stands where the modelled activity ends: a study is published or refused, a
search or a cell has answered, the streams are reported. Symmetry is used in `status_inspection`,
`prepared_files` (of the writers and their payloads) and `pipeline`, where no liveness is checked.

### Fairness

A live process goes on (`WF` of the steps of a command, its pool or its workers: the program waits
for nothing but its own pool). The operator issues a command again after it has ended: `WF` of
starting a run in `CellRunner` and `BatchRecovery`, `SF` of a run of *each* experiment in
`ExperimentPipeline` and of the synthesis and the whole report in `ReportTree`, since commands
exclude one another and a particular one is enabled again and again and not continuously. This is
the use `src/README.md` describes. Of failures, edits and damage nothing is assumed but that they
are finitely many; a command with `--overwrite` is never needed for a cell, and is what the
program itself asks for when a report differs from the published one. The other modules are
computations that run to an end; nothing is claimed of them but safety.

## 4. What is proved

`CellRunnerProofs`, for any number of artifacts, any inputs, modes and bounds:

* `TypeCorrect`: `[]TypeOK`. Inductive together with `ProducedComplete` (only a complete
  result gets as far as the index) and `HandlerHasState` (the handler has an outcome to write).
* `CompletionLast`: `[]CompletionVouches`. The property is not inductive: a write of an artifact
  would break it unless no completion is there. `Protocol` adds the order of the writes:
  `WithdrawnWhileWorking` (no completion record from its withdrawal to its own write),
  `ProducedStands` and `IndexStands` (what was verified is still there, or damaged).
* `CompletedUnderContext`: under the assumption `Modes = {"sequential"}`, by `OneConfig`: the
  executor computes from what the context covers. With a pool this is false, and `parallel_reload`
  shows how.
* `CompletedUnderOne`: `[]CompletedUnderOneConfiguration`, sequential or not, by `LoadedOnce`: what
  an attempt has produced is of the configuration it has loaded, and it loads before it produces.
* `VerdictOnDisk`: the action property `VerdictMatchesDisk`, by `OnDisk`: from each handler on,
  what will be reported is already what `inspect_cell_status` will read.
* `ValidCompletionIsKept`: the action property `ValidCompletionKept`.
* `Refinement`: `Spec` implements `PublishedResult!Spec`, in both modes. `MappedStep` has one step
  per action; it uses `Protocol` for the withdrawal and `LoadedOnce` for the publication.

On top of these and for the same constants: `ReportHeld`, the action property `ReportedStateHeld` of
`InspSpec`. `InspSpec` implements `Spec` (`InspectedRunner`), which brings `TInv` along. `Intact` says
what is exactly on disk at each step of a run as long as no file was damaged; `Witnessed` that the
verdict which will be reported has already held: a completion of the context was valid when it was
read, and a marker found after the completion had been looked for in vain stood before the completion
that may be there by then.

`AtomicReplaceProofs`, for any number of writers, payloads and failures: `TypesHold`,
`WholeOrNotAtAll` and `DurableOnReturn`. The invariant `SurvivorsInv` is about every file a power loss
may leave: all of them are synchronised, and none is older than what a writer that has synchronised the
directory has put in place. `DurableOnReturn` is about what the code does and no more: a write that has
returned is lost if it is not younger than `gone`, the last version that went with a directory made
on the way.

`BatchRecoveryProofs`, for any study, inputs, number of workers and history of damage:
`EvidenceOwn` (`[]EvidenceOfItsContext`) and `EvidenceComplete`, that combined evidence is the
results of all batches of the cell in their order. `RecoveryInv` is `ShapeOK`, `RecordsTrue` (a
record on disk tells of a computation under the context it names), `WorkersTrue` (what a worker
holds at each of its steps), `PoolAhead` (batches handed out and collected) and `EvidenceTrue`.
`SeedsInOrder` (`[]SeedsUsedOnceInOrder`) needs two more facts: that the ranges of `SeedRanges`
cut the seeds into consecutive pieces (`SeedRangesSplit`), and that a run that reports COMPLETED
has collected all of them (`CompletedAll`).

`ExperimentPipelineProofs`, for any catalog, cells, configurations and history of failures, edits and
lost files, with commands that run their cells in turn or in a pool: `OneConfiguration`
(`[]SynthesisOfOneConfiguration`), from `RootAndSynthesis` and `CellsAreOfOneExperiment`. All that a
synthesis rests on was recorded under its configuration; that it was computed from it too holds as
long as no pool worker has ever loaded another (`strayed`), and the first part is proved without that.
The property speaks of the synthesis' completion and says nothing of the command that writes it, so
`PipelineInv` adds `CommandTrue` (a cell under way belongs to a command that was ready), `RecordsTrue`
(a completion, or a result about to be completed, names the configuration of all it rests on, and
unless a worker strayed was computed from it) and `EvidenceStands` (what the command found completed
under its configuration when it began still is, or is gone). `StateEquation` unfolds the recursive
state of an experiment, which has a solution because the catalog is three layers deep (`StateExists`).

The other three theorems of that module are about what a status tells:

* `PipelineTypes`: `[]TypeOK`, which says of every record what it names, down to the parents of a
  fingerprint. The two theorems below depend on it, because `NoFile` must not be a record.
* `CurrentSynthesis` (`[]SynthesisIsCurrent`) follows from `PipelineInv` and the types: a completion
  that verifies was computed from what its fingerprint names, and a fingerprint that equals the
  present one names what is there, the lock file included. It needs `SynthesisIsOneCell`: with two
  synthesis cells the aggregate is COMPLETED when one of them is not valid but INVALID.
* `RunIsStatus`, the action property `RunAgreesWithStatus`. `ReportInv` relates the tally of a command
  to the files of the cells it has passed (`Honest`): as long as no file was lost and the lock file
  was not edited, every cell passed, whichever worker had it, is in the state in which it was counted,
  except that a cell counted FAILED may not be the only one. `SameInspected` says that no command
  touches what status reads of another experiment's cells.

`PublicationProofs`, of `ReportTree`, for any number of owners, versions and mishaps: `OneMishap`
(`[]ExportSurvivesOneMishap`) and `PublishedIsCurrent`, the action property `ExportedAsRendered`.
`TreeInv` is `Types`, `Protocol` (what each step of `replace_tree` may take for granted of target and
backup), `RenderedIsCurrent` (once a synthesis command has ended, what is rendered and what is staged
is of the present source) and `Survival`. The last is what the property lacks to be inductive: it says,
for every place in the middle of a replacement, where the copy is that a mishap at this very step
would leave, and how many mishaps it can still take. `Sentinels` keeps the marks for a missing and a
half-removed tree apart from trees.

and of `Campaign`, for any set of configurations, laws and timing information:

* `PlanFollows` (`[]LoadedStudyExpands`). `CellsDistinct` goes through the coordinate handlers: a grid
  that is strictly increasing, or of ever coarser partitions, repeats nothing (`IncreasingDistinct`,
  `NestedDistinct`), and products, nestings, neighbours and named lists of such grids repeat nothing
  either. The three exceptions the property names are the three places where this argument stops.
* `EntriesAreFound` (`[]CellsFindTheirEntry`): names and pairs without repetitions make each search of the
  dispatcher end at the entry it started from.
* `FailuresArePublished` (`[]FailureIsPublished`): a row that fails speaks of the cell that failed, table by
  table (`FailedRowSpeaks`); one summary row fails, since no experiment is both a theorem and a check of
  the implementation (`TheoremsNotChecked`); and for every other check a detailed row does
  (`DetailFails`, where the comparison at the floor and the group of an oracle cell have to be found).

* `GateClosesOnlyFor` (`[]EvidenceGateClosedOnlyFor`). A cell is completed if the dispatcher finds its
  entry and no other cell has its directory, so an experiment is completed exactly if it is `Sound`:
  every cell is found and no two share a directory. `GateInv` carries this through the passes:
  `Settled` (what is completed is sound, and from its turn on what is sound is completed) and `Judged`
  (what the last synthesis found is what the soundness of the others says). That the root has to be
  completed first is why the second half of `Settled` speaks of both. `Sound` is then compared with
  the listed reasons, handler by handler, in both directions (`DispatchedUnless`, `ApartUnless`,
  `GateIsSoundness`), and `Housed` adds the names that leave no directory. TLC finds both `StudyInv`
  and `GateInv` true in every state of the configurations of `campaign`.
* `PublishedUnderContract` (`[]PublishedUnderFigureContract`): each table and figure has its cells and
  is not empty exactly under its clauses of the contract (`JoinsWhen`, from one lemma for each of
  them, `RefinementFigureWhen`, `ForeignFigureWhen`, `DecisionTableWhen` and `PathFigureWhen` among
  them). That the budget of the figures is one of the configured ones is a clause of its own: the
  planner appends log 2 to the population's grid, the sweep of a real trajectory does not.

`StudyInv` says that a configuration loads from the planning on and keeps the plan that was
accepted. The assumptions on the constants are

* `LawsAssumption`: the laws are an enumeration;
* `ConfigsAssumption`: a configuration has the types its sections declare (`WellTyped`). The types allow
  empty lists, and the proof showed that `grids` with an empty list are refused only because their
  last entry is read (`config.py`, 328 to 334), which `GridsHold` now says;
* `FiguresAssumption`: the laws the figures name, those of the same endpoint with and without timing among
  them, are members of the enumeration, and there is one;
* `ForeignAssumption`: the timing information of a foreign law is a number for every partition;
* `TauAssumption`, for the contract alone: observed timing information is there for every partition of a
  configuration and never larger for a coarser one. It is the inequality that each refinement cell
  asserts (`experiments/timing.py`, 78), up to the tolerance, which the ranks of the model leave out.

`PreprocessingProofs`, for any datasets, laws, configurations and damage: `CurrentIsPrepared`
(`[]CurrentMeansPrepared`). `PreparationInv` is `DiskShape`, `JobTrue` (what the call under way has
read and written so far), `InventoryTrue` and `LawInventoryTrue` (an inventory, wherever it came
from, names digests under which its outputs were written).

`RowsAreAccountedFor` (`[]EveryRowAccountedFor`) is of the same module and constants, and of any
horizons and partitions. `AccountInv` says that what is on disk, whenever it was written, and what a
call is about to write, is the report and the cohort of some dataset under some configuration. The
rest is arithmetic of sets: `ClassesAddUp` (elements that are counted class by class are counted once
each: the counts' disjoint union is in bijection with the elements), with the first reason that
applies as the class of an excluded row (`FirstReasonIs`), its device or expertise as that of an
eligible one, and its band as that of a resolved event: there is one at the horizon too
(`ResolvedHasBand`), and it lies in one band of a coarser partition (`BandIsMerged`). It needs
`DatasetsAssumption` (finitely many rows; a latency that is null or not positive is 0 in the model),
`HorizonsAssumption` (a horizon that is not positive raises, `data/real_trajectories.py`, 556),
`PartitionsAssumption` and `FinestBandsAssumption`.

`NumericalKernelProofs`, of `RiskProjection`, for any envelopes, gap, cap, stall and any entropy with
the assumed properties: `UpperBound` (`[]UpperIsProven`) and `Verdict` (`[]VerdictIsTrue`). `BoundInv`
is `CoverInv` (in each of the three searches every feasible point is in a queued box, in the box in
hand, or is accounted for by the incumbent or a pruning bound), `Witnessed(best)` (an incumbent is the
value of a feasible point) and `FoundInv` (what the finished searches have reported is true). The
lemmas on boxes say that halves cover their box and that the bound of a box bounds its points. The
assumptions are `UnitAssumption`, `EntropyBounds`, `ThetaEntropyBounds`, `EntropySuperadditive` and
`SearchAssumption`: corner evaluation of a concave function is a lower bound, interval evaluation an
upper one, and the parts of a mass have no more entropy than the whole.

and of `HiddenMassSolver`, for any summaries and any profile with the assumed shape: `SharpRoots`
(`[]RootsAreSharp`), by `SearchInv` (the crossing of the budget is in the bracket, and the certified
masses lie on their sides of it) from `PopulationAssumption`, `ProfileAssumption` and
`SolverAssumption`; and `NoError` (`[]NeverRaises`), for which `EffortInv` adds the work that is left: a
bracket that has been halved so many times is no wider than `Halvings` says, so that the cap is not
reached before the width is. It needs `ResidualAssumption`: a rounding is within `identity_atol`, and
half a bracket of `root_atol` changes the information by no more than that. The configuration has
1e-12 and 1e-10 (`configs/trajcert.yaml`, 90 and 91); no validator asks for a relation of the two, and
with a coarser `root_atol` the solver does raise.

and of `PopulationExperiments`, for any study, summaries, profile, roundings, tolerances and
shortcuts: `SolverMatchesOracle` (`[]SolverAgreesWithOracle`), `VerdictsNeverConflict`
(`[]VerdictsAgree`), `FinerTimingTightens` (`[]TimingOnlyTightens`), `LowerFloorNeverMisleads`
(`[]ForeignErrorNeedsHigherFloor`) and `TruthAtHorizon` (`[]DiagnosticContainsTruth`). All five rest
on `PopulationInv`: the answers kept are those of the first calls, in their order, each of them true
of its call, and the solver in between keeps its own invariant. `SharpRoots` does not suffice for it,
since it speaks of the residuals of the request being worked on, each with its rounding, and a
judgement compares answers that were rounded apart. What an answer means without its request is
`AnswerTrue`: on the floor both ends are the point of minimum information, and above it (`LowerEnd`,
`UpperEnd`) there is, within `root_atol` of an end, a mass that shows as within the budget and, unless
the end is zero or the whole unresolved mass, one that shows as beyond it, each up to a rounding.
`EndInv` carries this through the steps of a request. From it `IntervalContains` (no mass within a
budget is farther than half of `identity_atol` from the interval), `EndsNearOracle` (neither end is
farther than `identity_atol` from that of the masses within the budget) and `LowerFloorContains` (of
two answers on the same masses the one with the lower floor contains the other, up to
`identity_atol`); and from these the judgements, whose cases with and without resolved mass, on the
floor and above it, are taken one by one.

`VerdictsNeverConflict` does not say that the three classifications are the same. Two compare within
the comparison guard and one exactly (`failure_boundaries.py`, 462; `feasibility.py`, 148), and the latent
risk is a quotient with a rounding of its own, so that they may differ on a certificate: what is proved is
that they differ only where a budget or a risk is within the guard of its threshold, and that the exact
one certifies nothing the others do not. `TruthAtHorizon` does not exclude flat profiles: it says that
the interval contains the truth, or ends within `root_atol` of a mass whose information two evaluations
cannot tell from that of the truth (`IndistinctBelow`, `IndistinctAbove`).

Besides the assumptions above they need, of the tolerances, `ToleranceAssumption` (twice `root_atol` is
within `identity_atol`: 1e-12 and 1e-10 in `configs/trajcert.yaml`, 90 and 91; a rounding is within the
comparison guard); of the profile, `MassesAssumption` (the excess of a mass depends on the three masses
and not on the bands: in `math/information.py`, 72 to 97, these are in the resolved timing entropy alone)
and `LatentRiskAssumption` (the quotient is within the guard of the sum it stands for: the masses of a
summary add up to one within the guard, `data/summaries.py`, 52); and of the experiments,
`ExperimentsAssumption` (a coarse summary has the masses of its fine one, `data/summaries.py`, and no more
timing information) and `CrossingAssumption`: no rounding moves the crossing of a budget of the
study, above the floor, so far that with `root_atol` on top it exceeds half of `identity_atol`. The last is
not a consequence of the code, and no validator asks for it. Near its minimum the profile is flat, and just
above the floor a rounding of a double, some 1e-16, is worth far more than 1e-10 of mass. The budgets a
study states relative to the floor are on it or at least 0.001 above it (lines 84 to 86, 103, 104 and 170),
where the slope makes the rounding worth some 1e-14. A budget stated outright (lines 27 and 28) may by
chance lie closer to a floor, and is then outside the theorems. The information of a horizon, which is
computed from a law and may be anything, is not: the assumption leaves out that call (`AtHorizon`).

`AnytimeMonitorProofs`, for any laws, ledgers, roots, marks, partitions and number of streams:

* `RunningShrinks` (`[]RunningCoversPrefix`) and `NothingAhead` (`[]NoLookAhead`), from `StreamInv`:
  `LedgerHeld` (the events are those of the ledger in the order of maturity, which exists and is a
  permutation because the order is total on a valid ledger), `CountsHeld` (the counts are those of the
  prefix) and `RunningHeld` (the region lies in that of every prefix, and there is one from the first
  event until the sequence empties).
* `CoarseAndFine` (`[]CoarseningCommutes`): an event's coarse band is the one its finest band is merged
  into (`BandAboveIs`), categories merge in classes (`FineIsClass`), and the total over a class is the
  number of the events in it.
* `ValidIsNeverFalse` (`[]ValidStreamNeverFalse`), from `TruthHeld`: while the raw regions have the law,
  so has the running one. The steps between: the envelope of a region that has the law contains the
  point of the law; whatever bounds the projection may return are sound for that point (`UpperSound`,
  `CompatibilitySound`, `IntrinsicSound`); and what `classify_certification` says on sound bounds is true
  (`BoundsAreHonest`).
* `EvidenceIsComplete` (`[]EvidenceAddsUp`), from `EvidenceHeld`, which relates the evidence to the streams
  while they run: a power stream has recorded exactly the marks it has passed (`PowerStream`), the
  last mark is its last event, so that it ends certified, unresolved or emptied and never without a
  verdict (`PowerOutcome`, `PowerEnds`); a sequence that empties has excluded the truth first, since
  the running region has it as long as no prefix excludes it (`AdvancedHas`, shared with `TruthStays`);
  in a coverage case it is a failure of both certificates (`CoverageFails`). What the states at a mark
  add up to is then the number of the streams that have the mark (`StatesAddUp`, by the lemmas on
  totals).

They rest on `PartitionAssumption`, `MonitorAssumption` (laws are distributions over the finest
categories, with a hidden harmful mass within the unresolved one; there are finitely many marks and
at least one, as `config.py`, 898, takes the largest of them), `LedgersAssumption` (ledgers are
finite, those of a power case have as many events as its last mark says, which `power.py`, 243, draws,
and for as many events as one has the roots bracket the frequency, which is what the two
bisections of `confidence.py`, 335 to 426, return) and `EntropyGrows` (the entropy of a split mass grows
with its parts and is at most that of the whole). The attempt to prove `ValidIsNeverFalse` changed
the property: a stream raises at an event before that event is counted, so the prefix whose raw region
misses the simplex is one beyond `position`. `Covered` looks at it as well (`Looked`).

All assumptions are named `ASSUME`s of the modules, and TLC evaluates them in every run.

Recursive functions and folds are reasoned about without an induction scheme, which no prover here
can instantiate: a set of numbers on which a claim fails would have a least element
(`CountUp`, from `WFMin`), and a set of subsets closed under adding one element has the whole
(`SubsetsUp`). `SumsAreUnique` and `SumAdds` make the sum of `Folds` usable in this way.

Only model-checked: all liveness, since neither `ENABLED` nor fairness is within the prover's
reach. Every invariant and every action property of a passing run is proved.

## 5. Findings

1. `parallel_reload`: a pool worker reads the configuration again, and its result is recorded
   under the context of the first reading (`experiments/workflows.py`, 576 and 552). Edited in
   between and edited back, the configuration lets a later run reuse a result of another one.
2. `coverage_count`: a coverage stream adds a failure at every checkpoint at which its bound is
   false (`experiments/anytime.py`, 608), and the sum over the streams is what the exact limit takes
   for a number of streams that ever failed. It can exceed the number of streams, which the limit
   rejects.

### Seen while modelling

What the modules show or took into account without a run of its own:

* `--overwrite` does not reach the batch checkpoints: `checkpointing.py`, 100, takes every valid
  record, where line 67 of the repository's `README.md` speaks of a recomputation.
* An INVALID upstream cell leaves no completion, and the context of the synthesis then raises an
  exception that the status command does not catch (`workflows.py`, 681).
* INVALID cells are counted nowhere in the reply of a run, which then says READY where status says
  COMPLETED (`workflows.py`, 588 and 762). `RunAgreesWithStatus` leaves READY out for this reason.
* A tree found identical is returned before a stale backup is looked for (`reporting/export.py`,
  455). Beside `results/project_summary` that backup makes the layout check reject every report of
  an experiment; a report of everything with `--overwrite` is the way out.
* A synthesis killed after its completion and before its last figure is rendered leaves a workspace
  from which a report exports older figures beside newer source data; `ExportedAsRendered` holds
  once a synthesis command has ended. `replace_tree` removes the backup before it has anything in
  the target's place, so that two mishaps in a row lose both trees.
* The dataset is hashed, then opened again for its rows (`data/real_trajectories.py`, 213); cells of
  a new configuration run on the cohort of an older one (`dispatch.py`, 640 to 684).
* `mature_event` finds a band by bisection over boundaries, `finest_observable_summary` by a floor:
  the two put an event on a boundary in different bands. `tests/unit/data/test_maturity.py`, 63,
  computes the expected band as the second does, at an age that is on no boundary.
* Names are validated as texts and become directories by their slug: two that share a slug evict each
  other for ever. Device names need not be distinct at all. A name without an ASCII letter or digit
  has no directory, so that its experiment can be neither run nor inspected (`paths.py`, 269): the
  plan is accepted and the synthesis never reached.
* Nothing validates what the tables and figures need before the synthesis does, after hours of runs:
  laws, budgets and scenario, representative streams that are simulated and reach a checkpoint,
  budgets to decide for, offsets under which some foreign summary is compatible. A table without rows
  is refused (`source_data.py`, 102). A figure's budget of log 2 that is not written in `grids.rho`
  passes: the population grid has it (`plan.py`), the sweep of a trajectory not (`dispatch.py`, 671;
  `publication_rows.py`, 1627).
* The lock file is digested again for every cell (`workflows.py`, 721) while the configuration is read
  once: edited to and fro during a run, it leaves a cell of another lock among them, and the run
  reports COMPLETED where status finds the cell stale. `RunAgreesWithStatus` excepts it.
* Oracle and solver judge equality with the floor differently, and so do three executors that
  classify one answer with and without the guard: `SolverAgreesWithOracle` and `VerdictsAgree` say
  where. Within the guard of the latent risk it does reach a certificate: the boundary atlas, which
  compares exactly, may refuse one that decision and trajectory grant.
* A true mass may lie farther than `identity_atol` from the point of minimum information and have
  the information of the floor up to rounding: the profile is flat there. The diagnostic of a real
  cell is then a singleton that misses its truth (`real_trajectory.py`, 205 to 218). It takes a cohort
  whose counts nearly, and not quite, put the truth there; `numerical_kernel` has one (`Flat`), and
  `DiagnosticContainsTruth` says exactly how far the promise goes.
* `atomic_replace` synchronises the directory of the file and not those above it: the entry of a
  directory it has just made (`storage.py`, 138) may be gone after a power loss, with a write
  that had returned its digest. Temporary files are created outside the `try` (139 to 143) and are
  left behind by a kill or by an interrupt there; nothing removes them later.

## 6. What is not modelled

* Two `run` commands at once, and pool workers, of cells or of batches, that outlive a killed parent:
  nothing in the code excludes them and no document speaks of them. They are listed as hazards.
* Power loss outside `AtomicReplace`: the other modules take a write as durable when it returns.
* Ball arithmetic, the entropy and its interval evaluation, Clopper-Pearson limits, the inversion of
  the mixture martingale: real analysis, present as constants with the assumed properties. Rounding is
  a constant offset of a request, in {-3, 0, 3} against a guard of 3 for TLC. Golden section and
  bisection of the oracle stand for what they return; its lower projection and its hand cases are left
  out.
* A `NumericalError` of the projection at a checkpoint of a stream; `RiskProjection` has it within
  the projection, where it is caught.
* Convexity and derivative identities, the strict timing gain, regrets of decision values, shapes of
  sensitivity curves, wall-clock measurements, numeric grids: floating-point formulas without a decision.
  Of the representative paths there is only whether there is one.
* Rows without a verdict, columns, formatting, tables and figures beyond what is published when. The
  rendering after a synthesis is in `ReportTree` and not in `Campaign`.
* `doctor`, `smoke` with its smaller sizes, the printing of a plan, parsing, telemetry; the source
  audit tool, which is a lint of the sources.

## 7. Plan

Done, in this order: the cell runner with its abstract specification and proofs, status, batches,
pipeline, writes, report trees; the projection, the streams, preparation, the solver with the
population experiments, the study with its rows; proofs of batches, preparation, projection and
solver; proofs of the pipeline's status, of the report trees, of the streams, of the prepared rows and
of the study from its plan to its tables: plan, lookups, gate, contract and failures; proofs of the
population experiments.

Next:

1. `ConcurrentRunners`: two `run_cell` on one cell, and batch workers that survive their parent.
2. That an attempt in `ExperimentPipeline` is implemented by `CellRunner`.
