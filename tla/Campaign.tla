------------------------------- MODULE Campaign -------------------------------
(***************************************************************************)
(* One study from its configuration to its publication data: the             *)
(* configuration is loaded, the plan built, every experiment run in the       *)
(* order of the catalog, and the synthesis joins what the cells left into      *)
(* tables and figures.  Validators, planner, dispatcher and synthesis each      *)
(* read the configuration by themselves, so what one of them accepts another    *)
(* may refuse hours later: the properties say exactly when.                     *)
(*                                                                         *)
(* What a cell computes is left out, and so are failures and configuration     *)
(* edits during a run (CellRunner, ExperimentPipeline).  Experiments share     *)
(* no directory, so running them in another order would show nothing more.     *)
(***************************************************************************)
EXTENDS PublicationRows

CONSTANTS Configs,       \* the configurations a user may write
          TimedLaw,      \* SAME_ENDPOINT_WITH_TIMING
          UntimedLaw,    \* SAME_ENDPOINT_NO_TIMING
          FigureLaws,    \* PARTITION_COHERENCE_POPULATION_LAWS
          ProfileLaw,    \* TIMING_TERMINAL_HARMFUL_LATE
          ForeignTau,    \* the larger timing information of the two summaries
                         \* made with the timing of the next law
          Passes         \* bound: how often the catalog is run

ASSUME ConfigsAssumption == \A c \in Configs : WellTyped(c)

\* The figures show laws of the study.  A coarser partition shows no more of the timing
\* (evaluate_partition_coherence, experiments/timing.py, 78).
ASSUME FiguresAssumption == FigureLaws # {} /\ FigureLaws \union {TimedLaw, UntimedLaw} \subseteq Laws
ASSUME TauAssumption ==
  \A law \in Laws :
    /\ \A c \in Configs : Range(c.partitions) \subseteq DOMAIN Tau[law]
    /\ \A fine, coarse \in DOMAIN Tau[law] :
         Tau[law][fine] \in Int /\ (fine % coarse = 0 => Tau[law][coarse] <= Tau[law][fine])
ASSUME ForeignAssumption ==
  \A law \in Laws, c \in Configs : \A bands \in Range(c.partitions) : ForeignTau[law][bands] \in Int

VARIABLES config, stage, turn, pass, standing, outcome,
          failing   \* the comparison that did not hold in some cell, if any
campaignVars == <<config, stage, turn, pass, standing, outcome, failing>>

Root == Catalog[1][1]
Synthesis == Last(Catalog)[1]
Cells(e) == Coordinates(e, config)

(***************************************************************************)
(* What the dispatcher finds from the coordinates of a cell: the position     *)
(* of the configured entry, or 0.                                             *)
(***************************************************************************)
FirstNamed(entries, text) == SelectInSeq(entries, LAMBDA x : x.name.text = text)

CoverageCaseOf(c, cell) ==
  LET n == FirstNamed(c.coverageCases, cell.name.text)
  IN  IF n # 0 /\ cell.at = <<c.coverageCases[n].law, c.coverageCases[n].bands>> THEN n ELSE 0

PowerScenarioOf(c, cell) ==
  LET n == FirstNamed(c.scenarios, cell.name.text)
  IN  IF n # 0 /\ cell.at[1] = c.scenarios[n].law THEN n ELSE 0

TimingCaseOf(c, cell) ==
  SelectInSeq(c.timingCases, LAMBDA x : TimingPairOf(x) = cell.at[1])

\* Mutant: only the scaling grid searched.
PartitionOfScaling(c, bands) == bands \in Range(c.scaling) /\ Max({c.finest, bands}) % bands = 0
\* _partition_named, and the partition build_partition makes of it.
PartitionNamed(c, bands) ==
  bands \in Range(c.partitions \o c.scaling) /\ Max({c.finest, bands}) % bands = 0

\* _summary_from_coordinates, _refinement_inputs: the partitions of the cell.
SummaryFound(c, cell) == PartitionNamed(c, cell.at[2])
RefinementFound(c, cell) == \A b \in Range(cell.at[2]) : PartitionNamed(c, b)
SameEndpointFound(c, cell) == PartitionNamed(c, cell.at[1])
TimingFound(c, cell) ==
  /\ PartitionNamed(c, cell.at[1][2]) /\ PartitionNamed(c, cell.at[1][3])
  /\ TimingCaseOf(c, cell) # 0
\* _compatible_path_resolution: every level is a coarsening of the last one.
FailureBoundaryFound(c, cell) ==
  cell.at[1] = "compatible_bands" => Last(c.axes["bands"]) % cell.at[2] = 0
\* The real trajectories look among the primary partitions only.
RealTrajectoryFound(c, cell) == cell.at[3] \in Range(c.partitions)

\* execute_scientific_cell gets as far as the executor of the cell.
Dispatched(e, c, cell) ==
  LET h == ExecutionHandler(e)
  IN  CASE h \in {"summary", "hand_case"} -> SummaryFound(c, cell)
        [] h = "same_endpoint" -> SameEndpointFound(c, cell)
        [] h = "refinement" -> RefinementFound(c, cell)
        [] h = "strict_timing" -> TimingFound(c, cell)
        [] h = "coverage" -> CoverageCaseOf(c, cell) # 0
        [] h = "power" -> PowerScenarioOf(c, cell) # 0
        [] h = "failure_boundary" -> FailureBoundaryFound(c, cell)
        [] h = "real_trajectory" -> RealTrajectoryFound(c, cell)
        [] OTHER -> TRUE

\* run_cell asks for the directory before anything else.
Executed(e, c, cell) == HasDirectory(cell) /\ Dispatched(e, c, cell)

(***************************************************************************)
(* What the synthesis joins and writes: write_source_data refuses a table     *)
(* without rows.  A risk interval is known wherever the budget is compatible  *)
(* with the law, that is, not below its timing information.  Tables with a     *)
(* row for every cell of a completed experiment are left out, and so is the    *)
(* rendering of what is written.                                              *)
(***************************************************************************)
Compatible(law, bands, rho) == Tau[law][bands] <= rho
Population(c) == Range(Coordinates("Population Sensitivity Utility", c))

FigureOnePopulation(c) ==
  LET selected == {cell \in Population(c) : cell.at[1] \in FigureLaws /\ cell.at[3] = c.figureRho}
  IN  /\ {<<cell.at[1], cell.at[2]>> : cell \in selected} = FigureLaws \X Range(c.partitions)
      /\ \A cell \in selected : Compatible(cell.at[1], cell.at[2], c.figureRho)

FigureOneSameEndpoint(c) ==
  LET selected == {cell \in Range(Coordinates("Same Endpoint, Different Timing", c)) :
                     cell.at[2] = c.figureRho}
  IN  /\ {cell.at[1] : cell \in selected} = Range(c.partitions)
      /\ \A cell \in selected, law \in {TimedLaw, UntimedLaw} : Compatible(law, cell.at[1], c.figureRho)

TimingTable(c) ==
  \A cell \in Range(Coordinates("Strict Timing Gain", c)) :
    {cell.at[1][2], cell.at[1][3]} \subseteq Range(c.partitions)

FigureThree(c) ==
  Cardinality({cell \in Population(c) : cell.at = <<ProfileLaw, c.finest, c.information>>}) = 1

FigureFour(c) ==
  Cardinality({cell \in Range(Coordinates("Anytime Certification Power", c)) :
                 cell.name.text = c.figureScenario /\ cell.at[2] = c.finest}) = 1

\* The paths of the fourth figure are of its cell's representative streams.
PathFigure(c) == \E stream \in Range(c.representative) : stream < c.streams /\ stream \notin c.emptied

\* Mutant: the trajectories sweep the population grid, which ends at log 2.
RefinementFigureOfPopulation(c) ==
  \E cell \in Range(Coordinates("Real-Trajectory Validation", c)), rho \in Range(PopulationRho(c)) :
    cell.at[1] = "pooled" /\ cell.at[4] = c.horizons[1] /\ rho = c.figureRho
\* A trajectory of the primary horizon, swept over the configured grid.
RefinementFigure(c) ==
  \E cell \in Range(Coordinates("Real-Trajectory Validation", c)), rho \in Range(c.rho) :
    cell.at[1] = "pooled" /\ cell.at[4] = c.horizons[1] /\ rho = c.figureRho

\* A cell in which all three conditions have a risk interval.
ForeignFigure(c) ==
  \E cell \in Range(Coordinates("Foreign-Information Negative Control", c)) :
    LET rho == Tau[cell.at[1]][cell.at[2]] + cell.at[3]
    IN  Compatible(cell.at[1], cell.at[2], rho) /\ ForeignTau[cell.at[1]][cell.at[2]] <= rho

DecisionTable(c) == Range(Coordinates("Trajectory Decision Value", c)) \X Range(c.decisionBudgets) # {}
DecisionTimeFigure(c) == c.cohort = BOOLEAN

EvidenceJoins(c) ==
  /\ FigureOnePopulation(c) /\ FigureOneSameEndpoint(c)
  /\ TimingTable(c) /\ FigureThree(c) /\ FigureFour(c)
  /\ PathFigure(c) /\ RefinementFigure(c) /\ ForeignFigure(c)
  /\ DecisionTable(c) /\ DecisionTimeFigure(c)

(***************************************************************************)
(* Behaviour.                                                                *)
(***************************************************************************)
CampaignInit ==
  /\ config \in Configs
  /\ stage = "load" /\ turn = 1 /\ pass = 1
  /\ standing = [e \in Experiments |-> {}]
  /\ outcome = "none" /\ failing = {}

LoadConfig ==
  /\ stage = "load"
  /\ stage' = IF Loads(config) THEN "plan" ELSE "rejected"
  /\ UNCHANGED <<config, turn, pass, standing, outcome, failing>>

\* build_plan: the declared grid length, and no two cells with one identity.
BuildPlan ==
  /\ stage = "plan"
  /\ stage' = IF PopulationRhoAgrees(config) /\ \A e \in Experiments : Distinct(Cells(e))
              THEN "run" ELSE "unplannable"
  /\ UNCHANGED <<config, turn, pass, standing, outcome, failing>>

Completed(e) == DOMAIN Cells(e) # {} /\ standing[e] = DOMAIN Cells(e)

\* The groups of cells that have one directory, and so one completion, between them.
Sharing(cells) ==
  LET at == [i \in DOMAIN cells |-> Directory(cells[i])]
  IN  IF IsInjective(at) THEN {}
      ELSE {group \in {{i \in DOMAIN at : at[i] = d} : d \in Range(at)} : \E i, j \in group : i # j}

\* run_experiment: a directory holds the completion of the cell that finished last.
\* A cell without one makes it raise, once the pool has finished the others.
RunExperiment ==
  /\ stage = "run" /\ turn < Len(Catalog)
  /\ LET e == Catalog[turn][1]
         cells == Cells(e)
         shared == Sharing(cells)
     IN  IF turn = 1 \/ Completed(Root)
         THEN \E last \in Choices(shared) :
                standing' = [standing EXCEPT ![e] =
                  {i \in (DOMAIN cells \ UNION shared) \union last : Executed(e, config, cells[i])}]
         ELSE UNCHANGED standing
  /\ turn' = turn + 1
  /\ UNCHANGED <<config, stage, pass, outcome, failing>>

\* The synthesis is blocked unless every other experiment is completed, or not
\* even reached: the status of an experiment with a cell without a directory
\* cannot be read (_dependency_readiness).  What
\* the results say matters to nothing before their tables: it is settled here,
\* for the last synthesis.
Synthesise ==
  /\ stage = "run" /\ turn = Len(Catalog)
  /\ outcome' = IF \E e \in Experiments \ {Synthesis} : ~Completed(e) THEN "blocked"
                ELSE IF EvidenceJoins(config) THEN "published" ELSE "refused"
  /\ failing' \in IF outcome' = "published" /\ pass = Passes
                  THEN {{}} \union {{f} : f \in Comparisons(config)} ELSE {failing}
  /\ IF pass < Passes
     THEN pass' = pass + 1 /\ UNCHANGED stage
     ELSE stage' = "over" /\ UNCHANGED pass
  /\ turn' = 1
  /\ UNCHANGED <<config, standing>>

CampaignNext == LoadConfig \/ BuildPlan \/ RunExperiment \/ Synthesise
CampaignSpec == CampaignInit /\ [][CampaignNext]_campaignVars

-----------------------------------------------------------------------------
(***************************************************************************)
(* Properties.                                                               *)
(***************************************************************************)

\* The validators make every grid of the plan free of duplicates (plan.py,
\* validate_plan), except for what they do not look at: device names given
\* twice, a study with a single partition, whose finest and endpoint are the
\* same, and the declared number of budgets.
LoadedStudyExpands ==
  stage = "unplannable" =>
    \/ ~Distinct([i \in DOMAIN config.devices |-> config.devices[i].text])
    \/ Len(config.partitions) = 1
    \/ ~PopulationRhoAgrees(config)

\* A cell is executed as the entry of the configuration it was planned from:
\* the dispatcher, which only has names and coordinates, finds that entry and
\* no other (dispatch.py, plan.py).
CellsFindTheirEntry ==
  stage = "run" /\ turn = 1 =>
    /\ \A i \in DOMAIN Cells("Anytime Coverage Stress") :
         CoverageCaseOf(config, Cells("Anytime Coverage Stress")[i]) = i[1]
    /\ \A i \in DOMAIN Cells("Anytime Certification Power") :
         PowerScenarioOf(config, Cells("Anytime Certification Power")[i]) = i[1]
    /\ \A i \in DOMAIN Cells("Strict Timing Gain") :
         TimingCaseOf(config, Cells("Strict Timing Gain")[i]) = i[1]

\* Two entries with the same law, a partition in common and names that differ
\* only in spelling.
Alike(x, y) == x.law = y.law /\ x.name.token = y.name.token

\* However often the study is run, the synthesis stays blocked exactly when an
\* experiment has no cells, a strict timing pair is no configured partition or
\* no coarsening of the finest one, a level of the resolution axis does not
\* divide the largest, a name leaves nothing for a directory, or two names become
\* one (dispatch.py, paths.py).
GateClosedFor(c) ==
  \/ \E e \in Experiments : DOMAIN Coordinates(e, c) = {}
  \/ \E i \in DOMAIN c.timingCases :
       \/ {c.timingCases[i].fine, c.timingCases[i].coarse} \ Range(c.partitions \o c.scaling) # {}
       \/ c.finest % c.timingCases[i].fine # 0
  \/ \E level \in Range(c.axes["bands"]) : Last(c.axes["bands"]) % level # 0
  \/ \E i \in DOMAIN c.coverageCases : c.coverageCases[i].name.token = ""
  \/ \E i \in DOMAIN c.scenarios : c.scenarios[i].bands # <<>> /\ c.scenarios[i].name.token = ""
  \/ \E i, j \in DOMAIN c.devices : i # j /\ c.devices[i].token = c.devices[j].token
  \/ \E i, j \in DOMAIN c.coverageCases :
       /\ i # j /\ Alike(c.coverageCases[i], c.coverageCases[j])
       /\ c.coverageCases[i].bands = c.coverageCases[j].bands
  \/ \E i, j \in DOMAIN c.scenarios :
       /\ i # j /\ Alike(c.scenarios[i], c.scenarios[j])
       /\ Range(c.scenarios[i].bands) \intersect Range(c.scenarios[j].bands) # {}
EvidenceGateClosedOnlyFor ==
  outcome # "none" /\ turn = 1 => ((outcome = "blocked") <=> GateClosedFor(config))

\* The synthesis of a completed study fails to write its source data exactly
\* when the study breaks the contract of the tables and figures, which no
\* validator states: the laws, the budgets and the scenario the figures show are
\* in the grids that are run, the figure's budget being one of the configured
\* ones and not the log 2 the planner adds; that budget is compatible under the
\* finest partition; the strict timing pairs are primary partitions; a
\* representative stream is simulated and reaches a checkpoint; the largest
\* offset makes some foreign summary compatible; there are budgets to decide
\* for; and the cohort has both kinds of decisions (publication_rows.py,
\* synthesis.py, source_data.py).
FigureContract(c) ==
  /\ FigureLaws \union {ProfileLaw} \subseteq Range(c.utilityLaws)
  /\ c.information \in Range(c.rho) \union {Log2}
  /\ c.figureRho \in Range(c.rho) \intersect Range(c.sameEndpointRho)
  /\ \A law \in FigureLaws \union {TimedLaw, UntimedLaw} : Tau[law][c.finest] <= c.figureRho
  /\ \E i \in DOMAIN c.scenarios :
       c.scenarios[i].name.text = c.figureScenario /\ c.finest \in Range(c.scenarios[i].bands)
  /\ \A i \in DOMAIN c.timingCases :
       {c.timingCases[i].fine, c.timingCases[i].coarse} \subseteq Range(c.partitions)
  /\ (Range(c.representative) \intersect 0..(c.streams - 1)) \ c.emptied # {}
  /\ \E law \in Laws, bands \in Range(c.partitions) :
       ForeignTau[law][bands] <= Tau[law][bands] + Last(c.oracleOffsets)
  /\ c.decisionBudgets # <<>>
  /\ c.cohort = BOOLEAN
PublishedUnderFigureContract ==
  outcome \in {"published", "refused"} /\ turn = 1 => ((outcome = "published") <=> FigureContract(config))

\* A comparison that fails in one cell of one check fails the row of its
\* experiment in one of the two summaries, and a row that names the cell in a
\* detailed table, unless it is a theorem's; and a row fails only if it speaks
\* of that cell, whichever of the two verdicts it repeats or recomputes
\* (synthesis.py, publication_rows.py, supplementary_rows.py).
FailureIsPublished ==
  stage = "over" /\ outcome = "published" =>
    LET summaries == {row \in Summaries(config, failing) : ~row.passed}
        details == {row \in Details(config, failing) : ~row.passed}
    IN  /\ failing = {} => summaries \union details = {}
        /\ \A f \in failing :
             /\ \A row \in summaries \union details : <<f[1], f[2]>> \in row.about
             /\ f[1] # CoverageExperiment => Cardinality(summaries) = 1
             /\ f[1] \in CheckedExperiments \union {CoverageExperiment, Root} => details # {}
=============================================================================
