------------------------------ MODULE StudyPlan ------------------------------
(***************************************************************************)
(* The study a configuration declares: when TrajCertConfig accepts it       *)
(* (config.py), the cells the catalog and the planner expand it into        *)
(* (catalog.py, plan.py), the directory each cell keeps its record in        *)
(* (provenance.py, paths.py), and what the dispatcher looks up again from    *)
(* the coordinates of a cell (dispatch.py).                                  *)
(*                                                                         *)
(* A configuration is one record with the fields those modules read.  A      *)
(* partition stands for its band count, since partition_name is injective.   *)
(* A name written by the user is a record: its text, and the token           *)
(* semantic_slug makes of the text, or of the text behind a prefix, which      *)
(* several texts may share.  The token is empty where semantic_slug raises     *)
(* because nothing of the text is left.  Two fields say what the data of the   *)
(* study turn out to be: cohort, whether there are correct and wrong           *)
(* decisions in it, and emptied, the streams of the figure's scenario whose    *)
(* confidence sequence is empty before its first checkpoint.                    *)
(***************************************************************************)
EXTENDS Integers, Sequences, SequencesExt

CONSTANTS OrderedLaws,   \* the law keys, in the order of LawKey
          Log2           \* BINARY_MAX_INFORMATION_NATS

Laws == Range(OrderedLaws)

Increasing(s) == \A i \in 1..(Len(s) - 1) : s[i] < s[i + 1]
Distinct(s) == IsInjective(s)
Nested(s) == \A i \in 1..(Len(s) - 1) : s[i] > s[i + 1] /\ s[i] % s[i + 1] = 0
Texts(s) == [i \in DOMAIN s |-> s[i].name.text]

\* LawKey is an enumeration.
ASSUME LawsAssumption == OrderedLaws \in Seq(Laws) /\ Distinct(OrderedLaws) /\ Log2 \in Int

(***************************************************************************)
(* What the types of the sections admit before a validator looks at them.   *)
(* The budgets and offsets are numbers in units of the comparison guard.     *)
(* The two resolution axes of the failure boundaries are one configured list, *)
(* and a device stands behind a prefix, so that its token is never empty.      *)
(***************************************************************************)
Bands == Nat \ {0}
Label == [text : STRING, token : STRING]
TimingCases == [law : Laws, fine : Bands, coarse : Bands, gain : STRING]
CoverageCases == [name : Label, law : Laws, bands : Bands]
Scenarios == [name : Label, law : Laws, bands : Seq(Bands), checkpoints : Seq(Nat)]

\* Pairs of probabilities have no order, and the other axis is not looked at.
UnorderedAxes == {"terminal_selection_asymmetry", "certification_sample_size"}

WellTyped(c) ==
  /\ c.finest \in Bands /\ c.figureRho \in Int /\ {c.partitions, c.scaling} \subseteq Seq(Bands)
  /\ {c.rho, c.sameEndpointRho, c.timingOffsets, c.sharpOffsets, c.gamma, c.q} \subseteq Seq(Int)
  /\ c.oracleOffsets \in Seq(Nat)
  /\ {c.utilityLaws, c.oracleLaws, c.safetyLaws, c.decisionLaws} \subseteq Seq(Laws)
  /\ c.decisionBudgets \in Seq(Int) /\ c.representative \in Seq(Nat) /\ c.streams \in Nat
  /\ c.emptied \subseteq Nat /\ c.cohort \subseteq BOOLEAN
  /\ c.timingCases \in Seq(TimingCases) /\ c.coverageCases \in Seq(CoverageCases)
  /\ c.scenarios \in Seq(Scenarios) /\ c.devices \in Seq(Label) /\ c.horizons \in Seq(Nat)
  /\ \A i \in DOMAIN c.devices : c.devices[i].token # ""
  /\ c.horizons # <<>>
  /\ \A axis \in DOMAIN c.axes \ UnorderedAxes : c.axes[axis] \in Seq(Int)
  /\ "bands" \in DOMAIN c.axes /\ c.axes["bands"] \in Seq(Bands)
  /\ "compatible_bands" \in DOMAIN c.axes /\ c.axes["compatible_bands"] = c.axes["bands"]

(***************************************************************************)
(* The validators of the configuration's sections, and of their relations.  *)
(***************************************************************************)
TimingPairOf(case) == <<case.law, case.fine, case.coarse>>

\* Mutant: two timing cases differ already if they expect another outcome.
TimingCasesDiffer(c) == Distinct(c.timingCases)
TimingPairsDistinct(c) ==
  Distinct([i \in DOMAIN c.timingCases |-> TimingPairOf(c.timingCases[i])])

StudyDesignHolds(c) ==
  /\ \A laws \in {c.utilityLaws, c.oracleLaws, c.safetyLaws, c.decisionLaws} : Distinct(laws)
  /\ \A i \in DOMAIN c.timingCases :
       /\ c.timingCases[i].fine > c.timingCases[i].coarse
       /\ c.timingCases[i].fine % c.timingCases[i].coarse = 0
  /\ TimingPairsDistinct(c)
  /\ Increasing(c.decisionBudgets) /\ Distinct(c.representative)
  /\ Distinct(Texts(c.coverageCases))
  /\ \A grid \in {c.timingOffsets, c.sharpOffsets, c.oracleOffsets, c.gamma, c.q} :
       Increasing(grid)

\* The last entry is read of three grids, which an empty one does not have.
GridsHold(c) ==
  /\ <<>> \notin {c.partitions, c.rho, c.sameEndpointRho}
  /\ Increasing(c.scaling) /\ Increasing(c.rho) /\ Increasing(c.sameEndpointRho)
  /\ Nested(c.partitions) /\ Last(c.partitions) = 1
  /\ Last(c.rho) <= Log2 /\ Last(c.sameEndpointRho) <= Log2

CheckpointsOf(c, scenario) ==
  IF scenario.checkpoints = <<>> THEN c.checkpoints ELSE scenario.checkpoints

\* Mutant: two scenarios may have one name if they differ in anything else.
ScenariosDiffer(c) == Distinct(c.scenarios)
ScenarioNamesDistinct(c) == Distinct(Texts(c.scenarios))

PowerHolds(c) ==
  /\ c.figureScenario \in Range(Texts(c.scenarios))
  /\ Increasing(c.checkpoints)
  /\ ScenarioNamesDistinct(c)
  /\ \A i \in DOMAIN c.scenarios :
       /\ Distinct(c.scenarios[i].bands)
       /\ Increasing(c.scenarios[i].checkpoints)
       /\ \A b \in Range(c.scenarios[i].bands) : c.finest % b = 0
       /\ \E n \in Range(CheckpointsOf(c, c.scenarios[i])) : c.matured <= n

\* Every axis of the failure-boundary atlas has as many levels as the first.
AxesHold(c) ==
  \A axis \in DOMAIN c.axes :
    /\ Distinct(c.axes[axis]) /\ Len(c.axes[axis]) = Len(c.axes["unresolvedness"])
    /\ axis \notin UnorderedAxes => Increasing(c.axes[axis])

CrossSectionHolds(c) ==
  /\ c.finest = c.partitions[1] /\ c.finest \in Range(c.scaling)
  /\ c.resolved <= c.matured /\ c.matured <= c.coverage.events
  /\ c.coverage.every <= c.coverage.events /\ c.coverage.events % c.coverage.every = 0
  /\ \A i \in DOMAIN c.timingCases : c.timingCases[i].fine <= c.finest

Loads(c) ==
  /\ StudyDesignHolds(c) /\ GridsHold(c) /\ PowerHolds(c) /\ AxesHold(c) /\ CrossSectionHolds(c)
  /\ c.information <= Log2
  /\ Distinct(c.horizons) /\ c.devices # <<>>

(***************************************************************************)
(* The catalog: every experiment with its coordinate and execution handler. *)
(* The first is the root precondition of all others and the last, the        *)
(* synthesis, requires them all.                                             *)
(***************************************************************************)
Catalog ==
  <<<<"Legacy Partition Incoherence Check", "legacy", "legacy">>,
    <<"Path Information Decomposition", "law_and_partition", "summary">>,
    <<"Information Profile Convexity", "law_and_partition", "summary">>,
    <<"Minimum Compatibility Identity", "law_and_partition", "summary">>,
    <<"Sharp-Set Constructive Identity", "sharp_set", "summary">>,
    <<"Refinement Dominance Identity", "refinement", "refinement">>,
    <<"Strict Timing-Gain Identity", "strict_timing", "strict_timing">>,
    <<"Safety-Boundary Identity", "safety_boundary", "finest_summary">>,
    <<"Endpoint Special-Case Identity", "endpoint", "summary">>,
    <<"Anytime Projection Proof Check", "record", "record">>,
    <<"Population Complexity Proof Check", "record", "record">>,
    <<"Production Solver vs Independent Oracle", "oracle_offsets", "summary">>,
    <<"Callback-Model Reduction Falsification", "finest", "summary">>,
    <<"Generic Information-Optimization Reduction", "finest", "summary">>,
    <<"Partition Coherence", "coherence", "refinement">>,
    <<"Same Endpoint, Different Timing", "same_endpoint", "same_endpoint">>,
    <<"Strict Timing Gain", "strict_timing", "strict_timing">>,
    <<"Compatibility Floor Behavior", "finest_and_endpoint", "summary">>,
    <<"Sharpness Against Generic Oracle", "oracle_laws", "summary">>,
    <<"Safety and Intrinsic Impossibility", "safety", "finest_summary">>,
    <<"Anytime Implementation Hand Cases", "hand_cases", "hand_case">>,
    <<"Anytime Coverage Stress", "coverage", "coverage">>,
    <<"Anytime Certification Power", "power", "power">>,
    <<"Population Sensitivity Utility", "population", "summary">>,
    <<"Trajectory Decision Value", "decision", "decision">>,
    <<"Failure Boundary Atlas", "failure_boundary", "failure_boundary">>,
    <<"Real-Trajectory Validation", "real_trajectory", "real_trajectory">>,
    <<"Foreign-Information Negative Control", "oracle_offsets", "summary">>,
    <<"Computational Scaling", "scaling", "scaling">>,
    <<"Statistical Synthesis", "record", "synthesis">>>>

Experiments == {Catalog[i][1] : i \in DOMAIN Catalog}
Definition(e) == CHOOSE row \in Range(Catalog) : row[1] = e
CoordinateHandler(e) == Definition(e)[2]
ExecutionHandler(e) == Definition(e)[3]

(***************************************************************************)
(* The cells of an experiment, as a function from positions in the           *)
(* configured lists: where the cell is in the study, and the name the user    *)
(* gave it if it has one.                                                     *)
(***************************************************************************)
Unnamed == [text |-> "", token |-> "-"]
Plain(at) == [i \in DOMAIN at |-> [at |-> at[i], name |-> Unnamed]]
Pairs(s, t) == [i \in (DOMAIN s) \X (DOMAIN t) |-> <<s[i[1]], t[i[2]]>>]
Triples(s, t, u) ==
  [i \in (DOMAIN s) \X (DOMAIN t) \X (DOMAIN u) |-> <<s[i[1]], t[i[2]], u[i[3]]>>]
Nest(lists) ==
  [i \in UNION {{n} \X (DOMAIN lists[n]) : n \in DOMAIN lists} |-> <<i[1], lists[i[1]][i[2]]>>]
Adjacent(s) == [i \in 1..(Len(s) - 1) |-> <<s[i], s[i + 1]>>]

SafetyCases == <<1, 2, 3, 4, 5>>
HandCases == [i \in 1..10 |-> i]
ExpertiseLevels == <<"expert", "intermediate", "novice">>

\* The population grid always ends at log 2, and its length is declared.
PopulationRho(c) == IF Log2 \in Range(c.rho) THEN c.rho ELSE Append(c.rho, Log2)
PopulationRhoAgrees(c) == Len(PopulationRho(c)) = c.rhoCount

RealTrajectoryCells(c) ==
  LET At(kind, list) == {kind} \X (DOMAIN list) \X (DOMAIN c.partitions)
      Horizon(i) == IF i[1] = "pooled" THEN c.horizons[i[2]] ELSE c.horizons[1]
      Level(i) == IF i[1] = "expertise" THEN ExpertiseLevels[i[2]] ELSE ""
  IN  [i \in At("pooled", c.horizons) \union At("device", c.devices)
               \union At("expertise", ExpertiseLevels) |->
         [at |-> <<i[1], Level(i), c.partitions[i[3]], Horizon(i)>>,
          name |-> IF i[1] = "device" THEN c.devices[i[2]] ELSE Unnamed]]

NamedCells(entries, bands) ==
  LET at == Nest(bands)
  IN  [i \in DOMAIN at |-> [at |-> <<entries[i[1]].law, at[i][2]>>, name |-> entries[i[1]].name]]

TimingPairs(c) ==
  Pairs([i \in DOMAIN c.timingCases |-> TimingPairOf(c.timingCases[i])], c.timingOffsets)

Coordinates(e, c) ==
  LET h == CoordinateHandler(e)
      all == OrderedLaws
  IN  CASE h = "legacy" -> Plain(Pairs(c.gamma, c.q))
        [] h = "law_and_partition" -> Plain(Pairs(all, c.partitions))
        [] h = "sharp_set" -> Plain(Triples(all, c.partitions, c.sharpOffsets))
        [] h = "oracle_offsets" -> Plain(Triples(all, c.partitions, c.oracleOffsets))
        [] h = "refinement" -> Plain(Pairs(all, Adjacent(c.partitions)))
        [] h = "coherence" -> Plain(Triples(c.utilityLaws, Adjacent(c.partitions), c.timingOffsets))
        [] h = "strict_timing" -> Plain(TimingPairs(c))
        [] h = "safety_boundary" -> Plain(Pairs(all, SafetyCases))
        [] h = "safety" -> Plain(Pairs(c.safetyLaws, SafetyCases))
        [] h = "endpoint" -> Plain(Pairs(all, <<Last(c.partitions)>>))
        [] h = "finest" -> Plain(Pairs(all, <<c.partitions[1]>>))
        [] h = "finest_and_endpoint" -> Plain(Pairs(all, <<c.partitions[1], Last(c.partitions)>>))
        [] h = "oracle_laws" -> Plain(Pairs(c.oracleLaws, c.partitions))
        [] h = "same_endpoint" -> Plain(Pairs(c.partitions, c.sameEndpointRho))
        [] h = "hand_cases" -> Plain(Pairs(HandCases, SubSeq(c.partitions, 1, Min({3, Len(c.partitions)}))))
        [] h = "coverage" -> NamedCells(c.coverageCases, [i \in DOMAIN c.coverageCases |-> <<c.coverageCases[i].bands>>])
        [] h = "power" -> NamedCells(c.scenarios, [i \in DOMAIN c.scenarios |-> c.scenarios[i].bands])
        [] h = "population" -> Plain(Triples(c.utilityLaws, c.partitions, PopulationRho(c)))
        [] h = "decision" -> Plain(Pairs(c.decisionLaws, PopulationRho(c)))
        [] h = "failure_boundary" -> Plain(Nest(c.axes))
        [] h = "real_trajectory" -> RealTrajectoryCells(c)
        [] h = "scaling" -> Plain(c.scaling)
        [] h = "record" -> Plain(<<h>>)

\* semantic_cell_key is the cell itself; its directory holds the token of its
\* name, and so is shared by cells whose names differ in spelling only.  A cell
\* with a name that leaves no token has none: path_coordinates raises.
Directory(cell) == <<cell.at, cell.name.token>>
HasDirectory(cell) == cell.name.token # ""
=============================================================================
