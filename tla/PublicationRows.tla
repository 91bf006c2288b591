---------------------------- MODULE PublicationRows ----------------------------
(***************************************************************************)
(* The verdicts of the study's checks on their way into the tables          *)
(* (synthesis.py, publication_rows.py, supplementary_rows.py).  A check has  *)
(* one verdict, computed in the cell from several comparisons; the tables    *)
(* repeat it, recompute it, or fold the verdicts of many cells into a row.    *)
(*                                                                         *)
(* A failing comparison is <<experiment, position of the cell, part>>.  A row *)
(* is the table it is in, the cells it speaks of, and its pass column.         *)
(***************************************************************************)
EXTENDS StudyPlan

CONSTANT Tau   \* observed timing information of a law under a partition

Positions(e, c) == DOMAIN Coordinates(e, c)
CellAt(e, i, c) == Coordinates(e, c)[i]

TheoremExperiments == {Catalog[n][1] : n \in 1..11}
PartitionTimingExperiments == {"Partition Coherence", "Strict Timing Gain"}
OracleExperiment == "Production Solver vs Independent Oracle"
FloorExperiment == "Compatibility Floor Behavior"
SharpnessExperiment == "Sharpness Against Generic Oracle"
SafetyExperiment == "Safety and Intrinsic Impossibility"
CoverageExperiment == "Anytime Coverage Stress"
\* _VALIDATION_SUMMARY_READERS
CheckedExperiments ==
  PartitionTimingExperiments \union
  {"Same Endpoint, Different Timing", FloorExperiment, SharpnessExperiment, SafetyExperiment,
   OracleExperiment, "Anytime Implementation Hand Cases"}

(***************************************************************************)
(* The comparisons a cell makes.                                             *)
(***************************************************************************)
\* A budget below a floor of zero would be negative: the point has no comparison.
FloorPoints(i, c) ==
  LET cell == CellAt(FloorExperiment, i, c)
  IN  {"at", "above"} \union IF Tau[cell.at[1]][cell.at[2]] > 0 THEN {"below"} ELSE {}

\* The frontier is compared where the budget is in its interior.
SafetyParts(i) == {"regime"} \union IF SafetyCases[i[2]] \in {3, 4} THEN {"frontier"} ELSE {}

Parts(e, i, c) ==
  CASE e = FloorExperiment -> FloorPoints(i, c)
    [] e = SafetyExperiment -> SafetyParts(i)
    [] e \in PartitionTimingExperiments -> {"containment", "expectation"}
    [] OTHER -> {"verdict"}

Comparisons(c) ==
  UNION {UNION {{e} \X {i} \X Parts(e, i, c) : i \in Positions(e, c)} :
           e \in TheoremExperiments \union CheckedExperiments \union {CoverageExperiment}}

\* The verdict a cell persists: all of its comparisons hold.
Passed(failing, e, i) == \A f \in failing : <<f[1], f[2]>> # <<e, i>>
Holds(failing, e, i, part) == <<e, i, part>> \notin failing

(***************************************************************************)
(* The tables.                                                               *)
(***************************************************************************)
Row(table, about, passed) == [table |-> table, about |-> about, passed |-> passed]

\* One row for each cell of an experiment, with the verdict of the cell.
Repeated(table, e, c, failing) ==
  {Row(table, {<<e, i>>}, Passed(failing, e, i)) : i \in Positions(e, c)}

\* One row for a whole experiment: all cases pass.
Folded(table, e, c, failing) ==
  Row(table, {e} \X Positions(e, c), \A i \in Positions(e, c) : Passed(failing, e, i))

TheoremRows(c, failing) ==
  {Folded("theorem_validation", e, c, failing) : e \in TheoremExperiments}

ValidationRows(c, failing) ==
  {Folded("implementation_validation_summary", e, c, failing) : e \in CheckedExperiments}

\* _frontier_oracle_evidence: applicable comparisons only.
FrontierPassed(c, failing) ==
  \A i \in Positions(SafetyExperiment, c) : Holds(failing, SafetyExperiment, i, "frontier")

\* One row for every partition and offset; the one of the finest partition
\* also speaks of the safety frontier.
SolverRows(c, failing) ==
  LET Group(at) == {i \in Positions(OracleExperiment, c) :
                      LET cell == CellAt(OracleExperiment, i, c) IN <<cell.at[2], cell.at[3]>> = at}
      Attached(at) == IF at[1] = c.finest THEN {SafetyExperiment} \X Positions(SafetyExperiment, c) ELSE {}
  IN  {Row("solver_oracle_validation", ({OracleExperiment} \X Group(at)) \union Attached(at),
           /\ \A i \in Group(at) : Passed(failing, OracleExperiment, i)
           /\ at[1] = c.finest => FrontierPassed(c, failing)) :
         at \in (Range(c.partitions) \X Range(c.oracleOffsets))}

\* Mutant: the row only looks at the containment it computes itself.
TimingRowsOfContainment(e, c, failing) ==
  {Row("partition_timing", {<<e, i>>}, Holds(failing, e, i, "containment")) : i \in Positions(e, c)}
\* _partition_timing_row: the persisted verdict, and the containment once more.
TimingRows(e, c, failing) ==
  {Row("partition_timing", {<<e, i>>},
       Passed(failing, e, i) /\ Holds(failing, e, i, "containment")) : i \in Positions(e, c)}

\* compatibility_safety_evidence: a row for every comparison at the floor, every
\* sharpness cell and every safety case.
CompatibilitySafetyRows(c, failing) ==
  (UNION {{Row("compatibility_safety", {<<FloorExperiment, i>>}, Holds(failing, FloorExperiment, i, point)) :
             point \in FloorPoints(i, c)} : i \in Positions(FloorExperiment, c)})
  \union Repeated("compatibility_safety", SharpnessExperiment, c, failing)
  \union Repeated("compatibility_safety", SafetyExperiment, c, failing)

SupplementaryRows(c, failing) ==
  Repeated("legacy_partition_incoherence", "Legacy Partition Incoherence Check", c, failing)
  \union Repeated("same_endpoint_timing", "Same Endpoint, Different Timing", c, failing)
  \union Repeated("anytime_hand_cases", "Anytime Implementation Hand Cases", c, failing)

CoverageRows(c, failing) == Repeated("anytime_coverage", CoverageExperiment, c, failing)

Summaries(c, failing) == TheoremRows(c, failing) \union ValidationRows(c, failing)
Details(c, failing) ==
  SolverRows(c, failing) \union (UNION {TimingRows(e, c, failing) : e \in PartitionTimingExperiments})
  \union CompatibilitySafetyRows(c, failing) \union SupplementaryRows(c, failing)
  \union CoverageRows(c, failing)
================================================================================
