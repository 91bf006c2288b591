---------------------------- MODULE PreparedCohort ----------------------------
(***************************************************************************)
(* What data/real_trajectories.py makes of the rows of a dataset, and      *)
(* experiments/real_trajectory.py of the cohort: which rows are eligible,  *)
(* why the others are not, and the observable summary of a stratum at a    *)
(* censoring horizon.  Times are integers.                                 *)
(***************************************************************************)
EXTENDS Integers, Sequences, FiniteSets, FiniteSetsExt, SequencesExt, Functions

CONSTANT FinestBands   \* method.finest_bands

ASSUME FinestBandsAssumption == FinestBands \in Nat \ {0}

\* Of a field that may be null.
Missing == "missing"

(***************************************************************************)
(* A row of the dataset: reviewed (human_reviewed), truth (is_attack),     *)
(* prediction (ml_prediction), device, expertise (annotator_id), latency   *)
(* (decision_time, 0 for null and for what is not positive) and flow, what *)
(* the columns that may identify a flow hold.  identity is the set of those *)
(* columns that the configuration names (flow_identity_columns).           *)
(*                                                                         *)
(* A frame of rows is a function of row numbers; to filter it is to keep   *)
(* some of the numbers.  The code's cohort has its events without numbers, *)
(* and two of them are taken for different here if only the numbers are.   *)
(***************************************************************************)
Size(rows) == Cardinality(DOMAIN rows)

Annotated(rows) == Restrict(rows, {i \in DOMAIN rows : rows[i].reviewed})

IsDuplicated(row, annotated, identity) ==
  Cardinality({i \in DOMAIN annotated : \A c \in identity : annotated[i].flow[c] = row.flow[c]}) > 1

Reasons == <<"MISSING_GROUND_TRUTH", "MISSING_AUTOMATIC_PREDICTION",
             "INVALID_DEVICE_IDENTITY", "INVALID_DECISION_LATENCY", "DUPLICATE_ANNOTATION">>

Fails(row, reason, annotated, identity) ==
  CASE reason = "MISSING_GROUND_TRUTH"         -> row.truth = Missing
    [] reason = "MISSING_AUTOMATIC_PREDICTION" -> row.prediction = Missing
    [] reason = "INVALID_DEVICE_IDENTITY"      -> row.device = Missing
    [] reason = "INVALID_DECISION_LATENCY"     -> row.latency = 0
    [] reason = "DUPLICATE_ANNOTATION"         -> IsDuplicated(row, annotated, identity)

\* Mutant: rows that an earlier reason excluded are counted again.
ExcludedAgain(n, annotated, identity) ==
  Cardinality({i \in DOMAIN annotated : Fails(annotated[i], Reasons[n], annotated, identity)})

\* newly_excluded by the n-th reason: none before it applies.
NewlyExcluded(n, annotated, identity) ==
  Cardinality({i \in DOMAIN annotated :
                 /\ Fails(annotated[i], Reasons[n], annotated, identity)
                 /\ \A m \in 1..(n - 1) : ~ Fails(annotated[i], Reasons[m], annotated, identity)})

EligibleRows(rows, identity) ==
  LET annotated == Annotated(rows)
  IN Restrict(annotated, {i \in DOMAIN annotated :
                            \A n \in DOMAIN Reasons : ~ Fails(annotated[i], Reasons[n], annotated, identity)})

\* _eligibility_report; byReason in the order of the reasons
EligibilityReport(rows, identity) ==
  LET annotated == Annotated(rows)
      eligible == EligibleRows(rows, identity)
      numbers == DOMAIN eligible
  IN [total |-> Size(rows), candidates |-> Size(annotated), eligible |-> Size(eligible),
      excluded |-> Size(annotated) - Size(eligible),
      notAnnotated |-> Size(rows) - Size(annotated),
      byReason |-> [n \in DOMAIN Reasons |-> NewlyExcluded(n, annotated, identity)],
      byDevice |-> [d \in {eligible[i].device : i \in numbers} |->
                      Cardinality({i \in numbers : eligible[i].device = d})],
      byExpertise |-> [x \in {eligible[i].expertise : i \in numbers} |->
                         Cardinality({i \in numbers : eligible[i].expertise = x})]]

-----------------------------------------------------------------------------
LatentError(event) == event.prediction # event.truth

\* cohort_for_stratum; a stratum without events is an InvalidScientificDataError
Stratum(cohort, kind, value) ==
  Restrict(cohort, {i \in DOMAIN cohort :
                      CASE kind = "POOLED"    -> TRUE
                        [] kind = "DEVICE"    -> cohort[i].device = value
                        [] kind = "EXPERTISE" -> cohort[i].expertise = value})

Resolved(events, horizon) == {i \in DOMAIN events : events[i].latency =< horizon}

\* The band of a resolved event: floor of its latency over the band width, the
\* last band for an event at the horizon.
FinestBand(event, horizon) ==
  LET index == (event.latency * FinestBands) \div horizon
  IN 1 + IF index < FinestBands - 1 THEN index ELSE FinestBands - 1

\* finest_observable_summary, coarsened to a divisor of FinestBands (_observable_summary)
ObservableSummary(events, horizon, bands) ==
  LET ratio == FinestBands \div bands
      CountIn(band, harmful) ==
        Cardinality({i \in Resolved(events, horizon) :
                       /\ LatentError(events[i]) = harmful
                       /\ FinestBand(events[i], horizon) \in ((band - 1) * ratio + 1)..(band * ratio)})
  IN [harmful |-> [b \in 1..bands |-> CountIn(b, TRUE)],
      correct |-> [b \in 1..bands |-> CountIn(b, FALSE)],
      unresolved |-> Cardinality(DOMAIN events \ Resolved(events, horizon))]

\* evaluate_real_trajectory_cell: the accounting, the empirical oracle and the
\* hidden mass that _horizon_information is taken at.
CellResult(cohort, kind, value, horizon, bands) ==
  LET events == Stratum(cohort, kind, value)
      errors == {i \in DOMAIN events : LatentError(events[i])}
  IN [size |-> Size(events),
      resolved |-> Cardinality(Resolved(events, horizon)),
      summary |-> ObservableSummary(events, horizon, bands),
      errors |-> Cardinality(errors),
      unresolvedErrors |-> Cardinality({i \in errors : events[i].latency > horizon})]
=============================================================================
