----------------------------- MODULE Preprocessing -----------------------------
(***************************************************************************)
(* The preprocess command (experiments/workflows.py) and what a cell reads *)
(* of its results.  It writes several files one by one and, last, an       *)
(* inventory of them with the digests of its inputs and outputs; a later   *)
(* call that finds the inventory current leaves everything as it is.  The  *)
(* command can be killed, the configuration edited and files lost or       *)
(* damaged between any two of these steps.  A file is replaced atomically. *)
(***************************************************************************)
EXTENDS PreparedCohort

CONSTANTS
  Datasets,      \* contents of the dataset file: frames of rows
  Configs,       \* configurations: [dataset, identity, columns], and what else the digest covers
  Laws,          \* the synthetic laws, in the configured order
  Horizons,      \* censoring horizons of the cells
  Partitions,    \* band counts of the cells
  NoFile, Damaged,
  MaxMishaps     \* bound: edits, kills and losses

ASSUME ConfigsAssumption == \A c \in Configs : c.dataset \in Datasets /\ c.columns \in BOOLEAN
ASSUME DatasetsAssumption ==
  \A rows \in Datasets : IsFiniteSet(DOMAIN rows) /\ \A i \in DOMAIN rows : rows[i].latency \in Nat
ASSUME LawsAssumption == Laws \in Seq(ToSet(Laws))
ASSUME PartitionsAssumption == \A b \in Partitions : b \in 1..FinestBands /\ FinestBands % b = 0
\* finest_observable_summary raises for a horizon that is not positive
ASSUME HorizonsAssumption == Horizons \subseteq Nat \ {0}

VARIABLES
  config,     \* the configuration in the workspace
  dataset,    \* the dataset file
  disk,       \* what preprocess writes
  job,        \* the preprocess call, [step |-> "none"] when there is none
  mishaps

vars == <<config, dataset, disk, job, mishaps>>

Nothing == [step |-> "none"]
RealFiles == {"datasetInventory", "provenance", "schema", "report", "cohort", "inventory"}
LawSet == ToSet(Laws)

Init ==
  /\ config \in Configs
  /\ dataset \in Datasets
  /\ disk = [real |-> [f \in RealFiles |-> NoFile],
             laws |-> [l \in LawSet |-> NoFile], lawInventory |-> NoFile]
  /\ job = Nothing
  /\ mishaps = 0

IsFile(content) == content # NoFile
Readable(content) == content \notin {NoFile, Damaged}

-----------------------------------------------------------------------------
(* preprocess for the synthetic laws *)

\* The manifest of a law is a function of the configuration and the law.
Manifest(c, law) == [specification |-> c, law |-> law]

\* _synthetic_preprocessing_is_current
LawsAreCurrent(selected) ==
  /\ Readable(disk.lawInventory)
  /\ disk.lawInventory.specification = config
  /\ disk.lawInventory.prepared = selected
  /\ \A i \in DOMAIN selected :
       IsFile(disk.laws[selected[i]]) /\ disk.laws[selected[i]] = disk.lawInventory.digests[i]

\* A call for one law, or for all of them; it changes nothing if they are current.
PreprocessLaws(selected, overwrite) ==
  /\ job = Nothing
  /\ overwrite \/ ~ LawsAreCurrent(selected)
  /\ job' = [step |-> "laws", config |-> config, selected |-> selected, digests |-> <<>>]
  /\ UNCHANGED <<config, dataset, disk, mishaps>>

WriteManifest ==
  /\ job.step = "laws" /\ Len(job.digests) < Len(job.selected)
  /\ LET law == job.selected[Len(job.digests) + 1]
         manifest == Manifest(job.config, law)
     IN /\ disk' = [disk EXCEPT !.laws[law] = manifest]
        /\ job' = [job EXCEPT !.digests = Append(@, manifest)]
  /\ UNCHANGED <<config, dataset, mishaps>>

WriteLawInventory ==
  /\ job.step = "laws" /\ Len(job.digests) = Len(job.selected)
  /\ disk' = [disk EXCEPT !.lawInventory =
                [specification |-> job.config, prepared |-> job.selected, digests |-> job.digests]]
  /\ job' = Nothing
  /\ UNCHANGED <<config, dataset, mishaps>>

-----------------------------------------------------------------------------
(* preprocess for the real trajectories *)

\* Mutant: the digest of the cohort is not compared.
CohortOfAnyDigest(sum) ==
  /\ Readable(disk.real["cohort"]) /\ Readable(disk.real["inventory"])
  /\ disk.real["inventory"].specification = config
  /\ disk.real["inventory"].dataset = sum

\* _real_trajectory_preprocessing_is_current
CohortIsCurrent(sum) ==
  /\ Readable(disk.real["cohort"]) /\ Readable(disk.real["inventory"])
  /\ disk.real["inventory"].specification = config
  /\ disk.real["inventory"].dataset = sum
  /\ disk.real["inventory"].cohort = disk.real["cohort"]

\* verify_dataset_integrity raises unless the file is the configured dataset; a
\* missing file is as one that is not.
\* The dataset inventory is written before the columns are validated.
PreprocessCohort(overwrite) ==
  /\ job = Nothing
  /\ dataset = config.dataset
  /\ overwrite \/ ~ CohortIsCurrent(dataset)
  /\ disk' = [disk EXCEPT !.real["datasetInventory"] = [of |-> dataset, specification |-> config]]
  /\ job' = [step |-> "eligibility", config |-> config, sum |-> dataset]
  /\ UNCHANGED <<config, dataset, mishaps>>

\* validate_dataset_schema, which may raise, and build_real_trajectory_eligibility
ReadRows ==
  /\ job.step = "eligibility"
  /\ job' = IF job.config.columns
            THEN [step |-> "provenance", config |-> job.config, sum |-> job.sum,
                  report |-> EligibilityReport(dataset, job.config.identity), events |-> EligibleRows(dataset, job.config.identity)]
            ELSE Nothing
  /\ UNCHANGED <<config, dataset, disk, mishaps>>

\* The order of the writes.
After == [provenance |-> "schema", schema |-> "report", report |-> "cohort",
          cohort |-> "inventory", inventory |-> "none"]

Contents(file) ==
  CASE file = "provenance" -> [of |-> job.sum, specification |-> job.config]
    [] file = "schema"     -> [specification |-> job.config]
    [] file = "report"     -> job.report
    [] file = "cohort"     -> job.events
    [] file = "inventory"  -> [specification |-> job.config, dataset |-> job.sum, cohort |-> job.events]

WriteReal(file) ==
  /\ job.step = file
  /\ disk' = [disk EXCEPT !.real[file] = Contents(file)]
  /\ job' = IF After[file] = "none" THEN Nothing ELSE [job EXCEPT !.step = After[file]]
  /\ UNCHANGED <<config, dataset, mishaps>>

-----------------------------------------------------------------------------
(* The environment *)
Mishap == mishaps < MaxMishaps /\ mishaps' = mishaps + 1

EditConfig(c) ==
  /\ Mishap /\ config' = c
  /\ UNCHANGED <<dataset, disk, job>>

\* The file is read several times; that it is not replaced between the first,
\* for the digest, and the last, for the rows, is assumed.
ReplaceDataset(content) ==
  /\ Mishap /\ job.step # "eligibility" /\ dataset' = content
  /\ UNCHANGED <<config, disk, job>>

Kill ==
  /\ Mishap /\ job # Nothing
  /\ job' = Nothing
  /\ UNCHANGED <<config, dataset, disk>>

LoseFile(content) ==
  /\ Mishap
  /\ \/ \E f \in {"cohort", "inventory"} : disk' = [disk EXCEPT !.real[f] = content]
     \/ \E l \in LawSet : disk' = [disk EXCEPT !.laws[l] = content]
     \/ disk' = [disk EXCEPT !.lawInventory = content]
  /\ UNCHANGED <<config, dataset, job>>

Next ==
  \/ \E overwrite \in BOOLEAN :
       \/ \E selected \in {Laws} \cup {<<l>> : l \in LawSet} : PreprocessLaws(selected, overwrite)
       \/ PreprocessCohort(overwrite)
  \/ WriteManifest \/ WriteLawInventory
  \/ ReadRows
  \/ \E file \in RealFiles : WriteReal(file)
  \/ \E c \in Configs : EditConfig(c)
  \/ \E content \in Datasets : ReplaceDataset(content)
  \/ Kill
  \/ \E content \in {NoFile, Damaged} : LoseFile(content)

Spec == Init /\ [][Next]_vars

-----------------------------------------------------------------------------
\* The sum of the counts f, as the size of their disjoint union.
TotalOf(f) == Cardinality(UNION {{x} \X (1..f[x]) : x \in DOMAIN f})

\* What a preprocess call leaves alone as current is what it would write, after
\* any history of kills, edits, replaced datasets and lost or damaged files:
\* the is-current checks compare the digests of the inputs and of the outputs.
CurrentMeansPrepared ==
  /\ dataset = config.dataset /\ CohortIsCurrent(dataset) =>
       disk.real["cohort"] = EligibleRows(dataset, config.identity)
  /\ \A selected \in {Laws} \cup {<<l>> : l \in LawSet} :
       LawsAreCurrent(selected) =>
         \A i \in DOMAIN selected : disk.laws[selected[i]] = Manifest(config, selected[i])

\* The published exclusion counts and the eligible events partition the rows of
\* the dataset: a row that fails several checks is counted for the first alone,
\* and the breakdowns by device and by expertise count every eligible event.
ReportPartitionsRows(report) ==
  /\ report.total = report.notAnnotated + TotalOf(report.byReason) + report.eligible
  /\ report.excluded = TotalOf(report.byReason)
  /\ TotalOf(report.byDevice) = report.eligible
  /\ TotalOf(report.byExpertise) = report.eligible

\* A cell keeps every event of its stratum, an adjudication exactly at the horizon
\* included, and the empirical error rate is one that its summary allows.
CellKeepsEvents(cell) ==
  LET harmful == TotalOf(cell.summary.harmful)
  IN /\ harmful + TotalOf(cell.summary.correct) = cell.resolved
     /\ cell.resolved + cell.summary.unresolved = cell.size
     /\ cell.errors = harmful + cell.unresolvedErrors
     /\ cell.unresolvedErrors =< cell.summary.unresolved

\* No row of the dataset is lost or counted twice on its way into the results:
\* not by the published eligibility report, and not by a cell that reads whatever
\* cohort is there, in any stratum, at any horizon and in any partition.
EveryRowAccountedFor ==
  LET cohort == disk.real["cohort"]
      strata == {<<"POOLED", Missing>>}
                  \cup {<<"DEVICE", cohort[i].device>> : i \in DOMAIN cohort}
                  \cup {<<"EXPERTISE", cohort[i].expertise>> : i \in DOMAIN cohort}
  IN /\ disk.real["report"] # NoFile => ReportPartitionsRows(disk.real["report"])
     /\ Readable(cohort) =>
          \A stratum \in strata, horizon \in Horizons, bands \in Partitions :
            CellKeepsEvents(CellResult(cohort, stratum[1], stratum[2], horizon, bands))
=============================================================================
