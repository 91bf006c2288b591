------------------------- MODULE PreprocessingProofs -------------------------
(***************************************************************************)
(* Proofs about Preprocessing, for any datasets, configurations and laws   *)
(* and any number of mishaps: what the is-current checks accept is what    *)
(* the command would write, and no row is lost or counted twice.  The      *)
(* first does not use what the rows of a dataset are eligible for.         *)
(***************************************************************************)
EXTENDS Preprocessing, FiniteSetTheorems, FunctionTheorems, TLAPS

ManifestSet == [specification : Configs, law : LawSet]
RealSteps == {"provenance", "schema", "report", "cohort", "inventory"}

\* The shapes of the records, without the types of the contents of files.
DiskShape ==
  /\ disk = [real |-> disk.real, laws |-> disk.laws, lawInventory |-> disk.lawInventory]
  /\ disk.real = [f \in RealFiles |-> disk.real[f]]
  /\ disk.laws = [l \in LawSet |-> disk.laws[l]]

LawsJob ==
  /\ job = [step |-> "laws", config |-> job.config, selected |-> job.selected, digests |-> job.digests]
  /\ job.config \in Configs
  /\ job.selected \in Seq(LawSet)
  /\ job.digests \in Seq(ManifestSet)
  /\ Len(job.digests) =< Len(job.selected)
  \* The digests taken so far are those of the laws already prepared, in their order.
  /\ \A i \in DOMAIN job.digests : job.digests[i] = Manifest(job.config, job.selected[i])

\* Between the digest of the dataset and the reading of its rows it stays the same.
EligibilityJob ==
  /\ job = [step |-> "eligibility", config |-> job.config, sum |-> job.sum]
  /\ job.sum = dataset

\* What is still to be written is of the dataset and configuration the inventory will name.
WritingJob ==
  /\ job = [step |-> job.step, config |-> job.config, sum |-> job.sum,
            report |-> job.report, events |-> job.events]
  /\ job.step \in RealSteps
  /\ job.events = EligibleRows(job.sum, job.config.identity)

JobTrue == job = Nothing \/ LawsJob \/ EligibilityJob \/ WritingJob

\* An inventory that can be read, whenever it was written, lists the digest of what its
\* configuration and its dataset give, and those of the manifests of its laws.
InventoryTrue ==
  LET inventory == disk.real["inventory"]
  IN Readable(inventory) =>
       inventory.cohort = EligibleRows(inventory.dataset, inventory.specification.identity)

LawInventoryTrue ==
  LET inventory == disk.lawInventory
  IN Readable(inventory) =>
       \A i \in DOMAIN inventory.prepared :
         inventory.digests[i] = Manifest(inventory.specification, inventory.prepared[i])

PreparationInv ==
  /\ config \in Configs
  /\ DiskShape /\ JobTrue /\ InventoryTrue /\ LawInventoryTrue

-----------------------------------------------------------------------------
LEMMA InitPreparation == Init => PreparationInv
<1> SUFFICES ASSUME Init PROVE PreparationInv
  OBVIOUS
<1>1. /\ config \in Configs /\ job = Nothing
      /\ disk = [real |-> [f \in RealFiles |-> NoFile],
                 laws |-> [l \in LawSet |-> NoFile], lawInventory |-> NoFile]
  BY DEF Init
<1>2. DiskShape
  BY <1>1 DEF DiskShape
<1>3. disk.real["inventory"] = NoFile /\ disk.lawInventory = NoFile
  BY <1>1 DEF RealFiles
<1> QED
  BY <1>1, <1>2, <1>3 DEF PreparationInv, JobTrue, InventoryTrue, LawInventoryTrue, Readable

\* A step that leaves the inventories, or takes or spoils them, leaves them true.
LEMMA InventoriesStay ==
  ASSUME PreparationInv,
         disk'.real["inventory"] = disk.real["inventory"] \/ ~ Readable(disk'.real["inventory"]),
         disk'.lawInventory = disk.lawInventory \/ ~ Readable(disk'.lawInventory)
  PROVE  InventoryTrue' /\ LawInventoryTrue'
BY DEF PreparationInv, InventoryTrue, LawInventoryTrue, Readable, Manifest

\* The step names of the four kinds of call are different.
LEMMA JobKind ==
  ASSUME JobTrue
  PROVE  /\ job.step = "laws" => LawsJob
         /\ job.step = "eligibility" => EligibilityJob
         /\ job.step \in RealSteps => WritingJob
<1>1. CASE job = Nothing
  <2>1. job.step = "none"
    BY <1>1 DEF Nothing
  <2> QED
    BY <2>1 DEF RealSteps
<1>2. CASE LawsJob
  <2>1. job.step = "laws"
    BY <1>2 DEF LawsJob
  <2> QED
    BY <1>2, <2>1 DEF RealSteps
<1>3. CASE EligibilityJob
  <2>1. job.step = "eligibility"
    BY <1>3 DEF EligibilityJob
  <2> QED
    BY <1>3, <2>1 DEF RealSteps
<1>4. CASE WritingJob
  <2>1. job.step \in RealSteps
    BY <1>4 DEF WritingJob
  <2> QED
    BY <1>4, <2>1 DEF RealSteps
<1> QED
  BY <1>1, <1>2, <1>3, <1>4 DEF JobTrue

-----------------------------------------------------------------------------
\* The command for the laws.
LEMMA LawsKeep ==
  ASSUME PreparationInv,
         \/ \E overwrite \in BOOLEAN : \E selected \in {Laws} \cup {<<l>> : l \in LawSet} :
              PreprocessLaws(selected, overwrite)
         \/ WriteManifest
         \/ WriteLawInventory
  PROVE  PreparationInv'
<1>1. /\ config' = config /\ dataset' = dataset /\ config \in Configs
      /\ DiskShape /\ JobTrue
  BY DEF PreparationInv, PreprocessLaws, WriteManifest, WriteLawInventory
<1>2. ASSUME NEW overwrite \in BOOLEAN, NEW selected \in {Laws} \cup {<<l>> : l \in LawSet},
             PreprocessLaws(selected, overwrite)
      PROVE  PreparationInv'
  <2>1. /\ disk' = disk
        /\ job' = [step |-> "laws", config |-> config, selected |-> selected, digests |-> <<>>]
    BY <1>2 DEF PreprocessLaws
  <2>2. selected \in Seq(LawSet)
    <3>1. CASE selected = Laws
      BY <3>1, LawsAssumption DEF LawSet
    <3>2. ASSUME NEW l \in LawSet, selected = <<l>>
          PROVE  selected \in Seq(LawSet)
      BY <3>2
    <3> QED
      BY <3>1, <3>2
  <2>3. LawsJob'
    BY <2>1, <2>2, <1>1 DEF LawsJob
  <2>4. DiskShape'
    BY <1>1, <2>1 DEF DiskShape, LawSet
  <2> QED
    BY <1>1, <2>1, <2>3, <2>4, InventoriesStay DEF PreparationInv, JobTrue
<1>3. CASE WriteManifest
  <2> DEFINE law == job.selected[Len(job.digests) + 1]
             manifest == Manifest(job.config, law)
  <2>1. /\ job.step = "laws" /\ Len(job.digests) < Len(job.selected)
        /\ disk' = [disk EXCEPT !.laws[law] = manifest]
        /\ job' = [job EXCEPT !.digests = Append(@, manifest)]
    BY <1>3 DEF WriteManifest
  <2>2. LawsJob
    BY <2>1, <1>1, JobKind
  <2>3. law \in LawSet /\ manifest \in ManifestSet
    BY <2>1, <2>2 DEF LawsJob, Manifest, ManifestSet
  <2> HIDE DEF manifest
  <2>4. job' = [step |-> "laws", config |-> job.config, selected |-> job.selected,
                digests |-> Append(job.digests, manifest)]
    BY <2>1, <2>2 DEF LawsJob
  <2>5. LawsJob'
    <3>1. Append(job.digests, manifest) \in Seq(ManifestSet)
      BY <2>2, <2>3 DEF LawsJob
    <3>2. Len(Append(job.digests, manifest)) =< Len(job.selected)
      BY <2>1, <2>2, <2>3 DEF LawsJob
    <3>3. ASSUME NEW i \in DOMAIN Append(job.digests, manifest)
          PROVE  Append(job.digests, manifest)[i] = Manifest(job.config, job.selected[i])
      <4>1. CASE i = Len(job.digests) + 1
        BY <4>1, <2>2, <2>3 DEF LawsJob, manifest
      <4>2. CASE i \in DOMAIN job.digests
        BY <4>2, <2>2, <2>3 DEF LawsJob
      <4> QED
        BY <4>1, <4>2, <2>2, <2>3 DEF LawsJob
    <3> QED
      BY <2>2, <2>4, <3>1, <3>2, <3>3 DEF LawsJob, LawSet, ManifestSet
  <2>6. /\ disk' = [real |-> disk.real, laws |-> [disk.laws EXCEPT ![law] = manifest],
                    lawInventory |-> disk.lawInventory]
    BY <1>1, <2>1 DEF DiskShape
  <2> HIDE DEF law
  <2>7. DiskShape'
    BY <1>1, <2>6 DEF DiskShape, LawSet
  <2> QED
    BY <1>1, <2>5, <2>6, <2>7, InventoriesStay DEF PreparationInv, JobTrue
<1>4. CASE WriteLawInventory
  <2> DEFINE inventory == [specification |-> job.config, prepared |-> job.selected, digests |-> job.digests]
  <2>1. /\ job.step = "laws" /\ Len(job.digests) = Len(job.selected)
        /\ disk' = [disk EXCEPT !.lawInventory = inventory]
        /\ job' = Nothing
    BY <1>4 DEF WriteLawInventory
  <2>2. LawsJob
    BY <2>1, <1>1, JobKind
  <2>3. disk' = [real |-> disk.real, laws |-> disk.laws, lawInventory |-> inventory]
    BY <1>1, <2>1 DEF DiskShape
  <2>4. DiskShape'
    BY <1>1, <2>3 DEF DiskShape, LawSet
  <2>5. LawInventoryTrue'
    <3>1. \A i \in DOMAIN inventory.prepared :
             inventory.digests[i] = Manifest(inventory.specification, inventory.prepared[i])
      BY <2>1, <2>2 DEF LawsJob
    <3> HIDE DEF inventory
    <3> QED
      BY <2>3, <3>1 DEF LawInventoryTrue, Manifest
  <2>6. InventoryTrue'
    BY <2>3 DEF PreparationInv, InventoryTrue, Readable
  <2> QED
    BY <1>1, <2>1, <2>4, <2>5, <2>6 DEF PreparationInv, JobTrue, Nothing
<1> QED
  BY <1>2, <1>3, <1>4

-----------------------------------------------------------------------------
\* The command for the cohort.
LEMMA CohortKeeps ==
  ASSUME PreparationInv,
         \/ \E overwrite \in BOOLEAN : PreprocessCohort(overwrite)
         \/ ReadRows
         \/ \E file \in RealFiles : WriteReal(file)
  PROVE  PreparationInv'
<1>1. /\ config' = config /\ dataset' = dataset /\ config \in Configs
      /\ DiskShape /\ JobTrue
  BY DEF PreparationInv, PreprocessCohort, ReadRows, WriteReal
<1>2. ASSUME NEW overwrite \in BOOLEAN, PreprocessCohort(overwrite)
      PROVE  PreparationInv'
  <2> DEFINE content == [of |-> dataset, specification |-> config]
  <2>1. /\ disk' = [disk EXCEPT !.real["datasetInventory"] = content]
        /\ job' = [step |-> "eligibility", config |-> config, sum |-> dataset]
    BY <1>2 DEF PreprocessCohort
  <2> HIDE DEF content
  <2>2. disk' = [real |-> [disk.real EXCEPT !["datasetInventory"] = content],
                 laws |-> disk.laws, lawInventory |-> disk.lawInventory]
    BY <1>1, <2>1 DEF DiskShape
  <2>3. DiskShape'
    BY <1>1, <2>2 DEF DiskShape, RealFiles, LawSet
  <2>4. disk'.real["inventory"] = disk.real["inventory"]
    BY <1>1, <2>2 DEF DiskShape, RealFiles
  <2>5. EligibilityJob'
    BY <1>1, <2>1 DEF EligibilityJob
  <2> QED
    BY <1>1, <2>2, <2>3, <2>4, <2>5, InventoriesStay DEF PreparationInv, JobTrue
<1>3. CASE ReadRows
  <2>1. job.step = "eligibility" /\ disk' = disk
    BY <1>3 DEF ReadRows
  <2>2. EligibilityJob
    BY <2>1, <1>1, JobKind
  <2>3. JobTrue'
    <3>1. CASE job.config.columns
      <4> DEFINE report == EligibilityReport(dataset, job.config.identity)
                 events == EligibleRows(dataset, job.config.identity)
      <4>1. job' = [step |-> "provenance", config |-> job.config, sum |-> job.sum,
                    report |-> report, events |-> events]
        BY <1>3, <3>1 DEF ReadRows
      <4> HIDE DEF report
      <4>2. events = EligibleRows(job.sum, job.config.identity)
        BY <2>2 DEF EligibilityJob
      <4> HIDE DEF events
      <4>3. WritingJob'
        BY <4>1, <4>2 DEF WritingJob, RealSteps
      <4> QED
        BY <4>3 DEF JobTrue
    <3>2. CASE ~ job.config.columns
      BY <1>3, <3>2 DEF ReadRows, JobTrue, Nothing
    <3> QED
      BY <3>1, <3>2
  <2>4. DiskShape'
    BY <1>1, <2>1 DEF DiskShape, LawSet
  <2> QED
    BY <1>1, <2>1, <2>3, <2>4, InventoriesStay DEF PreparationInv
<1>4. ASSUME NEW file \in RealFiles, WriteReal(file)
      PROVE  PreparationInv'
  <2>1. /\ job.step = file
        /\ disk' = [disk EXCEPT !.real[file] = Contents(file)]
        /\ job' = IF After[file] = "none" THEN Nothing ELSE [job EXCEPT !.step = After[file]]
    BY <1>4 DEF WriteReal
  <2>2. WritingJob /\ file \in RealSteps
    <3>1. file # "datasetInventory"
      BY <2>1, <1>1 DEF JobTrue, LawsJob, EligibilityJob, WritingJob, Nothing, RealSteps
    <3> QED
      BY <2>1, <3>1, <1>1, JobKind DEF RealFiles, RealSteps
  <2>3. JobTrue'
    <3>1. CASE After[file] = "none"
      BY <2>1, <3>1 DEF JobTrue, Nothing
    <3>2. CASE After[file] # "none"
      <4>1. After[file] \in RealSteps
        BY <2>2, <3>2 DEF After, RealSteps
      <4>2. job' = [step |-> After[file], config |-> job.config, sum |-> job.sum,
                    report |-> job.report, events |-> job.events]
        BY <2>1, <2>2, <3>2 DEF WritingJob
      <4>3. WritingJob'
        BY <2>2, <4>1, <4>2 DEF WritingJob, RealSteps
      <4> QED
        BY <4>3 DEF JobTrue
    <3> QED
      BY <3>1, <3>2
  <2> DEFINE content == Contents(file)
  <2>4. disk' = [real |-> [disk.real EXCEPT ![file] = content],
                 laws |-> disk.laws, lawInventory |-> disk.lawInventory]
    BY <1>1, <2>1 DEF DiskShape
  <2>5. file = "inventory" =>
           content = [specification |-> job.config, dataset |-> job.sum, cohort |-> job.events]
    BY DEF Contents
  <2> HIDE DEF content
  <2>6. DiskShape'
    BY <1>1, <2>4 DEF DiskShape, RealFiles, LawSet
  <2>7. LawInventoryTrue'
    BY <2>4 DEF PreparationInv, LawInventoryTrue, Readable, Manifest
  <2>8. InventoryTrue'
    <3>1. CASE file = "inventory"
      <4>1. disk'.real["inventory"] = content
        BY <1>1, <2>4, <3>1 DEF DiskShape, RealFiles
      <4> QED
        BY <2>2, <2>5, <3>1, <4>1 DEF InventoryTrue, WritingJob
    <3>2. CASE file # "inventory"
      <4>1. disk'.real["inventory"] = disk.real["inventory"]
        BY <1>1, <2>4, <3>2 DEF DiskShape, RealFiles
      <4> QED
        BY <4>1 DEF PreparationInv, InventoryTrue, Readable
    <3> QED
      BY <3>1, <3>2
  <2> QED
    BY <1>1, <2>3, <2>6, <2>7, <2>8 DEF PreparationInv
<1> QED
  BY <1>2, <1>3, <1>4

\* Edits, replaced datasets, kills and lost files: the dataset does not change between
\* its digest and its rows, and a file that is lost or damaged vouches for nothing.
LEMMA EnvironmentKeeps ==
  ASSUME PreparationInv,
         \/ \E c \in Configs : EditConfig(c)
         \/ \E content \in Datasets : ReplaceDataset(content)
         \/ Kill
         \/ \E content \in {NoFile, Damaged} : LoseFile(content)
         \/ UNCHANGED vars
  PROVE  PreparationInv'
<1>1. config' \in Configs
  BY DEF PreparationInv, EditConfig, ReplaceDataset, Kill, LoseFile, vars
<1>2. JobTrue'
  <2>1. CASE job' = job /\ dataset' = dataset
    BY <2>1 DEF PreparationInv, JobTrue, LawsJob, EligibilityJob, WritingJob, Manifest, LawSet,
                ManifestSet, Nothing
  <2>2. CASE job' = Nothing
    BY <2>2 DEF JobTrue, Nothing
  <2>3. ASSUME NEW content \in Datasets, ReplaceDataset(content)
        PROVE  JobTrue'
    <3>1. job' = job /\ job.step # "eligibility"
      BY <2>3 DEF ReplaceDataset
    <3>2. ~ EligibilityJob
      BY <3>1 DEF EligibilityJob
    <3> QED
      BY <3>1, <3>2 DEF PreparationInv, JobTrue, LawsJob, WritingJob, Manifest, LawSet,
                        ManifestSet, Nothing
  <2> QED
    BY <2>1, <2>2, <2>3 DEF EditConfig, Kill, LoseFile, vars
<1> DEFINE Stay ==
      /\ DiskShape'
      /\ disk'.real["inventory"] = disk.real["inventory"] \/ ~ Readable(disk'.real["inventory"])
      /\ disk'.lawInventory = disk.lawInventory \/ ~ Readable(disk'.lawInventory)
<1>3. Stay
  <2>1. DiskShape
    BY DEF PreparationInv
  <2>2. CASE disk' = disk
    BY <2>1, <2>2 DEF DiskShape, LawSet
  <2>3. ASSUME NEW content \in {NoFile, Damaged}, LoseFile(content)
        PROVE  Stay
    <3>1. ASSUME NEW f \in {"cohort", "inventory"}, disk' = [disk EXCEPT !.real[f] = content]
          PROVE  Stay
      <4>1. disk' = [real |-> [disk.real EXCEPT ![f] = content],
                     laws |-> disk.laws, lawInventory |-> disk.lawInventory]
        BY <2>1, <3>1 DEF DiskShape
      <4>2. DiskShape'
        BY <2>1, <4>1 DEF DiskShape, RealFiles, LawSet
      <4>3. disk'.real["inventory"] \in {disk.real["inventory"], content}
        BY <2>1, <4>1 DEF DiskShape, RealFiles
      <4> QED
        BY <4>1, <4>2, <4>3, <2>3 DEF Readable
    <3>2. ASSUME NEW l \in LawSet, disk' = [disk EXCEPT !.laws[l] = content]
          PROVE  Stay
      <4>1. disk' = [real |-> disk.real, laws |-> [disk.laws EXCEPT ![l] = content],
                     lawInventory |-> disk.lawInventory]
        BY <2>1, <3>2 DEF DiskShape
      <4> QED
        BY <2>1, <4>1 DEF DiskShape, RealFiles, LawSet
    <3>3. CASE disk' = [disk EXCEPT !.lawInventory = content]
      <4>1. disk' = [real |-> disk.real, laws |-> disk.laws, lawInventory |-> content]
        BY <2>1, <3>3 DEF DiskShape
      <4> QED
        BY <2>1, <2>3, <4>1 DEF DiskShape, RealFiles, LawSet, Readable
    <3> QED
      BY <2>3, <3>1, <3>2, <3>3 DEF LoseFile
  <2>4. disk' = disk \/ \E content \in {NoFile, Damaged} : LoseFile(content)
    BY DEF EditConfig, ReplaceDataset, Kill, vars
  <2> HIDE DEF Stay
  <2> QED
    BY <2>2, <2>3, <2>4
<1> QED
  BY <1>1, <1>2, <1>3, InventoriesStay DEF PreparationInv

LEMMA AlwaysPrepared == Spec => []PreparationInv
<1>1. PreparationInv /\ [Next]_vars => PreparationInv'
  BY LawsKeep, CohortKeeps, EnvironmentKeeps DEF Next
<1> QED
  BY InitPreparation, <1>1, PTL DEF Spec

-----------------------------------------------------------------------------
\* What the is-current checks of preprocess accept is what the command would write now
\* (_real_trajectory_preprocessing_is_current, _synthetic_preprocessing_is_current):
\* the inventory, written last, is true of its inputs, and the digests tie the present
\* inputs and files to it.
THEOREM CurrentIsPrepared == Spec => []CurrentMeansPrepared
<1>1. PreparationInv => CurrentMeansPrepared
  <2> SUFFICES ASSUME PreparationInv
               PROVE  CurrentMeansPrepared
    OBVIOUS
  <2>1. ASSUME dataset = config.dataset, CohortIsCurrent(dataset)
        PROVE  disk.real["cohort"] = EligibleRows(dataset, config.identity)
    BY <2>1 DEF PreparationInv, InventoryTrue, CohortIsCurrent
  <2>2. ASSUME NEW selected, LawsAreCurrent(selected), NEW i \in DOMAIN selected
        PROVE  disk.laws[selected[i]] = Manifest(config, selected[i])
    BY <2>2 DEF PreparationInv, LawInventoryTrue, LawsAreCurrent
  <2> QED
    BY <2>1, <2>2 DEF CurrentMeansPrepared
<1> QED
  BY <1>1, AlwaysPrepared, PTL

-----------------------------------------------------------------------------
(* Every row is accounted for                                               *)

\* A frame whose rows can be counted, as those of the datasets are.
IsFrame(rows) == IsFiniteSet(DOMAIN rows) /\ \A i \in DOMAIN rows : rows[i].latency \in Nat

\* Whatever the history, a report is that of some dataset under some configuration, and a
\* cohort that can be read is what some dataset had of eligible rows under one.
ReportHeld(report) ==
  \E rows \in Datasets, c \in Configs : report = EligibilityReport(rows, c.identity)
CohortHeld(cohort) ==
  \E rows \in Datasets, c \in Configs : cohort = EligibleRows(rows, c.identity)

AccountInv ==
  /\ config \in Configs /\ dataset \in Datasets
  /\ job.step = "eligibility" => job.config \in Configs
  /\ job.step \in RealSteps => ReportHeld(job.report) /\ CohortHeld(job.events)
  /\ disk.real["report"] # NoFile => ReportHeld(disk.real["report"])
  /\ Readable(disk.real["cohort"]) => CohortHeld(disk.real["cohort"])

-----------------------------------------------------------------------------
\* Elements that are counted class by class are counted once each: k says the class an
\* element is in, and f how many there are in each.
LEMMA ClassesAddUp ==
  ASSUME NEW S, IsFiniteSet(S), NEW k, NEW f,
         \A i \in S : k[i] \in DOMAIN f,
         \A x \in DOMAIN f : f[x] = Cardinality({i \in S : k[i] = x})
  PROVE  TotalOf(f) = Cardinality(S)
<1> DEFINE C(x) == {i \in S : k[i] = x}
           U == UNION {{x} \X (1..f[x]) : x \in DOMAIN f}
           b == [x \in DOMAIN f |-> CHOOSE g \in Bijection(1..f[x], C(x)) : TRUE]
           h == [p \in U |-> b[p[1]][p[2]]]
<1>1. ASSUME NEW x \in DOMAIN f
      PROVE  b[x] \in Bijection(1..f[x], C(x))
  <2>1. C(x) \in SUBSET S
    OBVIOUS
  <2>2. IsFiniteSet(C(x))
    BY <2>1, FS_Subset
  <2>3. ExistsBijection(1..f[x], C(x))
    BY <2>2, FS_CardinalityType
  <2>4. QED
    BY <2>3 DEF ExistsBijection
<1> HIDE DEF b
<1>2. ASSUME NEW p \in U
      PROVE  /\ p = <<p[1], p[2]>> /\ p[1] \in DOMAIN f /\ p[2] \in 1..f[p[1]]
             /\ h[p] = b[p[1]][p[2]] /\ h[p] \in S /\ k[h[p]] = p[1]
  <2>1. PICK x \in DOMAIN f : p \in {x} \X (1..f[x])
    OBVIOUS
  <2>2. p = <<p[1], p[2]>> /\ p[1] = x /\ p[2] \in 1..f[x]
    BY <2>1
  <2>3. b[x][p[2]] \in C(x)
    BY <1>1, <2>2 DEF Bijection, Injection
  <2>4. QED
    BY <2>2, <2>3
<1>3. \A p \in U : h[p] \in S
  BY <1>2
<1>4. ASSUME NEW p \in U, NEW q \in U, h[p] = h[q]
      PROVE  p = q
  <2> HIDE DEF U, h
  <2>1. p[1] = q[1]
    <3>1. k[h[p]] = p[1] /\ k[h[q]] = q[1]
      BY <1>2
    <3>2. QED
      BY <3>1, <1>4
  <2>2. b[p[1]] \in Bijection(1..f[p[1]], C(p[1]))
    BY <1>1, <1>2
  <2>3. /\ p[2] \in 1..f[p[1]] /\ q[2] \in 1..f[p[1]]
        /\ b[p[1]][p[2]] = b[p[1]][q[2]]
    BY <1>2, <1>4, <2>1
  <2> DEFINE g == b[p[1]]
  <2>4. p[2] = q[2]
    <3>1. g \in Bijection(1..f[p[1]], C(p[1])) /\ g[p[2]] = g[q[2]]
      BY <2>2, <2>3
    <3> HIDE DEF g, C
    <3>2. DOMAIN g = 1..f[p[1]] /\ \A x, y \in DOMAIN g : g[x] = g[y] => x = y
      BY <3>1 DEF Bijection, Injection, IsInjective
    <3>3. QED
      BY <2>3, <3>1, <3>2
  <2>5. QED
    BY <1>2, <2>1, <2>4
<1>5. ASSUME NEW i \in S
      PROVE  \E p \in U : h[p] = i
  <2>1. k[i] \in DOMAIN f /\ i \in C(k[i])
    OBVIOUS
  <2>2. b[k[i]] \in Bijection(1..f[k[i]], C(k[i]))
    BY <1>1, <2>1
  <2>3. PICK n \in 1..f[k[i]] : b[k[i]][n] = i
    BY <2>1, <2>2 DEF Bijection, Surjection
  <2>4. <<k[i], n>> \in U
    BY <2>1, <2>3
  <2>5. h[<<k[i], n>>] = i
    BY <2>3, <2>4
  <2>6. QED
    BY <2>4, <2>5
<1>6. h \in Bijection(U, S)
  BY <1>3, <1>4, <1>5, Fun_IsBij
<1>7. ExistsBijection(S, U)
  BY <1>6, Fun_ExistsBijSymmetric DEF ExistsBijection
<1>8. Cardinality(U) = Cardinality(S)
  BY <1>7, FS_Bijection
<1>9. QED
  BY <1>8 DEF TotalOf

\* A set and what of it satisfies a condition or not.
LEMMA TwoParts ==
  ASSUME NEW S, IsFiniteSet(S), NEW A, NEW B, A \cup B = S, A \cap B = {}
  PROVE  /\ Cardinality(A) + Cardinality(B) = Cardinality(S)
         /\ Cardinality(A) \in Nat /\ Cardinality(B) \in Nat /\ Cardinality(S) \in Nat
         /\ IsFiniteSet(A) /\ IsFiniteSet(B)
<1>1. A \in SUBSET S /\ B \in SUBSET S
  OBVIOUS
<1>2. IsFiniteSet(A) /\ IsFiniteSet(B)
  BY <1>1, FS_Subset
<1>3. Cardinality(A) \in Nat /\ Cardinality(B) \in Nat /\ Cardinality(S) \in Nat
  BY <1>2, FS_CardinalityType
<1>4. Cardinality(A \cap B) = 0
  BY FS_EmptySet, Zenon
<1>5. Cardinality(S) = Cardinality(A) + Cardinality(B) - Cardinality(A \cap B)
  <2>1. Cardinality(A \cup B) = Cardinality(A) + Cardinality(B) - Cardinality(A \cap B)
    BY <1>2, FS_Union
  <2>2. QED
    BY <2>1, Zenon
<1>6. QED
  BY <1>2, <1>3, <1>4, <1>5

-----------------------------------------------------------------------------
\* Filtering a frame keeps its rows as they are.
LEMMA FilteredFrame ==
  ASSUME NEW rows, IsFrame(rows), NEW K \in SUBSET DOMAIN rows
  PROVE  /\ IsFrame(Restrict(rows, K)) /\ DOMAIN Restrict(rows, K) = K
         /\ \A i \in K : Restrict(rows, K)[i] = rows[i]
         /\ Size(Restrict(rows, K)) = Cardinality(K)
<1>1. DOMAIN Restrict(rows, K) = K /\ \A i \in K : Restrict(rows, K)[i] = rows[i]
  BY DEF Restrict
<1>2. IsFiniteSet(K)
  BY FS_Subset DEF IsFrame
<1>3. QED
  BY <1>1, <1>2 DEF IsFrame, Size

LEMMA EligibleFrame ==
  ASSUME NEW rows, IsFrame(rows), NEW identity
  PROVE  /\ IsFrame(Annotated(rows)) /\ IsFrame(EligibleRows(rows, identity))
         /\ DOMAIN Annotated(rows) \subseteq DOMAIN rows
         /\ DOMAIN EligibleRows(rows, identity) =
              {i \in DOMAIN Annotated(rows) :
                 \A n \in DOMAIN Reasons : ~ Fails(Annotated(rows)[i], Reasons[n], Annotated(rows), identity)}
<1> DEFINE K == {i \in DOMAIN rows : rows[i].reviewed}
           annotated == Annotated(rows)
           L == {i \in DOMAIN annotated :
                   \A n \in DOMAIN Reasons : ~ Fails(annotated[i], Reasons[n], annotated, identity)}
<1>1. annotated = Restrict(rows, K) /\ K \in SUBSET DOMAIN rows
  BY DEF Annotated
<1>2. EligibleRows(rows, identity) = Restrict(annotated, L)
  BY DEF EligibleRows
<1> HIDE DEF K, annotated
<1>3. IsFrame(annotated) /\ DOMAIN annotated = K
  BY <1>1, FilteredFrame
<1>4. L \in SUBSET DOMAIN annotated
  OBVIOUS
<1> HIDE DEF L
<1>5. IsFrame(EligibleRows(rows, identity)) /\ DOMAIN EligibleRows(rows, identity) = L
  BY <1>2, <1>3, <1>4, FilteredFrame
<1>6. QED
  BY <1>1, <1>3, <1>5 DEF annotated, L

\* An annotated row that is not eligible is excluded by the first reason that applies to it.
FirstReason(row, annotated, identity) ==
  CHOOSE n \in DOMAIN Reasons :
    /\ Fails(row, Reasons[n], annotated, identity)
    /\ \A m \in 1..(n - 1) : ~ Fails(row, Reasons[m], annotated, identity)

LEMMA FirstReasonIs ==
  ASSUME NEW row, NEW annotated, NEW identity,
         \E n \in DOMAIN Reasons : Fails(row, Reasons[n], annotated, identity)
  PROVE  /\ FirstReason(row, annotated, identity) \in DOMAIN Reasons
         /\ \A n \in DOMAIN Reasons :
              n = FirstReason(row, annotated, identity)
                <=> /\ Fails(row, Reasons[n], annotated, identity)
                    /\ \A m \in 1..(n - 1) : ~ Fails(row, Reasons[m], annotated, identity)
<1> DEFINE F(n) == Fails(row, Reasons[n], annotated, identity)
           First(n) == F(n) /\ \A m \in 1..(n - 1) : ~ F(m)
<1>1. DOMAIN Reasons = 1..5
  BY DEF Reasons
<1>2. \E n \in 1..5 : F(n)
  BY <1>1
<1>3. FirstReason(row, annotated, identity) = CHOOSE n \in 1..5 : First(n)
  BY <1>1 DEF FirstReason
<1> HIDE DEF F
<1>4. \E n \in 1..5 : First(n)
  BY <1>2
<1>5. \A n, m \in 1..5 : First(n) /\ First(m) => n = m
  OBVIOUS
<1>6. /\ (CHOOSE n \in 1..5 : First(n)) \in 1..5
      /\ \A n \in 1..5 : n = (CHOOSE m \in 1..5 : First(m)) <=> First(n)
  BY <1>4, <1>5
<1>7. QED
  BY <1>1, <1>3, <1>6 DEF F

\* The report counts every row of the dataset once.
LEMMA ReportAddsUp ==
  ASSUME NEW rows, IsFrame(rows), NEW identity
  PROVE  ReportPartitionsRows(EligibilityReport(rows, identity))
<1> DEFINE annotated == Annotated(rows)
           eligible == EligibleRows(rows, identity)
           A == DOMAIN annotated
           E == DOMAIN eligible
           X == A \ E
           byReason == [n \in DOMAIN Reasons |-> NewlyExcluded(n, annotated, identity)]
           byDevice == [d \in {eligible[i].device : i \in E} |->
                          Cardinality({i \in E : eligible[i].device = d})]
           byExpertise == [x \in {eligible[i].expertise : i \in E} |->
                             Cardinality({i \in E : eligible[i].expertise = x})]
           report == EligibilityReport(rows, identity)
<1>1. report = [total |-> Size(rows), candidates |-> Size(annotated), eligible |-> Size(eligible),
                excluded |-> Size(annotated) - Size(eligible),
                notAnnotated |-> Size(rows) - Size(annotated),
                byReason |-> byReason, byDevice |-> byDevice, byExpertise |-> byExpertise]
  BY DEF EligibilityReport
<1>2. /\ IsFiniteSet(DOMAIN rows) /\ IsFiniteSet(A) /\ IsFiniteSet(E)
      /\ A \subseteq DOMAIN rows /\ E \subseteq A
      /\ E = {i \in A : \A n \in DOMAIN Reasons : ~ Fails(annotated[i], Reasons[n], annotated, identity)}
  <2>1. /\ IsFrame(annotated) /\ IsFrame(eligible) /\ A \subseteq DOMAIN rows
        /\ E = {i \in A : \A n \in DOMAIN Reasons : ~ Fails(annotated[i], Reasons[n], annotated, identity)}
    BY EligibleFrame, Zenon
  <2> HIDE DEF annotated, eligible
  <2>2. QED
    BY <2>1 DEF IsFrame
<1> HIDE DEF annotated, eligible, report
<1>3. Size(rows) = Cardinality(DOMAIN rows) /\ Size(annotated) = Cardinality(A) /\ Size(eligible) = Cardinality(E)
  BY DEF Size
<1>4. TotalOf(byReason) = Cardinality(X)
  <2> DEFINE k == [i \in X |-> FirstReason(annotated[i], annotated, identity)]
  <2>1. ASSUME NEW i \in X
        PROVE  \E n \in DOMAIN Reasons : Fails(annotated[i], Reasons[n], annotated, identity)
    BY <1>2
  <2>2. ASSUME NEW i \in X
        PROVE  k[i] \in DOMAIN byReason
    <3>1. FirstReason(annotated[i], annotated, identity) \in DOMAIN Reasons
      BY <2>1, FirstReasonIs
    <3>2. QED
      BY <3>1
  <2>3. ASSUME NEW n \in DOMAIN byReason
        PROVE  byReason[n] = Cardinality({i \in X : k[i] = n})
    <3> DEFINE First(i) == /\ Fails(annotated[i], Reasons[n], annotated, identity)
                           /\ \A m \in 1..(n - 1) : ~ Fails(annotated[i], Reasons[m], annotated, identity)
    <3>1. byReason[n] = Cardinality({i \in A : First(i)})
      BY <2>3 DEF NewlyExcluded
    <3>2. ASSUME NEW i \in A, First(i)
          PROVE  i \in X
      BY <1>2, <2>3, <3>2
    <3>3. ASSUME NEW i \in X
          PROVE  k[i] = n <=> First(i)
      BY <2>1, <2>3, FirstReasonIs
    <3> HIDE DEF First, k
    <3>4. {i \in A : First(i)} = {i \in X : k[i] = n}
      BY <3>2, <3>3
    <3>5. QED
      BY <3>1, <3>4
  <2>4. IsFiniteSet(X)
    BY <1>2, FS_Difference
  <2> HIDE DEF k, byReason, X
  <2>5. QED
    BY <2>2, <2>3, <2>4, ClassesAddUp
<1>5. TotalOf(byDevice) = Cardinality(E)
  <2> DEFINE k == [i \in E |-> eligible[i].device]
  <2>1. \A i \in E : k[i] \in DOMAIN byDevice
    OBVIOUS
  <2>2. ASSUME NEW d \in DOMAIN byDevice
        PROVE  byDevice[d] = Cardinality({i \in E : k[i] = d})
    <3>1. {i \in E : eligible[i].device = d} = {i \in E : k[i] = d}
      OBVIOUS
    <3>2. QED
      BY <3>1
  <2> HIDE DEF k, byDevice, E
  <2>3. QED
    BY <1>2, <2>1, <2>2, ClassesAddUp
<1>6. TotalOf(byExpertise) = Cardinality(E)
  <2> DEFINE k == [i \in E |-> eligible[i].expertise]
  <2>1. \A i \in E : k[i] \in DOMAIN byExpertise
    OBVIOUS
  <2>2. ASSUME NEW x \in DOMAIN byExpertise
        PROVE  byExpertise[x] = Cardinality({i \in E : k[i] = x})
    <3>1. {i \in E : eligible[i].expertise = x} = {i \in E : k[i] = x}
      OBVIOUS
    <3>2. QED
      BY <3>1
  <2> HIDE DEF k, byExpertise, E
  <2>3. QED
    BY <1>2, <2>1, <2>2, ClassesAddUp
<1> HIDE DEF byReason, byDevice, byExpertise, A, E
<1>7. Cardinality(E) + Cardinality(X) = Cardinality(A)
      /\ Cardinality(E) \in Nat /\ Cardinality(X) \in Nat /\ Cardinality(A) \in Nat
  <2>1. E \cup X = A /\ E \cap X = {}
    BY <1>2
  <2>2. QED
    BY <1>2, <2>1, TwoParts
<1>8. Cardinality(DOMAIN rows) \in Nat
  BY <1>2, FS_CardinalityType
<1>9. /\ report.total = Cardinality(DOMAIN rows)
      /\ report.notAnnotated = Cardinality(DOMAIN rows) - Cardinality(A)
      /\ report.eligible = Cardinality(E)
      /\ report.excluded = Cardinality(A) - Cardinality(E)
      /\ TotalOf(report.byReason) = Cardinality(X)
      /\ TotalOf(report.byDevice) = Cardinality(E) /\ TotalOf(report.byExpertise) = Cardinality(E)
  BY <1>1, <1>3, <1>4, <1>5, <1>6
<1>10. ReportPartitionsRows(report)
  BY <1>7, <1>8, <1>9 DEF ReportPartitionsRows
<1>11. QED
  BY <1>10 DEF report

-----------------------------------------------------------------------------
LEMMA Quotient ==
  ASSUME NEW n \in Nat, NEW d \in Nat \ {0}
  PROVE  /\ n \div d \in Nat /\ (n \div d) * d =< n /\ n < (n \div d) * d + d
         /\ \A q \in Nat : q * d =< n /\ n < q * d + d => n \div d = q
OBVIOUS

\* A band of the finest partition lies in one band of a coarser one.
CoarseOf(f, bands) == (f - 1) \div (FinestBands \div bands) + 1

LEMMA BandIsMerged ==
  ASSUME NEW bands \in Partitions, NEW f \in 1..FinestBands
  PROVE  /\ CoarseOf(f, bands) \in 1..bands
         /\ \A b \in 1..bands :
              f \in ((b - 1) * (FinestBands \div bands) + 1)..(b * (FinestBands \div bands))
                <=> b = CoarseOf(f, bands)
<1> DEFINE ratio == FinestBands \div bands
           q == (f - 1) \div ratio
<1>1. bands \in Nat \ {0} /\ FinestBands \in Nat \ {0} /\ bands =< FinestBands /\ FinestBands % bands = 0
  BY PartitionsAssumption, FinestBandsAssumption
<1>2. ratio \in Nat \ {0} /\ FinestBands = ratio * bands
  BY <1>1
<1>3. CoarseOf(f, bands) = q + 1
  BY DEF CoarseOf
<1>4. f \in Nat /\ f - 1 \in Nat /\ f =< FinestBands
  BY <1>1
<1>5. /\ q \in Nat /\ q * ratio =< f - 1 /\ f - 1 < q * ratio + ratio
      /\ \A p \in Nat : p * ratio =< f - 1 /\ f - 1 < p * ratio + ratio => q = p
  BY <1>2, <1>4, Quotient
<1> HIDE DEF ratio, q
<1>6. q + 1 =< bands
  <2> SUFFICES ASSUME bands =< q PROVE FALSE
    BY <1>1, <1>5
  <2>1. bands * ratio =< q * ratio
    BY <1>1, <1>2, <1>5
  <2>2. QED
    BY <1>1, <1>2, <1>4, <1>5, <2>1
<1>7. ASSUME NEW b \in 1..bands
      PROVE  f \in ((b - 1) * ratio + 1)..(b * ratio) <=> b = q + 1
  <2>1. b - 1 \in Nat /\ b * ratio = (b - 1) * ratio + ratio /\ (b - 1) * ratio \in Nat
    BY <1>1, <1>2
  <2>2. f \in ((b - 1) * ratio + 1)..(b * ratio)
          <=> (b - 1) * ratio =< f - 1 /\ f - 1 < (b - 1) * ratio + ratio
    BY <1>4, <2>1, <1>2
  <2>3. (b - 1) * ratio =< f - 1 /\ f - 1 < (b - 1) * ratio + ratio => q = b - 1
    BY <1>5, <2>1
  <2>4. b = q + 1 => (b - 1) * ratio =< f - 1 /\ f - 1 < (b - 1) * ratio + ratio
    <3>1. b = q + 1 => b - 1 = q
      BY <1>5
    <3>2. QED
      BY <1>5, <3>1
  <2>5. QED
    BY <1>5, <2>1, <2>2, <2>3, <2>4
<1>8. QED
  BY <1>1, <1>3, <1>5, <1>6, <1>7 DEF ratio

\* A resolved event has a band of the finest partition, at the horizon as well.
LEMMA ResolvedHasBand ==
  ASSUME NEW event, event.latency \in Nat, NEW horizon \in Horizons
  PROVE  FinestBand(event, horizon) \in 1..FinestBands
<1> DEFINE index == (event.latency * FinestBands) \div horizon
<1>1. horizon \in Nat \ {0} /\ FinestBands \in Nat \ {0}
  BY HorizonsAssumption, FinestBandsAssumption
<1>2. event.latency * FinestBands \in Nat
  BY <1>1
<1>3. index \in Nat
  BY <1>1, <1>2, Quotient
<1>4. FinestBand(event, horizon) = 1 + IF index < FinestBands - 1 THEN index ELSE FinestBands - 1
  BY DEF FinestBand
<1> HIDE DEF index
<1>5. QED
  BY <1>1, <1>3, <1>4

\* What a band of a cell counts, and all its bands together.
InBand(events, horizon, bands, b, error) ==
  {i \in Resolved(events, horizon) :
     /\ LatentError(events[i]) = error
     /\ FinestBand(events[i], horizon) \in ((b - 1) * (FinestBands \div bands) + 1)..(b * (FinestBands \div bands))}
Outcomes(events, horizon, error) == {i \in Resolved(events, horizon) : LatentError(events[i]) = error}

\* Over the bands, the resolved events with an error, or without one, are counted once each.
LEMMA BandsAddUp ==
  ASSUME NEW events, IsFrame(events), NEW horizon \in Horizons, NEW bands \in Partitions,
         NEW error \in BOOLEAN, NEW f, DOMAIN f = 1..bands,
         \A b \in 1..bands : f[b] = Cardinality(InBand(events, horizon, bands, b, error))
  PROVE  TotalOf(f) = Cardinality(Outcomes(events, horizon, error))
<1> DEFINE S == Outcomes(events, horizon, error)
           k == [i \in S |-> CoarseOf(FinestBand(events[i], horizon), bands)]
           In(i, b) == FinestBand(events[i], horizon)
                         \in ((b - 1) * (FinestBands \div bands) + 1)..(b * (FinestBands \div bands))
<1>1. S \subseteq DOMAIN events /\ IsFiniteSet(S)
  <2>1. S \in SUBSET DOMAIN events
    BY DEF Resolved, Outcomes
  <2>2. QED
    BY <2>1, FS_Subset DEF IsFrame
<1>2. ASSUME NEW i \in S
      PROVE  k[i] \in 1..bands /\ \A b \in 1..bands : In(i, b) <=> b = k[i]
  <2>1. FinestBand(events[i], horizon) \in 1..FinestBands
    BY <1>1, ResolvedHasBand DEF IsFrame
  <2>2. QED
    BY <2>1, BandIsMerged
<1>3. ASSUME NEW b \in 1..bands
      PROVE  f[b] = Cardinality({i \in S : k[i] = b})
  <2>1. InBand(events, horizon, bands, b, error) = {i \in S : In(i, b)}
    BY DEF InBand, Outcomes
  <2> HIDE DEF In, k
  <2>2. {i \in S : In(i, b)} = {i \in S : k[i] = b}
    BY <1>2
  <2>3. QED
    BY <2>1, <2>2
<1> HIDE DEF S, k
<1>4. TotalOf(f) = Cardinality(S)
  <2>1. IsFiniteSet(S)
    BY <1>1
  <2>2. \A i \in S : k[i] \in DOMAIN f
    BY <1>2
  <2>3. \A b \in DOMAIN f : f[b] = Cardinality({i \in S : k[i] = b})
    BY <1>3
  <2>4. QED
    BY <2>1, <2>2, <2>3, ClassesAddUp, Zenon
<1>5. QED
  BY <1>4 DEF S

-----------------------------------------------------------------------------
\* A cell keeps every event of its stratum, of whatever stratum of whatever cohort.
LEMMA CellAddsUp ==
  ASSUME NEW cohort, IsFrame(cohort), NEW kind, NEW value,
         NEW horizon \in Horizons, NEW bands \in Partitions
  PROVE  CellKeepsEvents(CellResult(cohort, kind, value, horizon, bands))
<1> DEFINE events == Stratum(cohort, kind, value)
           D == DOMAIN events
           R == Resolved(events, horizon)
           errors == {i \in D : LatentError(events[i])}
           summary == ObservableSummary(events, horizon, bands)
           cell == CellResult(cohort, kind, value, horizon, bands)
           Harmful == Outcomes(events, horizon, TRUE)
           Correct == Outcomes(events, horizon, FALSE)
           Late == {i \in errors : events[i].latency > horizon}
<1>1. IsFrame(events)
  <2> DEFINE K == {i \in DOMAIN cohort : CASE kind = "POOLED"    -> TRUE
                                           [] kind = "DEVICE"    -> cohort[i].device = value
                                           [] kind = "EXPERTISE" -> cohort[i].expertise = value}
  <2>1. events = Restrict(cohort, K)
    BY DEF Stratum
  <2>2. K \in SUBSET DOMAIN cohort
    OBVIOUS
  <2> HIDE DEF K, events
  <2>3. QED
    BY <2>1, <2>2, FilteredFrame
<1> HIDE DEF events
<1>2. cell = [size |-> Size(events), resolved |-> Cardinality(R), summary |-> summary,
              errors |-> Cardinality(errors), unresolvedErrors |-> Cardinality(Late)]
  BY DEF CellResult, events
<1>3. /\ TotalOf(summary.harmful) = Cardinality(Harmful)
      /\ TotalOf(summary.correct) = Cardinality(Correct)
      /\ summary.unresolved = Cardinality(D \ R)
  <2> DEFINE counts(error) == [b \in 1..bands |-> Cardinality(InBand(events, horizon, bands, b, error))]
  <2>1. summary = [harmful |-> counts(TRUE), correct |-> counts(FALSE), unresolved |-> Cardinality(D \ R)]
    BY DEF ObservableSummary, InBand
  <2>2. ASSUME NEW error \in BOOLEAN
        PROVE  TotalOf(counts(error)) = Cardinality(Outcomes(events, horizon, error))
    <3> DEFINE f == counts(error)
    <3>1. DOMAIN f = 1..bands /\ \A b \in 1..bands : f[b] = Cardinality(InBand(events, horizon, bands, b, error))
      OBVIOUS
    <3> HIDE DEF f
    <3>2. TotalOf(f) = Cardinality(Outcomes(events, horizon, error))
      BY <1>1, <3>1, BandsAddUp
    <3>3. QED
      BY <3>2 DEF f
  <2> HIDE DEF counts, summary
  <2>3. TotalOf(counts(TRUE)) = Cardinality(Harmful) /\ TotalOf(counts(FALSE)) = Cardinality(Correct)
    <3>1. TRUE \in BOOLEAN /\ FALSE \in BOOLEAN
      OBVIOUS
    <3>2. QED
      BY <2>2, <3>1, Zenon
  <2>4. QED
    BY <2>1, <2>3
<1>4. R \subseteq D /\ \A i \in D : i \in R <=> events[i].latency =< horizon
  BY DEF Resolved
<1>5. IsFiniteSet(D) /\ \A i \in D : events[i].latency \in Nat
  BY <1>1 DEF IsFrame
<1>6. /\ Harmful = {i \in R : LatentError(events[i])} /\ Correct = {i \in R : ~ LatentError(events[i])}
  BY DEF LatentError, Outcomes
<1> HIDE DEF D, R, summary
<1>7. IsFiniteSet(R) /\ IsFiniteSet(errors) /\ IsFiniteSet(D \ R)
  <2>1. R \in SUBSET D /\ errors \in SUBSET D /\ D \ R \in SUBSET D
    BY <1>4
  <2>2. QED
    BY <1>5, <2>1, FS_Subset
<1>8. /\ Cardinality(Harmful) + Cardinality(Correct) = Cardinality(R)
      /\ Cardinality(Harmful) \in Nat /\ Cardinality(Correct) \in Nat
  <2>1. Harmful \cup Correct = R /\ Harmful \cap Correct = {}
    BY <1>4, <1>6
  <2>2. QED
    BY <1>7, <2>1, TwoParts
<1>9. /\ Cardinality(R) + Cardinality(D \ R) = Cardinality(D)
      /\ Cardinality(R) \in Nat /\ Cardinality(D \ R) \in Nat /\ Cardinality(D) \in Nat
  <2>1. R \cup (D \ R) = D /\ R \cap (D \ R) = {}
    BY <1>4
  <2>2. QED
    BY <1>5, <2>1, TwoParts
<1>10. horizon \in Nat
  BY HorizonsAssumption
<1>11. /\ Cardinality(Harmful) + Cardinality(Late) = Cardinality(errors)
       /\ Cardinality(Late) \in Nat /\ Cardinality(errors) \in Nat
  <2>1. \A i \in D : i \in R <=> ~ (events[i].latency > horizon)
    BY <1>4, <1>5, <1>10
  <2>2. Harmful \subseteq errors /\ Late \subseteq errors
    BY <1>4, <1>6
  <2>3. \A i \in errors : i \in Harmful <=> i \notin Late
    BY <1>6, <2>1
  <2>4. Harmful \cup Late = errors /\ Harmful \cap Late = {}
    BY <2>2, <2>3
  <2>5. QED
    BY <1>7, <2>4, TwoParts
<1>12. Cardinality(Late) =< Cardinality(D \ R)
  <2>1. Late \in SUBSET (D \ R)
    BY <1>4, <1>5, <1>10
  <2>2. QED
    BY <1>7, <2>1, FS_Subset
<1>13. Size(events) = Cardinality(D)
  BY DEF Size, D
<1> HIDE DEF Harmful, Correct, Late, errors, cell
<1>14. /\ cell.size = Cardinality(D) /\ cell.resolved = Cardinality(R)
       /\ cell.errors = Cardinality(errors) /\ cell.unresolvedErrors = Cardinality(Late)
       /\ TotalOf(cell.summary.harmful) = Cardinality(Harmful)
       /\ TotalOf(cell.summary.correct) = Cardinality(Correct)
       /\ cell.summary.unresolved = Cardinality(D \ R)
  BY <1>2, <1>3, <1>13
<1>15. CellKeepsEvents(cell)
  BY <1>8, <1>9, <1>11, <1>12, <1>14 DEF CellKeepsEvents
<1>16. QED
  BY <1>15 DEF cell

-----------------------------------------------------------------------------
LEMMA InitAccount == Init => AccountInv
<1> SUFFICES ASSUME Init PROVE AccountInv
  OBVIOUS
<1>1. /\ config \in Configs /\ dataset \in Datasets /\ job = Nothing
      /\ disk.real = [f \in RealFiles |-> NoFile]
  BY DEF Init
<1>2. job.step = "none"
  BY <1>1 DEF Nothing
<1>3. disk.real["report"] = NoFile /\ disk.real["cohort"] = NoFile
  BY <1>1 DEF RealFiles
<1>4. QED
  BY <1>1, <1>2, <1>3 DEF AccountInv, RealSteps, Readable

\* What a job holds and what was written stays held while neither changes.
LEMMA AccountStays ==
  ASSUME AccountInv, config' \in Configs, dataset' \in Datasets,
         job' = job \/ job'.step \notin RealSteps \cup {"eligibility"},
         disk'.real["report"] = disk.real["report"],
         disk'.real["cohort"] = disk.real["cohort"] \/ ~ Readable(disk'.real["cohort"])
  PROVE  AccountInv'
BY DEF AccountInv, ReportHeld, CohortHeld, Readable, RealSteps

LEMMA AccountOfLaws ==
  ASSUME PreparationInv, AccountInv,
         \/ \E overwrite \in BOOLEAN : \E selected \in {Laws} \cup {<<l>> : l \in LawSet} :
              PreprocessLaws(selected, overwrite)
         \/ WriteManifest
         \/ WriteLawInventory
  PROVE  AccountInv'
<1>1. /\ config' = config /\ dataset' = dataset
  BY DEF PreprocessLaws, WriteManifest, WriteLawInventory
<1>2. DiskShape
  BY DEF PreparationInv
<1>3. disk'.real = disk.real
  BY <1>2 DEF DiskShape, PreprocessLaws, WriteManifest, WriteLawInventory
<1>4. job'.step \notin RealSteps \cup {"eligibility"}
  <2>1. ASSUME NEW overwrite, NEW selected, PreprocessLaws(selected, overwrite)
        PROVE  job'.step = "laws"
    BY <2>1 DEF PreprocessLaws
  <2>2. ASSUME WriteManifest
        PROVE  job'.step = "laws"
    <3>1. job.step = "laws"
      BY <2>2 DEF WriteManifest
    <3>2. LawsJob
      BY <3>1, JobKind DEF PreparationInv
    <3>3. QED
      BY <2>2, <3>2 DEF WriteManifest, LawsJob
  <2>3. WriteLawInventory => job'.step = "none"
    BY DEF WriteLawInventory, Nothing
  <2>4. QED
    BY <2>1, <2>2, <2>3 DEF RealSteps
<1>5. QED
  BY <1>1, <1>3, <1>4, AccountStays DEF AccountInv

LEMMA AccountOfCohort ==
  ASSUME PreparationInv, AccountInv,
         \/ \E overwrite \in BOOLEAN : PreprocessCohort(overwrite)
         \/ ReadRows
         \/ \E file \in RealFiles : WriteReal(file)
  PROVE  AccountInv'
<1>1. /\ config' = config /\ dataset' = dataset /\ config \in Configs /\ dataset \in Datasets
      /\ DiskShape /\ JobTrue
  BY DEF PreparationInv, AccountInv, PreprocessCohort, ReadRows, WriteReal
<1>2. ASSUME NEW overwrite \in BOOLEAN, PreprocessCohort(overwrite)
      PROVE  AccountInv'
  <2> DEFINE content == [of |-> dataset, specification |-> config]
  <2>1. /\ disk' = [disk EXCEPT !.real["datasetInventory"] = content]
        /\ job' = [step |-> "eligibility", config |-> config, sum |-> dataset]
    BY <1>2 DEF PreprocessCohort
  <2> HIDE DEF content
  <2>2. disk'.real["report"] = disk.real["report"] /\ disk'.real["cohort"] = disk.real["cohort"]
    BY <1>1, <2>1 DEF DiskShape, RealFiles
  <2>3. job'.step = "eligibility" /\ job'.config = config
    BY <2>1
  <2>4. QED
    BY <1>1, <2>2, <2>3 DEF AccountInv, RealSteps, ReportHeld, CohortHeld, Readable
<1>3. CASE ReadRows
  <2>1. job.step = "eligibility" /\ disk' = disk /\ job.config \in Configs
    BY <1>3 DEF ReadRows, AccountInv
  <2>2. CASE ~ job.config.columns
    <3>1. job'.step = "none"
      BY <1>3, <2>2 DEF ReadRows, Nothing
    <3>2. QED
      BY <1>1, <2>1, <3>1, AccountStays DEF RealSteps
  <2>3. CASE job.config.columns
    <3> DEFINE report == EligibilityReport(dataset, job.config.identity)
               events == EligibleRows(dataset, job.config.identity)
    <3>1. job' = [step |-> "provenance", config |-> job.config, sum |-> job.sum,
                  report |-> report, events |-> events]
      BY <1>3, <2>3 DEF ReadRows
    <3>2. ReportHeld(report) /\ CohortHeld(events)
      BY <1>1, <2>1 DEF ReportHeld, CohortHeld
    <3> HIDE DEF report, events
    <3>3. job'.step = "provenance" /\ job'.report = report /\ job'.events = events
      BY <3>1
    <3>4. QED
      BY <1>1, <2>1, <3>2, <3>3 DEF AccountInv, ReportHeld, CohortHeld
  <2>4. QED
    BY <2>2, <2>3
<1>4. ASSUME NEW file \in RealFiles, WriteReal(file)
      PROVE  AccountInv'
  <2> DEFINE content == Contents(file)
  <2>1. /\ job.step = file
        /\ disk' = [disk EXCEPT !.real[file] = content]
        /\ job' = IF After[file] = "none" THEN Nothing ELSE [job EXCEPT !.step = After[file]]
    BY <1>4 DEF WriteReal
  <2>2. WritingJob /\ file \in RealSteps
    <3>1. file # "datasetInventory"
      BY <2>1, <1>1 DEF JobTrue, LawsJob, EligibilityJob, WritingJob, Nothing, RealSteps
    <3>2. QED
      BY <2>1, <3>1, <1>1, JobKind DEF RealFiles, RealSteps
  <2>3. ReportHeld(job.report) /\ CohortHeld(job.events)
    BY <2>1, <2>2 DEF AccountInv
  <2>4. \/ job'.step = "none"
        \/ job'.step \in RealSteps /\ job'.report = job.report /\ job'.events = job.events
    BY <2>1, <2>2 DEF WritingJob, After, Nothing, RealSteps
  <2>5. /\ file = "report" => content = job.report
        /\ file = "cohort" => content = job.events
    BY DEF Contents
  <2> HIDE DEF content
  <2>6. /\ disk'.real["report"] = IF file = "report" THEN job.report ELSE disk.real["report"]
        /\ disk'.real["cohort"] = IF file = "cohort" THEN job.events ELSE disk.real["cohort"]
    BY <1>1, <2>1, <2>5 DEF DiskShape, RealFiles
  <2>7. QED
    BY <1>1, <2>3, <2>4, <2>6 DEF AccountInv, RealSteps, ReportHeld, CohortHeld, Readable
<1>5. QED
  BY <1>2, <1>3, <1>4

LEMMA AccountOfEnvironment ==
  ASSUME PreparationInv, AccountInv,
         \/ \E c \in Configs : EditConfig(c)
         \/ \E content \in Datasets : ReplaceDataset(content)
         \/ Kill
         \/ \E content \in {NoFile, Damaged} : LoseFile(content)
         \/ UNCHANGED vars
  PROVE  AccountInv'
<1>1. config' \in Configs /\ dataset' \in Datasets
  BY DEF AccountInv, EditConfig, ReplaceDataset, Kill, LoseFile, vars
<1>2. job' = job \/ job'.step \notin RealSteps \cup {"eligibility"}
  BY DEF EditConfig, ReplaceDataset, Kill, LoseFile, vars, Nothing, RealSteps
<1>3. ASSUME NEW content \in {NoFile, Damaged}, LoseFile(content)
      PROVE  /\ disk'.real["report"] = disk.real["report"]
             /\ disk'.real["cohort"] = disk.real["cohort"] \/ ~ Readable(disk'.real["cohort"])
  <2>1. DiskShape
    BY DEF PreparationInv
  <2>2. ASSUME NEW f \in {"cohort", "inventory"}, disk' = [disk EXCEPT !.real[f] = content]
        PROVE  /\ disk'.real["report"] = disk.real["report"]
               /\ disk'.real["cohort"] \in {disk.real["cohort"], content}
    BY <2>1, <2>2 DEF DiskShape, RealFiles
  <2>3. ASSUME NEW l \in LawSet, disk' = [disk EXCEPT !.laws[l] = content]
        PROVE  disk'.real = disk.real
    BY <2>1, <2>3 DEF DiskShape
  <2>4. disk' = [disk EXCEPT !.lawInventory = content] => disk'.real = disk.real
    BY <2>1 DEF DiskShape
  <2>5. QED
    BY <1>3, <2>2, <2>3, <2>4 DEF LoseFile, Readable
<1>4. disk' = disk \/ \E content \in {NoFile, Damaged} : LoseFile(content)
  BY DEF EditConfig, ReplaceDataset, Kill, vars
<1>5. QED
  BY <1>1, <1>2, <1>3, <1>4, AccountStays

\* No row of the dataset is lost or counted twice (_eligible_annotated_rows,
\* _eligibility_report, finest_observable_summary, evaluate_real_trajectory_cell): by the
\* eligibility report of any dataset, and by a cell of any stratum, horizon and partition
\* that reads whatever cohort is there.
THEOREM RowsAreAccountedFor == Spec => []EveryRowAccountedFor
<1>1. AccountInv => EveryRowAccountedFor
  <2> SUFFICES ASSUME AccountInv PROVE EveryRowAccountedFor
    OBVIOUS
  <2>1. ASSUME NEW rows \in Datasets
        PROVE  IsFrame(rows)
    BY DatasetsAssumption DEF IsFrame
  <2>2. disk.real["report"] # NoFile => ReportPartitionsRows(disk.real["report"])
    <3> SUFFICES ASSUME disk.real["report"] # NoFile PROVE ReportPartitionsRows(disk.real["report"])
      OBVIOUS
    <3>1. PICK rows \in Datasets, c \in Configs : disk.real["report"] = EligibilityReport(rows, c.identity)
      BY DEF AccountInv, ReportHeld
    <3>2. QED
      BY <2>1, <3>1, ReportAddsUp
  <2>3. ASSUME Readable(disk.real["cohort"]), NEW kind, NEW value,
               NEW horizon \in Horizons, NEW bands \in Partitions
        PROVE  CellKeepsEvents(CellResult(disk.real["cohort"], kind, value, horizon, bands))
    <3>1. PICK rows \in Datasets, c \in Configs : disk.real["cohort"] = EligibleRows(rows, c.identity)
      BY <2>3 DEF AccountInv, CohortHeld
    <3>2. IsFrame(disk.real["cohort"])
      BY <2>1, <3>1, EligibleFrame
    <3>3. QED
      BY <3>2, CellAddsUp
  <2>4. QED
    BY <2>2, <2>3 DEF EveryRowAccountedFor
<1>2. PreparationInv /\ AccountInv /\ [Next]_vars => AccountInv'
  BY AccountOfLaws, AccountOfCohort, AccountOfEnvironment DEF Next
<1>3. QED
  BY <1>1, <1>2, InitAccount, AlwaysPrepared, PTL DEF Spec
=============================================================================
