--------------------------- MODULE PublicationProofs ---------------------------
(***************************************************************************)
(* What is published: that replacing a published tree keeps one, and of the  *)
(* current evidence, for any number of versions and of mishaps; and of the    *)
(* campaign the tables come from, that any configuration that loads has a      *)
(* plan, that its cells find their entries again, that the synthesis joins what  *)
(* they left exactly under the conditions the model states, and that the       *)
(* tables tell a failed comparison from all others.                            *)
(***************************************************************************)
EXTENDS ReportTree, Campaign, WellFoundedInduction, FiniteSetTheorems, TLAPS

(***************************************************************************)
(* The report tree.                                                          *)
(***************************************************************************)
Reporting == {"compare", "discard", "moveAway", "moveIn", "cleanup", "validate"}
Replacing == {"discard", "moveAway", "moveIn", "cleanup"}

Types ==
    /\ source \in Nat
    /\ rendered \in [Owner -> Nat]
    /\ results \in ResultsTree \cup {NoTree}
    /\ rootBackup \in ResultsTree \cup {NoTree, Partial}
    /\ mishaps \in Nat
    /\ pc \in {"idle", "render"} \cup Reporting
    /\ pc \in Reporting => job.what \in Selection
    /\ pc \in Replacing /\ job.what # "all" => results # NoTree
    /\ published \subseteq Owner

\* The evidence stands while it is reported.  The backup is out of the way before the
\* old tree becomes it, and the place is free before the new tree takes it.
Protocol ==
    /\ pc \in Reporting => job.staged = Staged(job.what)
    /\ pc = "moveAway" => Backup(job.what) = NoTree
    /\ pc = "moveIn" => Target(job.what) = NoTree /\ Backup(job.what) # Partial
    /\ pc \in {"cleanup", "validate"} => Target(job.what) = job.staged

\* What a settled synthesis has rendered is of the source data that are registered.
RenderedIsCurrent ==
    /\ pc = "render" => \A o \in Owner \ todo : rendered[o] = source
    /\ settled => \A o \in Owner : rendered[o] = source

Covered(what) == IF what = "all" THEN Owner ELSE {what}

InPlace(o) == results # NoTree /\ results.tree[o] # NoTree

Beside(o) ==
    \/ results # NoTree /\ results.backup[o] \notin {NoTree, Partial}
    \/ /\ rootBackup \notin {NoTree, Partial}
       /\ \/ rootBackup.tree[o] # NoTree
          \/ rootBackup.backup[o] \notin {NoTree, Partial}

Kept(o) == InPlace(o) \/ Beside(o)

\* Before the first mishap what has been exported is in place, except between the two
\* renames, when its backup is complete.  After it, it is kept except by the command
\* that is about to put it in place again.
Survival ==
    /\ mishaps = 0 =>
        \A o \in published :
            IF pc = "moveIn" /\ o \in Covered(job.what) THEN Beside(o) ELSE InPlace(o)
    /\ mishaps = 1 =>
        \A o \in published :
            ~(pc \in Replacing /\ o \in Covered(job.what)) => Kept(o)

TreeInv == Types /\ Protocol /\ RenderedIsCurrent /\ Survival

-----------------------------------------------------------------------------
LEMMA StagedType ==
    ASSUME Types, NEW what \in Selection
    PROVE  /\ what = "all" => Staged(what) \in ResultsTree
           /\ what # "all" => Staged(what) \in OwnerTree
<1>1. \A owners \in SUBSET Owner :
        Tree(owners).render \in [owners -> Nat] /\ Tree(owners).source \in Nat
  BY DEF Tree, Types
<1>2. Tree(Owner) \in OwnerTree /\ \A o \in Owner : Tree({o}) \in OwnerTree
  BY <1>1 DEF Tree, OwnerTree, Rendered, Owner
<1>3. QED
  BY <1>2 DEF Staged, ResultsTree, NoBackups, Selection

LEMMA TargetType ==
    ASSUME Types, NEW what \in Selection
    PROVE  /\ what = "all" => Target(what) \in ResultsTree \cup {NoTree}
           /\ what # "all" => Target(what) \in OwnerTree \cup {NoTree}
           /\ what = "all" => Backup(what) \in ResultsTree \cup {NoTree, Partial}
           /\ what # "all" => Backup(what) \in OwnerTree \cup {NoTree, Partial}
BY DEF Target, Backup, Types, ResultsTree, Selection

\* What Put leaves.
LEMMA PutType ==
    ASSUME Types, NEW what \in Selection, NEW target, NEW backup,
           what = "all" => target \in ResultsTree \cup {NoTree}
                           /\ backup \in ResultsTree \cup {NoTree, Partial},
           what # "all" => target \in OwnerTree \cup {NoTree}
                           /\ backup \in OwnerTree \cup {NoTree, Partial},
           what # "all" => results # NoTree,
           Put(what, target, backup)
    PROVE  /\ results' \in ResultsTree \cup {NoTree}
           /\ rootBackup' \in ResultsTree \cup {NoTree, Partial}
           /\ what # "all" => results' # NoTree
           /\ Target(what)' = target
           /\ Backup(what)' = backup
<1>1. CASE what = "all"
  BY <1>1 DEF Put, Target, Backup
<1>2. CASE what # "all"
  <2>1. what \in Owner /\ results \in ResultsTree
    BY <1>2 DEF Selection, Types
  <2>2. /\ results' = [tree |-> [results.tree EXCEPT ![what] = target],
                       backup |-> [results.backup EXCEPT ![what] = backup]]
        /\ rootBackup' = rootBackup
    BY <1>2 DEF Put
  <2>3. results' \in ResultsTree
    BY <1>2, <2>1, <2>2 DEF ResultsTree
  <2>4. results'.tree[what] = target /\ results'.backup[what] = backup
    BY <2>1, <2>2 DEF ResultsTree
  <2>5. results' # NoTree
    BY <2>3, Sentinels
  <2>6. QED
    BY <1>2, <2>2, <2>3, <2>4, <2>5 DEF Target, Backup, Types
<1>3. QED
  BY <1>1, <1>2

\* The owners a command does not cover keep what they have.
LEMMA PutElsewhere ==
    ASSUME Types, NEW what \in Selection, what # "all", NEW target, NEW backup,
           results # NoTree, Put(what, target, backup),
           NEW o \in Owner \ {what}, results' # NoTree
    PROVE  InPlace(o)' = InPlace(o) /\ Beside(o)' = Beside(o)
<1>1. results \in ResultsTree /\ rootBackup' = rootBackup
  BY DEF Types, Put
<1>2. results'.tree[o] = results.tree[o] /\ results'.backup[o] = results.backup[o]
  BY <1>1 DEF Put, ResultsTree
<1>3. QED
  BY <1>1, <1>2 DEF InPlace, Beside

\* When the trees are left alone, so is what is kept in them.
LEMMA TreesAlone ==
    ASSUME UNCHANGED trees, NEW o, NEW what
    PROVE  /\ InPlace(o)' = InPlace(o) /\ Beside(o)' = Beside(o)
           /\ Target(what)' = Target(what) /\ Backup(what)' = Backup(what)
BY DEF trees, InPlace, Beside, Target, Backup

\* The evidence a report is made of stands while the trees are replaced.
LEMMA StagedAlone ==
    ASSUME UNCHANGED <<source, rendered>>, NEW what
    PROVE  Staged(what)' = Staged(what)
BY DEF Staged, Tree

LEMMA InitTree == Init => TreeInv
BY Sentinels DEF Init, TreeInv, Types, Protocol, RenderedIsCurrent, Survival, Reporting, Replacing

\* A command that ends, or raises, between renames or before them leaves what it found.
LEMMA LeaveKeeps ==
    ASSUME TreeInv, NEW with, Leave(with), UNCHANGED <<source, rendered, settled, trees, published>>,
           \/ Mishap
           \/ UNCHANGED mishaps /\ pc \notin Replacing
    PROVE  TreeInv'
<1>1. Types'
  BY DEF TreeInv, Types, Leave, Mishap, trees, Reporting, Replacing
<1>2. Protocol' /\ RenderedIsCurrent'
  BY DEF TreeInv, Protocol, RenderedIsCurrent, Leave, Reporting
<1>3. Survival'
  <2>1. pc' = "idle" /\ pc' \notin Replacing /\ published' = published /\ mishaps \in Nat
    BY DEF Leave, Replacing, TreeInv, Types
  <2>2. \A o : InPlace(o)' = InPlace(o) /\ Beside(o)' = Beside(o)
    BY TreesAlone
  <2>3. CASE Mishap
    BY <2>1, <2>2, <2>3 DEF TreeInv, Survival, Kept, Mishap
  <2>4. CASE UNCHANGED mishaps /\ pc \notin Replacing
    BY <2>1, <2>2, <2>4 DEF TreeInv, Survival, Kept, Replacing
  <2>5. QED
    BY <2>3, <2>4
<1>4. QED
  BY <1>1, <1>2, <1>3 DEF TreeInv

LEMMA SynthesisKeeps ==
    ASSUME TreeInv,
           (\E new \in BOOLEAN : StartSynthesis(new)) \/ (\E o \in Owner : Render(o)) \/ UNCHANGED vars
    PROVE  TreeInv'
<1>1. Types'
  BY DEF TreeInv, Types, StartSynthesis, Render, vars, evidence, trees, Reporting, Replacing
<1>2. Protocol'
  <2>1. ASSUME UNCHANGED vars PROVE Protocol'
    BY <2>1, StagedAlone, TreesAlone DEF TreeInv, Protocol, vars, evidence, Staged, Tree, Target, Backup, trees
  <2>2. ASSUME ~UNCHANGED vars PROVE Protocol'
    BY <2>2 DEF Protocol, StartSynthesis, Render, Reporting
  <2>3. QED
    BY <2>1, <2>2
<1>3. RenderedIsCurrent'
  <2>1. ASSUME NEW o \in Owner, Render(o) PROVE RenderedIsCurrent'
    <3>1. /\ rendered'[o] = source /\ \A q \in Owner \ {o} : rendered'[q] = rendered[q]
          /\ todo' = todo \ {o} /\ source' = source /\ pc = "render" /\ settled' = settled
      BY <2>1 DEF Render, TreeInv, Types
    <3>2. QED
      BY <3>1 DEF TreeInv, RenderedIsCurrent
  <2>2. ASSUME NEW new \in BOOLEAN, StartSynthesis(new) PROVE RenderedIsCurrent'
    BY <2>2 DEF TreeInv, RenderedIsCurrent, StartSynthesis
  <2>3. ASSUME UNCHANGED vars PROVE RenderedIsCurrent'
    BY <2>3 DEF TreeInv, RenderedIsCurrent, vars, evidence
  <2>4. QED
    BY <2>1, <2>2, <2>3
<1>4. Survival'
  <2>1. /\ UNCHANGED trees /\ published' = published /\ mishaps' = mishaps
        /\ (pc' = pc /\ job' = job) \/ (pc \notin Replacing /\ pc' \notin Replacing)
    BY DEF StartSynthesis, Render, vars, Replacing
  <2>2. \A o : InPlace(o)' = InPlace(o) /\ Beside(o)' = Beside(o)
    BY <2>1, TreesAlone
  <2>3. QED
    BY <2>1, <2>2 DEF TreeInv, Survival, Kept, Replacing
<1>5. QED
  BY <1>1, <1>2, <1>3, <1>4 DEF TreeInv

LEMMA EndSynthesisKeeps ==
    ASSUME TreeInv, EndSynthesis
    PROVE  TreeInv'
<1>1. Types'
  BY DEF TreeInv, Types, EndSynthesis, Leave, trees, Reporting, Replacing
<1>2. Protocol' /\ RenderedIsCurrent'
  BY DEF TreeInv, Protocol, RenderedIsCurrent, EndSynthesis, Leave, Reporting
<1>3. Survival'
  <2>1. UNCHANGED trees /\ pc' \notin Replacing /\ pc \notin Replacing
    BY DEF EndSynthesis, Leave, Replacing
  <2>2. \A o : InPlace(o)' = InPlace(o) /\ Beside(o)' = Beside(o)
    BY <2>1, TreesAlone
  <2>3. QED
    BY <2>1, <2>2 DEF TreeInv, Survival, Kept, Replacing, EndSynthesis, Leave
<1>4. QED
  BY <1>1, <1>2, <1>3 DEF TreeInv

LEMMA CompareKeeps ==
    ASSUME TreeInv,
           \/ \E what \in Selection, overwrite \in BOOLEAN : BeginReport(what, overwrite)
           \/ FindIdentical
    PROVE  TreeInv'
<1>1. Types'
  BY DEF TreeInv, Types, BeginReport, FindIdentical, evidence, trees, Reporting, Replacing
<1>2. RenderedIsCurrent'
  BY DEF TreeInv, RenderedIsCurrent, BeginReport, FindIdentical, evidence
<1>3. Protocol'
  <2>1. UNCHANGED <<source, rendered, trees>> /\ pc' \in {"compare", "validate"}
    BY DEF BeginReport, FindIdentical, evidence
  <2>2. \A what : Staged(what)' = Staged(what) /\ Target(what)' = Target(what)
    BY <2>1, StagedAlone, TreesAlone
  <2>3. job'.staged = Staged(job'.what)
    BY DEF TreeInv, Protocol, BeginReport, FindIdentical, Reporting
  <2>4. pc' = "validate" => Target(job'.what) = job'.staged
    BY DEF FindIdentical, Same, BeginReport
  <2>5. Staged(job.what)' = Staged(job'.what) /\ Target(job.what)' = Target(job'.what)
    BY <2>1 DEF Staged, Tree, Target, trees
  <2>6. QED
    BY <2>1, <2>3, <2>4, <2>5 DEF Protocol, Reporting
<1>4. Survival'
  <2>1. UNCHANGED trees /\ pc' \notin Replacing /\ pc \notin Replacing
    BY DEF BeginReport, FindIdentical, Replacing
  <2>2. \A o : InPlace(o)' = InPlace(o) /\ Beside(o)' = Beside(o)
    BY <2>1, TreesAlone
  <2>3. QED
    BY <2>1, <2>2 DEF TreeInv, Survival, Kept, Replacing, BeginReport, FindIdentical
<1>5. QED
  BY <1>1, <1>2, <1>3, <1>4 DEF TreeInv

\* An owner directory is made when there is none; nothing was kept there.
LEMMA BeginReplacingKeeps ==
    ASSUME TreeInv, BeginReplacing
    PROVE  TreeInv'
<1>1. Empty \in ResultsTree /\ Empty # NoTree
  <2>1. Empty \in ResultsTree
    BY DEF Empty, NoBackups, ResultsTree
  <2>2. QED
    BY <2>1, Sentinels
<1>2. Types'
  BY <1>1 DEF TreeInv, Types, BeginReplacing, evidence, Reporting, Replacing
<1>3. RenderedIsCurrent'
  BY DEF TreeInv, RenderedIsCurrent, BeginReplacing, evidence
<1>4. Protocol'
  BY DEF TreeInv, Protocol, BeginReplacing, evidence, Reporting, Staged, Tree
<1>5. \A o \in Owner : (InPlace(o) => InPlace(o)') /\ (Kept(o) => Kept(o)')
  BY DEF BeginReplacing, InPlace, Beside, Kept
<1>6. Survival'
  <2>1. /\ pc' = "discard" /\ pc \notin Replacing /\ pc # "moveIn" /\ published' = published
        /\ published \subseteq Owner /\ mishaps' = mishaps
    BY DEF BeginReplacing, Replacing, TreeInv, Types
  <2>2. QED
    BY <1>5, <2>1 DEF TreeInv, Survival
<1>7. QED
  BY <1>2, <1>3, <1>4, <1>6 DEF TreeInv

\* A staged report has the tree of every owner it covers.
LEMMA StagedHolds ==
    ASSUME Types
    PROVE  \A o \in Owner : Staged("all").tree[o] # NoTree
<1>1. \A owners \in {Owner, {"summary"}, {"experiment"}} : Tree(owners) \in OwnerTree
  BY DEF Tree, OwnerTree, Rendered, Owner, Types
<1>2. QED
  BY <1>1, Sentinels DEF Staged, Owner

LEMMA StagedInPlace ==
    ASSUME Types, NEW what \in Selection, Target(what) = Staged(what)
    PROVE  \A o \in Covered(what) : InPlace(o) /\ o \in Owner
<1>1. CASE what = "all"
  <2>1. results \in ResultsTree /\ results = Staged("all")
    BY <1>1, StagedType DEF Target
  <2>2. QED
    BY <1>1, <2>1, StagedHolds, Sentinels DEF InPlace, Covered
<1>2. CASE what # "all"
  <2>1. Target(what) \in OwnerTree /\ Target(what) # NoTree
    BY <1>2, StagedType, Sentinels
  <2>2. QED
    BY <1>2, <2>1 DEF InPlace, Covered, Target, Selection
<1>3. QED
  BY <1>1, <1>2

\* What is validated is in place, and so counts as exported.
LEMMA ValidateKeeps ==
    ASSUME TreeInv, Validate
    PROVE  TreeInv'
<1>1. job.what \in Selection /\ pc = "validate" /\ Target(job.what) = Staged(job.what)
  BY DEF TreeInv, Types, Protocol, Validate, Reporting
<1>2. \A o \in Covered(job.what) : InPlace(o) /\ o \in Owner
  BY <1>1, StagedInPlace DEF TreeInv
<1>3. Types'
  BY <1>1, <1>2 DEF TreeInv, Types, Validate, Leave, evidence, trees, Reporting, Replacing, Covered
<1>4. Protocol' /\ RenderedIsCurrent'
  BY DEF TreeInv, Protocol, RenderedIsCurrent, Validate, Leave, evidence, Reporting
<1>5. Survival'
  <2>1. /\ UNCHANGED trees /\ pc' = "idle" /\ pc' \notin Replacing /\ pc \notin Replacing
        /\ published' = published \cup Covered(job.what) /\ mishaps' = mishaps
    BY DEF Validate, Leave, Replacing, Covered
  <2>2. \A o : InPlace(o)' = InPlace(o) /\ Beside(o)' = Beside(o)
    BY <2>1, TreesAlone
  <2>3. QED
    BY <1>1, <1>2, <2>1, <2>2 DEF TreeInv, Survival, Kept, Replacing
<1>6. QED
  BY <1>3, <1>4, <1>5 DEF TreeInv

\* What a step that replaces a tree, or fails to, does to the trees.
LEMMA PutKeeps ==
    ASSUME TreeInv, pc \in Replacing, NEW target, NEW backup, Put(job.what, target, backup),
           job.what = "all" => target \in ResultsTree \cup {NoTree}
                               /\ backup \in ResultsTree \cup {NoTree, Partial},
           job.what # "all" => target \in OwnerTree \cup {NoTree}
                               /\ backup \in OwnerTree \cup {NoTree, Partial},
           pc' \in Reporting \cup {"idle"},
           UNCHANGED <<source, rendered, settled, published>>, mishaps' \in Nat,
           pc' # "idle" => job' = job
    PROVE  /\ Types' /\ RenderedIsCurrent'
           /\ Target(job.what)' = target \/ pc' = "idle"
           /\ Backup(job.what)' = backup \/ pc' = "idle"
           /\ \A o \in Owner \ Covered(job.what) : InPlace(o)' = InPlace(o) /\ Beside(o)' = Beside(o)
           /\ job.what # "all" => results' \in ResultsTree /\ results'.tree[job.what] = target
                                  /\ results'.backup[job.what] = backup
           /\ job.what = "all" => results' = target /\ rootBackup' = backup
<1>1. PICK what \in Selection : what = job.what
  BY DEF TreeInv, Types, Reporting, Replacing
<1>2. what # "all" => results # NoTree
  BY <1>1 DEF TreeInv, Types
<1>3. /\ results' \in ResultsTree \cup {NoTree}
      /\ rootBackup' \in ResultsTree \cup {NoTree, Partial}
      /\ what # "all" => results' # NoTree
      /\ Target(what)' = target
      /\ Backup(what)' = backup
  BY <1>1, <1>2, PutType DEF TreeInv
<1>4. Types'
  BY <1>1, <1>3 DEF TreeInv, Types, Reporting, Replacing
<1>5. RenderedIsCurrent'
  BY DEF TreeInv, RenderedIsCurrent, Reporting
<1>6. pc' # "idle" => Target(job.what)' = target /\ Backup(job.what)' = backup
  BY <1>1, <1>3 DEF Target, Backup
<1>7. \A o \in Owner \ Covered(what) : InPlace(o)' = InPlace(o) /\ Beside(o)' = Beside(o)
  BY <1>1, <1>2, <1>3, PutElsewhere DEF TreeInv, Covered
<1>8. QED
  BY <1>1, <1>3, <1>4, <1>5, <1>6, <1>7, Sentinels DEF Put, Target, Backup, Selection

\* Putting the same tree where it is keeps it in place.
LEMMA SameTarget ==
    ASSUME TreeInv, pc \in Replacing, NEW o \in Covered(job.what), InPlace(o),
           job.what = "all" => results' = Target(job.what),
           job.what # "all" => results' \in ResultsTree /\ results'.tree[job.what] = Target(job.what)
    PROVE  InPlace(o)'
BY Sentinels DEF InPlace, Covered, Target

LEMMA MoveAwayKeeps ==
    ASSUME TreeInv, MoveAway
    PROVE  TreeInv'
<1> DEFINE what == job.what
<1>1. /\ pc = "moveAway" /\ pc' = "moveIn" /\ job' = job /\ Put(what, NoTree, Target(what))
      /\ UNCHANGED <<source, rendered, settled, published, mishaps>>
  BY DEF MoveAway, evidence
<1>2. pc \in Replacing /\ what \in Selection /\ mishaps' \in Nat /\ pc' \in Reporting
  BY <1>1 DEF TreeInv, Types, Reporting, Replacing
<1>3. /\ what = "all" => Target(what) \in ResultsTree \cup {NoTree}
      /\ what # "all" => Target(what) \in OwnerTree \cup {NoTree}
  BY <1>2, TargetType DEF TreeInv
<1>4. Target(what) # Partial
  BY <1>3, Sentinels
<1>5. /\ Types' /\ RenderedIsCurrent'
      /\ Target(job.what)' = NoTree /\ Backup(job.what)' = Target(what)
      /\ \A o \in Owner \ Covered(what) : InPlace(o)' = InPlace(o) /\ Beside(o)' = Beside(o)
      /\ what # "all" => results' \in ResultsTree /\ results'.backup[what] = Target(what)
      /\ what = "all" => rootBackup' = Target(what)
  BY <1>1, <1>2, <1>3, PutKeeps DEF Reporting
<1>6. Protocol'
  <2>1. Staged(job.what)' = Staged(what)
    BY <1>1 DEF Staged, Tree
  <2>2. QED
    BY <1>1, <1>2, <1>4, <1>5, <2>1 DEF TreeInv, Protocol, Reporting
<1>7. ASSUME NEW o \in Covered(what), InPlace(o) PROVE Beside(o)'
  <2>1. CASE what = "all"
    BY <1>3, <1>5, <1>7, <2>1, Sentinels DEF InPlace, Beside, Target
  <2>2. CASE what # "all"
    BY <1>3, <1>4, <1>5, <1>7, <2>2, Sentinels DEF InPlace, Beside, Target, Covered
  <2>3. QED
    BY <2>1, <2>2
<1>8. Survival'
  BY <1>1, <1>2, <1>5, <1>7 DEF TreeInv, Types, Survival, Kept, Replacing
<1>9. QED
  BY <1>5, <1>6, <1>8 DEF TreeInv

LEMMA MoveInKeeps ==
    ASSUME TreeInv, MoveIn
    PROVE  TreeInv'
<1> DEFINE what == job.what
<1>1. /\ pc = "moveIn" /\ pc' = "cleanup" /\ job' = job /\ Put(what, job.staged, Backup(what))
      /\ UNCHANGED <<source, rendered, settled, published, mishaps>>
  BY DEF MoveIn, evidence
<1>2. /\ pc \in Replacing /\ what \in Selection /\ mishaps' \in Nat /\ pc' \in Reporting
      /\ job.staged = Staged(what)
  BY <1>1 DEF TreeInv, Types, Protocol, Reporting, Replacing
<1>3. /\ what = "all" => Backup(what) \in ResultsTree \cup {NoTree, Partial}
                         /\ job.staged \in ResultsTree
      /\ what # "all" => Backup(what) \in OwnerTree \cup {NoTree, Partial}
                         /\ job.staged \in OwnerTree
  BY <1>2, TargetType, StagedType DEF TreeInv
<1>4. /\ Types' /\ RenderedIsCurrent' /\ Target(job.what)' = job.staged
      /\ \A o \in Owner \ Covered(what) : InPlace(o)' = InPlace(o) /\ Beside(o)' = Beside(o)
      /\ what # "all" => results' \in ResultsTree /\ results'.tree[what] = job.staged
      /\ what = "all" => results' = job.staged
  BY <1>1, <1>2, <1>3, PutKeeps DEF Reporting
<1>5. Protocol'
  <2>1. Staged(job.what)' = Staged(what)
    BY <1>1 DEF Staged, Tree
  <2>2. QED
    BY <1>1, <1>2, <1>4, <2>1 DEF TreeInv, Protocol, Reporting
<1>6. ASSUME NEW o \in Covered(what), o \in Owner PROVE InPlace(o)'
  <2>1. CASE what = "all"
    BY <1>2, <1>3, <1>4, <1>6, <2>1, StagedHolds, Sentinels DEF InPlace, TreeInv
  <2>2. CASE what # "all"
    BY <1>3, <1>4, <2>2, Sentinels DEF InPlace, Covered
  <2>3. QED
    BY <2>1, <2>2
<1>7. Survival'
  BY <1>1, <1>2, <1>4, <1>6 DEF TreeInv, Types, Survival, Kept, Replacing
<1>8. QED
  BY <1>4, <1>5, <1>7 DEF TreeInv

\* Removing the backup leaves the target, at whatever point of the command.
LEMMA RemovalLeaves ==
    ASSUME TreeInv, pc \in {"discard", "cleanup"}, NEW backup \in {NoTree, Partial},
           Put(job.what, Target(job.what), backup),
           pc' \in Reporting \cup {"idle"}, pc' # "idle" => job' = job,
           UNCHANGED <<source, rendered, settled, published>>, mishaps' \in Nat
    PROVE  /\ Types' /\ RenderedIsCurrent'
           /\ pc' # "idle" => Target(job.what)' = Target(job.what) /\ Backup(job.what)' = backup
           /\ \A o \in Owner \ Covered(job.what) : InPlace(o)' = InPlace(o) /\ Beside(o)' = Beside(o)
           /\ \A o \in Covered(job.what) : InPlace(o) => InPlace(o)'
<1>1. pc \in Replacing /\ job.what \in Selection
  BY DEF TreeInv, Types, Reporting, Replacing
<1>2. /\ job.what = "all" => Target(job.what) \in ResultsTree \cup {NoTree}
                             /\ backup \in ResultsTree \cup {NoTree, Partial}
      /\ job.what # "all" => Target(job.what) \in OwnerTree \cup {NoTree}
                             /\ backup \in OwnerTree \cup {NoTree, Partial}
  BY <1>1, TargetType DEF TreeInv
<1>3. /\ Types' /\ RenderedIsCurrent'
      /\ Target(job.what)' = Target(job.what) \/ pc' = "idle"
      /\ Backup(job.what)' = backup \/ pc' = "idle"
      /\ \A o \in Owner \ Covered(job.what) : InPlace(o)' = InPlace(o) /\ Beside(o)' = Beside(o)
      /\ job.what # "all" => results' \in ResultsTree /\ results'.tree[job.what] = Target(job.what)
      /\ job.what = "all" => results' = Target(job.what)
  BY <1>1, <1>2, PutKeeps
<1>4. \A o \in Covered(job.what) : InPlace(o) => InPlace(o)'
  BY <1>1, <1>3, SameTarget
<1>5. QED
  BY <1>3, <1>4

LEMMA RemoveKeeps ==
    ASSUME TreeInv, Discard \/ Cleanup
    PROVE  TreeInv'
<1> DEFINE what == job.what
           next == IF pc = "discard" THEN "moveAway" ELSE "validate"
<1>1. /\ pc \in {"discard", "cleanup"} /\ RemoveBackup(next) /\ job' = job
      /\ UNCHANGED <<source, rendered, settled, published, mishaps>>
  BY DEF Discard, Cleanup, evidence
<1>2. what \in Selection /\ mishaps \in Nat /\ published \subseteq Owner
  BY <1>1 DEF TreeInv, Types, Reporting
<1>3. Staged(job.what)' = Staged(what)
  BY <1>1 DEF Staged, Tree
<1>4. CASE Backup(what) = NoTree
  <2>1. UNCHANGED trees /\ pc' = next
    BY <1>1, <1>4 DEF RemoveBackup
  <2>2. Types' /\ RenderedIsCurrent'
    BY <1>1, <2>1 DEF TreeInv, Types, RenderedIsCurrent, trees, Reporting, Replacing
  <2>3. Target(job.what)' = Target(what) /\ Backup(job.what)' = NoTree
    BY <1>1, <1>4, <2>1 DEF Target, Backup, trees
  <2>4. Protocol'
    BY <1>1, <1>3, <2>1, <2>3 DEF TreeInv, Protocol, Reporting
  <2>5. \A o : InPlace(o)' = InPlace(o) /\ Beside(o)' = Beside(o)
    BY <2>1, TreesAlone
  <2>6. pc = "cleanup" => \A o \in Covered(what) : InPlace(o)
    BY <1>2, StagedInPlace DEF TreeInv, Protocol, Reporting
  <2>7. Survival'
    BY <1>1, <1>2, <2>1, <2>5, <2>6 DEF TreeInv, Survival, Kept, Replacing
  <2>8. QED
    BY <2>2, <2>4, <2>7 DEF TreeInv
<1>5. CASE Backup(what) # NoTree
  <2>1. PICK backup \in {NoTree, Partial} : Put(what, Target(what), backup)
    BY <1>1, <1>5 DEF RemoveBackup
  <2>2. pc' = pc
    BY <1>1, <1>5 DEF RemoveBackup
  <2>3. /\ Types' /\ RenderedIsCurrent'
        /\ Target(job.what)' = Target(what)
        /\ \A o \in Owner \ Covered(what) : InPlace(o)' = InPlace(o) /\ Beside(o)' = Beside(o)
        /\ \A o \in Covered(what) : InPlace(o) => InPlace(o)'
    BY <1>1, <1>2, <2>1, <2>2, RemovalLeaves DEF Reporting
  <2>4. Protocol'
    BY <1>1, <1>3, <2>2, <2>3 DEF TreeInv, Protocol, Reporting
  <2>5. Survival'
    BY <1>1, <1>2, <2>2, <2>3 DEF TreeInv, Survival, Kept, Replacing
  <2>6. QED
    BY <2>3, <2>4, <2>5 DEF TreeInv
<1>6. QED
  BY <1>4, <1>5

\* A removal that fails has not touched what is in place.
LEMMA RemovalFailsKeeps ==
    ASSUME TreeInv, RemovalFails
    PROVE  TreeInv'
<1>1. /\ pc \in {"discard", "cleanup"} /\ Put(job.what, Target(job.what), Partial)
      /\ UNCHANGED <<source, rendered, settled, published>>
      /\ mishaps' = mishaps + 1 /\ mishaps \in Nat /\ mishaps' \in Nat /\ pc' = "idle"
      /\ published \subseteq Owner
  BY DEF RemovalFails, Leave, Mishap, evidence, TreeInv, Types
<1>2. /\ Types' /\ RenderedIsCurrent'
      /\ \A o \in Owner \ Covered(job.what) : InPlace(o)' = InPlace(o) /\ Beside(o)' = Beside(o)
      /\ \A o \in Covered(job.what) : InPlace(o) => InPlace(o)'
  BY <1>1, RemovalLeaves
<1>3. Protocol'
  BY <1>1 DEF Protocol, Reporting
<1>4. Survival'
  BY <1>1, <1>2 DEF TreeInv, Survival, Kept, Replacing
<1>5. QED
  BY <1>2, <1>3, <1>4 DEF TreeInv

\* A rename that fails moves the backup back.
LEMMA MoveFailsKeeps ==
    ASSUME TreeInv, MoveFails
    PROVE  TreeInv'
<1> DEFINE what == job.what
<1>1. /\ pc \in {"moveAway", "moveIn"} /\ pc \in Replacing
      /\ UNCHANGED <<source, rendered, settled, published>>
      /\ mishaps' = mishaps + 1 /\ mishaps \in Nat /\ mishaps' \in Nat /\ pc' = "idle"
      /\ published \subseteq Owner /\ what \in Selection
  BY DEF MoveFails, Leave, Mishap, evidence, TreeInv, Types, Replacing, Reporting
<1>2. CASE Backup(what) # NoTree /\ Target(what) = NoTree
  <2>1. pc = "moveIn" /\ Backup(what) # Partial /\ Put(what, Backup(what), NoTree)
    BY <1>1, <1>2 DEF TreeInv, Protocol, MoveFails
  <2>2. /\ what = "all" => Backup(what) \in ResultsTree
        /\ what # "all" => Backup(what) \in OwnerTree
    BY <1>1, <1>2, <2>1, TargetType DEF TreeInv
  <2>3. /\ Types' /\ RenderedIsCurrent'
        /\ \A o \in Owner \ Covered(what) : InPlace(o)' = InPlace(o) /\ Beside(o)' = Beside(o)
        /\ what # "all" => results' \in ResultsTree /\ results'.tree[what] = Backup(what)
        /\ what = "all" => results' = Backup(what)
    BY <1>1, <2>1, <2>2, PutKeeps
  <2>4. ASSUME NEW o \in Covered(what), Beside(o) PROVE Kept(o)'
    <3>1. CASE what = "all"
      BY <1>2, <2>2, <2>3, <2>4, <3>1, Sentinels DEF Kept, InPlace, Beside, Target, Backup
    <3>2. CASE what # "all"
      BY <1>2, <2>3, <3>2, Sentinels DEF Kept, InPlace, Covered
    <3>3. QED
      BY <3>1, <3>2
  <2>5. Protocol'
    BY <1>1 DEF Protocol, Reporting
  <2>6. Survival'
    BY <1>1, <2>1, <2>3, <2>4 DEF TreeInv, Survival, Kept, Replacing
  <2>7. QED
    BY <2>3, <2>5, <2>6 DEF TreeInv
<1>3. CASE ~(Backup(what) # NoTree /\ Target(what) = NoTree)
  <2>1. UNCHANGED trees /\ Leave("raised") /\ Mishap
    BY <1>3 DEF MoveFails
  <2>2. QED
    BY <1>1, <2>1, LeaveKeeps
<1>4. QED
  BY <1>2, <1>3

LEMMA StepTree == TreeInv /\ [Next]_vars => TreeInv'
<1> SUFFICES ASSUME TreeInv, [Next]_vars PROVE TreeInv'
  OBVIOUS
<1>1. ASSUME Refuse PROVE TreeInv'
  <2>1. UNCHANGED <<source, rendered, settled, trees, published, mishaps>> /\ pc \notin Replacing
    BY <1>1 DEF Refuse, evidence, Replacing
  <2>2. QED
    BY <1>1, <2>1, LeaveKeeps DEF Refuse
<1>2. ASSUME Kill PROVE TreeInv'
  BY <1>2, LeaveKeeps DEF Kill
<1>3. QED
  BY <1>1, <1>2, SynthesisKeeps, EndSynthesisKeeps, CompareKeeps, BeginReplacingKeeps,
     RemoveKeeps, MoveAwayKeeps, MoveInKeeps, MoveFailsKeeps, RemovalFailsKeeps, ValidateKeeps
  DEF Next, CommandStep

\* What was exported is there after any mishap of any command, in place or beside it
\* (replace_tree, export.py, 453 to 474).
THEOREM OneMishap == Spec => []ExportSurvivesOneMishap
<1>1. TreeInv => ExportSurvivesOneMishap
  <2> SUFFICES ASSUME TreeInv, pc = "idle", mishaps <= 1, NEW o \in published
               PROVE  \E place \in {results, rootBackup} \ {NoTree, Partial} :
                        place.tree[o] # NoTree \/ place.backup[o] \notin {NoTree, Partial}
    BY DEF ExportSurvivesOneMishap
  <2>1. mishaps \in Nat /\ results # Partial
    BY Sentinels DEF TreeInv, Types
  <2>2. mishaps = 0 \/ mishaps = 1
    BY <2>1
  <2>3. Kept(o)
    BY <2>2 DEF TreeInv, Survival, Kept, Replacing
  <2>4. QED
    BY <2>1, <2>3 DEF Kept, InPlace, Beside
<1>2. QED
  BY <1>1, InitTree, StepTree, PTL DEF Spec

\* A report publishes the files rendered from the source data it names.
THEOREM PublishedIsCurrent == Spec => ExportedAsRendered
<1> DEFINE Exported ==
        /\ pc = "validate" /\ reply' = "exported" /\ settled
        => LET out == Target(job.what)
               parts == IF job.what = "all" THEN {out.tree[o] : o \in Owner} ELSE {out}
           IN  \A part \in parts :
                 /\ part.source = source
                 /\ \A o \in DOMAIN part.render : part.render[o] = source
<1>1. TreeInv => Exported
  <2> SUFFICES ASSUME TreeInv, pc = "validate", settled PROVE Exported
    OBVIOUS
  <2>1. job.what \in Selection /\ Target(job.what) = Staged(job.what)
    BY DEF TreeInv, Types, Protocol, Reporting
  <2>2. \A o \in Owner : rendered[o] = source
    BY DEF TreeInv, RenderedIsCurrent
  <2>3. \A owners \in SUBSET Owner :
          /\ Tree(owners).source = source
          /\ \A o \in DOMAIN Tree(owners).render : Tree(owners).render[o] = source
    BY <2>2 DEF Tree
  <2>4. CASE job.what = "all"
    <3>1. \A o \in Owner : \E owners \in SUBSET Owner : Staged("all").tree[o] = Tree(owners)
      BY DEF Staged
    <3>2. QED
      BY <2>1, <2>3, <2>4, <3>1
  <2>5. CASE job.what # "all"
    BY <2>1, <2>3, <2>5 DEF Staged, Selection
  <2>6. QED
    BY <2>4, <2>5
<1>2. TreeInv /\ [Next]_vars => [Exported]_vars
  BY <1>1
<1>3. [][Exported]_vars => ExportedAsRendered
  BY DEF ExportedAsRendered
<1>4. QED
  BY <1>2, <1>3, InitTree, StepTree, PTL DEF Spec

(***************************************************************************)
(* The campaign: order and divisibility in the grids of a configuration,      *)
(* and what the planner makes of grids without repetitions.                    *)
(***************************************************************************)
\* A set of numbers that is not empty has a least one.
LEMMA LeastNumber ==
  ASSUME NEW S, S \subseteq Nat, S # {}
  PROVE  \E n \in S : \A m \in S : n =< m
<1>1. \E n \in S : \A m \in S : ~ (<<m, n>> \in OpToRel(<, Nat))
  <2> DEFINE less == OpToRel(<, Nat)
  <2>1. IsWellFoundedOn(less, Nat)
    BY NatLessThanWellFounded
  <2> HIDE DEF less
  <2>2. \E n \in S : \A m \in S : ~ (<<m, n>> \in less)
    BY <2>1, WFMin
  <2> QED
    BY <2>2 DEF less
<1>2. \A m, n \in S : <<m, n>> \in OpToRel(<, Nat) <=> m < n
  BY DEF OpToRel
<1>3. PICK n \in S : \A m \in S : ~ (m < n)
  BY <1>1, <1>2
<1> QED
  BY <1>3

\* Quotient and remainder of a division by a positive number.
LEMMA Division ==
  ASSUME NEW a \in Int, NEW b \in Int, b > 0
  PROVE  a = b * (a \div b) + (a % b) /\ a \div b \in Int /\ a % b \in 0..(b - 1)
<1>1. a = b * (a \div b) + (a % b)
  OBVIOUS
<1>2. a \div b \in Int /\ a % b \in 0..(b - 1)
  OBVIOUS
<1> QED BY <1>1, <1>2, Zenon

\* What divides a divisor divides.
LEMMA DivisibleThrough ==
  ASSUME NEW a \in Bands, NEW b \in Bands, NEW c \in Bands, a % b = 0, b % c = 0
  PROVE  a % c = 0
<1>1. a \in Nat /\ b \in Nat /\ c \in Nat /\ a > 0 /\ b > 0 /\ c > 0
  BY DEF Bands
<1>2. PICK k \in Int, m \in Int : a = b * k /\ b = c * m
  BY <1>1, Division
<1> DEFINE q == a \div c  r == a % c
<1>3. q \in Int /\ r \in 0..(c - 1) /\ a = c * q + r
  BY <1>1, Division
<1>4. PICK n \in Int : n = m * k
  OBVIOUS
<1>5. a = c * n
  BY <1>1, <1>2, <1>4
<1> HIDE DEF q, r
<1>6. c * (n - q) = r
  BY <1>1, <1>3, <1>5
<1>7. ~(n - q >= 1)
  BY <1>1, <1>3, <1>6
<1>8. ~(n - q =< -1)
  BY <1>1, <1>3, <1>6
<1>9. n = q
  BY <1>3, <1>7, <1>8
<1> QED BY <1>1, <1>3, <1>6, <1>9 DEF r

\* In a strictly increasing grid every value is below the values after it.
LEMMA IncreasingOrders ==
  ASSUME NEW s \in Seq(Int), Increasing(s), NEW i \in 1..Len(s), NEW j \in 1..Len(s), i < j
  PROVE  s[i] < s[j]
<1> DEFINE Later == {k \in 1..Len(s) : i < k /\ ~(s[i] < s[k])}
<1>1. SUFFICES Later = {}
  OBVIOUS
<1>2. SUFFICES ASSUME Later # {} PROVE FALSE
  OBVIOUS
<1>3. Later \subseteq Nat
  OBVIOUS
<1>4. PICK k \in Later : \A m \in Later : k <= m
  <2> HIDE DEF Later
  <2> QED BY <1>2, <1>3, LeastNumber
<1>5. k - 1 \in 1..(Len(s) - 1) /\ k - 1 \notin Later /\ k = (k - 1) + 1
  BY <1>4
<1>6. s[k - 1] < s[k] /\ s[k - 1] \in Int /\ s[k] \in Int /\ s[i] \in Int
  BY <1>5 DEF Increasing
<1> QED BY <1>4, <1>5, <1>6

\* A strictly increasing grid repeats nothing.
LEMMA IncreasingDistinct ==
  ASSUME NEW s \in Seq(Int), Increasing(s) PROVE Distinct(s)
<1>1. \A i, j \in 1..Len(s) : i < j => s[i] # s[j]
  BY IncreasingOrders, \A i \in 1..Len(s) : s[i] \in Int
<1> QED BY <1>1 DEF Distinct, IsInjective

\* Nested partitions have ever fewer bands, and each is a coarsening of those before it.
LEMMA NestedCoarsens ==
  ASSUME NEW s \in Seq(Bands), Nested(s), NEW i \in 1..Len(s), NEW j \in 1..Len(s), i < j
  PROVE  s[j] < s[i] /\ s[i] % s[j] = 0
<1> DEFINE Later == {k \in 1..Len(s) : i < k /\ ~(s[k] < s[i] /\ s[i] % s[k] = 0)}
<1>1. SUFFICES Later = {}
  OBVIOUS
<1>2. SUFFICES ASSUME Later # {} PROVE FALSE
  OBVIOUS
<1>3. Later \subseteq Nat
  OBVIOUS
<1>4. PICK k \in Later : \A m \in Later : k <= m
  <2> HIDE DEF Later
  <2> QED BY <1>2, <1>3, LeastNumber
<1>5. k - 1 \in 1..(Len(s) - 1) /\ k - 1 \notin Later /\ k = (k - 1) + 1
  BY <1>4
<1>6. s[k - 1] > s[k] /\ s[k - 1] % s[k] = 0 /\ s[k - 1] \in Bands /\ s[k] \in Bands /\ s[i] \in Bands
  BY <1>5 DEF Nested
<1>7. k - 1 # i
  BY <1>4, <1>6
<1>8. s[k - 1] < s[i] /\ s[i] % s[k - 1] = 0
  BY <1>4, <1>5, <1>7
<1>9. s[i] % s[k] = 0
  BY <1>6, <1>8, DivisibleThrough
<1> QED BY <1>4, <1>6, <1>8, <1>9 DEF Bands

\* Cells without names are as distinct as their coordinates.
LEMMA PlainDistinct == ASSUME NEW at, Distinct(at) PROVE Distinct(Plain(at))
BY DEF Distinct, IsInjective, Plain

\* Every pair of two grids without repetitions is another one.
LEMMA PairsDistinct ==
  ASSUME NEW s, NEW t, Distinct(s), Distinct(t) PROVE Distinct(Pairs(s, t))
<1> DEFINE f == Pairs(s, t)
<1>1. \A i \in DOMAIN f : f[i] = <<s[i[1]], t[i[2]]>> /\ i[1] \in DOMAIN s /\ i[2] \in DOMAIN t /\ i = <<i[1], i[2]>>
  BY DEF Pairs
<1>2. \A i, j \in DOMAIN f : f[i] = f[j] => i[1] = j[1] /\ i[2] = j[2]
  BY <1>1 DEF Distinct, IsInjective
<1> HIDE DEF f
<1>3. IsInjective(f)
  BY <1>1, <1>2 DEF IsInjective
<1> QED BY <1>3 DEF f, Distinct

\* So is every triple.
LEMMA TriplesDistinct ==
  ASSUME NEW s, NEW t, NEW u, Distinct(s), Distinct(t), Distinct(u)
  PROVE  Distinct(Triples(s, t, u))
<1> DEFINE f == Triples(s, t, u)
<1>1. \A i \in DOMAIN f :
         /\ f[i] = <<s[i[1]], t[i[2]], u[i[3]]>> /\ i = <<i[1], i[2], i[3]>>
         /\ i[1] \in DOMAIN s /\ i[2] \in DOMAIN t /\ i[3] \in DOMAIN u
  BY DEF Triples
<1>2. \A i, j \in DOMAIN f : f[i] = f[j] => i[1] = j[1] /\ i[2] = j[2] /\ i[3] = j[3]
  BY <1>1 DEF Distinct, IsInjective
<1> HIDE DEF f
<1>3. IsInjective(f)
  BY <1>1, <1>2 DEF IsInjective
<1> QED BY <1>3 DEF f, Distinct

\* The positions in a list of lists.
LEMMA NestPositions ==
  ASSUME NEW lists, NEW i \in DOMAIN Nest(lists)
  PROVE  /\ i = <<i[1], i[2]>> /\ i[1] \in DOMAIN lists /\ i[2] \in DOMAIN lists[i[1]]
         /\ Nest(lists)[i] = <<i[1], lists[i[1]][i[2]]>>
<1>1. i \in UNION {{n} \X (DOMAIN lists[n]) : n \in DOMAIN lists}
  BY DEF Nest
<1>2. PICK n \in DOMAIN lists : i \in {n} \X (DOMAIN lists[n])
  BY <1>1
<1> QED BY <1>2 DEF Nest

\* Entries of lists without repetitions differ, if only in their list.
LEMMA NestDistinct ==
  ASSUME NEW lists, \A n \in DOMAIN lists : Distinct(lists[n]) PROVE Distinct(Nest(lists))
<1> DEFINE f == Nest(lists)
<1>1. ASSUME NEW i \in DOMAIN f, NEW j \in DOMAIN f, f[i] = f[j] PROVE i = j
  <2>1. /\ i = <<i[1], i[2]>> /\ i[1] \in DOMAIN lists /\ i[2] \in DOMAIN lists[i[1]]
        /\ f[i] = <<i[1], lists[i[1]][i[2]]>>
    BY NestPositions
  <2>2. /\ j = <<j[1], j[2]>> /\ j[1] \in DOMAIN lists /\ j[2] \in DOMAIN lists[j[1]]
        /\ f[j] = <<j[1], lists[j[1]][j[2]]>>
    BY NestPositions
  <2> HIDE DEF f
  <2>3. <<i[1], lists[i[1]][i[2]]>> = <<j[1], lists[j[1]][j[2]]>>
    BY <1>1, <2>1, <2>2, Zenon
  <2>. i[1] = j[1] /\ lists[i[1]][i[2]] = lists[j[1]][j[2]]
    BY <2>3
  <2>4. i[2] = j[2]
    BY <2>1, <2>2, <2>3 DEF Distinct, IsInjective
  <2> QED BY <2>1, <2>2, <2>3, <2>4
<1> QED BY <1>1 DEF Distinct, IsInjective

\* Neighbours in a grid without repetitions.
LEMMA AdjacentDistinct ==
  ASSUME NEW s \in Seq(Bands), Distinct(s) PROVE Distinct(Adjacent(s))
<1>1. \A i \in 1..(Len(s) - 1) : i \in DOMAIN s /\ Adjacent(s)[i] = <<s[i], s[i + 1]>>
  BY DEF Adjacent
<1> QED BY <1>1 DEF Distinct, IsInjective, Adjacent

\* The cells made of named entries are told apart by the names.
LEMMA NamedDistinct ==
  ASSUME NEW entries, NEW bands, DOMAIN bands = DOMAIN entries, Distinct(Texts(entries)),
         \A n \in DOMAIN bands : Distinct(bands[n])
  PROVE  Distinct(NamedCells(entries, bands))
<1> DEFINE f == NamedCells(entries, bands)
<1>1. DOMAIN f = DOMAIN Nest(bands)
  BY DEF NamedCells
<1>2. ASSUME NEW i \in DOMAIN f, NEW j \in DOMAIN f, f[i] = f[j] PROVE i = j
  <2>1. /\ i = <<i[1], i[2]>> /\ i[1] \in DOMAIN bands /\ i[2] \in DOMAIN bands[i[1]]
        /\ Nest(bands)[i][2] = bands[i[1]][i[2]]
    BY <1>1, NestPositions
  <2>2. /\ j = <<j[1], j[2]>> /\ j[1] \in DOMAIN bands /\ j[2] \in DOMAIN bands[j[1]]
        /\ Nest(bands)[j][2] = bands[j[1]][j[2]]
    BY <1>1, NestPositions
  <2>3. /\ f[i] = [at |-> <<entries[i[1]].law, Nest(bands)[i][2]>>, name |-> entries[i[1]].name]
        /\ f[j] = [at |-> <<entries[j[1]].law, Nest(bands)[j][2]>>, name |-> entries[j[1]].name]
    BY DEF NamedCells
  <2> HIDE DEF f
  <2> DEFINE name(k) == entries[k[1]].name  band(k) == bands[k[1]][k[2]]  law(k) == entries[k[1]].law
  <2>. [at |-> <<law(i), band(i)>>, name |-> name(i)] = [at |-> <<law(j), band(j)>>, name |-> name(j)]
    BY <1>2, <2>1, <2>2, <2>3, Zenon
  <2>4. name(i) = name(j) /\ band(i) = band(j)
    <3> HIDE DEF name, band, law
    <3> QED OBVIOUS
  <2>5. Texts(entries)[i[1]] = Texts(entries)[j[1]] /\ i[1] \in DOMAIN Texts(entries) /\ j[1] \in DOMAIN Texts(entries)
    BY <2>1, <2>2, <2>4 DEF Texts
  <2>6. i[1] = j[1]
    BY <2>5 DEF Distinct, IsInjective
  <2>7. i[2] = j[2]
    BY <2>1, <2>2, <2>4, <2>6 DEF Distinct, IsInjective
  <2> QED BY <2>1, <2>2, <2>6, <2>7
<1> QED BY <1>2 DEF Distinct, IsInjective

Handlers ==
  {"legacy", "law_and_partition", "sharp_set", "oracle_offsets", "refinement", "coherence",
   "strict_timing", "safety_boundary", "safety", "endpoint", "finest", "finest_and_endpoint",
   "oracle_laws", "same_endpoint", "hand_cases", "coverage", "power", "population", "decision",
   "failure_boundary", "real_trajectory", "scaling", "record"}

NameAt(i) == Catalog[i][1]
CoordinatesAt(i) == Catalog[i][2]
ExecutionAt(i) == Catalog[i][3]

\* The columns of the catalog.
LEMMA CatalogNames ==
  /\ NameAt(1) = "Legacy Partition Incoherence Check"
  /\ NameAt(2) = "Path Information Decomposition"
  /\ NameAt(3) = "Information Profile Convexity"
  /\ NameAt(4) = "Minimum Compatibility Identity"
  /\ NameAt(5) = "Sharp-Set Constructive Identity"
  /\ NameAt(6) = "Refinement Dominance Identity"
  /\ NameAt(7) = "Strict Timing-Gain Identity"
  /\ NameAt(8) = "Safety-Boundary Identity"
  /\ NameAt(9) = "Endpoint Special-Case Identity"
  /\ NameAt(10) = "Anytime Projection Proof Check"
  /\ NameAt(11) = "Population Complexity Proof Check"
  /\ NameAt(12) = "Production Solver vs Independent Oracle"
  /\ NameAt(13) = "Callback-Model Reduction Falsification"
  /\ NameAt(14) = "Generic Information-Optimization Reduction"
  /\ NameAt(15) = "Partition Coherence"
  /\ NameAt(16) = "Same Endpoint, Different Timing"
  /\ NameAt(17) = "Strict Timing Gain"
  /\ NameAt(18) = "Compatibility Floor Behavior"
  /\ NameAt(19) = "Sharpness Against Generic Oracle"
  /\ NameAt(20) = "Safety and Intrinsic Impossibility"
  /\ NameAt(21) = "Anytime Implementation Hand Cases"
  /\ NameAt(22) = "Anytime Coverage Stress"
  /\ NameAt(23) = "Anytime Certification Power"
  /\ NameAt(24) = "Population Sensitivity Utility"
  /\ NameAt(25) = "Trajectory Decision Value"
  /\ NameAt(26) = "Failure Boundary Atlas"
  /\ NameAt(27) = "Real-Trajectory Validation"
  /\ NameAt(28) = "Foreign-Information Negative Control"
  /\ NameAt(29) = "Computational Scaling"
  /\ NameAt(30) = "Statistical Synthesis"
BY DEF Catalog, NameAt

LEMMA CatalogCoordinates ==
  /\ CoordinatesAt(1) = "legacy" /\ CoordinatesAt(2) = "law_and_partition"
  /\ CoordinatesAt(3) = "law_and_partition" /\ CoordinatesAt(4) = "law_and_partition"
  /\ CoordinatesAt(5) = "sharp_set" /\ CoordinatesAt(6) = "refinement"
  /\ CoordinatesAt(7) = "strict_timing" /\ CoordinatesAt(8) = "safety_boundary"
  /\ CoordinatesAt(9) = "endpoint" /\ CoordinatesAt(10) = "record"
  /\ CoordinatesAt(11) = "record" /\ CoordinatesAt(12) = "oracle_offsets"
  /\ CoordinatesAt(13) = "finest" /\ CoordinatesAt(14) = "finest"
  /\ CoordinatesAt(15) = "coherence" /\ CoordinatesAt(16) = "same_endpoint"
  /\ CoordinatesAt(17) = "strict_timing" /\ CoordinatesAt(18) = "finest_and_endpoint"
  /\ CoordinatesAt(19) = "oracle_laws" /\ CoordinatesAt(20) = "safety"
  /\ CoordinatesAt(21) = "hand_cases" /\ CoordinatesAt(22) = "coverage"
  /\ CoordinatesAt(23) = "power" /\ CoordinatesAt(24) = "population"
  /\ CoordinatesAt(25) = "decision" /\ CoordinatesAt(26) = "failure_boundary"
  /\ CoordinatesAt(27) = "real_trajectory" /\ CoordinatesAt(28) = "oracle_offsets"
  /\ CoordinatesAt(29) = "scaling" /\ CoordinatesAt(30) = "record"
BY DEF Catalog, CoordinatesAt

LEMMA CatalogExecutions ==
  /\ ExecutionAt(1) = "legacy" /\ ExecutionAt(2) = "summary"
  /\ ExecutionAt(3) = "summary" /\ ExecutionAt(4) = "summary"
  /\ ExecutionAt(5) = "summary" /\ ExecutionAt(6) = "refinement"
  /\ ExecutionAt(7) = "strict_timing" /\ ExecutionAt(8) = "finest_summary"
  /\ ExecutionAt(9) = "summary" /\ ExecutionAt(10) = "record"
  /\ ExecutionAt(11) = "record" /\ ExecutionAt(12) = "summary"
  /\ ExecutionAt(13) = "summary" /\ ExecutionAt(14) = "summary"
  /\ ExecutionAt(15) = "refinement" /\ ExecutionAt(16) = "same_endpoint"
  /\ ExecutionAt(17) = "strict_timing" /\ ExecutionAt(18) = "summary"
  /\ ExecutionAt(19) = "summary" /\ ExecutionAt(20) = "finest_summary"
  /\ ExecutionAt(21) = "hand_case" /\ ExecutionAt(22) = "coverage"
  /\ ExecutionAt(23) = "power" /\ ExecutionAt(24) = "summary"
  /\ ExecutionAt(25) = "decision" /\ ExecutionAt(26) = "failure_boundary"
  /\ ExecutionAt(27) = "real_trajectory" /\ ExecutionAt(28) = "summary"
  /\ ExecutionAt(29) = "scaling" /\ ExecutionAt(30) = "synthesis"
BY DEF Catalog, ExecutionAt

\* The rows of the catalog one by one.
LEMMA UpToThirty ==
  ASSUME NEW i \in 1..30
  PROVE  \/ i = 1 \/ i = 2 \/ i = 3 \/ i = 4 \/ i = 5 \/ i = 6 \/ i = 7 \/ i = 8 \/ i = 9 \/ i = 10
         \/ i = 11 \/ i = 12 \/ i = 13 \/ i = 14 \/ i = 15 \/ i = 16 \/ i = 17 \/ i = 18 \/ i = 19
         \/ i = 20 \/ i = 21 \/ i = 22 \/ i = 23 \/ i = 24 \/ i = 25 \/ i = 26 \/ i = 27 \/ i = 28
         \/ i = 29 \/ i = 30
OBVIOUS

\* An experiment is a row of the catalog, and has the handlers of that row.
LEMMA RowOf ==
  ASSUME NEW e \in Experiments
  PROVE  \E i \in 1..30 : /\ NameAt(i) = e /\ CoordinateHandler(e) = CoordinatesAt(i)
                         /\ ExecutionHandler(e) = ExecutionAt(i)
<1>1. DOMAIN Catalog = 1..30
  BY DEF Catalog
<1> HIDE DEF Catalog
<1>2. \E row \in Range(Catalog) : row[1] = e
  BY DEF Experiments, Range
<1>3. Definition(e) \in Range(Catalog) /\ Definition(e)[1] = e
  BY <1>2 DEF Definition
<1>4. PICK i \in 1..30 : Definition(e) = Catalog[i]
  BY <1>1, <1>3 DEF Range
<1> QED BY <1>3, <1>4 DEF CoordinateHandler, ExecutionHandler, NameAt, CoordinatesAt, ExecutionAt

\* Each row is an experiment.
LEMMA NameIsExperiment == ASSUME NEW i \in 1..30 PROVE NameAt(i) \in Experiments
<1>1. DOMAIN Catalog = 1..30
  BY DEF Catalog
<1> HIDE DEF Catalog
<1> QED BY <1>1 DEF Experiments, NameAt

\* The coordinate handler of an experiment is one that is defined.
LEMMA KnownHandler ==
  ASSUME NEW e \in Experiments PROVE CoordinateHandler(e) \in Handlers
<1>1. ASSUME NEW i \in 1..30 PROVE CoordinatesAt(i) \in Handlers
  BY UpToThirty, CatalogCoordinates DEF Handlers
<1> QED BY <1>1, RowOf

\* The row of the catalog with a given name is the only one.
LEMMA HandlerOf ==
  ASSUME NEW e, NEW n \in 1..30, NameAt(n) = e, \A i \in 1..30 : NameAt(i) = e => i = n
  PROVE  e \in Experiments /\ CoordinateHandler(e) = CoordinatesAt(n) /\ ExecutionHandler(e) = ExecutionAt(n)
<1>1. e \in Experiments
  BY NameIsExperiment
<1> QED BY <1>1, RowOf

\* The handlers of the experiments whose entries the dispatcher looks up.
LEMMA HandlersOfNamed ==
  /\ CoordinateHandler("Anytime Coverage Stress") = "coverage"
  /\ CoordinateHandler("Anytime Certification Power") = "power"
  /\ CoordinateHandler("Strict Timing Gain") = "strict_timing"
<1>1. \A i \in 1..30 : NameAt(i) = "Anytime Coverage Stress" => i = 22
  BY UpToThirty, CatalogNames
<1>2. \A i \in 1..30 : NameAt(i) = "Anytime Certification Power" => i = 23
  BY UpToThirty, CatalogNames
<1>3. \A i \in 1..30 : NameAt(i) = "Strict Timing Gain" => i = 17
  BY UpToThirty, CatalogNames
<1>4. /\ NameAt(22) = "Anytime Coverage Stress" /\ NameAt(23) = "Anytime Certification Power"
      /\ NameAt(17) = "Strict Timing Gain"
  BY CatalogNames
<1>5. CoordinatesAt(22) = "coverage" /\ CoordinatesAt(23) = "power" /\ CoordinatesAt(17) = "strict_timing"
  BY CatalogCoordinates
<1>6. 22 \in 1..30 /\ 23 \in 1..30 /\ 17 \in 1..30
  OBVIOUS
<1>7. ASSUME NEW e, NEW n \in 1..30, NameAt(n) = e, \A i \in 1..30 : NameAt(i) = e => i = n
      PROVE  CoordinateHandler(e) = CoordinatesAt(n)
  BY <1>7, HandlerOf
<1> QED BY <1>1, <1>2, <1>3, <1>4, <1>5, <1>6, <1>7, Zenon

\* Nested partitions repeat nothing.
LEMMA NestedDistinct == ASSUME NEW s \in Seq(Bands), Nested(s) PROVE Distinct(s)
<1>1. \A i, j \in 1..Len(s) : i < j => s[i] # s[j]
  BY NestedCoarsens, \A i \in 1..Len(s) : s[i] \in Int DEF Bands
<1> QED BY <1>1 DEF Distinct, IsInjective

LEMMA SingleDistinct == ASSUME NEW x PROVE Distinct(<<x>>)
BY DEF Distinct, IsInjective

LEMMA NaturalSequence == ASSUME NEW s \in Seq(Nat) PROVE s \in Seq(Int)
OBVIOUS

\* A sequence with entries is not the empty one.
LEMMA NonemptySequence == ASSUME NEW S, NEW s \in Seq(S) PROVE DOMAIN s # {} <=> s # <<>>
<1>1. Len(s) \in Nat /\ DOMAIN s = 1..Len(s)
  OBVIOUS
<1>2. ASSUME s = <<>> PROVE DOMAIN s = {}
  BY <1>1, <1>2
<1>3. ASSUME s # <<>> PROVE 1 \in DOMAIN s
  <2>1. Len(s) # 0
    BY <1>3
  <2> QED BY <1>1, <2>1
<1> QED BY <1>2, <1>3

LEMMA OfSequence == ASSUME NEW S, NEW s \in Seq(S) PROVE \A x \in Range(s) : x \in S
BY DEF Range

\* What the validators make distinct.
GridsDistinct(c) ==
  /\ Distinct(c.partitions) /\ Distinct(c.scaling) /\ Distinct(c.rho) /\ Distinct(c.sameEndpointRho)
  /\ Distinct(c.timingOffsets) /\ Distinct(c.sharpOffsets) /\ Distinct(c.oracleOffsets)
  /\ Distinct(c.gamma) /\ Distinct(c.q)
  /\ Distinct(c.utilityLaws) /\ Distinct(c.oracleLaws) /\ Distinct(c.safetyLaws) /\ Distinct(c.decisionLaws)
  /\ Distinct(c.horizons) /\ Distinct(PopulationRho(c))

\* A configuration that loads has no grid with repetitions.
LEMMA LoadedGrids ==
  ASSUME NEW c, WellTyped(c), Loads(c) PROVE GridsDistinct(c)
<1>1. /\ c.partitions \in Seq(Bands) /\ c.scaling \in Seq(Int)
      /\ c.rho \in Seq(Int) /\ c.sameEndpointRho \in Seq(Int) /\ c.timingOffsets \in Seq(Int)
      /\ c.sharpOffsets \in Seq(Int) /\ c.oracleOffsets \in Seq(Int) /\ c.gamma \in Seq(Int) /\ c.q \in Seq(Int)
  <2>1. c.oracleOffsets \in Seq(Nat)
    BY DEF WellTyped
  <2>2. c.oracleOffsets \in Seq(Int)
    BY <2>1, NaturalSequence
  <2>3. /\ {c.partitions, c.scaling} \subseteq Seq(Bands)
        /\ {c.rho, c.sameEndpointRho, c.timingOffsets, c.sharpOffsets, c.gamma, c.q} \subseteq Seq(Int)
    BY Zenon DEF WellTyped
  <2>4. c.partitions \in Seq(Bands) /\ c.scaling \in Seq(Bands)
    BY <2>3
  <2>5. c.scaling \in Seq(Int)
    <3>1. PICK s \in Seq(Bands) : s = c.scaling
      BY <2>4
    <3>2. s \in Seq(Int)
      BY DEF Bands
    <3> QED BY <3>1, <3>2
  <2>6. c.rho \in Seq(Int) /\ c.sameEndpointRho \in Seq(Int) /\ c.timingOffsets \in Seq(Int)
    BY <2>3
  <2>7. c.sharpOffsets \in Seq(Int) /\ c.gamma \in Seq(Int) /\ c.q \in Seq(Int)
    BY <2>3
  <2> QED BY <2>2, <2>4, <2>5, <2>6, <2>7
<1>2. Distinct(c.partitions)
  BY <1>1, NestedDistinct DEF Loads, GridsHold
<1>3. Increasing(c.rho) /\ Increasing(c.sameEndpointRho) /\ Increasing(c.scaling)
  BY DEF Loads, GridsHold
<1>4. /\ Increasing(c.timingOffsets) /\ Increasing(c.sharpOffsets) /\ Increasing(c.oracleOffsets)
      /\ Increasing(c.gamma) /\ Increasing(c.q)
  BY DEF Loads, StudyDesignHolds
<1>5. /\ Distinct(c.utilityLaws) /\ Distinct(c.oracleLaws) /\ Distinct(c.safetyLaws)
      /\ Distinct(c.decisionLaws) /\ Distinct(c.horizons)
  BY DEF Loads, StudyDesignHolds
<1>6. Distinct(PopulationRho(c))
  <2>1. Distinct(c.rho)
    BY <1>1, <1>3, IncreasingDistinct
  <2>2. CASE Log2 \notin Range(c.rho)
    <3>1. \A i \in 1..Len(c.rho) : c.rho[i] # Log2
      BY <1>1, <2>2 DEF Range
    <3>2. /\ Len(c.rho) \in Nat /\ Append(c.rho, Log2) = PopulationRho(c)
          /\ DOMAIN Append(c.rho, Log2) = 1..(Len(c.rho) + 1)
          /\ \A i \in 1..Len(c.rho) : Append(c.rho, Log2)[i] = c.rho[i]
          /\ Append(c.rho, Log2)[Len(c.rho) + 1] = Log2
      BY <1>1, <2>2, LawsAssumption DEF PopulationRho
    <3>3. \A i \in 1..(Len(c.rho) + 1) : i \in 1..Len(c.rho) \/ i = Len(c.rho) + 1
      BY <3>2
    <3>4. \A i, j \in 1..Len(c.rho) : c.rho[i] = c.rho[j] => i = j
      BY <1>1, <2>1 DEF Distinct, IsInjective
    <3> QED BY <3>1, <3>2, <3>3, <3>4 DEF Distinct, IsInjective
  <2>3. CASE Log2 \in Range(c.rho)
    BY <2>1, <2>3 DEF PopulationRho
  <2> QED BY <2>2, <2>3
<1>7. /\ Distinct(c.rho) /\ Distinct(c.sameEndpointRho) /\ Distinct(c.scaling)
      /\ Distinct(c.timingOffsets) /\ Distinct(c.sharpOffsets) /\ Distinct(c.oracleOffsets)
      /\ Distinct(c.gamma) /\ Distinct(c.q)
  BY <1>1, <1>3, <1>4, IncreasingDistinct
<1> QED BY <1>2, <1>5, <1>6, <1>7 DEF GridsDistinct

\* A list that is neither empty nor of one entry has two.
LEMMA SeveralEntries ==
  ASSUME NEW S, NEW s \in Seq(S), s # <<>>, Len(s) # 1 PROVE s \in Seq(S) /\ Len(s) >= 2
<1>1. PICK n \in Nat : n = Len(s)
  OBVIOUS
<1>2. n # 0 /\ n # 1
  BY <1>1
<1>3. n >= 2
  BY <1>2
<1> QED BY <1>1, <1>3

\* The cells of the real trajectories differ where device names do.
LEMMA RealTrajectoriesDistinct ==
  ASSUME NEW c, Distinct(c.horizons), Distinct(c.partitions),
         Distinct([i \in DOMAIN c.devices |-> c.devices[i].text])
  PROVE  Distinct(RealTrajectoryCells(c))
<1> DEFINE f == RealTrajectoryCells(c)
           At(kind, list) == {kind} \X (DOMAIN list) \X (DOMAIN c.partitions)
           Horizon(i) == IF i[1] = "pooled" THEN c.horizons[i[2]] ELSE c.horizons[1]
           Level(i) == IF i[1] = "expertise" THEN ExpertiseLevels[i[2]] ELSE ""
           Name(i) == IF i[1] = "device" THEN c.devices[i[2]] ELSE Unnamed
<1>1. DOMAIN f = At("pooled", c.horizons) \union At("device", c.devices) \union At("expertise", ExpertiseLevels)
  BY DEF RealTrajectoryCells
<1>2. \A i \in DOMAIN f :
        f[i] = [at |-> <<i[1], Level(i), c.partitions[i[3]], Horizon(i)>>, name |-> Name(i)]
  BY DEF RealTrajectoryCells
<1>3. \A i \in DOMAIN f :
        /\ i = <<i[1], i[2], i[3]>> /\ i[3] \in DOMAIN c.partitions
        /\ i[1] = "pooled" => i[2] \in DOMAIN c.horizons
        /\ i[1] = "device" => i[2] \in DOMAIN c.devices
        /\ i[1] = "expertise" => i[2] \in DOMAIN ExpertiseLevels
        /\ i[1] \in {"pooled", "device", "expertise"}
  BY <1>1
<1>4. ASSUME NEW i \in DOMAIN f, NEW j \in DOMAIN f, f[i] = f[j] PROVE i = j
  <2> HIDE DEF f
  <2>1. /\ i[1] = j[1] /\ Level(i) = Level(j) /\ c.partitions[i[3]] = c.partitions[j[3]]
        /\ Horizon(i) = Horizon(j) /\ Name(i) = Name(j)
    <3> HIDE DEF Level, Horizon, Name
    <3>1. [at |-> <<i[1], Level(i), c.partitions[i[3]], Horizon(i)>>, name |-> Name(i)]
            = [at |-> <<j[1], Level(j), c.partitions[j[3]], Horizon(j)>>, name |-> Name(j)]
      BY <1>2, <1>4, Zenon
    <3> QED BY <3>1
  <2>2. i[3] = j[3]
    BY <1>3, <2>1 DEF Distinct, IsInjective
  <2>3. i[2] = j[2]
    <3>1. CASE i[1] = "pooled"
      <4>1. c.horizons[i[2]] = c.horizons[j[2]] /\ i[2] \in DOMAIN c.horizons /\ j[2] \in DOMAIN c.horizons
        BY <1>3, <2>1, <3>1
      <4> QED BY <4>1 DEF Distinct, IsInjective
    <3>2. CASE i[1] = "device"
      <4> DEFINE texts == [k \in DOMAIN c.devices |-> c.devices[k].text]
      <4>1. i[2] \in DOMAIN c.devices /\ j[2] \in DOMAIN c.devices
        BY <1>3, <2>1, <3>2
      <4>2. c.devices[i[2]] = c.devices[j[2]]
        BY <2>1, <3>2
      <4>3. texts[i[2]] = texts[j[2]]
        BY <4>1, <4>2
      <4> QED BY <4>1, <4>3 DEF Distinct, IsInjective
    <3>3. CASE i[1] = "expertise"
      <4>1. ExpertiseLevels[i[2]] = ExpertiseLevels[j[2]] /\ i[2] \in {1, 2, 3} /\ j[2] \in {1, 2, 3}
        <5>1. DOMAIN ExpertiseLevels = {1, 2, 3}
          BY DEF ExpertiseLevels
        <5>2. Level(i) = ExpertiseLevels[i[2]] /\ Level(j) = ExpertiseLevels[j[2]]
          BY <2>1, <3>3
        <5> QED BY <1>3, <2>1, <3>3, <5>1, <5>2
      <4>2. ExpertiseLevels[1] # ExpertiseLevels[2] /\ ExpertiseLevels[1] # ExpertiseLevels[3] /\ ExpertiseLevels[2] # ExpertiseLevels[3]
        BY DEF ExpertiseLevels
      <4> QED BY <4>1, <4>2
    <3> QED BY <1>3, <3>1, <3>2, <3>3
  <2> QED BY <1>3, <2>1, <2>2, <2>3
<1> QED BY <1>4 DEF Distinct, IsInjective

\* The coordinate handlers one by one.
LEMMA CoordinatesBy ==
  ASSUME NEW e, NEW c, NEW h, CoordinateHandler(e) = h
  PROVE
  /\ h = "legacy" => Coordinates(e, c) = Plain(Pairs(c.gamma, c.q))
  /\ h = "law_and_partition" => Coordinates(e, c) = Plain(Pairs(OrderedLaws, c.partitions))
  /\ h = "sharp_set" => Coordinates(e, c) = Plain(Triples(OrderedLaws, c.partitions, c.sharpOffsets))
  /\ h = "oracle_offsets" => Coordinates(e, c) = Plain(Triples(OrderedLaws, c.partitions, c.oracleOffsets))
  /\ h = "refinement" => Coordinates(e, c) = Plain(Pairs(OrderedLaws, Adjacent(c.partitions)))
  /\ h = "coherence" => Coordinates(e, c) = Plain(Triples(c.utilityLaws, Adjacent(c.partitions), c.timingOffsets))
  /\ h = "strict_timing" => Coordinates(e, c) = Plain(TimingPairs(c))
  /\ h = "safety_boundary" => Coordinates(e, c) = Plain(Pairs(OrderedLaws, SafetyCases))
  /\ h = "safety" => Coordinates(e, c) = Plain(Pairs(c.safetyLaws, SafetyCases))
  /\ h = "endpoint" => Coordinates(e, c) = Plain(Pairs(OrderedLaws, <<Last(c.partitions)>>))
  /\ h = "finest" => Coordinates(e, c) = Plain(Pairs(OrderedLaws, <<c.partitions[1]>>))
  /\ h = "finest_and_endpoint" => Coordinates(e, c) = Plain(Pairs(OrderedLaws, <<c.partitions[1], Last(c.partitions)>>))
  /\ h = "oracle_laws" => Coordinates(e, c) = Plain(Pairs(c.oracleLaws, c.partitions))
  /\ h = "same_endpoint" => Coordinates(e, c) = Plain(Pairs(c.partitions, c.sameEndpointRho))
  /\ h = "hand_cases" => Coordinates(e, c) = Plain(Pairs(HandCases, SubSeq(c.partitions, 1, Min({3, Len(c.partitions)}))))
  /\ h = "coverage" => Coordinates(e, c) = NamedCells(c.coverageCases, [i \in DOMAIN c.coverageCases |-> <<c.coverageCases[i].bands>>])
  /\ h = "power" => Coordinates(e, c) = NamedCells(c.scenarios, [i \in DOMAIN c.scenarios |-> c.scenarios[i].bands])
  /\ h = "population" => Coordinates(e, c) = Plain(Triples(c.utilityLaws, c.partitions, PopulationRho(c)))
  /\ h = "decision" => Coordinates(e, c) = Plain(Pairs(c.decisionLaws, PopulationRho(c)))
  /\ h = "failure_boundary" => Coordinates(e, c) = Plain(Nest(c.axes))
  /\ h = "real_trajectory" => Coordinates(e, c) = RealTrajectoryCells(c)
  /\ h = "scaling" => Coordinates(e, c) = Plain(c.scaling)
  /\ h = "record" => Coordinates(e, c) = Plain(<<h>>)
BY DEF Coordinates

\* Whatever the experiment, no two of its cells have one identity.
LEMMA CellsDistinct ==
  ASSUME NEW c, WellTyped(c), Loads(c), NEW e \in Experiments,
         Distinct([i \in DOMAIN c.devices |-> c.devices[i].text]), Len(c.partitions) # 1
  PROVE  Distinct(Coordinates(e, c))
<1> DEFINE h == CoordinateHandler(e)
<1>1. GridsDistinct(c)
  BY LoadedGrids
<1>2. Distinct(OrderedLaws)
  BY LawsAssumption
<1>3. Distinct(SafetyCases) /\ Distinct(HandCases)
  <2>1. Distinct(HandCases)
    BY DEF HandCases, Distinct, IsInjective
  <2>2. DOMAIN SafetyCases = 1..5 /\ \A i \in 1..5 : SafetyCases[i] = i
    BY DEF SafetyCases
  <2>3. Distinct(SafetyCases)
    BY <2>2 DEF Distinct, IsInjective
  <2> QED BY <2>1, <2>3
<1>4. c.partitions \in Seq(Bands) /\ Len(c.partitions) >= 2
  <2>1. c.partitions \in Seq(Bands) /\ c.partitions # <<>>
    BY DEF WellTyped, Loads, GridsHold
  <2> QED BY <2>1, SeveralEntries
<1>5. Distinct(Adjacent(c.partitions))
  BY <1>1, <1>4, AdjacentDistinct DEF GridsDistinct
<1>6. Distinct(<<c.partitions[1], Last(c.partitions)>>)
  <2>1. c.partitions[1] # c.partitions[Len(c.partitions)]
    BY <1>1, <1>4 DEF GridsDistinct, Distinct, IsInjective
  <2> QED BY <2>1 DEF Distinct, IsInjective, Last
<1>7. Distinct(SubSeq(c.partitions, 1, Min({3, Len(c.partitions)})))
  <2>1. PICK n \in Nat : n =< Len(c.partitions) /\ n = Min({3, Len(c.partitions)})
    <3>1. \E n \in {3, Len(c.partitions)} : \A m \in {3, Len(c.partitions)} : n =< m
      BY <1>4
    <3> QED BY <1>4, <3>1 DEF Min
  <2>2. \A i \in 1..n : i \in DOMAIN c.partitions /\ SubSeq(c.partitions, 1, n)[i] = c.partitions[i]
    BY <1>4, <2>1
  <2>3. DOMAIN SubSeq(c.partitions, 1, n) = 1..n
    BY <1>4, <2>1
  <2> QED BY <1>1, <2>1, <2>2, <2>3 DEF GridsDistinct, Distinct, IsInjective
<1>8. Distinct([i \in DOMAIN c.timingCases |-> TimingPairOf(c.timingCases[i])])
  BY DEF Loads, StudyDesignHolds, TimingPairsDistinct
<1>9. /\ Distinct(Texts(c.coverageCases)) /\ Distinct(Texts(c.scenarios))
      /\ \A i \in DOMAIN c.scenarios : Distinct(c.scenarios[i].bands)
      /\ \A axis \in DOMAIN c.axes : Distinct(c.axes[axis])
  BY DEF Loads, StudyDesignHolds, PowerHolds, ScenarioNamesDistinct, AxesHold
<1>10. Distinct(RealTrajectoryCells(c))
  BY <1>1, RealTrajectoriesDistinct DEF GridsDistinct
<1>11. Distinct(NamedCells(c.coverageCases, [i \in DOMAIN c.coverageCases |-> <<c.coverageCases[i].bands>>]))
  BY <1>9, NamedDistinct, SingleDistinct
<1>12. Distinct(NamedCells(c.scenarios, [i \in DOMAIN c.scenarios |-> c.scenarios[i].bands]))
  BY <1>9, NamedDistinct
<1>13. Distinct(Nest(c.axes))
  BY <1>9, NestDistinct
<1>14. h \in Handlers
  BY KnownHandler
<1> HIDE DEF h
<1> USE <1>1, <1>2, <1>3, <1>5 DEF GridsDistinct
<1> DEFINE Held(at) == Distinct(Plain(at))
<1>15. ASSUME NEW s, NEW t, Distinct(s), Distinct(t) PROVE Held(Pairs(s, t))
  BY <1>15, PlainDistinct, PairsDistinct
<1>16. ASSUME NEW s, NEW t, NEW u, Distinct(s), Distinct(t), Distinct(u) PROVE Held(Triples(s, t, u))
  BY <1>16, PlainDistinct, TriplesDistinct
<1>17. ASSUME NEW s, Distinct(s) PROVE Held(s)
  BY <1>17, PlainDistinct
<1> HIDE DEF Held
<1>20. /\ Held(Pairs(c.gamma, c.q)) /\ Held(Pairs(OrderedLaws, c.partitions))
       /\ Held(Triples(OrderedLaws, c.partitions, c.sharpOffsets))
       /\ Held(Triples(OrderedLaws, c.partitions, c.oracleOffsets))
       /\ Held(Pairs(OrderedLaws, Adjacent(c.partitions)))
       /\ Held(Triples(c.utilityLaws, Adjacent(c.partitions), c.timingOffsets))
       /\ Held(TimingPairs(c))
       /\ Held(Pairs(OrderedLaws, SafetyCases)) /\ Held(Pairs(c.safetyLaws, SafetyCases))
       /\ Held(Pairs(OrderedLaws, <<Last(c.partitions)>>)) /\ Held(Pairs(OrderedLaws, <<c.partitions[1]>>))
       /\ Held(Pairs(OrderedLaws, <<c.partitions[1], Last(c.partitions)>>))
       /\ Held(Pairs(c.oracleLaws, c.partitions)) /\ Held(Pairs(c.partitions, c.sameEndpointRho))
       /\ Held(Pairs(HandCases, SubSeq(c.partitions, 1, Min({3, Len(c.partitions)}))))
       /\ Held(Triples(c.utilityLaws, c.partitions, PopulationRho(c)))
       /\ Held(Pairs(c.decisionLaws, PopulationRho(c)))
       /\ Held(Nest(c.axes)) /\ Held(c.scaling) /\ Held(<<h>>)
  BY <1>6, <1>7, <1>8, <1>13, <1>15, <1>16, <1>17, SingleDistinct DEF TimingPairs
<1> QED BY <1>10, <1>11, <1>12, <1>14, <1>20, CoordinatesBy DEF h, Held, Handlers

\* The only entry that passes a test is the one the search returns.
LEMMA OnlyOne == ASSUME NEW i PROVE {i} # {} /\ (i \in Nat => Min({i}) = i)
BY DEF Min

LEMMA Entry == ASSUME NEW S, NEW s \in Seq(S), NEW n \in DOMAIN s PROVE n \in Nat /\ n # 0
OBVIOUS

\* A search by name finds the entry of that name.
LEMMA FirstNamedFinds ==
  ASSUME NEW S, NEW s \in Seq(S), Distinct(Texts(s)), NEW i \in DOMAIN s
  PROVE  FirstNamed(s, s[i].name.text) = i
<1>1. {k \in 1..Len(s) : s[k].name.text = s[i].name.text} = {i}
  BY DEF Distinct, IsInjective, Texts
<1>2. i \in Nat
  OBVIOUS
<1> QED BY <1>1, <1>2, OnlyOne DEF FirstNamed, SelectInSeq

\* A search by pair finds the timing case of that pair.
LEMMA TimingCaseFinds ==
  ASSUME NEW c, NEW S, c.timingCases \in Seq(S), TimingPairsDistinct(c), NEW i \in DOMAIN c.timingCases,
         NEW cell, cell.at[1] = TimingPairOf(c.timingCases[i])
  PROVE  TimingCaseOf(c, cell) = i
<1> DEFINE s == c.timingCases
           pair == [k \in DOMAIN s |-> TimingPairOf(s[k])]
<1>1. IsInjective(pair)
  BY DEF TimingPairsDistinct, Distinct
<1> HIDE DEF s
<1>2. \A k \in DOMAIN s : TimingPairOf(s[k]) = TimingPairOf(s[i]) => k = i
  BY <1>1 DEF IsInjective, s
<1>3. DOMAIN s = 1..Len(s) /\ i \in Nat /\ i \in DOMAIN s
  BY DEF s
<1>4. {k \in 1..Len(s) : TimingPairOf(s[k]) = cell.at[1]} = {i}
  BY <1>2, <1>3 DEF s
<1> QED BY <1>3, <1>4, OnlyOne DEF TimingCaseOf, SelectInSeq, s

\* A named cell repeats the law, the name and a band count of the entry at its position.
OfEntry(cell, entries, bands, i) ==
  /\ i[1] \in DOMAIN bands /\ i[2] \in DOMAIN bands[i[1]]
  /\ cell.at = <<entries[i[1]].law, bands[i[1]][i[2]]>> /\ cell.name = entries[i[1]].name

\* What NamedCells makes of an entry.
LEMMA NamedCellAt ==
  ASSUME NEW entries, NEW bands, NEW i, i \in DOMAIN NamedCells(entries, bands)
  PROVE  OfEntry(NamedCells(entries, bands)[i], entries, bands, i)
<1>1. i \in DOMAIN Nest(bands)
  BY DEF NamedCells
<1>2. /\ i[1] \in DOMAIN bands /\ i[2] \in DOMAIN bands[i[1]]
      /\ Nest(bands)[i] = <<i[1], bands[i[1]][i[2]]>>
  BY <1>1, NestPositions
<1>3. NamedCells(entries, bands)[i] = [at |-> <<entries[i[1]].law, Nest(bands)[i][2]>>, name |-> entries[i[1]].name]
  BY <1>1 DEF NamedCells
<1> QED BY <1>2, <1>3 DEF OfEntry

LEMMA FirstOf == ASSUME NEW x, NEW y, NEW t, t = <<x, y>> PROVE t[1] = x
OBVIOUS

LEMMA OnlyEntry == ASSUME NEW x, NEW k, k \in DOMAIN <<x>> PROVE <<x>>[k] = x
OBVIOUS

\* In a configuration that loads the dispatcher finds the entry of every cell.
LEMMA EntriesFound ==
  ASSUME NEW c, WellTyped(c), Loads(c)
  PROVE  /\ \A i \in DOMAIN Coordinates("Anytime Coverage Stress", c) :
              CoverageCaseOf(c, Coordinates("Anytime Coverage Stress", c)[i]) = i[1]
         /\ \A i \in DOMAIN Coordinates("Anytime Certification Power", c) :
              PowerScenarioOf(c, Coordinates("Anytime Certification Power", c)[i]) = i[1]
         /\ \A i \in DOMAIN Coordinates("Strict Timing Gain", c) :
              TimingCaseOf(c, Coordinates("Strict Timing Gain", c)[i]) = i[1]
<1>1. /\ Distinct(Texts(c.coverageCases)) /\ Distinct(Texts(c.scenarios)) /\ TimingPairsDistinct(c)
      /\ c.coverageCases \in Seq(CoverageCases) /\ c.scenarios \in Seq(Scenarios)
      /\ c.timingCases \in Seq(TimingCases)
  BY DEF WellTyped, Loads, StudyDesignHolds, PowerHolds, ScenarioNamesDistinct
<1>2. ASSUME NEW i \in DOMAIN Coordinates("Anytime Coverage Stress", c)
      PROVE  CoverageCaseOf(c, Coordinates("Anytime Coverage Stress", c)[i]) = i[1]
  <2>1. PICK s : s = c.coverageCases
    OBVIOUS
  <2>2. PICK bands : bands = [n \in DOMAIN s |-> <<s[n].bands>>]
    OBVIOUS
  <2>3. Coordinates("Anytime Coverage Stress", c) = NamedCells(s, bands)
    <3>1. CoordinateHandler("Anytime Coverage Stress") = "coverage"
      BY HandlersOfNamed
    <3>2. Coordinates("Anytime Coverage Stress", c) = NamedCells(c.coverageCases, [n \in DOMAIN c.coverageCases |-> <<c.coverageCases[n].bands>>])
      BY <3>1, CoordinatesBy
    <3> QED BY <2>1, <2>2, <3>2
  <2>4. PICK cell : cell = NamedCells(s, bands)[i]
    OBVIOUS
  <2>5. /\ i[1] \in DOMAIN bands /\ i[2] \in DOMAIN bands[i[1]]
        /\ cell.at = <<s[i[1]].law, bands[i[1]][i[2]]>> /\ cell.name = s[i[1]].name
    <3>1. i \in DOMAIN NamedCells(s, bands)
      BY <2>3, Zenon
    <3>2. OfEntry(NamedCells(s, bands)[i], s, bands, i)
      BY <3>1, NamedCellAt, Zenon
    <3> QED BY <2>4, <3>2, Zenon DEF OfEntry
  <2>6. PICK n \in DOMAIN s : n = i[1]
    BY <2>2, <2>5
  <2>7. bands[n] = <<s[n].bands>>
    BY <2>2
  <2>8. bands[n][i[2]] = s[n].bands
    <3>1. i[2] \in DOMAIN <<s[n].bands>>
      BY <2>5, <2>6, <2>7, Zenon
    <3>2. <<s[n].bands>>[i[2]] = s[n].bands
      BY <3>1, OnlyEntry, Zenon
    <3> QED BY <2>7, <3>2, Zenon
  <2>9. s \in Seq(CoverageCases) /\ Distinct(Texts(s))
    BY <1>1, <2>1
  <2>10. FirstNamed(s, s[n].name.text) = n /\ n # 0
    BY <2>9, FirstNamedFinds, Entry
  <2>11. cell.at = <<s[n].law, s[n].bands>> /\ cell.name = s[n].name
    BY <2>5, <2>6, <2>8
  <2> QED BY <2>1, <2>3, <2>4, <2>6, <2>10, <2>11 DEF CoverageCaseOf
<1>3. ASSUME NEW i \in DOMAIN Coordinates("Anytime Certification Power", c)
      PROVE  PowerScenarioOf(c, Coordinates("Anytime Certification Power", c)[i]) = i[1]
  <2>1. PICK s : s = c.scenarios
    OBVIOUS
  <2>2. PICK bands : bands = [n \in DOMAIN s |-> s[n].bands]
    OBVIOUS
  <2>3. Coordinates("Anytime Certification Power", c) = NamedCells(s, bands)
    <3>1. CoordinateHandler("Anytime Certification Power") = "power"
      BY HandlersOfNamed
    <3>2. Coordinates("Anytime Certification Power", c) = NamedCells(c.scenarios, [n \in DOMAIN c.scenarios |-> c.scenarios[n].bands])
      BY <3>1, CoordinatesBy
    <3> QED BY <2>1, <2>2, <3>2
  <2>4. PICK cell : cell = NamedCells(s, bands)[i]
    OBVIOUS
  <2>5. /\ i[1] \in DOMAIN bands
        /\ cell.at = <<s[i[1]].law, bands[i[1]][i[2]]>> /\ cell.name = s[i[1]].name
    <3>1. i \in DOMAIN NamedCells(s, bands)
      BY <2>3, Zenon
    <3>2. OfEntry(NamedCells(s, bands)[i], s, bands, i)
      BY <3>1, NamedCellAt, Zenon
    <3> QED BY <2>4, <3>2, Zenon DEF OfEntry
  <2>6. PICK n \in DOMAIN s : n = i[1]
    BY <2>2, <2>5
  <2>7. s \in Seq(Scenarios) /\ Distinct(Texts(s))
    BY <1>1, <2>1
  <2>8. FirstNamed(s, s[n].name.text) = n /\ n # 0
    BY <2>7, FirstNamedFinds, Entry
  <2>9. cell.at[1] = s[n].law /\ cell.name = s[n].name
    <3>1. cell.at = <<s[n].law, bands[n][i[2]]>> /\ cell.name = s[n].name
      BY <2>5, <2>6, Zenon
    <3>2. cell.at[1] = s[n].law
      BY <3>1, FirstOf, Zenon
    <3> QED BY <3>1, <3>2, Zenon
  <2> QED BY <2>1, <2>3, <2>4, <2>6, <2>8, <2>9 DEF PowerScenarioOf
<1>4. ASSUME NEW i \in DOMAIN Coordinates("Strict Timing Gain", c)
      PROVE  TimingCaseOf(c, Coordinates("Strict Timing Gain", c)[i]) = i[1]
  <2>1. PICK s : s = c.timingCases
    OBVIOUS
  <2>2. PICK pairs : pairs = [n \in DOMAIN s |-> TimingPairOf(s[n])]
    OBVIOUS
  <2>3. Coordinates("Strict Timing Gain", c) = Plain(Pairs(pairs, c.timingOffsets))
    <3>1. CoordinateHandler("Strict Timing Gain") = "strict_timing"
      BY HandlersOfNamed
    <3>2. Coordinates("Strict Timing Gain", c) = Plain(TimingPairs(c))
      BY <3>1, CoordinatesBy
    <3> QED BY <2>1, <2>2, <3>2 DEF TimingPairs
  <2>4. PICK cell : cell = Plain(Pairs(pairs, c.timingOffsets))[i]
    OBVIOUS
  <2>5. i[1] \in DOMAIN pairs /\ cell.at = <<pairs[i[1]], c.timingOffsets[i[2]]>>
    BY <2>3, <2>4 DEF Plain, Pairs
  <2>6. PICK n \in DOMAIN s : n = i[1]
    BY <2>2, <2>5
  <2>7. cell.at[1] = TimingPairOf(s[n])
    <3>1. pairs[i[1]] = TimingPairOf(s[n])
      BY <2>2, <2>6
    <3>2. cell.at = <<TimingPairOf(s[n]), c.timingOffsets[i[2]]>>
      BY <2>5, <3>1, Zenon
    <3> QED BY <3>2, FirstOf, Zenon
  <2>8. n \in DOMAIN c.timingCases /\ cell.at[1] = TimingPairOf(c.timingCases[n])
    BY <2>1, <2>7, Zenon
  <2>9. TimingCaseOf(c, cell) = n
    BY <1>1, <2>8, TimingCaseFinds, Zenon
  <2> QED BY <2>3, <2>4, <2>6, <2>9, Zenon
<1> QED BY <1>2, <1>3, <1>4

\* The configuration is one that loads from the plan on, and the plan held where cells run.
StudyInv ==
  /\ config \in Configs
  /\ stage \in {"load", "plan", "rejected", "run", "unplannable", "over"}
  /\ stage \notin {"load", "rejected"} => Loads(config)
  /\ stage = "unplannable" => ~(PopulationRhoAgrees(config) /\ \A e \in Experiments : Distinct(Cells(e)))
  /\ stage \in {"run", "over"} => PopulationRhoAgrees(config) /\ \A e \in Experiments : Distinct(Cells(e))
  /\ failing = {} \/ \E f \in Comparisons(config) : failing = {f}

\* The invariant is inductive as it stands.
LEMMA StudyInvHolds == CampaignSpec => []StudyInv
<1>1. CampaignInit => StudyInv
  BY DEF CampaignInit, StudyInv
<1>2. ASSUME StudyInv, [CampaignNext]_campaignVars PROVE StudyInv'
  <2> USE DEF Cells
  <2>1. CASE LoadConfig
    BY <1>2, <2>1 DEF LoadConfig, StudyInv
  <2>2. CASE BuildPlan
    BY <1>2, <2>2 DEF BuildPlan, StudyInv
  <2>3. CASE RunExperiment
    BY <1>2, <2>3 DEF RunExperiment, StudyInv
  <2>4. CASE Synthesise
    BY <1>2, <2>4 DEF Synthesise, StudyInv
  <2>5. CASE UNCHANGED campaignVars
    BY <1>2, <2>5 DEF campaignVars, StudyInv
  <2> QED BY <1>2, <2>1, <2>2, <2>3, <2>4, <2>5 DEF CampaignNext
<1> QED BY <1>1, <1>2, PTL DEF CampaignSpec

\* A configuration that loads has a plan, whatever it says, unless it gives a device name
\* twice, has a single partition or declares the wrong number of budgets.
THEOREM PlanFollows == CampaignSpec => []LoadedStudyExpands
<1>1. StudyInv => LoadedStudyExpands
  <2> SUFFICES ASSUME StudyInv, stage = "unplannable", PopulationRhoAgrees(config), Len(config.partitions) # 1,
                      Distinct([i \in DOMAIN config.devices |-> config.devices[i].text])
               PROVE  FALSE
    BY DEF LoadedStudyExpands
  <2>1. WellTyped(config) /\ Loads(config)
    BY ConfigsAssumption DEF StudyInv
  <2>2. \A e \in Experiments : Distinct(Cells(e))
    BY <2>1, CellsDistinct DEF Cells
  <2> QED BY <2>2 DEF StudyInv
<1> QED BY <1>1, StudyInvHolds, PTL

\* The dispatcher finds the entry of the configuration a cell was planned from, in every
\* configuration that loads.
THEOREM EntriesAreFound == CampaignSpec => []CellsFindTheirEntry
<1>1. StudyInv => CellsFindTheirEntry
  <2> SUFFICES ASSUME StudyInv, stage = "run" PROVE CellsFindTheirEntry
    BY DEF CellsFindTheirEntry
  <2>1. WellTyped(config) /\ Loads(config)
    BY ConfigsAssumption DEF StudyInv
  <2> QED BY <2>1, EntriesFound DEF CellsFindTheirEntry, Cells
<1> QED BY <1>1, StudyInvHolds, PTL

\* A comparison is of one cell of a check.
LEMMA ComparisonParts ==
  ASSUME NEW c, NEW f \in Comparisons(c)
  PROVE  /\ f = <<f[1], f[2], f[3]>>
         /\ f[1] \in TheoremExperiments \union CheckedExperiments \union {CoverageExperiment}
         /\ f[2] \in Positions(f[1], c) /\ f[3] \in Parts(f[1], f[2], c)
<1>1. PICK e \in TheoremExperiments \union CheckedExperiments \union {CoverageExperiment} :
        f \in UNION {{e} \X {i} \X Parts(e, i, c) : i \in Positions(e, c)}
  BY DEF Comparisons
<1>2. PICK i \in Positions(e, c) : f \in {e} \X {i} \X Parts(e, i, c)
  BY <1>1
<1> QED BY <1>1, <1>2

\* The experiments whose checks are theorems are not those that validate the implementation.
LEMMA TheoremsNotChecked ==
  /\ TheoremExperiments \intersect CheckedExperiments = {}
  /\ CoverageExperiment \notin TheoremExperiments \union CheckedExperiments
<1>1. \A n \in 1..11 : n \in 1..30 /\ NameAt(n) \in TheoremExperiments
  BY DEF TheoremExperiments, NameAt
<1>2. \A e \in TheoremExperiments : \E n \in 1..11 : e = NameAt(n)
  BY DEF TheoremExperiments, NameAt
<1>3. \A n \in 1..11 : n = 1 \/ n = 2 \/ n = 3 \/ n = 4 \/ n = 5 \/ n = 6 \/ n = 7 \/ n = 8 \/ n = 9 \/ n = 10 \/ n = 11
  OBVIOUS
<1>4. \A n \in 1..11 : NameAt(n) \notin CheckedExperiments \union {CoverageExperiment}
  BY <1>3, CatalogNames DEF CheckedExperiments, PartitionTimingExperiments, FloorExperiment, SharpnessExperiment,
     SafetyExperiment, OracleExperiment, CoverageExperiment
<1>5. CoverageExperiment \notin CheckedExperiments
  BY DEF CheckedExperiments, PartitionTimingExperiments, FloorExperiment, SharpnessExperiment,
     SafetyExperiment, OracleExperiment, CoverageExperiment
<1> QED BY <1>2, <1>4, <1>5

\* A failed row, and what it speaks of.
LEMMA RowFails ==
  ASSUME NEW table, NEW about, NEW passed \in BOOLEAN, NEW row, row = Row(table, about, passed), ~row.passed
  PROVE  ~passed /\ row.about = about
<1>1. row.about = about
  BY DEF Row
<1>2. row.passed = passed
  BY Zenon DEF Row
<1> QED BY <1>1, <1>2

\* A row that fails speaks of the cell of a comparison that failed.
Speaks(row, broken) == \E f \in broken : <<f[1], f[2]>> \in row.about

\* A cell that did not pass, or a comparison that did not hold, is the one that failed.
LEMMA NotPassed ==
  ASSUME NEW broken, NEW e, NEW i, ~Passed(broken, e, i)
  PROVE  \E f \in broken : <<f[1], f[2]>> = <<e, i>>
BY Zenon DEF Passed

LEMMA NotHolding ==
  ASSUME NEW broken, NEW e, NEW i, NEW part, ~Holds(broken, e, i, part)
  PROVE  \E f \in broken : <<f[1], f[2]>> = <<e, i>>
<1>1. PICK f \in broken : f = <<e, i, part>>
  BY DEF Holds
<1>2. f[1] = e /\ f[2] = i
  BY <1>1
<1> QED BY <1>2

\* A row speaks of a failed cell if its verdict is of the cells it is about.
LEMMA RowSpeaks ==
  ASSUME NEW broken, NEW row, NEW table, NEW about, NEW passed \in BOOLEAN,
         row = Row(table, about, passed), ~row.passed,
         ~passed => \E f \in broken : <<f[1], f[2]>> \in about
  PROVE  Speaks(row, broken)
<1>1. ~passed /\ row.about = about
  BY RowFails, Zenon
<1> QED BY <1>1, Zenon DEF Speaks

\* So do the rows that repeat, fold or recompute the verdicts of cells.
LEMMA RepeatedSpeaks ==
  ASSUME NEW c, NEW broken, NEW table, NEW e, NEW row \in Repeated(table, e, c, broken), ~row.passed
  PROVE  Speaks(row, broken)
<1>1. PICK i \in Positions(e, c) : row = Row(table, {<<e, i>>}, Passed(broken, e, i))
  BY DEF Repeated
<1>2. Passed(broken, e, i) \in BOOLEAN
  BY DEF Passed
<1>3. ~Passed(broken, e, i) => \E f \in broken : <<f[1], f[2]>> \in {<<e, i>>}
  BY NotPassed
<1> QED BY <1>1, <1>2, <1>3, RowSpeaks, Zenon

LEMMA FoldedSpeaks ==
  ASSUME NEW c, NEW broken, NEW table, NEW e, NEW row, row = Folded(table, e, c, broken), ~row.passed
  PROVE  Speaks(row, broken)
<1> DEFINE all == \A i \in Positions(e, c) : Passed(broken, e, i)
<1>1. row = Row(table, {e} \X Positions(e, c), all)
  BY DEF Folded
<1>2. all \in BOOLEAN
  OBVIOUS
<1>3. ~all => \E f \in broken : <<f[1], f[2]>> \in {e} \X Positions(e, c)
  <2>1. SUFFICES ASSUME NEW i \in Positions(e, c), ~Passed(broken, e, i)
                 PROVE  \E f \in broken : <<f[1], f[2]>> \in {e} \X Positions(e, c)
    OBVIOUS
  <2>2. PICK f \in broken : <<f[1], f[2]>> = <<e, i>>
    BY <2>1, NotPassed
  <2> QED BY <2>2
<1> HIDE DEF all
<1> QED BY <1>1, <1>2, <1>3, RowSpeaks, Zenon

LEMMA TimingSpeaks ==
  ASSUME NEW c, NEW broken, NEW e, NEW row \in TimingRows(e, c, broken), ~row.passed
  PROVE  Speaks(row, broken)
<1> DEFINE both(i) == Passed(broken, e, i) /\ Holds(broken, e, i, "containment")
<1>1. PICK i \in Positions(e, c) : row = Row("partition_timing", {<<e, i>>}, both(i))
  BY DEF TimingRows
<1>2. both(i) \in BOOLEAN
  OBVIOUS
<1>3. ~both(i) => \E f \in broken : <<f[1], f[2]>> \in {<<e, i>>}
  BY NotPassed, NotHolding
<1> HIDE DEF both
<1> QED BY <1>1, <1>2, <1>3, RowSpeaks, Zenon

LEMMA CompatibilitySpeaks ==
  ASSUME NEW c, NEW broken, NEW row \in CompatibilitySafetyRows(c, broken), ~row.passed
  PROVE  Speaks(row, broken)
<1>1. CASE row \in Repeated("compatibility_safety", SharpnessExperiment, c, broken)
                   \union Repeated("compatibility_safety", SafetyExperiment, c, broken)
  BY <1>1, RepeatedSpeaks
<1>2. CASE row \notin Repeated("compatibility_safety", SharpnessExperiment, c, broken)
                   \union Repeated("compatibility_safety", SafetyExperiment, c, broken)
  <2> DEFINE floor(i) == {Row("compatibility_safety", {<<FloorExperiment, i>>}, Holds(broken, FloorExperiment, i, point)) :
                            point \in FloorPoints(i, c)}
  <2>5. CompatibilitySafetyRows(c, broken) =
          (UNION {floor(i) : i \in Positions(FloorExperiment, c)})
          \union Repeated("compatibility_safety", SharpnessExperiment, c, broken)
          \union Repeated("compatibility_safety", SafetyExperiment, c, broken)
    BY Zenon DEF CompatibilitySafetyRows
  <2>0. row \in UNION {floor(i) : i \in Positions(FloorExperiment, c)}
    <3> HIDE DEF floor
    <3> QED BY <1>2, <2>5
  <2>4. PICK i \in Positions(FloorExperiment, c) : row \in floor(i)
    <3> HIDE DEF floor
    <3> QED BY <2>0
  <2>1. PICK point \in FloorPoints(i, c) :
          row = Row("compatibility_safety", {<<FloorExperiment, i>>}, Holds(broken, FloorExperiment, i, point))
    BY <2>4
  <2>2. Holds(broken, FloorExperiment, i, point) \in BOOLEAN
    BY DEF Holds
  <2>3. ~Holds(broken, FloorExperiment, i, point)
          => \E f \in broken : <<f[1], f[2]>> \in {<<FloorExperiment, i>>}
    BY NotHolding
  <2> QED BY <2>1, <2>2, <2>3, RowSpeaks, Zenon
<1> QED BY <1>1, <1>2

\* The row of a partition and an offset, and the cells it speaks of.
SolverGroup(c, at) ==
  {i \in Positions(OracleExperiment, c) :
     LET cell == CellAt(OracleExperiment, i, c) IN <<cell.at[2], cell.at[3]>> = at}
SolverAttached(c, at) ==
  IF at[1] = c.finest THEN {SafetyExperiment} \X Positions(SafetyExperiment, c) ELSE {}
SolverHolds(c, broken, at) ==
  /\ \A i \in SolverGroup(c, at) : Passed(broken, OracleExperiment, i)
  /\ at[1] = c.finest => FrontierPassed(c, broken)
SolverRow(c, broken, at) ==
  Row("solver_oracle_validation",
      ({OracleExperiment} \X SolverGroup(c, at)) \union SolverAttached(c, at), SolverHolds(c, broken, at))

\* The rows of the solver, by name.
LEMMA SolverRowsAre ==
  ASSUME NEW c, NEW broken
  PROVE  SolverRows(c, broken) =
           {SolverRow(c, broken, at) : at \in Range(c.partitions) \X Range(c.oracleOffsets)}
BY Zenon DEF SolverRows, SolverRow, SolverGroup, SolverAttached, SolverHolds

LEMMA SolverSpeaks ==
  ASSUME NEW c, NEW broken, NEW row \in SolverRows(c, broken), ~row.passed
  PROVE  Speaks(row, broken)
<1>1. PICK at \in Range(c.partitions) \X Range(c.oracleOffsets) : row = SolverRow(c, broken, at)
  BY SolverRowsAre
<1> DEFINE about == ({OracleExperiment} \X SolverGroup(c, at)) \union SolverAttached(c, at)
<1>2. SolverHolds(c, broken, at) \in BOOLEAN
  BY DEF SolverHolds
<1>3. ~SolverHolds(c, broken, at) => \E f \in broken : <<f[1], f[2]>> \in about
  <2>1. ASSUME NEW i \in SolverGroup(c, at), ~Passed(broken, OracleExperiment, i)
        PROVE  \E f \in broken : <<f[1], f[2]>> \in about
    <3>1. PICK f \in broken : <<f[1], f[2]>> = <<OracleExperiment, i>>
      BY <2>1, NotPassed
    <3> QED BY <3>1
  <2>2. ASSUME at[1] = c.finest, ~FrontierPassed(c, broken)
        PROVE  \E f \in broken : <<f[1], f[2]>> \in about
    <3>1. PICK i \in Positions(SafetyExperiment, c) : ~Holds(broken, SafetyExperiment, i, "frontier")
      BY <2>2 DEF FrontierPassed
    <3>2. PICK f \in broken : <<f[1], f[2]>> = <<SafetyExperiment, i>>
      BY <3>1, NotHolding
    <3> QED BY <2>2, <3>2 DEF SolverAttached
  <2> QED BY <2>1, <2>2 DEF SolverHolds
<1>4. row = Row("solver_oracle_validation", about, SolverHolds(c, broken, at))
  BY <1>1 DEF SolverRow
<1> HIDE DEF about
<1> QED BY <1>2, <1>3, <1>4, RowSpeaks, Zenon

\* No row of any table fails unless it speaks of a cell that failed.
LEMMA FailedRowSpeaks ==
  ASSUME NEW c, NEW broken, NEW row \in Summaries(c, broken) \union Details(c, broken), ~row.passed
  PROVE  Speaks(row, broken)
<1>1. CASE row \in Summaries(c, broken)
  BY <1>1, FoldedSpeaks DEF Summaries, TheoremRows, ValidationRows
<1>2. CASE row \in SolverRows(c, broken)
  BY <1>2, SolverSpeaks
<1>3. CASE row \in UNION {TimingRows(e, c, broken) : e \in PartitionTimingExperiments}
  BY <1>3, TimingSpeaks
<1>4. CASE row \in CompatibilitySafetyRows(c, broken)
  BY <1>4, CompatibilitySpeaks
<1>5. CASE row \in SupplementaryRows(c, broken) \union CoverageRows(c, broken)
  BY <1>5, RepeatedSpeaks DEF SupplementaryRows, CoverageRows
<1>6. row \in Details(c, broken) =>
        \/ row \in SolverRows(c, broken)
        \/ row \in UNION {TimingRows(e, c, broken) : e \in PartitionTimingExperiments}
        \/ row \in CompatibilitySafetyRows(c, broken)
        \/ row \in SupplementaryRows(c, broken) \union CoverageRows(c, broken)
  BY Zenon DEF Details
<1> QED BY <1>1, <1>2, <1>3, <1>4, <1>5, <1>6, Zenon

\* The cell of a comparison that failed does not pass, and every other experiment does.
LEMMA CellFails == ASSUME NEW f PROVE ~Passed({f}, f[1], f[2])
BY DEF Passed

LEMMA OthersPass == ASSUME NEW f, NEW e, e # f[1], NEW i PROVE Passed({f}, e, i)
BY DEF Passed

\* The pass column of a row.
LEMMA RowPasses ==
  ASSUME NEW table, NEW about, NEW passed \in BOOLEAN
  PROVE  Row(table, about, passed).passed = passed
BY Zenon DEF Row

\* The row of an experiment fails exactly if the comparison is one of its own.
LEMMA FoldedFails ==
  ASSUME NEW c, NEW f, f[2] \in Positions(f[1], c), NEW e, NEW table
  PROVE  Folded(table, e, c, {f}).passed <=> e # f[1]
<1> DEFINE all == \A i \in Positions(e, c) : Passed({f}, e, i)
<1>1. all \in BOOLEAN
  OBVIOUS
<1>2. Folded(table, e, c, {f}) = Row(table, {e} \X Positions(e, c), all)
  BY DEF Folded
<1>3. all <=> e # f[1]
  BY CellFails, OthersPass
<1>4. Folded(table, e, c, {f}).passed = all
  <2> HIDE DEF all
  <2> QED BY <1>1, <1>2, RowPasses, Zenon
<1> HIDE DEF all
<1> QED BY <1>1, <1>3, <1>4, Zenon

\* The summaries have one failed row.
LEMMA OneSummaryFails ==
  ASSUME NEW c, NEW f \in Comparisons(c), f[1] # CoverageExperiment
  PROVE  Cardinality({row \in Summaries(c, {f}) : ~row.passed}) = 1
<1>1. f[1] \in TheoremExperiments \union CheckedExperiments /\ f[2] \in Positions(f[1], c)
  BY ComparisonParts
<1> DEFINE failed == {row \in Summaries(c, {f}) : ~row.passed}
           of(table) == Folded(table, f[1], c, {f})
           theorem == of("theorem_validation")
           checked == of("implementation_validation_summary")
<1>2. \A table : ~of(table).passed
  BY <1>1, FoldedFails
<1>3. \A row \in TheoremRows(c, {f}) : ~row.passed => row = theorem /\ f[1] \in TheoremExperiments
  BY <1>1, FoldedFails DEF TheoremRows
<1>4. \A row \in ValidationRows(c, {f}) : ~row.passed => row = checked /\ f[1] \in CheckedExperiments
  BY <1>1, FoldedFails DEF ValidationRows
<1>5. /\ f[1] \in TheoremExperiments => theorem \in TheoremRows(c, {f})
      /\ f[1] \in CheckedExperiments => checked \in ValidationRows(c, {f})
  BY DEF TheoremRows, ValidationRows
<1> HIDE DEF of
<1>6. CASE f[1] \in TheoremExperiments
  <2>1. f[1] \notin CheckedExperiments
    BY <1>6, TheoremsNotChecked
  <2>2. failed = {theorem}
    BY <1>2, <1>3, <1>4, <1>5, <1>6, <2>1 DEF Summaries
  <2> QED BY <2>2, FS_Singleton
<1>7. CASE f[1] \in CheckedExperiments
  <2>1. f[1] \notin TheoremExperiments
    BY <1>7, TheoremsNotChecked
  <2>2. failed = {checked}
    BY <1>2, <1>3, <1>4, <1>5, <1>7, <2>1 DEF Summaries
  <2> QED BY <2>2, FS_Singleton
<1> QED BY <1>1, <1>6, <1>7

\* The detailed tables have one: the row that repeats the verdict of the cell,
LEMMA RepeatedFails ==
  ASSUME NEW c, NEW f, f[2] \in Positions(f[1], c), NEW table
  PROVE  \E row \in Repeated(table, f[1], c, {f}) : ~row.passed
<1> DEFINE row == Row(table, {<<f[1], f[2]>>}, Passed({f}, f[1], f[2]))
<1>1. row \in Repeated(table, f[1], c, {f})
  BY DEF Repeated
<1>2. Passed({f}, f[1], f[2]) \in BOOLEAN
  BY DEF Passed
<1>3. row.passed = Passed({f}, f[1], f[2])
  BY <1>2, RowPasses, Zenon
<1> QED BY <1>1, <1>3, CellFails, Zenon

\* the one that computes its containment once more,
LEMMA TimingFails ==
  ASSUME NEW c, NEW f, f[2] \in Positions(f[1], c)
  PROVE  \E row \in TimingRows(f[1], c, {f}) : ~row.passed
<1> DEFINE both == Passed({f}, f[1], f[2]) /\ Holds({f}, f[1], f[2], "containment")
           row == Row("partition_timing", {<<f[1], f[2]>>}, both)
<1>1. row \in TimingRows(f[1], c, {f})
  BY DEF TimingRows
<1>2. both \in BOOLEAN /\ ~both
  BY CellFails
<1>3. row.passed = both
  <2> HIDE DEF both
  <2> QED BY <1>2, RowPasses, Zenon
<1> QED BY <1>1, <1>2, <1>3, Zenon

\* the one of the comparison at the floor,
LEMMA FloorFails ==
  ASSUME NEW c, NEW f \in Comparisons(c), f[1] = FloorExperiment
  PROVE  \E row \in CompatibilitySafetyRows(c, {f}) : ~row.passed
<1> DEFINE held == Holds({f}, FloorExperiment, f[2], f[3])
           row == Row("compatibility_safety", {<<FloorExperiment, f[2]>>}, held)
           floor(i) == {Row("compatibility_safety", {<<FloorExperiment, i>>}, Holds({f}, FloorExperiment, i, point)) :
                          point \in FloorPoints(i, c)}
           floors == UNION {floor(i) : i \in Positions(FloorExperiment, c)}
<1>1. f[2] \in Positions(FloorExperiment, c) /\ f[3] \in FloorPoints(f[2], c)
  <2>1. f[2] \in Positions(FloorExperiment, c) /\ f[3] \in Parts(FloorExperiment, f[2], c)
    BY ComparisonParts
  <2>2. FloorExperiment # SafetyExperiment /\ FloorExperiment \notin PartitionTimingExperiments
    BY DEF FloorExperiment, SafetyExperiment, PartitionTimingExperiments
  <2> QED BY <2>1, <2>2 DEF Parts
<1>2. row \in floor(f[2])
  BY <1>1
<1>3. row \in floors
  <2> HIDE DEF floor, row
  <2> QED BY <1>1, <1>2
<1>4. CompatibilitySafetyRows(c, {f}) =
        floors \union Repeated("compatibility_safety", SharpnessExperiment, c, {f})
               \union Repeated("compatibility_safety", SafetyExperiment, c, {f})
  BY Zenon DEF CompatibilitySafetyRows
<1>5. row \in CompatibilitySafetyRows(c, {f})
  <2> HIDE DEF row, floors
  <2> QED BY <1>3, <1>4
<1>6. held \in BOOLEAN /\ ~held
  <2>1. f = <<FloorExperiment, f[2], f[3]>>
    BY ComparisonParts
  <2> QED BY <2>1 DEF Holds
<1>7. row.passed = held
  <2> HIDE DEF held
  <2> QED BY <1>6, RowPasses, Zenon
<1> HIDE DEF row, held
<1> QED BY <1>5, <1>6, <1>7, Zenon

\* and the one of the partition and the offset of the cell.
LEMMA OracleHandler == CoordinateHandler(OracleExperiment) = "oracle_offsets"
<1>1. \A i \in 1..30 : NameAt(i) = "Production Solver vs Independent Oracle" => i = 12
  BY UpToThirty, CatalogNames
<1>2. NameAt(12) = "Production Solver vs Independent Oracle"
  BY CatalogNames
<1>3. CoordinatesAt(12) = "oracle_offsets"
  BY CatalogCoordinates
<1>4. 12 \in 1..30
  OBVIOUS
<1>5. ASSUME NEW e, NEW n \in 1..30, NameAt(n) = e, \A i \in 1..30 : NameAt(i) = e => i = n
      PROVE  CoordinateHandler(e) = CoordinatesAt(n)
  BY <1>5, HandlerOf
<1> QED BY <1>1, <1>2, <1>3, <1>4, <1>5, Zenon DEF OracleExperiment

LEMMA OracleCellGrouped ==
  ASSUME NEW c, NEW i \in Positions(OracleExperiment, c)
  PROVE  \E at \in Range(c.partitions) \X Range(c.oracleOffsets) : i \in SolverGroup(c, at)
<1>1. PICK s : s = c.partitions
  OBVIOUS
<1>2. PICK t : t = c.oracleOffsets
  OBVIOUS
<1>3. PICK cells : cells = Triples(OrderedLaws, s, t)
  OBVIOUS
<1>4. Coordinates(OracleExperiment, c) = Plain(cells)
  BY <1>1, <1>2, <1>3, CoordinatesBy, OracleHandler
<1>5. i \in DOMAIN cells /\ CellAt(OracleExperiment, i, c).at = cells[i]
  BY <1>4 DEF Positions, CellAt, Plain
<1>6. i[2] \in DOMAIN s /\ i[3] \in DOMAIN t /\ cells[i] = <<OrderedLaws[i[1]], s[i[2]], t[i[3]]>>
  BY <1>3, <1>5 DEF Triples
<1> DEFINE at == <<s[i[2]], t[i[3]]>>
<1>7. at \in Range(s) \X Range(t)
  BY <1>6 DEF Range
<1>8. <<cells[i][2], cells[i][3]>> = at
  BY <1>6
<1>9. i \in SolverGroup(c, at)
  <2>1. <<CellAt(OracleExperiment, i, c).at[2], CellAt(OracleExperiment, i, c).at[3]>> = at
    BY <1>5, <1>8, Zenon
  <2> HIDE DEF at
  <2> QED BY <2>1, Zenon DEF SolverGroup
<1> QED BY <1>1, <1>2, <1>7, <1>9, Zenon

LEMMA OracleFails ==
  ASSUME NEW c, NEW f, f[1] = OracleExperiment, f[2] \in Positions(OracleExperiment, c)
  PROVE  \E row \in SolverRows(c, {f}) : ~row.passed
<1>1. PICK at \in Range(c.partitions) \X Range(c.oracleOffsets) : f[2] \in SolverGroup(c, at)
  BY OracleCellGrouped
<1>2. SolverRow(c, {f}, at) \in SolverRows(c, {f})
  BY SolverRowsAre, Zenon
<1>3. ~Passed({f}, OracleExperiment, f[2])
  BY CellFails, Zenon
<1>4. SolverHolds(c, {f}, at) \in BOOLEAN /\ ~SolverHolds(c, {f}, at)
  BY <1>1, <1>3 DEF SolverHolds
<1>5. SolverRow(c, {f}, at).passed = SolverHolds(c, {f}, at)
  BY <1>4, RowPasses, Zenon DEF SolverRow
<1> QED BY <1>2, <1>4, <1>5, Zenon

\* The root precondition.
LEMMA RootIsLegacy == Root = "Legacy Partition Incoherence Check"
BY CatalogNames DEF Root, NameAt

\* Whichever check failed, a detailed table says so.
LEMMA DetailFails ==
  ASSUME NEW c, NEW f \in Comparisons(c), f[1] \in CheckedExperiments \union {CoverageExperiment, Root}
  PROVE  \E row \in Details(c, {f}) : ~row.passed
<1>1. f[2] \in Positions(f[1], c)
  BY ComparisonParts
<1> DEFINE Failed(rows) == \E row \in rows : ~row.passed
<1>2. CASE f[1] \in PartitionTimingExperiments
  <2>1. Failed(TimingRows(f[1], c, {f}))
    BY <1>1, TimingFails
  <2> QED BY <1>2, <2>1 DEF Details
<1>3. CASE f[1] = OracleExperiment
  <2>1. Failed(SolverRows(c, {f}))
    BY <1>1, <1>3, OracleFails
  <2> QED BY <2>1 DEF Details
<1>4. CASE f[1] = FloorExperiment
  <2>1. Failed(CompatibilitySafetyRows(c, {f}))
    BY <1>4, FloorFails
  <2> QED BY <2>1 DEF Details
<1>5. CASE f[1] \in {SharpnessExperiment, SafetyExperiment}
  <2>1. Failed(Repeated("compatibility_safety", f[1], c, {f}))
    BY <1>1, RepeatedFails
  <2>2. Repeated("compatibility_safety", f[1], c, {f}) \subseteq CompatibilitySafetyRows(c, {f})
    BY <1>5 DEF CompatibilitySafetyRows
  <2> QED BY <2>1, <2>2 DEF Details
<1>6. CASE f[1] = CoverageExperiment
  <2>1. Failed(CoverageRows(c, {f}))
    BY <1>1, <1>6, RepeatedFails DEF CoverageRows
  <2> QED BY <2>1 DEF Details
<1>7. CASE f[1] \in {"Legacy Partition Incoherence Check", "Same Endpoint, Different Timing",
                     "Anytime Implementation Hand Cases"}
  <2>1. Failed(SupplementaryRows(c, {f}))
    <3>1. \A table : Failed(Repeated(table, f[1], c, {f}))
      BY <1>1, RepeatedFails
    <3> HIDE DEF Failed
    <3>2. \E table : Repeated(table, f[1], c, {f}) \subseteq SupplementaryRows(c, {f})
      BY <1>7 DEF SupplementaryRows
    <3> QED BY <3>1, <3>2 DEF Failed
  <2> QED BY <2>1 DEF Details
<1>8. f[1] \in PartitionTimingExperiments
       \union {OracleExperiment, FloorExperiment, SharpnessExperiment, SafetyExperiment, CoverageExperiment}
       \union {"Legacy Partition Incoherence Check", "Same Endpoint, Different Timing",
               "Anytime Implementation Hand Cases"}
  BY RootIsLegacy, Zenon DEF CheckedExperiments
<1> QED BY <1>2, <1>3, <1>4, <1>5, <1>6, <1>7, <1>8

\* However large the study and whichever comparison fails, the tables of a completed study
\* say that its experiment failed and name the cell, and they fail nothing else.
THEOREM FailuresArePublished == CampaignSpec => []FailureIsPublished
<1>1. StudyInv => FailureIsPublished
  <2> SUFFICES ASSUME StudyInv PROVE FailureIsPublished
    OBVIOUS
  <2> DEFINE summaries == {row \in Summaries(config, failing) : ~row.passed}
             details == {row \in Details(config, failing) : ~row.passed}
  <2>1. \A row \in summaries \union details : Speaks(row, failing)
    BY FailedRowSpeaks
  <2>2. failing = {} => summaries \union details = {}
    <3> HIDE DEF summaries, details
    <3> QED BY <2>1 DEF Speaks
  <2>3. ASSUME NEW f \in failing
        PROVE  /\ \A row \in summaries \union details : <<f[1], f[2]>> \in row.about
               /\ f[1] # CoverageExperiment => Cardinality(summaries) = 1
               /\ f[1] \in CheckedExperiments \union {CoverageExperiment, Root} => details # {}
    <3>1. failing = {f} /\ f \in Comparisons(config)
      BY <2>3 DEF StudyInv
    <3>2. \A row \in summaries \union details : <<f[1], f[2]>> \in row.about
      <4> HIDE DEF summaries, details
      <4> QED BY <2>1, <3>1 DEF Speaks
    <3>3. f[1] # CoverageExperiment => Cardinality(summaries) = 1
      BY <3>1, OneSummaryFails
    <3>4. f[1] \in CheckedExperiments \union {CoverageExperiment, Root} => details # {}
      BY <3>1, DetailFails
    <3> HIDE DEF summaries, details
    <3> QED BY <3>2, <3>3, <3>4
  <2> HIDE DEF summaries, details
  <2> QED BY <2>2, <2>3, Zenon DEF FailureIsPublished, summaries, details
<1> QED BY <1>1, StudyInvHolds, PTL

\* No two cells have one directory.
Apart(cells) == \A i, j \in DOMAIN cells : Directory(cells[i]) = Directory(cells[j]) => i = j

\* An experiment that is completed once it is run: it has cells, each with a directory of
\* its own and each found by the dispatcher.
Sound(e, c) ==
  LET cells == Coordinates(e, c)
  IN  /\ DOMAIN cells # {} /\ Apart(cells)
      /\ \A i \in DOMAIN cells : Executed(e, c, cells[i])

\* Cells that have their directories to themselves share nothing, and of others one is missing.
LEMMA NothingShared ==
  ASSUME NEW cells, \A i, j \in DOMAIN cells : Directory(cells[i]) = Directory(cells[j]) => i = j,
         NEW last \in Choices(Sharing(cells))
  PROVE  (DOMAIN cells \ UNION Sharing(cells)) \union last = DOMAIN cells
<1>1. Sharing(cells) = {}
  BY DEF Sharing, IsInjective
<1>2. PICK f \in [Sharing(cells) -> UNION Sharing(cells)] : last = Range(f)
  BY DEF Choices
<1>3. DOMAIN f = {}
  BY <1>1, <1>2
<1>4. last = {}
  BY <1>2, <1>3 DEF Range
<1> QED BY <1>1, <1>4

LEMMA SomethingShared ==
  ASSUME NEW cells, NEW i \in DOMAIN cells, NEW j \in DOMAIN cells, i # j,
         Directory(cells[i]) = Directory(cells[j]), NEW last \in Choices(Sharing(cells))
  PROVE  (DOMAIN cells \ UNION Sharing(cells)) \union last # DOMAIN cells
<1> DEFINE at == [k \in DOMAIN cells |-> Directory(cells[k])]
           group == {k \in DOMAIN at : at[k] = at[i]}
           shared == Sharing(cells)
<1>1. ~IsInjective(at)
  BY DEF IsInjective
<1>2. shared = {g \in {{k \in DOMAIN at : at[k] = d} : d \in Range(at)} : \E x, y \in g : x # y}
  BY <1>1 DEF Sharing
<1>3. at[i] \in Range(at) /\ i \in group /\ j \in group
  BY DEF Range
<1>4. group \in shared
  <2> HIDE DEF at, shared
  <2> QED BY <1>2, <1>3
<1>5. \A g \in shared : \A x \in g : x \in group => g = group
  <2> HIDE DEF at, shared
  <2> QED BY <1>2
<1>6. PICK f \in [shared -> UNION shared] : (\A g \in shared : f[g] \in g) /\ last = Range(f)
  BY DEF Choices
<1>7. PICK x \in {i, j} : x # f[group]
  OBVIOUS
<1>8. x \in group /\ x \in UNION shared /\ x \in DOMAIN cells
  <2>1. x \in group
    BY <1>3, <1>7
  <2>2. x \in UNION shared
    <3> HIDE DEF group, shared
    <3> QED BY <1>4, <2>1
  <2> QED BY <2>1, <2>2
<1>9. x \notin last
  <2>1. SUFFICES ASSUME NEW g \in shared, x = f[g] PROVE FALSE
    BY <1>6 DEF Range
  <2> HIDE DEF group, shared
  <2> QED BY <1>5, <1>6, <1>7, <1>8, <2>1
<1> HIDE DEF group
<1> QED BY <1>8, <1>9

\* Run once, an experiment is completed exactly if it is sound.
LEMMA RunCompletes ==
  ASSUME NEW e, NEW c, NEW cells, cells = Coordinates(e, c), NEW last \in Choices(Sharing(cells)),
         NEW finished,
         finished = {i \in (DOMAIN cells \ UNION Sharing(cells)) \union last : Executed(e, c, cells[i])}
  PROVE  (DOMAIN cells # {} /\ finished = DOMAIN cells) <=> Sound(e, c)
<1> DEFINE stays == (DOMAIN cells \ UNION Sharing(cells)) \union last
           apart == \A i, j \in DOMAIN cells : Directory(cells[i]) = Directory(cells[j]) => i = j
           found == \A i \in DOMAIN cells : Executed(e, c, cells[i])
<1>1. apart => stays = DOMAIN cells
  BY NothingShared
<1>2. ~apart => stays # DOMAIN cells
  BY SomethingShared
<1>3. stays \subseteq DOMAIN cells
  <2>1. PICK f \in [Sharing(cells) -> UNION Sharing(cells)] : last = Range(f)
    BY DEF Choices
  <2>2. UNION Sharing(cells) \subseteq DOMAIN cells
    BY DEF Sharing
  <2>3. last \subseteq UNION Sharing(cells)
    BY <2>1 DEF Range
  <2> QED BY <2>2, <2>3
<1>4. Sound(e, c) <=> DOMAIN cells # {} /\ apart /\ found
  BY DEF Sound, Apart
<1> HIDE DEF apart, stays
<1>5. finished = {i \in stays : Executed(e, c, cells[i])}
  BY DEF stays
<1> QED BY <1>1, <1>2, <1>3, <1>4, <1>5

\* The first row of the catalog and its last.
LEMMA CatalogEnds == /\ Len(Catalog) = 30 /\ Root = NameAt(1) /\ Synthesis = NameAt(30)
BY DEF Catalog, Root, Synthesis, NameAt, Last

\* From its turn on an experiment is completed exactly if it is sound, unless the root is not.
Settled ==
  /\ \A e \in Experiments : Completed(e) => Sound(e, config)
  /\ \A n \in 1..29 :
       /\ n < turn \/ pass > 1 \/ stage = "over"
       /\ Sound(Root, config) /\ Sound(NameAt(n), config)
       => Completed(NameAt(n))

\* What the last synthesis found.
Judged ==
  outcome # "none" =>
    /\ stage \in {"run", "over"}
    /\ outcome = "blocked" <=> \E e \in Experiments \ {Synthesis} : ~Sound(e, config)
    /\ outcome = "published" => EvidenceJoins(config)
    /\ outcome = "refused" => ~EvidenceJoins(config)

CampaignTypes ==
  /\ turn \in 1..30 /\ pass \in Nat /\ pass >= 1
  /\ DOMAIN standing = Experiments /\ standing = [e \in Experiments |-> standing[e]]
  /\ outcome \in {"none", "blocked", "published", "refused"}

GateInv == CampaignTypes /\ Settled /\ Judged

\* Nothing is completed yet.
LEMMA InitGate == CampaignInit => GateInv
<1> SUFFICES ASSUME CampaignInit PROVE GateInv
  OBVIOUS
<1>1. CampaignTypes
  BY DEF CampaignInit, CampaignTypes
<1>2. \A e \in Experiments : ~Completed(e)
  BY DEF CampaignInit, Completed
<1>3. Settled
  BY <1>2 DEF CampaignInit, Settled
<1> QED BY <1>1, <1>3 DEF CampaignInit, GateInv, Judged

\* What is completed does not change but by a run.
LEMMA StandingKept ==
  ASSUME GateInv, UNCHANGED <<config, standing, turn, pass, outcome>>, stage' # stage => stage # "over" /\ stage' # "over",
         stage \in {"run", "over"} => stage' = stage
  PROVE  GateInv'
<1>1. \A e \in Experiments : Completed(e)' = Completed(e)
  BY DEF Completed, Cells
<1>2. CampaignTypes'
  BY DEF GateInv, CampaignTypes
<1>3. Settled'
  <2>1. ASSUME NEW n \in 1..29 PROVE NameAt(n) \in Experiments
    BY NameIsExperiment
  <2> QED BY <1>1, <2>1 DEF GateInv, Settled
<1>4. Judged'
  BY DEF GateInv, Judged
<1> QED BY <1>2, <1>3, <1>4 DEF GateInv

\* A run completes the experiment if it is sound, and no other.
LEMMA RunExperimentKeeps ==
  ASSUME GateInv, RunExperiment PROVE GateInv'
<1>10. PICK e : e = Catalog[turn][1]
  OBVIOUS
<1>11. PICK cells : cells = Cells(e)
  OBVIOUS
<1>1. turn \in 1..29 /\ turn' = turn + 1 /\ UNCHANGED <<config, stage, pass, outcome>>
  BY CatalogEnds DEF RunExperiment, GateInv, CampaignTypes
<1>2. e = NameAt(turn) /\ e \in Experiments
  BY <1>1, <1>10, NameIsExperiment DEF NameAt
<1>3. CASE turn = 1 \/ Completed(Root)
  <2>1. PICK last \in Choices(Sharing(cells)) :
          standing' = [standing EXCEPT ![e] =
            {i \in (DOMAIN cells \ UNION Sharing(cells)) \union last : Executed(e, config, cells[i])}]
    BY <1>3, <1>10, <1>11 DEF RunExperiment
  <2> DEFINE finished == {i \in (DOMAIN cells \ UNION Sharing(cells)) \union last : Executed(e, config, cells[i])}
  <2>2. (DOMAIN cells # {} /\ finished = DOMAIN cells) <=> Sound(e, config)
    BY <1>11, RunCompletes DEF Cells
  <2>3. DOMAIN standing = Experiments
    BY DEF GateInv, CampaignTypes
  <2>4. /\ standing' = [standing EXCEPT ![e] = finished] /\ standing'[e] = finished
        /\ DOMAIN standing' = Experiments
        /\ \A d \in Experiments : d # e => standing'[d] = standing[d]
    <3> HIDE DEF finished
    <3> QED BY <1>2, <2>1, <2>3 DEF finished
  <2>5. Completed(e)' <=> Sound(e, config)
    BY <1>1, <1>11, <2>2, <2>4 DEF Completed, Cells
  <2>6. \A d \in Experiments : d # e => (Completed(d)' <=> Completed(d))
    BY <1>1, <2>4 DEF Completed, Cells
  <2> HIDE DEF finished
  <2>7. Settled'
    <3>1. \A d \in Experiments : Completed(d)' => Sound(d, config)
      BY <2>5, <2>6 DEF GateInv, Settled
    <3>2. ASSUME NEW n \in 1..29, (n < turn \/ pass > 1 \/ stage = "over")', Sound(Root, config), Sound(NameAt(n), config)
          PROVE  Completed(NameAt(n))'
      <4>1. NameAt(n) \in Experiments
        BY NameIsExperiment
      <4>2. CASE NameAt(n) = e
        BY <2>5, <3>2, <4>2
      <4>3. CASE NameAt(n) # e
        <5>1. n # turn
          BY <1>2, <4>3
        <5>2. n < turn \/ pass > 1 \/ stage = "over"
          BY <1>1, <3>2, <5>1
        <5>3. Completed(NameAt(n))
          BY <3>2, <5>2 DEF GateInv, Settled
        <5> QED BY <2>6, <4>1, <4>3, <5>3
      <4> QED BY <4>2, <4>3
    <3> QED BY <1>1, <3>1, <3>2 DEF Settled
  <2>8. CampaignTypes'
    BY <1>1, <2>4 DEF GateInv, CampaignTypes
  <2>9. Judged'
    BY <1>1 DEF GateInv, Judged
  <2> QED BY <2>7, <2>8, <2>9 DEF GateInv
<1>4. CASE ~(turn = 1 \/ Completed(Root))
  <2>1. standing' = standing
    BY <1>4 DEF RunExperiment
  <2>2. \A d \in Experiments : Completed(d)' <=> Completed(d)
    BY <1>1, <2>1 DEF Completed, Cells
  <2>3. ~Sound(Root, config)
    <3>1. 1 \in 1..29 /\ 1 < turn
      BY <1>1, <1>4
    <3> QED BY <1>4, <3>1, CatalogEnds DEF GateInv, Settled
  <2>4. Settled'
    BY <1>1, <2>2, <2>3 DEF GateInv, Settled
  <2>5. CampaignTypes'
    BY <1>1, <2>1 DEF GateInv, CampaignTypes
  <2>6. Judged'
    BY <1>1 DEF GateInv, Judged
  <2> QED BY <2>4, <2>5, <2>6 DEF GateInv
<1> QED BY <1>3, <1>4

\* The last turn of a pass finds the sound experiments completed.
LEMMA SynthesiseKeeps ==
  ASSUME GateInv, Synthesise PROVE GateInv'
<1>1. /\ turn = 30 /\ turn' = 1 /\ stage = "run" /\ stage' \in {"run", "over"} /\ UNCHANGED <<config, standing>>
      /\ outcome' = IF \E e \in Experiments \ {Synthesis} : ~Completed(e) THEN "blocked"
                    ELSE IF EvidenceJoins(config) THEN "published" ELSE "refused"
      /\ pass' \in Nat /\ pass' >= 1 /\ (pass' > 1 \/ stage' = "over")
  BY CatalogEnds DEF Synthesise, GateInv, CampaignTypes
<1>2. \A e \in Experiments : Completed(e)' = Completed(e)
  BY <1>1 DEF Completed, Cells
<1>3. \A n \in 1..29 : NameAt(n) \in Experiments
  BY NameIsExperiment
<1>4. (\E e \in Experiments \ {Synthesis} : ~Completed(e)) <=> \E e \in Experiments \ {Synthesis} : ~Sound(e, config)
  <2>1. ASSUME NEW e \in Experiments \ {Synthesis}, ~Sound(e, config)
        PROVE  ~Completed(e)
    BY <2>1 DEF GateInv, Settled
  <2>2. ASSUME NEW e \in Experiments \ {Synthesis}, ~Completed(e), \A d \in Experiments \ {Synthesis} : Sound(d, config)
        PROVE  FALSE
    <3>1. PICK n \in 1..30 : NameAt(n) = e
      BY RowOf
    <3>2. n # 30
      BY <2>2, <3>1, CatalogEnds
    <3>3. n \in 1..29 /\ n < turn
      BY <1>1, <3>2
    <3>4. Root \in Experiments /\ Root # Synthesis
      <4>1. 1 \in 1..30
        OBVIOUS
      <4> QED BY <4>1, CatalogEnds, CatalogNames, NameIsExperiment
    <3> QED BY <2>2, <3>1, <3>3, <3>4 DEF GateInv, Settled
  <2> QED BY <2>1, <2>2
<1>5. Settled'
  BY <1>1, <1>2, <1>3 DEF GateInv, Settled
<1>6. CampaignTypes'
  BY <1>1 DEF GateInv, CampaignTypes
<1>7. Judged'
  <2> DEFINE missing == \E e \in Experiments \ {Synthesis} : ~Completed(e)
             unsound == \E e \in Experiments \ {Synthesis} : ~Sound(e, config)
  <2>1. missing <=> unsound
    BY <1>4
  <2>2. outcome' = IF missing THEN "blocked" ELSE IF EvidenceJoins(config) THEN "published" ELSE "refused"
    BY <1>1
  <2>3. unsound' <=> unsound
    BY <1>1
  <2>4. EvidenceJoins(config)' <=> EvidenceJoins(config)
    BY <1>1
  <2> HIDE DEF missing, unsound
  <2>5. /\ outcome' = "blocked" <=> unsound
        /\ outcome' = "published" => EvidenceJoins(config)
        /\ outcome' = "refused" => ~EvidenceJoins(config)
    BY <2>1, <2>2
  <2> QED BY <1>1, <2>3, <2>4, <2>5 DEF Judged, unsound
<1> QED BY <1>5, <1>6, <1>7 DEF GateInv

\* The invariant of the gate.
LEMMA GateInvHolds == CampaignSpec => []GateInv
<1>1. ASSUME GateInv, [CampaignNext]_campaignVars PROVE GateInv'
  <2>1. CASE LoadConfig
    BY <1>1, <2>1, StandingKept DEF LoadConfig
  <2>2. CASE BuildPlan
    BY <1>1, <2>2, StandingKept DEF BuildPlan
  <2>3. CASE UNCHANGED campaignVars
    BY <1>1, <2>3, StandingKept DEF campaignVars
  <2> QED BY <1>1, <2>1, <2>2, <2>3, RunExperimentKeeps, SynthesiseKeeps DEF CampaignNext
<1> QED BY <1>1, InitGate, PTL DEF CampaignSpec

\* The larger of two.
LEMMA LargerOf == ASSUME NEW a \in Int, NEW b \in Int, b <= a PROVE Max({a, b}) = a
<1>1. \A x \in {a, b} : (\A y \in {a, b} : x >= y) <=> x = a
  OBVIOUS
<1> QED BY <1>1 DEF Max

\* The dispatcher finds every primary partition.
LEMMA PartitionFound ==
  ASSUME NEW c, WellTyped(c), Loads(c), NEW b \in Range(c.partitions)
  PROVE  PartitionNamed(c, b) /\ c.finest % b = 0
<1>1. PICK s : s = c.partitions
  OBVIOUS
<1>2. PICK t : t = c.scaling
  OBVIOUS
<1>3. s \in Seq(Bands) /\ t \in Seq(Bands) /\ Nested(s) /\ s # <<>> /\ c.finest = s[1] /\ c.finest \in Bands
  BY <1>1, <1>2 DEF WellTyped, Loads, GridsHold, CrossSectionHolds
<1>4. PICK j \in 1..Len(s) : b = s[j]
  BY <1>1, <1>3 DEF Range
<1>5. b \in Bands /\ 1 \in 1..Len(s)
  BY <1>3, <1>4
<1>6. b <= c.finest /\ c.finest % b = 0
  <2>1. CASE j = 1
    BY <1>3, <1>4, <1>5, <2>1 DEF Bands
  <2>2. CASE j # 1
    <3>1. 1 < j
      BY <1>4, <2>2
    <3>2. s[j] < s[1] /\ s[1] % s[j] = 0
      BY <1>3, <1>4, <1>5, <3>1, NestedCoarsens
    <3> QED BY <1>3, <1>4, <1>5, <3>2 DEF Bands
  <2> QED BY <2>1, <2>2
<1>7. Max({c.finest, b}) = c.finest
  BY <1>3, <1>5, <1>6, LargerOf DEF Bands
<1>8. b \in Range(s \o t)
  <2>1. (s \o t)[j] = s[j] /\ j \in DOMAIN (s \o t)
    BY <1>3, <1>4
  <2> QED BY <1>4, <2>1 DEF Range
<1> QED BY <1>1, <1>2, <1>6, <1>7, <1>8 DEF PartitionNamed

\* A cell made of a pair, and of a triple.
LEMMA InPairs ==
  ASSUME NEW s, NEW t, NEW i \in DOMAIN Plain(Pairs(s, t))
  PROVE  /\ i[1] \in DOMAIN s /\ i[2] \in DOMAIN t
         /\ Plain(Pairs(s, t))[i].at = <<s[i[1]], t[i[2]]>>
         /\ Plain(Pairs(s, t))[i].at[1] \in Range(s) /\ Plain(Pairs(s, t))[i].at[2] \in Range(t)
<1>1. i \in DOMAIN Pairs(s, t) /\ Plain(Pairs(s, t))[i].at = Pairs(s, t)[i]
  BY DEF Plain
<1>2. i[1] \in DOMAIN s /\ i[2] \in DOMAIN t /\ Pairs(s, t)[i] = <<s[i[1]], t[i[2]]>>
  BY <1>1 DEF Pairs
<1> QED BY <1>1, <1>2 DEF Range

LEMMA InTriples ==
  ASSUME NEW s, NEW t, NEW u, NEW i \in DOMAIN Plain(Triples(s, t, u))
  PROVE  /\ i[1] \in DOMAIN s /\ i[2] \in DOMAIN t /\ i[3] \in DOMAIN u
         /\ Plain(Triples(s, t, u))[i].at = <<s[i[1]], t[i[2]], u[i[3]]>>
         /\ Plain(Triples(s, t, u))[i].at[2] \in Range(t)
<1>1. i \in DOMAIN Triples(s, t, u) /\ Plain(Triples(s, t, u))[i].at = Triples(s, t, u)[i]
  BY DEF Plain
<1>2. /\ i[1] \in DOMAIN s /\ i[2] \in DOMAIN t /\ i[3] \in DOMAIN u
      /\ Triples(s, t, u)[i] = <<s[i[1]], t[i[2]], u[i[3]]>>
  BY <1>1 DEF Triples
<1> QED BY <1>1, <1>2 DEF Range

\* The parts of the partitions some experiments are run on.
LEMMA PartsOfPartitions ==
  ASSUME NEW s \in Seq(Bands), s # <<>>
  PROVE  /\ Range(<<s[1]>>) \subseteq Range(s) /\ Range(<<Last(s)>>) \subseteq Range(s)
         /\ Range(<<s[1], Last(s)>>) \subseteq Range(s)
         /\ Range(SubSeq(s, 1, Min({3, Len(s)}))) \subseteq Range(s)
<1>1. 1 \in DOMAIN s /\ Len(s) \in DOMAIN s /\ Len(s) \in Nat
  OBVIOUS
<1>2. s[1] \in Range(s) /\ Last(s) \in Range(s)
  BY <1>1 DEF Range, Last
<1>3. Range(<<s[1]>>) = {s[1]} /\ Range(<<Last(s)>>) = {Last(s)} /\ Range(<<s[1], Last(s)>>) = {s[1], Last(s)}
  BY DEF Range
<1>4. PICK n \in Nat : n =< Len(s) /\ n = Min({3, Len(s)})
  <2>1. \E n \in {3, Len(s)} : \A m \in {3, Len(s)} : n =< m
    BY <1>1
  <2> QED BY <1>1, <2>1 DEF Min
<1>5. DOMAIN SubSeq(s, 1, n) = 1..n
  BY <1>4
<1>6. \A i \in 1..n : i \in DOMAIN s /\ SubSeq(s, 1, n)[i] = s[i]
  BY <1>4
<1>7. Range(SubSeq(s, 1, n)) \subseteq Range(s)
  <2>1. PICK first : first = SubSeq(s, 1, n)
    OBVIOUS
  <2>2. \A i \in DOMAIN first : i \in DOMAIN s /\ first[i] = s[i]
    BY <1>5, <1>6, <2>1
  <2>3. Range(first) \subseteq Range(s)
    BY <2>2 DEF Range
  <2> QED BY <2>1, <2>3
<1> QED BY <1>2, <1>3, <1>4, <1>7

\* The rows of the catalog whose executor looks something up.
LEMMA LookingUp ==
  ASSUME NEW n \in 1..30
  PROVE  /\ ExecutionAt(n) \in {"summary", "hand_case"} =>
              CoordinatesAt(n) \in {"law_and_partition", "sharp_set", "endpoint", "oracle_offsets", "finest",
                                    "finest_and_endpoint", "oracle_laws", "hand_cases", "population"}
         /\ ExecutionAt(n) = "refinement" => CoordinatesAt(n) \in {"refinement", "coherence"}
         /\ ExecutionAt(n) \in {"same_endpoint", "strict_timing", "coverage", "power", "failure_boundary", "real_trajectory"}
              => CoordinatesAt(n) = ExecutionAt(n)
<1>1. ExecutionAt(n) \in {"summary", "hand_case"} => n \in {2, 3, 4, 5, 9, 12, 13, 14, 18, 19, 21, 24, 28}
  BY UpToThirty, CatalogExecutions
<1>2. ExecutionAt(n) = "refinement" => n \in {6, 15}
  BY UpToThirty, CatalogExecutions
<1>3. /\ ExecutionAt(n) = "same_endpoint" => n = 16
      /\ ExecutionAt(n) = "strict_timing" => n \in {7, 17}
      /\ ExecutionAt(n) = "coverage" => n = 22
      /\ ExecutionAt(n) = "power" => n = 23
      /\ ExecutionAt(n) = "failure_boundary" => n = 26
      /\ ExecutionAt(n) = "real_trajectory" => n = 27
  BY UpToThirty, CatalogExecutions
<1>4. n \in {2, 3, 4, 5, 9, 12, 13, 14, 18, 19, 21, 24, 28} =>
        CoordinatesAt(n) \in {"law_and_partition", "sharp_set", "endpoint", "oracle_offsets", "finest",
                              "finest_and_endpoint", "oracle_laws", "hand_cases", "population"}
  BY CatalogCoordinates
<1>5. n \in {6, 15} => CoordinatesAt(n) \in {"refinement", "coherence"}
  BY CatalogCoordinates
<1>6. /\ n = 16 => CoordinatesAt(n) = "same_endpoint"
      /\ n \in {7, 17} => CoordinatesAt(n) = "strict_timing"
      /\ n = 22 => CoordinatesAt(n) = "coverage"
      /\ n = 23 => CoordinatesAt(n) = "power"
      /\ n = 26 => CoordinatesAt(n) = "failure_boundary"
      /\ n = 27 => CoordinatesAt(n) = "real_trajectory"
  BY CatalogCoordinates
<1> QED BY <1>1, <1>2, <1>3, <1>4, <1>5, <1>6

\* A cell of a summary is at a primary partition, whatever its coordinates.
LEMMA SummaryAtPartition ==
  ASSUME NEW c, WellTyped(c), Loads(c), NEW e,
         CoordinateHandler(e) \in {"law_and_partition", "sharp_set", "endpoint", "oracle_offsets", "finest",
                                   "finest_and_endpoint", "oracle_laws", "hand_cases", "population"},
         NEW i \in DOMAIN Coordinates(e, c)
  PROVE  Coordinates(e, c)[i].at[2] \in Range(c.partitions)
<1>1. PICK s : s = c.partitions
  OBVIOUS
<1>2. s \in Seq(Bands) /\ s # <<>>
  BY <1>1 DEF WellTyped, Loads, GridsHold
<1>3. PICK h : h = CoordinateHandler(e)
  OBVIOUS
<1> DEFINE Held(cells) == cells = Coordinates(e, c) => Coordinates(e, c)[i].at[2] \in Range(s)
<1>4. ASSUME NEW p, NEW t, Range(t) \subseteq Range(s) PROVE Held(Plain(Pairs(p, t)))
  BY <1>4, InPairs
<1>5. ASSUME NEW p, NEW u PROVE Held(Plain(Triples(p, s, u)))
  BY InTriples
<1>6. /\ Held(Plain(Pairs(OrderedLaws, s))) /\ Held(Plain(Pairs(OrderedLaws, <<Last(s)>>)))
      /\ Held(Plain(Pairs(OrderedLaws, <<s[1]>>))) /\ Held(Plain(Pairs(OrderedLaws, <<s[1], Last(s)>>)))
      /\ Held(Plain(Pairs(c.oracleLaws, s))) /\ Held(Plain(Pairs(HandCases, SubSeq(s, 1, Min({3, Len(s)})))))
      /\ Held(Plain(Triples(OrderedLaws, s, c.sharpOffsets))) /\ Held(Plain(Triples(OrderedLaws, s, c.oracleOffsets)))
      /\ Held(Plain(Triples(c.utilityLaws, s, PopulationRho(c))))
  <2> HIDE DEF Held
  <2> QED BY <1>2, <1>4, <1>5, PartsOfPartitions
<1>7. \E cells : cells = Coordinates(e, c) /\ Held(cells)
  <2>1. /\ h = "law_and_partition" => Coordinates(e, c) = Plain(Pairs(OrderedLaws, s))
        /\ h = "sharp_set" => Coordinates(e, c) = Plain(Triples(OrderedLaws, s, c.sharpOffsets))
        /\ h = "oracle_offsets" => Coordinates(e, c) = Plain(Triples(OrderedLaws, s, c.oracleOffsets))
        /\ h = "endpoint" => Coordinates(e, c) = Plain(Pairs(OrderedLaws, <<Last(s)>>))
        /\ h = "finest" => Coordinates(e, c) = Plain(Pairs(OrderedLaws, <<s[1]>>))
        /\ h = "finest_and_endpoint" => Coordinates(e, c) = Plain(Pairs(OrderedLaws, <<s[1], Last(s)>>))
        /\ h = "oracle_laws" => Coordinates(e, c) = Plain(Pairs(c.oracleLaws, s))
        /\ h = "hand_cases" => Coordinates(e, c) = Plain(Pairs(HandCases, SubSeq(s, 1, Min({3, Len(s)}))))
        /\ h = "population" => Coordinates(e, c) = Plain(Triples(c.utilityLaws, s, PopulationRho(c)))
    BY <1>1, <1>3, CoordinatesBy
  <2> HIDE DEF Held
  <2> QED BY <1>3, <1>6, <2>1
<1> QED BY <1>1, <1>7

\* A refinement is one of primary partitions.
LEMMA RefinementsAtPartitions ==
  ASSUME NEW c, WellTyped(c), Loads(c), NEW e, CoordinateHandler(e) \in {"refinement", "coherence"},
         NEW i \in DOMAIN Coordinates(e, c)
  PROVE  Range(Coordinates(e, c)[i].at[2]) \subseteq Range(c.partitions)
<1>1. PICK s : s = c.partitions
  OBVIOUS
<1>2. s \in Seq(Bands)
  BY <1>1 DEF WellTyped
<1>3. PICK h : h = CoordinateHandler(e)
  OBVIOUS
<1>4. PICK next : next = Adjacent(s)
  OBVIOUS
<1>5. /\ h = "refinement" => Coordinates(e, c) = Plain(Pairs(OrderedLaws, next))
      /\ h = "coherence" => Coordinates(e, c) = Plain(Triples(c.utilityLaws, next, c.timingOffsets))
  BY <1>1, <1>3, <1>4, CoordinatesBy
<1>6. \E k \in DOMAIN next : Coordinates(e, c)[i].at[2] = next[k]
  <2>1. CASE h = "refinement"
    <3>1. Coordinates(e, c)[i].at = <<OrderedLaws[i[1]], next[i[2]]>> /\ i[2] \in DOMAIN next
      BY <1>5, <2>1, InPairs
    <3> QED BY <3>1
  <2>2. CASE h = "coherence"
    <3>1. Coordinates(e, c)[i].at = <<c.utilityLaws[i[1]], next[i[2]], c.timingOffsets[i[3]]>> /\ i[2] \in DOMAIN next
      BY <1>5, <2>2, InTriples
    <3> QED BY <3>1
  <2> QED BY <1>3, <2>1, <2>2
<1>7. PICK k \in DOMAIN next : Coordinates(e, c)[i].at[2] = next[k]
  BY <1>6
<1>8. k \in 1..(Len(s) - 1) /\ next[k] = <<s[k], s[k + 1]>>
  BY <1>4, <1>7 DEF Adjacent
<1>9. s[k] \in Range(s) /\ s[k + 1] \in Range(s)
  BY <1>2, <1>8 DEF Range
<1>10. Range(<<s[k], s[k + 1]>>) = {s[k], s[k + 1]}
  BY DEF Range
<1> QED BY <1>1, <1>7, <1>8, <1>9, <1>10

\* A strict timing pair that closes the gate for its own sake is not found, any other one is.
TimingGap(c, case) ==
  \/ {case.fine, case.coarse} \ Range(c.partitions \o c.scaling) # {}
  \/ c.finest % case.fine # 0

\* The pair of a strict timing cell, and when the dispatcher finds it.
LEMMA TimingCellAt ==
  ASSUME NEW c, NEW i \in DOMAIN Plain(TimingPairs(c))
  PROVE  /\ i[1] \in DOMAIN c.timingCases /\ i[2] \in DOMAIN c.timingOffsets
         /\ Plain(TimingPairs(c))[i].at[1] = TimingPairOf(c.timingCases[i[1]])
<1> DEFINE pairs == [n \in DOMAIN c.timingCases |-> TimingPairOf(c.timingCases[n])]
<1>1. TimingPairs(c) = Pairs(pairs, c.timingOffsets)
  BY DEF TimingPairs
<1>2. /\ i[1] \in DOMAIN pairs /\ i[2] \in DOMAIN c.timingOffsets
      /\ Plain(Pairs(pairs, c.timingOffsets))[i].at = <<pairs[i[1]], c.timingOffsets[i[2]]>>
  <2> HIDE DEF pairs
  <2> QED BY <1>1, InPairs
<1>3. Plain(Pairs(pairs, c.timingOffsets))[i].at[1] = pairs[i[1]]
  <2> HIDE DEF pairs
  <2> QED BY <1>2
<1> QED BY <1>1, <1>2, <1>3

LEMMA TimingFoundUnless ==
  ASSUME NEW c, WellTyped(c), Loads(c), NEW i \in DOMAIN Plain(TimingPairs(c))
  PROVE  TimingFound(c, Plain(TimingPairs(c))[i]) <=> ~TimingGap(c, c.timingCases[i[1]])
<1>1. PICK cell : cell = Plain(TimingPairs(c))[i]
  OBVIOUS
<1>2. PICK k \in DOMAIN c.timingCases : k = i[1]
  BY TimingCellAt
<1>3. PICK case : case = c.timingCases[k]
  OBVIOUS
<1>4. c.timingCases \in Seq(TimingCases) /\ TimingPairsDistinct(c)
  BY DEF WellTyped, Loads, StudyDesignHolds
<1>5. /\ case.fine \in Bands /\ case.coarse \in Bands /\ c.finest \in Bands
      /\ case.fine > case.coarse /\ case.fine % case.coarse = 0 /\ case.fine <= c.finest
  <2>1. case \in TimingCases
    BY <1>3, <1>4
  <2>2. case.fine \in Bands /\ case.coarse \in Bands
    BY <2>1 DEF TimingCases
  <2>3. case.fine > case.coarse /\ case.fine % case.coarse = 0
    BY <1>3 DEF Loads, StudyDesignHolds
  <2>4. case.fine <= c.finest
    BY <1>3 DEF Loads, CrossSectionHolds
  <2> QED BY <2>2, <2>3, <2>4 DEF WellTyped
<1>6. cell.at[1] = TimingPairOf(case)
  BY <1>1, <1>2, <1>3, TimingCellAt
<1>7. cell.at[1][2] = case.fine /\ cell.at[1][3] = case.coarse
  BY <1>6 DEF TimingPairOf
<1>8. TimingCaseOf(c, cell) # 0
  <2>1. TimingCaseOf(c, cell) = k
    BY <1>3, <1>4, <1>6, TimingCaseFinds
  <2> QED BY <1>4, <2>1, Entry
<1>9. Max({c.finest, case.fine}) = c.finest /\ Max({c.finest, case.coarse}) = c.finest
  BY <1>5, LargerOf DEF Bands
<1>10. c.finest % case.fine = 0 => c.finest % case.coarse = 0
  BY <1>5, DivisibleThrough
<1>11. TimingFound(c, cell) <=>
         /\ case.fine \in Range(c.partitions \o c.scaling) /\ c.finest % case.fine = 0
         /\ case.coarse \in Range(c.partitions \o c.scaling) /\ c.finest % case.coarse = 0
  BY <1>7, <1>8, <1>9, Zenon DEF TimingFound, PartitionNamed
<1> QED BY <1>1, <1>2, <1>3, <1>10, <1>11 DEF TimingGap

\* The position of a named cell is that of its entry.
LEMMA NamedPositions ==
  ASSUME NEW S, NEW s \in Seq(S), NEW bands, DOMAIN bands = DOMAIN s, NEW i \in DOMAIN NamedCells(s, bands)
  PROVE  i[1] \in DOMAIN s /\ i[1] # 0
<1>1. OfEntry(NamedCells(s, bands)[i], s, bands, i)
  BY NamedCellAt
<1>2. i[1] \in DOMAIN s
  BY <1>1 DEF OfEntry
<1> QED BY <1>2

\* So are the entries of named cells.
LEMMA NamedAreFound ==
  ASSUME NEW c, WellTyped(c), Loads(c)
  PROVE  /\ \A i \in DOMAIN Coordinates("Anytime Coverage Stress", c) :
              CoverageCaseOf(c, Coordinates("Anytime Coverage Stress", c)[i]) # 0
         /\ \A i \in DOMAIN Coordinates("Anytime Certification Power", c) :
              PowerScenarioOf(c, Coordinates("Anytime Certification Power", c)[i]) # 0
<1>1. PICK s : s = c.coverageCases
  OBVIOUS
<1>2. PICK t : t = c.scenarios
  OBVIOUS
<1>3. s \in Seq(CoverageCases) /\ t \in Seq(Scenarios)
  BY <1>1, <1>2 DEF WellTyped
<1>4. PICK b : b = [n \in DOMAIN s |-> <<s[n].bands>>]
  OBVIOUS
<1>5. PICK d : d = [n \in DOMAIN t |-> t[n].bands]
  OBVIOUS
<1>6. Coordinates("Anytime Coverage Stress", c) = NamedCells(s, b)
  <2>1. CoordinateHandler("Anytime Coverage Stress") = "coverage"
    BY HandlersOfNamed
  <2>2. Coordinates("Anytime Coverage Stress", c) =
          NamedCells(c.coverageCases, [n \in DOMAIN c.coverageCases |-> <<c.coverageCases[n].bands>>])
    BY <2>1, CoordinatesBy
  <2> QED BY <1>1, <1>4, <2>2
<1>7. Coordinates("Anytime Certification Power", c) = NamedCells(t, d)
  <2>1. CoordinateHandler("Anytime Certification Power") = "power"
    BY HandlersOfNamed
  <2>2. Coordinates("Anytime Certification Power", c) =
          NamedCells(c.scenarios, [n \in DOMAIN c.scenarios |-> c.scenarios[n].bands])
    BY <2>1, CoordinatesBy
  <2> QED BY <1>2, <1>5, <2>2
<1>8. DOMAIN b = DOMAIN s /\ DOMAIN d = DOMAIN t
  BY <1>4, <1>5
<1>9. /\ \A i \in DOMAIN Coordinates("Anytime Coverage Stress", c) : i[1] # 0
      /\ \A i \in DOMAIN Coordinates("Anytime Certification Power", c) : i[1] # 0
  BY <1>3, <1>6, <1>7, <1>8, NamedPositions
<1> QED BY <1>9, EntriesFound

\* The failure boundaries: a level of the compatible resolutions has to divide the largest.
LEMMA BoundaryCellAt ==
  ASSUME NEW c, NEW i \in DOMAIN Plain(Nest(c.axes))
  PROVE  /\ i[1] \in DOMAIN c.axes /\ i[2] \in DOMAIN c.axes[i[1]]
         /\ Plain(Nest(c.axes))[i].at = <<i[1], c.axes[i[1]][i[2]]>>
<1>1. i \in DOMAIN Nest(c.axes) /\ Plain(Nest(c.axes))[i].at = Nest(c.axes)[i]
  BY DEF Plain
<1> QED BY <1>1, NestPositions

LEMMA BoundaryFoundUnless ==
  ASSUME NEW c, WellTyped(c), NEW i \in DOMAIN Plain(Nest(c.axes)),
         \A level \in Range(c.axes["bands"]) : Last(c.axes["bands"]) % level = 0
  PROVE  FailureBoundaryFound(c, Plain(Nest(c.axes))[i])
<1>1. PICK cell : cell = Plain(Nest(c.axes))[i]
  OBVIOUS
<1>2. PICK level : level = c.axes[i[1]][i[2]]
  OBVIOUS
<1>3. cell.at = <<i[1], level>> /\ i[2] \in DOMAIN c.axes[i[1]]
  BY <1>1, <1>2, BoundaryCellAt
<1>4. cell.at[1] = i[1] /\ cell.at[2] = level
  BY <1>3
<1>5. c.axes["compatible_bands"] = c.axes["bands"]
  BY DEF WellTyped
<1>6. i[1] = "compatible_bands" => level \in Range(c.axes["bands"])
  <2>1. SUFFICES ASSUME i[1] = "compatible_bands" PROVE level \in Range(c.axes["bands"])
    OBVIOUS
  <2>2. PICK s : s = c.axes["bands"]
    OBVIOUS
  <2>3. level = s[i[2]] /\ i[2] \in DOMAIN s
    BY <1>2, <1>3, <1>5, <2>1, <2>2
  <2> QED BY <2>2, <2>3 DEF Range
<1> QED BY <1>1, <1>4, <1>6, Zenon DEF FailureBoundaryFound

\* A real trajectory is looked up among the partitions it was planned from.
LEMMA RealTrajectoryAt ==
  ASSUME NEW c, NEW i \in DOMAIN RealTrajectoryCells(c)
  PROVE  RealTrajectoryFound(c, RealTrajectoryCells(c)[i])
<1> DEFINE At(kind, list) == {kind} \X (DOMAIN list) \X (DOMAIN c.partitions)
           Horizon == IF i[1] = "pooled" THEN c.horizons[i[2]] ELSE c.horizons[1]
           Level == IF i[1] = "expertise" THEN ExpertiseLevels[i[2]] ELSE ""
<1>1. i \in At("pooled", c.horizons) \union At("device", c.devices) \union At("expertise", ExpertiseLevels)
  BY DEF RealTrajectoryCells
<1>2. i[3] \in DOMAIN c.partitions
  BY <1>1
<1>3. RealTrajectoryCells(c)[i].at = <<i[1], Level, c.partitions[i[3]], Horizon>>
  BY DEF RealTrajectoryCells
<1>4. RealTrajectoryCells(c)[i].at[3] = c.partitions[i[3]]
  <2> HIDE DEF Level, Horizon
  <2> QED BY <1>3
<1> QED BY <1>2, <1>4 DEF RealTrajectoryFound, Range

Lookups ==
  {"summary", "hand_case", "same_endpoint", "refinement", "strict_timing", "coverage", "power",
   "failure_boundary", "real_trajectory"}

\* The cells of the same endpoint are at primary partitions.
LEMMA SameEndpointAtPartition ==
  ASSUME NEW c, WellTyped(c), Loads(c), NEW i \in DOMAIN Plain(Pairs(c.partitions, c.sameEndpointRho))
  PROVE  SameEndpointFound(c, Plain(Pairs(c.partitions, c.sameEndpointRho))[i])
<1>1. PICK cell : cell = Plain(Pairs(c.partitions, c.sameEndpointRho))[i]
  OBVIOUS
<1>2. cell.at[1] \in Range(c.partitions)
  BY <1>1, InPairs
<1> QED BY <1>1, <1>2, PartitionFound DEF SameEndpointFound

\* The experiments of the named entries, by their handlers.
LEMMA NamedByHandler ==
  ASSUME NEW e \in Experiments
  PROVE  /\ ExecutionHandler(e) = "coverage" => e = "Anytime Coverage Stress"
         /\ ExecutionHandler(e) = "power" => e = "Anytime Certification Power"
<1>1. PICK n \in 1..30 : NameAt(n) = e /\ ExecutionHandler(e) = ExecutionAt(n)
  BY RowOf
<1>2. (ExecutionAt(n) = "coverage" => n = 22) /\ (ExecutionAt(n) = "power" => n = 23)
  BY UpToThirty, CatalogExecutions
<1>3. NameAt(22) = "Anytime Coverage Stress" /\ NameAt(23) = "Anytime Certification Power"
  BY CatalogNames
<1> QED BY <1>1, <1>2, <1>3

\* Every cell is found, but for the gaps the gate is closed for.
LEMMA DispatchedUnless ==
  ASSUME NEW c, WellTyped(c), Loads(c), NEW e \in Experiments, NEW i \in DOMAIN Coordinates(e, c),
         \A k \in DOMAIN c.timingCases : ~TimingGap(c, c.timingCases[k]),
         \A level \in Range(c.axes["bands"]) : Last(c.axes["bands"]) % level = 0
  PROVE  Dispatched(e, c, Coordinates(e, c)[i])
<1>1. PICK cell : cell = Coordinates(e, c)[i]
  OBVIOUS
<1>2. PICK h : h = ExecutionHandler(e)
  OBVIOUS
<1>3. PICK k : k = CoordinateHandler(e)
  OBVIOUS
<1>4. /\ h \in {"summary", "hand_case"} =>
           k \in {"law_and_partition", "sharp_set", "endpoint", "oracle_offsets", "finest",
                  "finest_and_endpoint", "oracle_laws", "hand_cases", "population"}
      /\ h = "refinement" => k \in {"refinement", "coherence"}
      /\ h \in {"same_endpoint", "strict_timing", "coverage", "power", "failure_boundary", "real_trajectory"} => k = h
  <2>1. PICK n \in 1..30 : k = CoordinatesAt(n) /\ h = ExecutionAt(n)
    BY <1>2, <1>3, RowOf
  <2> QED BY <2>1, LookingUp, Zenon
<1>5. CASE h \in {"summary", "hand_case"}
  <2>1. cell.at[2] \in Range(c.partitions)
    BY <1>1, <1>3, <1>4, <1>5, SummaryAtPartition
  <2>2. SummaryFound(c, cell)
    BY <2>1, PartitionFound DEF SummaryFound
  <2>3. Dispatched(e, c, cell) = SummaryFound(c, cell)
    BY <1>2, <1>5 DEF Dispatched
  <2> QED BY <1>1, <2>2, <2>3
<1>6. CASE h = "refinement"
  <2>1. Range(cell.at[2]) \subseteq Range(c.partitions)
    BY <1>1, <1>3, <1>4, <1>6, RefinementsAtPartitions
  <2>2. RefinementFound(c, cell)
    BY <2>1, PartitionFound DEF RefinementFound
  <2>3. Dispatched(e, c, cell) = RefinementFound(c, cell)
    BY <1>2, <1>6 DEF Dispatched
  <2> QED BY <1>1, <2>2, <2>3
<1>7. CASE h = "same_endpoint"
  <2>1. Coordinates(e, c) = Plain(Pairs(c.partitions, c.sameEndpointRho))
    BY <1>3, <1>4, <1>7, CoordinatesBy
  <2>2. SameEndpointFound(c, cell)
    BY <1>1, <2>1, SameEndpointAtPartition, Zenon
  <2>3. Dispatched(e, c, cell) = SameEndpointFound(c, cell)
    BY <1>2, <1>7 DEF Dispatched
  <2> QED BY <1>1, <2>2, <2>3
<1>8. CASE h = "strict_timing"
  <2>1. Coordinates(e, c) = Plain(TimingPairs(c))
    BY <1>3, <1>4, <1>8, CoordinatesBy
  <2>2. i \in DOMAIN Plain(TimingPairs(c)) /\ cell = Plain(TimingPairs(c))[i]
    BY <1>1, <2>1, Zenon
  <2>3. i[1] \in DOMAIN c.timingCases
    BY <2>2, TimingCellAt
  <2>4. TimingFound(c, cell)
    BY <2>2, <2>3, TimingFoundUnless, Zenon
  <2>5. Dispatched(e, c, cell) = TimingFound(c, cell)
    BY <1>2, <1>8 DEF Dispatched
  <2> QED BY <1>1, <2>4, <2>5
<1>9. CASE h \in {"coverage", "power"}
  <2>1. /\ h = "coverage" => CoverageCaseOf(c, cell) # 0
        /\ h = "power" => PowerScenarioOf(c, cell) # 0
    BY <1>1, <1>2, NamedByHandler, NamedAreFound, Zenon
  <2>2. Dispatched(e, c, cell) = IF h = "coverage" THEN CoverageCaseOf(c, cell) # 0
                                 ELSE PowerScenarioOf(c, cell) # 0
    BY <1>2, <1>9 DEF Dispatched
  <2> QED BY <1>1, <1>9, <2>1, <2>2
<1>10. CASE h = "failure_boundary"
  <2>1. Coordinates(e, c) = Plain(Nest(c.axes))
    BY <1>3, <1>4, <1>10, CoordinatesBy
  <2>2. FailureBoundaryFound(c, cell)
    BY <1>1, <2>1, BoundaryFoundUnless, Zenon
  <2>3. Dispatched(e, c, cell) = FailureBoundaryFound(c, cell)
    BY <1>2, <1>10 DEF Dispatched
  <2> QED BY <1>1, <2>2, <2>3
<1>11. CASE h = "real_trajectory"
  <2>1. Coordinates(e, c) = RealTrajectoryCells(c)
    BY <1>3, <1>4, <1>11, CoordinatesBy
  <2>2. RealTrajectoryFound(c, cell)
    BY <1>1, <2>1, RealTrajectoryAt, Zenon
  <2>3. Dispatched(e, c, cell) = RealTrajectoryFound(c, cell)
    BY <1>2, <1>11 DEF Dispatched
  <2> QED BY <1>1, <2>2, <2>3
<1>12. CASE h \notin Lookups
  BY <1>1, <1>2, <1>12 DEF Dispatched, Lookups
<1> QED BY <1>5, <1>6, <1>7, <1>8, <1>9, <1>10, <1>11, <1>12 DEF Lookups

\* Cells without names have directories of their own.
LEMMA PlainApart == ASSUME NEW at, Distinct(Plain(at)) PROVE Apart(Plain(at))
<1> SUFFICES ASSUME NEW i \in DOMAIN Plain(at), NEW j \in DOMAIN Plain(at),
                    Directory(Plain(at)[i]) = Directory(Plain(at)[j])
             PROVE  i = j
  BY DEF Apart
<1>1. Plain(at)[i] = [at |-> at[i], name |-> Unnamed] /\ Plain(at)[j] = [at |-> at[j], name |-> Unnamed]
  BY DEF Plain
<1>2. Plain(at)[i].at = at[i] /\ Plain(at)[j].at = at[j]
  BY <1>1
<1>3. Plain(at)[i].at = Plain(at)[j].at
  BY DEF Directory
<1>4. Plain(at)[i] = Plain(at)[j]
  BY <1>1, <1>2, <1>3, Zenon
<1> QED BY <1>4 DEF Distinct, IsInjective

\* Two cells made of named entries share their directory if and only if two entries are alike.
LEMMA NamedApart ==
  ASSUME NEW entries, NEW bands, DOMAIN bands = DOMAIN entries, Distinct(NamedCells(entries, bands))
  PROVE  Apart(NamedCells(entries, bands)) <=>
           \A m, n \in DOMAIN entries :
             m # n /\ Alike(entries[m], entries[n]) => Range(bands[m]) \intersect Range(bands[n]) = {}
<1> DEFINE f == NamedCells(entries, bands)
<1>1. PICK law : law = [n \in DOMAIN entries |-> entries[n].law]
  OBVIOUS
<1>2. PICK name : name = [n \in DOMAIN entries |-> entries[n].name]
  OBVIOUS
<1>3. \A i \in DOMAIN f :
        /\ i[1] \in DOMAIN entries /\ i[2] \in DOMAIN bands[i[1]] /\ i = <<i[1], i[2]>>
        /\ f[i] = [at |-> <<law[i[1]], bands[i[1]][i[2]]>>, name |-> name[i[1]]]
  <2> SUFFICES ASSUME NEW i \in DOMAIN f
               PROVE  /\ i[1] \in DOMAIN entries /\ i[2] \in DOMAIN bands[i[1]] /\ i = <<i[1], i[2]>>
                      /\ f[i] = [at |-> <<law[i[1]], bands[i[1]][i[2]]>>, name |-> name[i[1]]]
    OBVIOUS
  <2>1. i \in DOMAIN Nest(bands) /\ f[i] = [at |-> <<entries[i[1]].law, Nest(bands)[i][2]>>, name |-> entries[i[1]].name]
    BY DEF NamedCells
  <2>2. /\ i = <<i[1], i[2]>> /\ i[1] \in DOMAIN bands /\ i[2] \in DOMAIN bands[i[1]]
        /\ Nest(bands)[i] = <<i[1], bands[i[1]][i[2]]>>
    BY <2>1, NestPositions
  <2>3. Nest(bands)[i][2] = bands[i[1]][i[2]]
    BY <2>2
  <2>4. law[i[1]] = entries[i[1]].law /\ name[i[1]] = entries[i[1]].name
    BY <1>1, <1>2, <2>2
  <2> QED BY <2>1, <2>2, <2>3, <2>4, Zenon
<1>4. \A m \in DOMAIN entries : \A k \in DOMAIN bands[m] : <<m, k>> \in DOMAIN f
  <2>1. \A m \in DOMAIN entries : \A k \in DOMAIN bands[m] : <<m, k>> \in DOMAIN Nest(bands)
    BY DEF Nest
  <2> QED BY <2>1 DEF NamedCells
<1>5. \A m, n \in DOMAIN entries : Alike(entries[m], entries[n]) <=> law[m] = law[n] /\ name[m].token = name[n].token
  BY <1>1, <1>2 DEF Alike
<1>6. IsInjective(f)
  BY DEF Distinct
<1> HIDE DEF f
<1>7. \A i, j \in DOMAIN f :
        Directory(f[i]) = Directory(f[j]) <=>
          /\ law[i[1]] = law[j[1]] /\ bands[i[1]][i[2]] = bands[j[1]][j[2]]
          /\ name[i[1]].token = name[j[1]].token
  <2> SUFFICES ASSUME NEW i \in DOMAIN f, NEW j \in DOMAIN f
               PROVE  Directory(f[i]) = Directory(f[j]) <=>
                        /\ law[i[1]] = law[j[1]] /\ bands[i[1]][i[2]] = bands[j[1]][j[2]]
                        /\ name[i[1]].token = name[j[1]].token
    OBVIOUS
  <2>1. ASSUME NEW x, NEW y, NEW z PROVE Directory([at |-> <<x, y>>, name |-> z]) = <<<<x, y>>, z.token>>
    BY DEF Directory
  <2>2. ASSUME NEW k \in DOMAIN f
        PROVE  Directory(f[k]) = <<<<law[k[1]], bands[k[1]][k[2]]>>, name[k[1]].token>>
    <3>1. f[k] = [at |-> <<law[k[1]], bands[k[1]][k[2]]>>, name |-> name[k[1]]]
      BY <1>3, Zenon
    <3> QED BY <2>1, <3>1
  <2>3. /\ Directory(f[i]) = <<<<law[i[1]], bands[i[1]][i[2]]>>, name[i[1]].token>>
        /\ Directory(f[j]) = <<<<law[j[1]], bands[j[1]][j[2]]>>, name[j[1]].token>>
    BY <2>2
  <2> QED BY <2>3
<1>8. ASSUME Apart(f), NEW m \in DOMAIN entries, NEW n \in DOMAIN entries, m # n,
             Alike(entries[m], entries[n]), Range(bands[m]) \intersect Range(bands[n]) # {}
      PROVE  FALSE
  <2>1. PICK k \in DOMAIN bands[m], l \in DOMAIN bands[n] : bands[m][k] = bands[n][l]
    BY <1>8 DEF Range
  <2>2. PICK i \in DOMAIN f : i = <<m, k>>
    BY <1>4
  <2>3. PICK j \in DOMAIN f : j = <<n, l>>
    BY <1>4
  <2>4. i[1] = m /\ i[2] = k /\ j[1] = n /\ j[2] = l
    BY <2>2, <2>3
  <2>5. Directory(f[i]) = Directory(f[j])
    BY <1>5, <1>7, <1>8, <2>1, <2>4, Zenon
  <2>6. i = j
    <3>1. Apart(f)
      BY <1>8
    <3> QED BY <2>5, <3>1, Zenon DEF Apart
  <2>7. m = n
    BY <2>4, <2>6, Zenon
  <2> QED BY <1>8, <2>7
<1>9. ASSUME NEW i \in DOMAIN f, NEW j \in DOMAIN f, Directory(f[i]) = Directory(f[j]), i # j,
             \A m, n \in DOMAIN entries :
               m # n /\ Alike(entries[m], entries[n]) => Range(bands[m]) \intersect Range(bands[n]) = {}
      PROVE  FALSE
  <2>1. PICK m \in DOMAIN entries : m = i[1]
    BY <1>3
  <2>2. PICK n \in DOMAIN entries : n = j[1]
    BY <1>3
  <2>3. law[m] = law[n] /\ bands[m][i[2]] = bands[n][j[2]] /\ name[m].token = name[n].token
    BY <1>7, <1>9, <2>1, <2>2, Zenon
  <2>4. i[2] \in DOMAIN bands[m] /\ j[2] \in DOMAIN bands[n]
    BY <1>3, <2>1, <2>2
  <2>5. CASE m = n
    <3>1. f[i] = f[j]
      BY <1>3, <2>1, <2>2, <2>3, <2>5, Zenon
    <3> QED BY <1>6, <1>9, <3>1 DEF IsInjective
  <2>6. CASE m # n
    <3>1. Alike(entries[m], entries[n])
      BY <1>5, <2>3, Zenon
    <3>2. bands[m][i[2]] \in Range(bands[m]) /\ bands[m][i[2]] \in Range(bands[n])
      BY <2>3, <2>4 DEF Range
    <3> QED BY <1>9, <2>6, <3>1, <3>2
  <2> QED BY <2>5, <2>6
<1> QED BY <1>8, <1>9 DEF Apart, f

\* Two cells of the real trajectories share theirs if and only if two devices do.
LEMMA RealTrajectoriesApart ==
  ASSUME NEW c, Distinct(RealTrajectoryCells(c)), 1 \in DOMAIN c.partitions
  PROVE  Apart(RealTrajectoryCells(c)) <=>
           \A m, n \in DOMAIN c.devices : c.devices[m].token = c.devices[n].token => m = n
<1> DEFINE f == RealTrajectoryCells(c)
           At(kind, list) == {kind} \X (DOMAIN list) \X (DOMAIN c.partitions)
           Horizon(i) == IF i[1] = "pooled" THEN c.horizons[i[2]] ELSE c.horizons[1]
           Level(i) == IF i[1] = "expertise" THEN ExpertiseLevels[i[2]] ELSE ""
           Name(i) == IF i[1] = "device" THEN c.devices[i[2]] ELSE Unnamed
           Coords(i) == <<i[1], Level(i), c.partitions[i[3]], Horizon(i)>>
<1>1. DOMAIN f = At("pooled", c.horizons) \union At("device", c.devices) \union At("expertise", ExpertiseLevels)
  BY DEF RealTrajectoryCells
<1>2. \A i \in DOMAIN f : f[i] = [at |-> Coords(i), name |-> Name(i)]
  BY DEF RealTrajectoryCells
<1>3. \A i \in DOMAIN f : i[1] = "device" => i[2] \in DOMAIN c.devices
  BY <1>1
<1>4. IsInjective(f)
  BY DEF Distinct
<1>5. \A i, j \in DOMAIN f :
        Directory(f[i]) = Directory(f[j]) <=> Coords(i) = Coords(j) /\ Name(i).token = Name(j).token
  <2> SUFFICES ASSUME NEW i \in DOMAIN f, NEW j \in DOMAIN f
               PROVE  Directory(f[i]) = Directory(f[j]) <=> Coords(i) = Coords(j) /\ Name(i).token = Name(j).token
    OBVIOUS
  <2> HIDE DEF f, Coords, Name
  <2>1. ASSUME NEW x, NEW z PROVE Directory([at |-> x, name |-> z]) = <<x, z.token>>
    BY DEF Directory
  <2>2. Directory(f[i]) = <<Coords(i), Name(i).token>> /\ Directory(f[j]) = <<Coords(j), Name(j).token>>
    BY <1>2, <2>1, Zenon
  <2> QED BY <2>2
<1>6. ASSUME Apart(f), NEW m \in DOMAIN c.devices, NEW n \in DOMAIN c.devices,
             c.devices[m].token = c.devices[n].token
      PROVE  m = n
  <2>1. PICK i \in DOMAIN f : i = <<"device", m, 1>>
    <3> HIDE DEF f
    <3> QED BY <1>1
  <2>2. PICK j \in DOMAIN f : j = <<"device", n, 1>>
    <3> HIDE DEF f
    <3> QED BY <1>1
  <2> HIDE DEF f
  <2>3. /\ i[1] = "device" /\ j[1] = "device" /\ i[2] = m /\ j[2] = n /\ i[3] = 1 /\ j[3] = 1
    BY <2>1, <2>2
  <2>4. Level(i) = "" /\ Level(j) = "" /\ Horizon(i) = c.horizons[1] /\ Horizon(j) = c.horizons[1]
    BY <2>3
  <2>5. Coords(i) = Coords(j)
    <3> HIDE DEF Level, Horizon
    <3> QED BY <2>3, <2>4
  <2>6. Name(i) = c.devices[m] /\ Name(j) = c.devices[n]
    BY <2>3
  <2>7. Directory(f[i]) = Directory(f[j])
    <3> HIDE DEF Coords, Name
    <3> QED BY <1>5, <1>6, <2>5, <2>6, Zenon
  <2> QED BY <1>6, <2>3, <2>7 DEF Apart
<1>7. ASSUME NEW i \in DOMAIN f, NEW j \in DOMAIN f, Directory(f[i]) = Directory(f[j]),
             \A m, n \in DOMAIN c.devices : c.devices[m].token = c.devices[n].token => m = n
      PROVE  i = j
  <2> HIDE DEF f
  <2>1. Coords(i) = Coords(j) /\ Name(i).token = Name(j).token
    <3> HIDE DEF Coords, Name
    <3> QED BY <1>5, <1>7, Zenon
  <2>2. i[1] = j[1]
    <3> HIDE DEF Level, Horizon
    <3> QED BY <2>1
  <2>3. Name(i) = Name(j)
    <3>1. CASE i[1] = "device"
      <4>1. i[2] \in DOMAIN c.devices /\ j[2] \in DOMAIN c.devices
        BY <1>3, <2>2, <3>1
      <4>2. Name(i) = c.devices[i[2]] /\ Name(j) = c.devices[j[2]]
        BY <2>2, <3>1
      <4>3. i[2] = j[2]
        <5> HIDE DEF Name
        <5> QED BY <1>7, <2>1, <4>1, <4>2, Zenon
      <4> QED BY <4>2, <4>3
    <3>2. CASE i[1] # "device"
      BY <2>2, <3>2
    <3> QED BY <3>1, <3>2
  <2>4. f[i] = f[j]
    <3> HIDE DEF Coords, Name
    <3> QED BY <1>2, <2>1, <2>3, Zenon
  <2> QED BY <1>4, <2>4 DEF IsInjective
<1> HIDE DEF f
<1> QED BY <1>6, <1>7 DEF Apart, f

\* What the gate is closed for, one by one.
NoCells(c) == \E e \in Experiments : DOMAIN Coordinates(e, c) = {}
TimingMissing(c) == \E i \in DOMAIN c.timingCases : TimingGap(c, c.timingCases[i])
LevelMissing(c) == \E level \in Range(c.axes["bands"]) : Last(c.axes["bands"]) % level # 0
CasesNameless(c) == \E i \in DOMAIN c.coverageCases : c.coverageCases[i].name.token = ""
ScenariosNameless(c) ==
  \E i \in DOMAIN c.scenarios : c.scenarios[i].bands # <<>> /\ c.scenarios[i].name.token = ""
DevicesTogether(c) == \E i, j \in DOMAIN c.devices : i # j /\ c.devices[i].token = c.devices[j].token
CasesTogether(c) ==
  \E i, j \in DOMAIN c.coverageCases :
    /\ i # j /\ Alike(c.coverageCases[i], c.coverageCases[j])
    /\ c.coverageCases[i].bands = c.coverageCases[j].bands
ScenariosTogether(c) ==
  \E i, j \in DOMAIN c.scenarios :
    /\ i # j /\ Alike(c.scenarios[i], c.scenarios[j])
    /\ Range(c.scenarios[i].bands) \intersect Range(c.scenarios[j].bands) # {}

\* They are all.
LEMMA GateParts ==
  ASSUME NEW c
  PROVE  GateClosedFor(c) <=> \/ NoCells(c) \/ TimingMissing(c) \/ LevelMissing(c)
                              \/ CasesNameless(c) \/ ScenariosNameless(c)
                              \/ DevicesTogether(c) \/ CasesTogether(c) \/ ScenariosTogether(c)
BY Zenon DEF GateClosedFor, NoCells, TimingMissing, TimingGap, LevelMissing, CasesNameless, ScenariosNameless,
   DevicesTogether, CasesTogether, ScenariosTogether

\* The experiments with names: their cells are apart unless two names become one directory.
LEMMA CoverageApart ==
  ASSUME NEW c, NEW e, CoordinateHandler(e) = "coverage", Distinct(Coordinates(e, c))
  PROVE  Apart(Coordinates(e, c)) <=> ~CasesTogether(c)
<1>1. PICK s : s = c.coverageCases
  OBVIOUS
<1>2. PICK d : d = [n \in DOMAIN s |-> <<s[n].bands>>]
  OBVIOUS
<1>3. Coordinates(e, c) = NamedCells(s, d)
  <2>1. Coordinates(e, c) = NamedCells(c.coverageCases, [n \in DOMAIN c.coverageCases |-> <<c.coverageCases[n].bands>>])
    BY CoordinatesBy
  <2> QED BY <1>1, <1>2, <2>1
<1>4. DOMAIN d = DOMAIN s
  BY <1>2
<1>5. Apart(NamedCells(s, d)) <=>
        \A m, n \in DOMAIN s : m # n /\ Alike(s[m], s[n]) => Range(d[m]) \intersect Range(d[n]) = {}
  BY <1>3, <1>4, NamedApart
<1>6. ASSUME NEW m \in DOMAIN s, NEW n \in DOMAIN s
      PROVE  Range(d[m]) \intersect Range(d[n]) = {} <=> s[m].bands # s[n].bands
  <2>1. ASSUME NEW x PROVE Range(<<x>>) = {x}
    BY DEF Range
  <2>2. Range(d[m]) = {s[m].bands} /\ Range(d[n]) = {s[n].bands}
    BY <1>2, <2>1
  <2> QED BY <2>2
<1>7. CasesTogether(c) <=> \E m, n \in DOMAIN s : m # n /\ Alike(s[m], s[n]) /\ s[m].bands = s[n].bands
  BY <1>1, Zenon DEF CasesTogether
<1> QED BY <1>3, <1>5, <1>6, <1>7

LEMMA PowerApart ==
  ASSUME NEW c, NEW e, CoordinateHandler(e) = "power", Distinct(Coordinates(e, c))
  PROVE  Apart(Coordinates(e, c)) <=> ~ScenariosTogether(c)
<1>1. PICK s : s = c.scenarios
  OBVIOUS
<1>2. PICK d : d = [n \in DOMAIN s |-> s[n].bands]
  OBVIOUS
<1>3. Coordinates(e, c) = NamedCells(s, d)
  <2>1. Coordinates(e, c) = NamedCells(c.scenarios, [n \in DOMAIN c.scenarios |-> c.scenarios[n].bands])
    BY CoordinatesBy
  <2> QED BY <1>1, <1>2, <2>1
<1>4. DOMAIN d = DOMAIN s /\ \A n \in DOMAIN s : d[n] = s[n].bands
  BY <1>2
<1>5. Apart(NamedCells(s, d)) <=>
        \A m, n \in DOMAIN s : m # n /\ Alike(s[m], s[n]) => Range(d[m]) \intersect Range(d[n]) = {}
  BY <1>3, <1>4, NamedApart
<1>6. ScenariosTogether(c) <=>
        \E m, n \in DOMAIN s : m # n /\ Alike(s[m], s[n]) /\ Range(s[m].bands) \intersect Range(s[n].bands) # {}
  BY <1>1, Zenon DEF ScenariosTogether
<1> QED BY <1>3, <1>4, <1>5, <1>6

LEMMA DevicesApart ==
  ASSUME NEW c, WellTyped(c), Loads(c), NEW e, CoordinateHandler(e) = "real_trajectory", Distinct(Coordinates(e, c))
  PROVE  Apart(Coordinates(e, c)) <=> ~DevicesTogether(c)
<1>1. Coordinates(e, c) = RealTrajectoryCells(c)
  BY CoordinatesBy
<1>2. 1 \in DOMAIN c.partitions
  <2>1. c.partitions \in Seq(Bands) /\ c.partitions # <<>>
    BY DEF WellTyped, Loads, GridsHold
  <2> QED BY <2>1
<1>3. Apart(RealTrajectoryCells(c)) <=>
        \A m, n \in DOMAIN c.devices : c.devices[m].token = c.devices[n].token => m = n
  BY <1>1, <1>2, RealTrajectoriesApart
<1> QED BY <1>1, <1>3, Zenon DEF DevicesTogether

\* Cells without names.
LEMMA OtherCellsArePlain ==
  ASSUME NEW c, NEW e \in Experiments, CoordinateHandler(e) \notin {"coverage", "power", "real_trajectory"}
  PROVE  \E at : Coordinates(e, c) = Plain(at)
<1>1. PICK h : h = CoordinateHandler(e)
  OBVIOUS
<1>2. h \in Handlers
  BY <1>1, KnownHandler
<1>3. h \in Handlers \ {"coverage", "power", "real_trajectory"} => \E at : Coordinates(e, c) = Plain(at)
  BY <1>1, Zenon DEF Coordinates, Handlers
<1> QED BY <1>1, <1>2, <1>3

\* Cells are apart but for these names.
LEMMA ApartUnless ==
  ASSUME NEW c, WellTyped(c), Loads(c), NEW e \in Experiments, Distinct(Coordinates(e, c)),
         ~DevicesTogether(c), ~CasesTogether(c), ~ScenariosTogether(c)
  PROVE  Apart(Coordinates(e, c))
<1>1. CASE CoordinateHandler(e) \notin {"coverage", "power", "real_trajectory"}
  BY <1>1, OtherCellsArePlain, PlainApart
<1>2. CASE CoordinateHandler(e) = "coverage"
  BY <1>2, CoverageApart
<1>3. CASE CoordinateHandler(e) = "power"
  BY <1>3, PowerApart
<1>4. CASE CoordinateHandler(e) = "real_trajectory"
  BY <1>4, DevicesApart
<1> QED BY <1>1, <1>2, <1>3, <1>4

\* Every cell has a directory.
Housed(cells) == \A i \in DOMAIN cells : HasDirectory(cells[i])

\* Cells without names have one,
LEMMA PlainHoused == ASSUME NEW at PROVE Housed(Plain(at))
<1> SUFFICES ASSUME NEW i \in DOMAIN Plain(at) PROVE HasDirectory(Plain(at)[i])
  BY DEF Housed
<1>1. Plain(at)[i] = [at |-> at[i], name |-> Unnamed]
  BY DEF Plain
<1>2. Plain(at)[i].name = Unnamed
  BY <1>1
<1>3. Unnamed.token # ""
  BY DEF Unnamed
<1> QED BY <1>2, <1>3, Zenon DEF HasDirectory

\* cells made of named entries have, unless a name with a cell leaves no token,
LEMMA NamedHoused ==
  ASSUME NEW entries, NEW bands, DOMAIN bands = DOMAIN entries
  PROVE  Housed(NamedCells(entries, bands)) <=>
           \A m \in DOMAIN entries : DOMAIN bands[m] # {} => entries[m].name.token # ""
<1>1. PICK f : f = NamedCells(entries, bands)
  OBVIOUS
<1>2. ASSUME NEW i \in DOMAIN f
      PROVE  /\ i[1] \in DOMAIN entries /\ i[2] \in DOMAIN bands[i[1]]
             /\ f[i].name = entries[i[1]].name
  <2>1. i \in DOMAIN Nest(bands) /\ f[i] = [at |-> <<entries[i[1]].law, Nest(bands)[i][2]>>, name |-> entries[i[1]].name]
    BY <1>1 DEF NamedCells
  <2>2. i[1] \in DOMAIN bands /\ i[2] \in DOMAIN bands[i[1]]
    BY <2>1, NestPositions
  <2> QED BY <2>1, <2>2
<1>3. ASSUME NEW m \in DOMAIN entries, NEW k \in DOMAIN bands[m]
      PROVE  \E i \in DOMAIN f : i[1] = m
  <2>1. <<m, k>> \in DOMAIN Nest(bands)
    BY DEF Nest
  <2>2. <<m, k>> \in DOMAIN f
    BY <1>1, <2>1 DEF NamedCells
  <2>3. <<m, k>>[1] = m
    OBVIOUS
  <2> QED BY <2>2, <2>3, Zenon
<1>4. ASSUME Housed(f), NEW m \in DOMAIN entries, DOMAIN bands[m] # {} PROVE entries[m].name.token # ""
  <2>1. PICK i \in DOMAIN f : i[1] = m
    BY <1>3, <1>4
  <2> QED BY <1>2, <1>4, <2>1, Zenon DEF Housed, HasDirectory
<1>5. ASSUME \A m \in DOMAIN entries : DOMAIN bands[m] # {} => entries[m].name.token # "" PROVE Housed(f)
  BY <1>2, <1>5, Zenon DEF Housed, HasDirectory
<1> QED BY <1>1, <1>4, <1>5, Zenon

\* and the real trajectories have.
LEMMA RealTrajectoriesHoused == ASSUME NEW c, WellTyped(c) PROVE Housed(RealTrajectoryCells(c))
<1>1. PICK f : f = RealTrajectoryCells(c)
  OBVIOUS
<1>2. PICK d : d = c.devices
  OBVIOUS
<1>3. \A n \in DOMAIN d : d[n].token # ""
  BY <1>2 DEF WellTyped
<1>4. ASSUME NEW i \in DOMAIN f PROVE HasDirectory(f[i])
  <2>1. f[i].name = IF i[1] = "device" THEN d[i[2]] ELSE Unnamed
    BY <1>1, <1>2 DEF RealTrajectoryCells
  <2>2. i[1] = "device" => i[2] \in DOMAIN d
    BY <1>1, <1>2 DEF RealTrajectoryCells
  <2>3. Unnamed.token # ""
    BY DEF Unnamed
  <2> QED BY <1>3, <2>1, <2>2, <2>3, Zenon DEF HasDirectory
<1> QED BY <1>1, <1>4 DEF Housed

LEMMA CoverageHoused ==
  ASSUME NEW c, NEW e, CoordinateHandler(e) = "coverage"
  PROVE  Housed(Coordinates(e, c)) <=> ~CasesNameless(c)
<1>1. PICK s : s = c.coverageCases
  OBVIOUS
<1>2. PICK d : d = [n \in DOMAIN s |-> <<s[n].bands>>]
  OBVIOUS
<1>3. Coordinates(e, c) = NamedCells(s, d)
  <2>1. Coordinates(e, c) = NamedCells(c.coverageCases, [n \in DOMAIN c.coverageCases |-> <<c.coverageCases[n].bands>>])
    BY CoordinatesBy
  <2> QED BY <1>1, <1>2, <2>1
<1>4. DOMAIN d = DOMAIN s /\ \A n \in DOMAIN s : DOMAIN d[n] # {}
  BY <1>2
<1>5. CasesNameless(c) <=> \E n \in DOMAIN s : s[n].name.token = ""
  BY <1>1, Zenon DEF CasesNameless
<1>6. Housed(NamedCells(s, d)) <=> \A n \in DOMAIN s : DOMAIN d[n] # {} => s[n].name.token # ""
  BY <1>4, NamedHoused
<1> QED BY <1>3, <1>4, <1>5, <1>6, Zenon

LEMMA PowerHoused ==
  ASSUME NEW c, WellTyped(c), NEW e, CoordinateHandler(e) = "power"
  PROVE  Housed(Coordinates(e, c)) <=> ~ScenariosNameless(c)
<1>1. PICK s : s = c.scenarios
  OBVIOUS
<1>2. PICK d : d = [n \in DOMAIN s |-> s[n].bands]
  OBVIOUS
<1>3. Coordinates(e, c) = NamedCells(s, d)
  <2>1. Coordinates(e, c) = NamedCells(c.scenarios, [n \in DOMAIN c.scenarios |-> c.scenarios[n].bands])
    BY CoordinatesBy
  <2> QED BY <1>1, <1>2, <2>1
<1>4. DOMAIN d = DOMAIN s /\ \A n \in DOMAIN s : d[n] = s[n].bands
  BY <1>2
<1>5. \A n \in DOMAIN s : DOMAIN d[n] # {} <=> s[n].bands # <<>>
  <2> SUFFICES ASSUME NEW n \in DOMAIN s PROVE DOMAIN d[n] # {} <=> s[n].bands # <<>>
    OBVIOUS
  <2>1. s \in Seq(Scenarios)
    BY <1>1 DEF WellTyped
  <2>2. s[n] \in Scenarios
    BY <2>1
  <2>3. PICK b : b = s[n].bands
    OBVIOUS
  <2>4. b \in Seq(Bands)
    BY <2>2, <2>3 DEF Scenarios
  <2>5. DOMAIN b # {} <=> b # <<>>
    BY <2>4, NonemptySequence
  <2>6. d[n] = b
    BY <1>4, <2>3
  <2> QED BY <2>3, <2>5, <2>6
<1>6. ScenariosNameless(c) <=> \E n \in DOMAIN s : s[n].bands # <<>> /\ s[n].name.token = ""
  BY <1>1, Zenon DEF ScenariosNameless
<1>7. Housed(NamedCells(s, d)) <=> \A n \in DOMAIN s : DOMAIN d[n] # {} => s[n].name.token # ""
  BY <1>4, NamedHoused
<1> QED BY <1>3, <1>5, <1>6, <1>7, Zenon

\* Cells have directories but for these names.
LEMMA HousedUnless ==
  ASSUME NEW c, WellTyped(c), NEW e \in Experiments, ~CasesNameless(c), ~ScenariosNameless(c)
  PROVE  Housed(Coordinates(e, c))
<1>1. CASE CoordinateHandler(e) \notin {"coverage", "power", "real_trajectory"}
  BY <1>1, OtherCellsArePlain, PlainHoused
<1>2. CASE CoordinateHandler(e) = "coverage"
  BY <1>2, CoverageHoused
<1>3. CASE CoordinateHandler(e) = "power"
  BY <1>3, PowerHoused
<1>4. CASE CoordinateHandler(e) = "real_trajectory"
  <2>1. Coordinates(e, c) = RealTrajectoryCells(c)
    BY <1>4, CoordinatesBy
  <2> QED BY <2>1, RealTrajectoriesHoused
<1> QED BY <1>1, <1>2, <1>3, <1>4

\* What closes the gate, closes it in one of these experiments.
LEMMA HandlersOfGate ==
  /\ \E e \in Experiments \ {Synthesis} : CoordinateHandler(e) = "coverage"
  /\ \E e \in Experiments \ {Synthesis} : CoordinateHandler(e) = "power"
  /\ \E e \in Experiments \ {Synthesis} : CoordinateHandler(e) = "real_trajectory"
  /\ \E e \in Experiments \ {Synthesis} : CoordinateHandler(e) = "strict_timing" /\ ExecutionHandler(e) = "strict_timing"
  /\ \E e \in Experiments \ {Synthesis} : CoordinateHandler(e) = "failure_boundary" /\ ExecutionHandler(e) = "failure_boundary"
<1>1. \A i \in 1..30 : NameAt(i) = "Anytime Coverage Stress" => i = 22
  BY UpToThirty, CatalogNames
<1>2. \A i \in 1..30 : NameAt(i) = "Anytime Certification Power" => i = 23
  BY UpToThirty, CatalogNames
<1>3. \A i \in 1..30 : NameAt(i) = "Real-Trajectory Validation" => i = 27
  BY UpToThirty, CatalogNames
<1>4. \A i \in 1..30 : NameAt(i) = "Strict Timing Gain" => i = 17
  BY UpToThirty, CatalogNames
<1>5. \A i \in 1..30 : NameAt(i) = "Failure Boundary Atlas" => i = 26
  BY UpToThirty, CatalogNames
<1>6. /\ NameAt(22) = "Anytime Coverage Stress" /\ NameAt(23) = "Anytime Certification Power"
      /\ NameAt(27) = "Real-Trajectory Validation" /\ NameAt(17) = "Strict Timing Gain"
      /\ NameAt(26) = "Failure Boundary Atlas"
  BY CatalogNames
<1>7. ASSUME NEW n \in {17, 22, 23, 26, 27}
      PROVE  /\ n \in 1..30 /\ NameAt(n) \in Experiments \ {Synthesis}
             /\ CoordinateHandler(NameAt(n)) = CoordinatesAt(n) /\ ExecutionHandler(NameAt(n)) = ExecutionAt(n)
  <2>1. n \in 1..30 /\ n # 30 /\ 30 \in 1..30
    OBVIOUS
  <2>2. \A i \in 1..30 : NameAt(i) = NameAt(n) => i = n
    <3>1. CASE n = 22
      BY <1>6, <1>1, <3>1, Zenon
    <3>2. CASE n = 23
      BY <1>6, <1>2, <3>2, Zenon
    <3>3. CASE n = 27
      BY <1>6, <1>3, <3>3, Zenon
    <3>4. CASE n = 17
      BY <1>6, <1>4, <3>4, Zenon
    <3>5. CASE n = 26
      BY <1>6, <1>5, <3>5, Zenon
    <3> QED BY <3>1, <3>2, <3>3, <3>4, <3>5
  <2>3. NameAt(n) # NameAt(30)
    BY <2>1, <2>2
  <2> QED BY <2>1, <2>2, <2>3, HandlerOf, CatalogEnds
<1>8. /\ CoordinatesAt(17) = "strict_timing" /\ CoordinatesAt(22) = "coverage" /\ CoordinatesAt(23) = "power"
      /\ CoordinatesAt(26) = "failure_boundary" /\ CoordinatesAt(27) = "real_trajectory"
  BY CatalogCoordinates
<1>9. ExecutionAt(17) = "strict_timing" /\ ExecutionAt(26) = "failure_boundary"
  BY CatalogExecutions
<1> QED BY <1>7, <1>8, <1>9

\* The synthesis itself has a cell.
LEMMA SynthesisHasCell == ASSUME NEW c PROVE DOMAIN Coordinates(Synthesis, c) # {}
<1>1. \A i \in 1..30 : NameAt(i) = "Statistical Synthesis" => i = 30
  BY UpToThirty, CatalogNames
<1>2. NameAt(30) = "Statistical Synthesis"
  BY CatalogNames
<1>3. 30 \in 1..30 /\ CoordinatesAt(30) = "record"
  BY CatalogCoordinates
<1>4. CoordinateHandler(Synthesis) = "record"
  BY <1>1, <1>2, <1>3, CatalogEnds, HandlerOf
<1>5. Coordinates(Synthesis, c) = Plain(<<"record">>)
  BY <1>4, CoordinatesBy
<1>6. DOMAIN Plain(<<"record">>) = DOMAIN <<"record">> /\ 1 \in DOMAIN <<"record">>
  BY DEF Plain
<1> QED BY <1>5, <1>6

\* A timing pair that is not found leaves its experiment without a completion,
LEMMA MissingTimingUnsound ==
  ASSUME NEW c, WellTyped(c), Loads(c), TimingMissing(c),
         NEW e, CoordinateHandler(e) = "strict_timing", ExecutionHandler(e) = "strict_timing"
  PROVE  ~Sound(e, c)
<1> SUFFICES ASSUME DOMAIN Coordinates(e, c) # {} PROVE \E i \in DOMAIN Coordinates(e, c) : ~Dispatched(e, c, Coordinates(e, c)[i])
  BY DEF Sound, Executed
<1>1. PICK cells : cells = Plain(TimingPairs(c))
  OBVIOUS
<1>2. Coordinates(e, c) = cells
  BY <1>1, CoordinatesBy
<1>3. PICK k \in DOMAIN c.timingCases : TimingGap(c, c.timingCases[k])
  BY DEF TimingMissing
<1>4. PICK j \in DOMAIN cells : TRUE
  BY <1>2
<1>5. j[2] \in DOMAIN c.timingOffsets
  BY <1>1, <1>4, TimingCellAt
<1>6. <<k, j[2]>> \in DOMAIN cells
  <2>1. DOMAIN cells = (DOMAIN c.timingCases) \X (DOMAIN c.timingOffsets)
    BY <1>1 DEF Plain, TimingPairs, Pairs
  <2> QED BY <1>5, <2>1
<1>7. PICK i \in DOMAIN cells : i = <<k, j[2]>>
  BY <1>6
<1>8. i[1] = k
  BY <1>7
<1>9. ~TimingFound(c, cells[i])
  BY <1>1, <1>3, <1>8, TimingFoundUnless, Zenon
<1>10. ~Dispatched(e, c, cells[i])
  BY <1>9 DEF Dispatched
<1> QED BY <1>2, <1>10

\* and so does a level of the resolution that does not divide the largest.
LEMMA MissingLevelUnsound ==
  ASSUME NEW c, WellTyped(c), LevelMissing(c),
         NEW e, CoordinateHandler(e) = "failure_boundary", ExecutionHandler(e) = "failure_boundary"
  PROVE  ~Sound(e, c)
<1>1. PICK cells : cells = Plain(Nest(c.axes))
  OBVIOUS
<1>2. Coordinates(e, c) = cells
  BY <1>1, CoordinatesBy
<1>3. PICK s : s = c.axes["bands"]
  OBVIOUS
<1>4. PICK n \in DOMAIN s : Last(s) % s[n] # 0
  BY <1>3 DEF LevelMissing, Range
<1>5. "compatible_bands" \in DOMAIN c.axes /\ c.axes["compatible_bands"] = s
  BY <1>3 DEF WellTyped
<1>6. <<"compatible_bands", n>> \in DOMAIN cells
  <2>1. <<"compatible_bands", n>> \in {"compatible_bands"} \X (DOMAIN c.axes["compatible_bands"])
    BY <1>5
  <2>2. <<"compatible_bands", n>> \in DOMAIN Nest(c.axes)
    BY <1>5, <2>1 DEF Nest
  <2> QED BY <1>1, <2>2 DEF Plain
<1>7. PICK i \in DOMAIN cells : i = <<"compatible_bands", n>>
  BY <1>6
<1>8. i[1] = "compatible_bands" /\ i[2] = n
  BY <1>7
<1>9. cells[i].at = <<"compatible_bands", s[n]>>
  BY <1>1, <1>5, <1>8, BoundaryCellAt
<1>10. cells[i].at[1] = "compatible_bands" /\ cells[i].at[2] = s[n]
  BY <1>9
<1>11. ~FailureBoundaryFound(c, cells[i])
  BY <1>3, <1>4, <1>10, Zenon DEF FailureBoundaryFound
<1>12. ~Dispatched(e, c, cells[i])
  BY <1>11 DEF Dispatched
<1> QED BY <1>2, <1>12 DEF Sound, Executed

\* The gate is closed by an experiment that is not sound, and such an experiment closes it.
LEMMA GateIsSoundness ==
  ASSUME NEW c, WellTyped(c), Loads(c), \A e \in Experiments : Distinct(Coordinates(e, c))
  PROVE  GateClosedFor(c) <=> \E e \in Experiments \ {Synthesis} : ~Sound(e, c)
<1>1. ASSUME ~GateClosedFor(c), NEW e \in Experiments \ {Synthesis} PROVE Sound(e, c)
  <2>1. /\ ~NoCells(c) /\ ~TimingMissing(c) /\ ~LevelMissing(c)
        /\ ~CasesNameless(c) /\ ~ScenariosNameless(c)
        /\ ~DevicesTogether(c) /\ ~CasesTogether(c) /\ ~ScenariosTogether(c)
    BY <1>1, GateParts, Zenon
  <2>2. DOMAIN Coordinates(e, c) # {}
    BY <2>1 DEF NoCells
  <2>3. Apart(Coordinates(e, c))
    BY <2>1, ApartUnless
  <2>4. \A i \in DOMAIN Coordinates(e, c) : Dispatched(e, c, Coordinates(e, c)[i])
    <3>1. \A k \in DOMAIN c.timingCases : ~TimingGap(c, c.timingCases[k])
      BY <2>1, Zenon DEF TimingMissing
    <3>2. \A level \in Range(c.axes["bands"]) : Last(c.axes["bands"]) % level = 0
      BY <2>1, Zenon DEF LevelMissing
    <3> QED BY <3>1, <3>2, DispatchedUnless
  <2>5. Housed(Coordinates(e, c))
    BY <2>1, HousedUnless
  <2> QED BY <2>2, <2>3, <2>4, <2>5, Zenon DEF Sound, Apart, Housed, Executed
<1>2. ASSUME NoCells(c) PROVE \E e \in Experiments \ {Synthesis} : ~Sound(e, c)
  <2>1. PICK e \in Experiments : DOMAIN Coordinates(e, c) = {}
    BY <1>2 DEF NoCells
  <2>2. e # Synthesis
    BY <2>1, SynthesisHasCell
  <2>3. ~Sound(e, c)
    BY <2>1 DEF Sound
  <2> QED BY <2>2, <2>3
<1>3. ASSUME TimingMissing(c) PROVE \E e \in Experiments \ {Synthesis} : ~Sound(e, c)
  BY <1>3, MissingTimingUnsound, HandlersOfGate
<1>4. ASSUME LevelMissing(c) PROVE \E e \in Experiments \ {Synthesis} : ~Sound(e, c)
  BY <1>4, MissingLevelUnsound, HandlersOfGate
<1>5. \A e \in Experiments : Sound(e, c) => Apart(Coordinates(e, c))
  BY Zenon DEF Sound, Apart
<1>6. ASSUME DevicesTogether(c) PROVE \E e \in Experiments \ {Synthesis} : ~Sound(e, c)
  <2>1. PICK e \in Experiments \ {Synthesis} : CoordinateHandler(e) = "real_trajectory"
    BY HandlersOfGate
  <2> QED BY <1>5, <1>6, <2>1, DevicesApart
<1>7. ASSUME CasesTogether(c) PROVE \E e \in Experiments \ {Synthesis} : ~Sound(e, c)
  <2>1. PICK e \in Experiments \ {Synthesis} : CoordinateHandler(e) = "coverage"
    BY HandlersOfGate
  <2> QED BY <1>5, <1>7, <2>1, CoverageApart
<1>8. ASSUME ScenariosTogether(c) PROVE \E e \in Experiments \ {Synthesis} : ~Sound(e, c)
  <2>1. PICK e \in Experiments \ {Synthesis} : CoordinateHandler(e) = "power"
    BY HandlersOfGate
  <2> QED BY <1>5, <1>8, <2>1, PowerApart
<1>9. \A e \in Experiments : Sound(e, c) => Housed(Coordinates(e, c))
  BY Zenon DEF Sound, Housed, Executed
<1>10. ASSUME CasesNameless(c) PROVE \E e \in Experiments \ {Synthesis} : ~Sound(e, c)
  <2>1. PICK e \in Experiments \ {Synthesis} : CoordinateHandler(e) = "coverage"
    BY HandlersOfGate
  <2> QED BY <1>9, <1>10, <2>1, CoverageHoused
<1>11. ASSUME ScenariosNameless(c) PROVE \E e \in Experiments \ {Synthesis} : ~Sound(e, c)
  <2>1. PICK e \in Experiments \ {Synthesis} : CoordinateHandler(e) = "power"
    BY HandlersOfGate
  <2> QED BY <1>9, <1>11, <2>1, PowerHoused
<1> QED BY <1>1, <1>2, <1>3, <1>4, <1>6, <1>7, <1>8, <1>10, <1>11, GateParts, Zenon

\* However often a study is run, and whatever its configuration says, the synthesis is blocked
\* exactly for the reasons GateClosedFor lists.
THEOREM GateClosesOnlyFor == CampaignSpec => []EvidenceGateClosedOnlyFor
<1>1. StudyInv /\ GateInv => EvidenceGateClosedOnlyFor
  <2> SUFFICES ASSUME StudyInv, GateInv, outcome # "none" PROVE (outcome = "blocked") <=> GateClosedFor(config)
    BY DEF EvidenceGateClosedOnlyFor
  <2>1. stage \in {"run", "over"} /\ (outcome = "blocked" <=> \E e \in Experiments \ {Synthesis} : ~Sound(e, config))
    BY DEF GateInv, Judged
  <2>2. WellTyped(config) /\ Loads(config) /\ \A e \in Experiments : Distinct(Coordinates(e, config))
    BY <2>1, ConfigsAssumption DEF StudyInv, Cells
  <2>3. GateClosedFor(config) <=> \E e \in Experiments \ {Synthesis} : ~Sound(e, config)
    BY <2>2, GateIsSoundness
  <2> QED BY <2>1, <2>3, Zenon
<1> QED BY <1>1, StudyInvHolds, GateInvHolds, PTL

\* Cells without names, at the points of a grid.
Cell(at) == [at |-> at, name |-> Unnamed]
InGrid2(cell, X, Y) == \E x \in X, y \in Y : cell = Cell(<<x, y>>)
InGrid3(cell, X, Y, Z) == \E x \in X, y \in Y, z \in Z : cell = Cell(<<x, y, z>>)

\* The cells of a grid of triples, and of pairs.
LEMMA PlainTriples ==
  ASSUME NEW s, NEW t, NEW u
  PROVE  \A cell : cell \in Range(Plain(Triples(s, t, u))) <=> InGrid3(cell, Range(s), Range(t), Range(u))
<1> DEFINE cells == Plain(Triples(s, t, u))
<1>1. DOMAIN cells = (DOMAIN s) \X (DOMAIN t) \X (DOMAIN u)
  BY DEF Plain, Triples
<1>2. \A i \in DOMAIN cells : cells[i] = Cell(<<s[i[1]], t[i[2]], u[i[3]]>>)
  <2> SUFFICES ASSUME NEW i \in DOMAIN cells PROVE cells[i] = Cell(<<s[i[1]], t[i[2]], u[i[3]]>>)
    OBVIOUS
  <2>1. cells[i] = Cell(Triples(s, t, u)[i]) /\ i \in DOMAIN Triples(s, t, u)
    BY DEF Plain, Cell
  <2>2. Triples(s, t, u)[i] = <<s[i[1]], t[i[2]], u[i[3]]>>
    BY <2>1 DEF Triples
  <2> QED BY <2>1, <2>2, Zenon
<1> HIDE DEF cells
<1>3. ASSUME NEW cell \in Range(cells)
      PROVE  \E x \in Range(s), y \in Range(t), z \in Range(u) : cell = Cell(<<x, y, z>>)
  <2>1. PICK i \in DOMAIN cells : cell = cells[i]
    BY DEF Range
  <2>2. i[1] \in DOMAIN s /\ i[2] \in DOMAIN t /\ i[3] \in DOMAIN u
    BY <1>1
  <2>3. s[i[1]] \in Range(s) /\ t[i[2]] \in Range(t) /\ u[i[3]] \in Range(u)
    BY <2>2 DEF Range
  <2>4. cell = Cell(<<s[i[1]], t[i[2]], u[i[3]]>>)
    BY <1>2, <2>1
  <2> QED BY <2>3, <2>4, Zenon
<1>4. ASSUME NEW x \in Range(s), NEW y \in Range(t), NEW z \in Range(u) PROVE Cell(<<x, y, z>>) \in Range(cells)
  <2>1. PICK i1 \in DOMAIN s : s[i1] = x
    BY DEF Range
  <2>2. PICK i2 \in DOMAIN t : t[i2] = y
    BY DEF Range
  <2>3. PICK i3 \in DOMAIN u : u[i3] = z
    BY DEF Range
  <2>4. PICK i \in DOMAIN cells : i = <<i1, i2, i3>>
    BY <1>1
  <2>5. i[1] = i1 /\ i[2] = i2 /\ i[3] = i3
    BY <2>4
  <2>6. cells[i] = Cell(<<x, y, z>>)
    BY <1>2, <2>1, <2>2, <2>3, <2>5, Zenon
  <2> QED BY <2>6 DEF Range
<1> QED BY <1>3, <1>4, Zenon DEF cells, InGrid3

LEMMA PlainPairs ==
  ASSUME NEW s, NEW t
  PROVE  \A cell : cell \in Range(Plain(Pairs(s, t))) <=> InGrid2(cell, Range(s), Range(t))
<1> DEFINE cells == Plain(Pairs(s, t))
<1>1. DOMAIN cells = (DOMAIN s) \X (DOMAIN t)
  BY DEF Plain, Pairs
<1>2. \A i \in DOMAIN cells : cells[i] = Cell(<<s[i[1]], t[i[2]]>>)
  <2> SUFFICES ASSUME NEW i \in DOMAIN cells PROVE cells[i] = Cell(<<s[i[1]], t[i[2]]>>)
    OBVIOUS
  <2>1. cells[i] = Cell(Pairs(s, t)[i]) /\ i \in DOMAIN Pairs(s, t)
    BY DEF Plain, Cell
  <2>2. Pairs(s, t)[i] = <<s[i[1]], t[i[2]]>>
    BY <2>1 DEF Pairs
  <2> QED BY <2>1, <2>2, Zenon
<1> HIDE DEF cells
<1>3. ASSUME NEW cell \in Range(cells) PROVE \E x \in Range(s), y \in Range(t) : cell = Cell(<<x, y>>)
  <2>1. PICK i \in DOMAIN cells : cell = cells[i]
    BY DEF Range
  <2>2. i[1] \in DOMAIN s /\ i[2] \in DOMAIN t
    BY <1>1
  <2>3. s[i[1]] \in Range(s) /\ t[i[2]] \in Range(t)
    BY <2>2 DEF Range
  <2>4. cell = Cell(<<s[i[1]], t[i[2]]>>)
    BY <1>2, <2>1
  <2> QED BY <2>3, <2>4, Zenon
<1>4. ASSUME NEW x \in Range(s), NEW y \in Range(t) PROVE Cell(<<x, y>>) \in Range(cells)
  <2>1. PICK i1 \in DOMAIN s : s[i1] = x
    BY DEF Range
  <2>2. PICK i2 \in DOMAIN t : t[i2] = y
    BY DEF Range
  <2>3. PICK i \in DOMAIN cells : i = <<i1, i2>>
    BY <1>1
  <2>4. i[1] = i1 /\ i[2] = i2
    BY <2>3
  <2>5. cells[i] = Cell(<<x, y>>)
    BY <1>2, <2>1, <2>2, <2>4, Zenon
  <2> QED BY <2>5 DEF Range
<1> QED BY <1>3, <1>4, Zenon DEF cells, InGrid2

\* The experiments the first figure joins.
LEMMA HandlersOfFigures ==
  /\ CoordinateHandler("Population Sensitivity Utility") = "population"
  /\ CoordinateHandler("Same Endpoint, Different Timing") = "same_endpoint"
  /\ CoordinateHandler("Trajectory Decision Value") = "decision"
  /\ CoordinateHandler("Real-Trajectory Validation") = "real_trajectory"
  /\ CoordinateHandler("Foreign-Information Negative Control") = "oracle_offsets"
<1>1. \A i \in 1..30 : NameAt(i) = "Population Sensitivity Utility" => i = 24
  BY UpToThirty, CatalogNames
<1>2. \A i \in 1..30 : NameAt(i) = "Same Endpoint, Different Timing" => i = 16
  BY UpToThirty, CatalogNames
<1>3. NameAt(24) = "Population Sensitivity Utility" /\ NameAt(16) = "Same Endpoint, Different Timing"
  BY CatalogNames
<1>4. CoordinatesAt(24) = "population" /\ CoordinatesAt(16) = "same_endpoint"
  BY CatalogCoordinates
<1>5. 24 \in 1..30 /\ 16 \in 1..30
  OBVIOUS
<1>6. ASSUME NEW e, NEW n \in 1..30, NameAt(n) = e, \A i \in 1..30 : NameAt(i) = e => i = n
      PROVE  CoordinateHandler(e) = CoordinatesAt(n)
  BY <1>6, HandlerOf
<1>7. /\ CoordinateHandler("Population Sensitivity Utility") = "population"
      /\ CoordinateHandler("Same Endpoint, Different Timing") = "same_endpoint"
  BY <1>1, <1>2, <1>3, <1>4, <1>5, <1>6, Zenon
<1>8. \A i \in 1..30 : NameAt(i) = "Trajectory Decision Value" => i = 25
  BY UpToThirty, CatalogNames
<1>9. \A i \in 1..30 : NameAt(i) = "Real-Trajectory Validation" => i = 27
  BY UpToThirty, CatalogNames
<1>10. \A i \in 1..30 : NameAt(i) = "Foreign-Information Negative Control" => i = 28
  BY UpToThirty, CatalogNames
<1>11. /\ NameAt(25) = "Trajectory Decision Value" /\ NameAt(27) = "Real-Trajectory Validation"
       /\ NameAt(28) = "Foreign-Information Negative Control"
  BY CatalogNames
<1>12. CoordinatesAt(25) = "decision" /\ CoordinatesAt(27) = "real_trajectory" /\ CoordinatesAt(28) = "oracle_offsets"
  BY CatalogCoordinates
<1>13. 25 \in 1..30 /\ 27 \in 1..30 /\ 28 \in 1..30
  OBVIOUS
<1>14. CoordinateHandler("Trajectory Decision Value") = "decision"
  BY <1>6, <1>8, <1>11, <1>12, <1>13, Zenon
<1>15. CoordinateHandler("Real-Trajectory Validation") = "real_trajectory"
  BY <1>6, <1>9, <1>11, <1>12, <1>13, Zenon
<1>16. CoordinateHandler("Foreign-Information Negative Control") = "oracle_offsets"
  BY <1>6, <1>10, <1>11, <1>12, <1>13, Zenon
<1> QED BY <1>7, <1>14, <1>15, <1>16

\* The cells of the population.
LEMMA PopulationIs ==
  ASSUME NEW c
  PROVE  \A cell : cell \in Population(c) <=>
           InGrid3(cell, Range(c.utilityLaws), Range(c.partitions), Range(PopulationRho(c)))
<1>1. Coordinates("Population Sensitivity Utility", c) = Plain(Triples(c.utilityLaws, c.partitions, PopulationRho(c)))
  BY HandlersOfFigures, CoordinatesBy
<1> QED BY <1>1, PlainTriples, Zenon DEF Population

\* The grid of the population always has log 2.
LEMMA PopulationRhoRange ==
  ASSUME NEW c, WellTyped(c) PROVE Range(PopulationRho(c)) = Range(c.rho) \union {Log2}
<1>1. PICK s : s = c.rho
  OBVIOUS
<1>2. s \in Seq(Int)
  BY <1>1 DEF WellTyped
<1>3. CASE Log2 \in Range(s)
  BY <1>1, <1>3 DEF PopulationRho
<1>4. CASE Log2 \notin Range(s)
  <2>1. PICK t : t = Append(s, Log2)
    OBVIOUS
  <2>2. PopulationRho(c) = t
    BY <1>1, <1>4, <2>1 DEF PopulationRho
  <2>3. PICK n \in Nat : n = Len(s)
    BY <1>2
  <2>4. DOMAIN t = 1..(n + 1) /\ DOMAIN s = 1..n
    BY <1>2, <2>1, <2>3
  <2>5. (\A i \in 1..n : t[i] = s[i]) /\ t[n + 1] = Log2
    BY <1>2, <2>1, <2>3
  <2>6. Range(t) = Range(s) \union {Log2}
    BY <2>4, <2>5 DEF Range
  <2> QED BY <1>1, <2>2, <2>6
<1> QED BY <1>3, <1>4

\* The finest partition is a primary one.
LEMMA FinestIsPartition == ASSUME NEW c, WellTyped(c), Loads(c) PROVE c.finest \in Range(c.partitions)
<1>1. PICK s : s = c.partitions
  OBVIOUS
<1>2. s \in Seq(Bands) /\ s # <<>> /\ c.finest = s[1]
  BY <1>1 DEF WellTyped, Loads, GridsHold, CrossSectionHolds
<1>3. 1 \in DOMAIN s
  BY <1>2
<1> QED BY <1>1, <1>2, <1>3 DEF Range

\* A budget that is compatible under the finest partition is so under all of them.
LEMMA CompatibleThroughout ==
  ASSUME NEW c \in Configs, Loads(c), NEW law \in Laws, NEW rho \in Int
  PROVE  (\A b \in Range(c.partitions) : Compatible(law, b, rho)) <=> Tau[law][c.finest] <= rho
<1>1. PICK tau : tau = Tau[law]
  OBVIOUS
<1>2. PICK P : P = Range(c.partitions)
  OBVIOUS
<1>3. PICK f : f = c.finest
  OBVIOUS
<1>4. WellTyped(c)
  BY ConfigsAssumption
<1>5. f \in P /\ \A b \in P : f % b = 0
  BY <1>2, <1>3, <1>4, FinestIsPartition, PartitionFound
<1>6. P \subseteq DOMAIN tau
  BY <1>1, <1>2, TauAssumption, Zenon
<1>7. \A fine, coarse \in DOMAIN tau : tau[fine] \in Int /\ (fine % coarse = 0 => tau[coarse] <= tau[fine])
  BY <1>1, TauAssumption, Zenon
<1>8. \A b \in P : tau[b] \in Int /\ tau[b] <= tau[f]
  BY <1>5, <1>6, <1>7
<1>9. (\A b \in P : tau[b] <= rho) <=> tau[f] <= rho
  <2>1. tau[f] \in Int
    BY <1>5, <1>8
  <2> QED BY <1>5, <1>8, <2>1
<1>10. \A b : Compatible(law, b, rho) <=> tau[b] <= rho
  BY <1>1, Zenon DEF Compatible
<1> QED BY <1>1, <1>2, <1>3, <1>9, <1>10, Zenon

\* The cells of some laws at a budget, of a grid of laws, partitions and budgets.
Selected(cells, F, rho) == {cell \in cells : cell.at[1] \in F /\ cell.at[3] = rho}

Grid(cells, U, P, R) == \A cell : cell \in cells <=> InGrid3(cell, U, P, R)
Shown(selected, l, b) == \E cell \in selected : cell.at[1] = l /\ cell.at[2] = b

\* They show a law and a partition exactly if both are in the grid, and the budget is.
LEMMA GridSelected ==
  ASSUME NEW cells, NEW U, NEW P, NEW R, NEW F, NEW rho, Grid(cells, U, P, R),
         NEW selected, selected = Selected(cells, F, rho), NEW l, NEW b
  PROVE  Shown(selected, l, b) <=> l \in F /\ l \in U /\ b \in P /\ rho \in R
<1>1. ASSUME NEW cell \in selected, cell.at[1] = l, cell.at[2] = b
      PROVE  l \in F /\ l \in U /\ b \in P /\ rho \in R
  <2>1. cell \in cells /\ cell.at[1] \in F /\ cell.at[3] = rho
    BY DEF Selected
  <2>2. PICK x \in U, y \in P, z \in R : cell = Cell(<<x, y, z>>)
    BY <2>1, Zenon DEF Grid, InGrid3
  <2>3. cell.at[1] = x /\ cell.at[2] = y /\ cell.at[3] = z
    BY <2>2 DEF Cell
  <2> QED BY <1>1, <2>1, <2>2, <2>3, Zenon
<1>2. ASSUME l \in F, l \in U, b \in P, rho \in R
      PROVE  \E cell \in selected : cell.at[1] = l /\ cell.at[2] = b
  <2>1. PICK cell : cell = Cell(<<l, b, rho>>)
    OBVIOUS
  <2>2. cell.at[1] = l /\ cell.at[2] = b /\ cell.at[3] = rho
    BY <2>1 DEF Cell
  <2>3. cell \in cells
    BY <1>2, <2>1, Zenon DEF Grid, InGrid3
  <2>4. cell \in selected
    BY <1>2, <2>2, <2>3 DEF Selected
  <2> QED BY <2>2, <2>4
<1> QED BY <1>1, <1>2, Zenon DEF Shown

\* Each part of the join, and what the configuration has to say for it: the population of the
\* first figure,
LEMMA FigureOneWhen ==
  ASSUME NEW c \in Configs, Loads(c)
  PROVE  FigureOnePopulation(c) <=>
           /\ FigureLaws \subseteq Range(c.utilityLaws) /\ c.figureRho \in Range(PopulationRho(c))
           /\ \A law \in FigureLaws : Tau[law][c.finest] <= c.figureRho
<1>1. PICK U : U = Range(c.utilityLaws)
  OBVIOUS
<1>2. PICK P : P = Range(c.partitions)
  OBVIOUS
<1>3. PICK R : R = Range(PopulationRho(c))
  OBVIOUS
<1>4. PICK rho : rho = c.figureRho
  OBVIOUS
<1>5. PICK selected : selected = Selected(Population(c), FigureLaws, rho)
  OBVIOUS
<1>6. WellTyped(c) /\ rho \in Int /\ c.finest \in P
  BY <1>2, <1>4, ConfigsAssumption, FinestIsPartition DEF WellTyped
<1>7. \A l, b : Shown(selected, l, b) <=> l \in FigureLaws /\ l \in U /\ b \in P /\ rho \in R
  <2>1. Grid(Population(c), U, P, R)
    BY <1>1, <1>2, <1>3, PopulationIs, Zenon DEF Grid
  <2>2. ASSUME NEW l, NEW b PROVE Shown(selected, l, b) <=> l \in FigureLaws /\ l \in U /\ b \in P /\ rho \in R
    BY <1>5, <2>1, GridSelected
  <2> QED BY <2>2
<1> DEFINE shown == {<<cell.at[1], cell.at[2]>> : cell \in selected}
<1>8. FigureOnePopulation(c) <=>
        shown = FigureLaws \X P /\ \A cell \in selected : Compatible(cell.at[1], cell.at[2], rho)
  BY <1>2, <1>4, <1>5, Zenon DEF FigureOnePopulation, Selected
<1>9. shown = FigureLaws \X P <=> FigureLaws \subseteq U /\ rho \in R
  <2>1. \A l, b : <<l, b>> \in shown <=> l \in FigureLaws /\ l \in U /\ b \in P /\ rho \in R
    <3>1. \A l, b : <<l, b>> \in shown <=> Shown(selected, l, b)
      <4>1. ASSUME NEW l, NEW b, <<l, b>> \in shown PROVE Shown(selected, l, b)
        <5>1. PICK cell \in selected : <<l, b>> = <<cell.at[1], cell.at[2]>>
          BY <4>1
        <5> QED BY <5>1 DEF Shown
      <4>2. ASSUME NEW l, NEW b, NEW cell \in selected, cell.at[1] = l, cell.at[2] = b PROVE <<l, b>> \in shown
        <5>1. <<cell.at[1], cell.at[2]>> \in shown
          OBVIOUS
        <5> HIDE DEF shown
        <5> QED BY <4>2, <5>1, Zenon
      <4> HIDE DEF shown
      <4> QED BY <4>1, <4>2, Zenon DEF Shown
    <3> HIDE DEF shown
    <3> QED BY <1>7, <3>1, Zenon
  <2>2. \A p \in shown : p = <<p[1], p[2]>>
    OBVIOUS
  <2> HIDE DEF shown
  <2>3. ASSUME shown = FigureLaws \X P PROVE FigureLaws \subseteq U /\ rho \in R
    <3>1. \A l \in FigureLaws : <<l, c.finest>> \in shown
      BY <1>6, <2>3
    <3> QED BY <2>1, <3>1, FiguresAssumption
  <2>4. ASSUME FigureLaws \subseteq U, rho \in R PROVE shown = FigureLaws \X P
    <3>1. shown \subseteq FigureLaws \X P
      <4> SUFFICES ASSUME NEW p \in shown PROVE p \in FigureLaws \X P
        OBVIOUS
      <4>1. p[1] \in FigureLaws /\ p[2] \in P
        BY <2>1, <2>2, Zenon
      <4> QED BY <2>2, <4>1
    <3>2. FigureLaws \X P \subseteq shown
      BY <2>1, <2>4
    <3> QED BY <3>1, <3>2
  <2> QED BY <2>3, <2>4
<1>10. ASSUME FigureLaws \subseteq U, rho \in R
       PROVE  (\A cell \in selected : Compatible(cell.at[1], cell.at[2], rho)) <=>
                \A law \in FigureLaws : Tau[law][c.finest] <= rho
  <2>1. (\A cell \in selected : Compatible(cell.at[1], cell.at[2], rho)) <=>
          \A law \in FigureLaws : \A b \in P : Compatible(law, b, rho)
    <3>1. ASSUME \A cell \in selected : Compatible(cell.at[1], cell.at[2], rho), NEW law \in FigureLaws, NEW b \in P
          PROVE  Compatible(law, b, rho)
      <4>1. law \in U
        BY <1>10
      <4>2. PICK cell \in selected : cell.at[1] = law /\ cell.at[2] = b
        BY <1>7, <1>10, <4>1, Zenon DEF Shown
      <4> QED BY <3>1, <4>2, Zenon
    <3>2. ASSUME \A law \in FigureLaws : \A b \in P : Compatible(law, b, rho), NEW cell \in selected
          PROVE  Compatible(cell.at[1], cell.at[2], rho)
      <4>1. cell.at[1] \in FigureLaws /\ cell.at[2] \in P
        BY <1>7, Zenon DEF Shown
      <4> QED BY <3>2, <4>1, Zenon
    <3> QED BY <3>1, <3>2, Zenon
  <2>2. \A law \in FigureLaws : (\A b \in P : Compatible(law, b, rho)) <=> Tau[law][c.finest] <= rho
    <3>1. FigureLaws \subseteq Laws
      BY FiguresAssumption
    <3> QED BY <1>2, <1>6, <3>1, CompatibleThroughout
  <2> QED BY <2>1, <2>2, Zenon
<1> HIDE DEF shown
<1> QED BY <1>1, <1>3, <1>4, <1>8, <1>9, <1>10, Zenon

\* the same endpoint of the first figure,
LEMMA SameEndpointIs ==
  ASSUME NEW c, NEW P, P = Range(c.partitions), NEW S, S = Range(c.sameEndpointRho)
  PROVE  \A cell : cell \in Range(Coordinates("Same Endpoint, Different Timing", c)) <=> InGrid2(cell, P, S)
<1>1. Coordinates("Same Endpoint, Different Timing", c) = Plain(Pairs(c.partitions, c.sameEndpointRho))
  BY HandlersOfFigures, CoordinatesBy
<1> QED BY <1>1, PlainPairs, Zenon

LEMMA SameEndpointWhen ==
  ASSUME NEW c \in Configs, Loads(c)
  PROVE  FigureOneSameEndpoint(c) <=>
           /\ c.figureRho \in Range(c.sameEndpointRho)
           /\ \A law \in {TimedLaw, UntimedLaw} : Tau[law][c.finest] <= c.figureRho
<1>1. PICK P : P = Range(c.partitions)
  OBVIOUS
<1>2. PICK S : S = Range(c.sameEndpointRho)
  OBVIOUS
<1>3. PICK rho : rho = c.figureRho
  OBVIOUS
<1>4. PICK cells : cells = Range(Coordinates("Same Endpoint, Different Timing", c))
  OBVIOUS
<1>5. PICK selected : selected = {cell \in cells : cell.at[2] = rho}
  OBVIOUS
<1>6. WellTyped(c) /\ rho \in Int /\ c.finest \in P
  BY <1>1, <1>3, ConfigsAssumption, FinestIsPartition DEF WellTyped
<1>7. \A cell : cell \in cells <=> InGrid2(cell, P, S)
  BY <1>1, <1>2, <1>4, SameEndpointIs
<1>8. ASSUME NEW cell \in selected PROVE cell.at[1] \in P /\ rho \in S
  <2>1. cell \in cells /\ cell.at[2] = rho
    BY <1>5
  <2>2. PICK x \in P, y \in S : cell = Cell(<<x, y>>)
    BY <1>7, <2>1, Zenon DEF InGrid2
  <2>3. cell.at[1] = x /\ cell.at[2] = y
    BY <2>2 DEF Cell
  <2> QED BY <2>1, <2>2, <2>3, Zenon
<1>9. ASSUME rho \in S, NEW b \in P PROVE \E cell \in selected : cell.at[1] = b
  <2>1. PICK cell : cell = Cell(<<b, rho>>)
    OBVIOUS
  <2>2. cell.at[1] = b /\ cell.at[2] = rho
    BY <2>1 DEF Cell
  <2>3. cell \in cells
    BY <1>7, <1>9, <2>1, Zenon DEF InGrid2
  <2>4. cell \in selected
    BY <1>5, <2>2, <2>3
  <2> QED BY <2>2, <2>4
<1> DEFINE shown == {cell.at[1] : cell \in selected}
<1>10. FigureOneSameEndpoint(c) <=>
         shown = P /\ \A cell \in selected, law \in {TimedLaw, UntimedLaw} : Compatible(law, cell.at[1], rho)
  BY <1>1, <1>3, <1>4, <1>5, Zenon DEF FigureOneSameEndpoint
<1>11. shown = P <=> rho \in S
  <2>1. ASSUME shown = P PROVE rho \in S
    <3>1. c.finest \in shown
      <4> HIDE DEF shown
      <4> QED BY <1>6, <2>1
    <3>2. \E cell \in selected : TRUE
      BY <3>1
    <3> QED BY <1>8, <3>2
  <2>2. ASSUME rho \in S PROVE shown = P
    <3>1. \A b \in shown : b \in P
      BY <1>8
    <3>2. \A b \in P : b \in shown
      BY <1>9, <2>2
    <3> HIDE DEF shown
    <3> QED BY <3>1, <3>2
  <2> QED BY <2>1, <2>2
<1>12. ASSUME rho \in S
       PROVE  (\A cell \in selected, law \in {TimedLaw, UntimedLaw} : Compatible(law, cell.at[1], rho))
                <=> \A law \in {TimedLaw, UntimedLaw} : Tau[law][c.finest] <= rho
  <2>1. (\A cell \in selected, law \in {TimedLaw, UntimedLaw} : Compatible(law, cell.at[1], rho))
          <=> \A law \in {TimedLaw, UntimedLaw}, b \in P : Compatible(law, b, rho)
    BY <1>8, <1>9, <1>12, Zenon
  <2>2. \A law \in {TimedLaw, UntimedLaw} : law \in Laws
    BY FiguresAssumption
  <2>3. \A law \in {TimedLaw, UntimedLaw} :
          (\A b \in P : Compatible(law, b, rho)) <=> Tau[law][c.finest] <= rho
    BY <1>1, <1>6, <2>2, CompatibleThroughout
  <2> QED BY <2>1, <2>3, Zenon
<1> HIDE DEF shown
<1> QED BY <1>2, <1>3, <1>10, <1>11, <1>12, Zenon

\* the table of the timing gains,
LEMMA TimingTableWhen ==
  ASSUME NEW c, DOMAIN Coordinates("Strict Timing Gain", c) # {}
  PROVE  TimingTable(c) <=>
           \A i \in DOMAIN c.timingCases : {c.timingCases[i].fine, c.timingCases[i].coarse} \subseteq Range(c.partitions)
<1>1. PICK cells : cells = Plain(TimingPairs(c))
  OBVIOUS
<1>2. Coordinates("Strict Timing Gain", c) = cells
  BY <1>1, HandlersOfNamed, CoordinatesBy
<1>3. PICK P : P = Range(c.partitions)
  OBVIOUS
<1>4. PICK s : s = c.timingCases
  OBVIOUS
<1>5. ASSUME NEW i \in DOMAIN cells
      PROVE  i[1] \in DOMAIN s /\ cells[i].at[1][2] = s[i[1]].fine /\ cells[i].at[1][3] = s[i[1]].coarse
  <2>1. i[1] \in DOMAIN s /\ cells[i].at[1] = TimingPairOf(s[i[1]])
    BY <1>1, <1>4, TimingCellAt, Zenon
  <2>2. ASSUME NEW x PROVE TimingPairOf(x)[2] = x.fine /\ TimingPairOf(x)[3] = x.coarse
    BY DEF TimingPairOf
  <2> QED BY <2>1, <2>2, Zenon
<1>6. ASSUME NEW k \in DOMAIN s PROVE \E i \in DOMAIN cells : i[1] = k
  <2>1. PICK j \in DOMAIN cells : TRUE
    BY <1>2
  <2>2. j[2] \in DOMAIN c.timingOffsets
    BY <1>1, <2>1, TimingCellAt
  <2>3. DOMAIN cells = (DOMAIN s) \X (DOMAIN c.timingOffsets)
    BY <1>1, <1>4 DEF Plain, TimingPairs, Pairs
  <2>4. <<k, j[2]>> \in DOMAIN cells
    BY <2>2, <2>3
  <2>5. <<k, j[2]>>[1] = k
    OBVIOUS
  <2> QED BY <2>4, <2>5, Zenon
<1>7. TimingTable(c) <=> \A cell \in Range(cells) : {cell.at[1][2], cell.at[1][3]} \subseteq P
  BY <1>2, <1>3, Zenon DEF TimingTable
<1>8. (\A cell \in Range(cells) : {cell.at[1][2], cell.at[1][3]} \subseteq P)
        <=> \A i \in DOMAIN cells : {cells[i].at[1][2], cells[i].at[1][3]} \subseteq P
  <2>1. \A cell : cell \in Range(cells) <=> \E i \in DOMAIN cells : cell = cells[i]
    BY DEF Range
  <2> DEFINE Held(cell) == {cell.at[1][2], cell.at[1][3]} \subseteq P
  <2> HIDE DEF Held
  <2>2. (\A cell \in Range(cells) : Held(cell)) <=> \A i \in DOMAIN cells : Held(cells[i])
    BY <2>1
  <2> QED BY <2>2, Zenon DEF Held
<1>9. (\A i \in DOMAIN cells : {cells[i].at[1][2], cells[i].at[1][3]} \subseteq P)
        <=> \A k \in DOMAIN s : {s[k].fine, s[k].coarse} \subseteq P
  <2>1. \A i \in DOMAIN cells : {cells[i].at[1][2], cells[i].at[1][3]} = {s[i[1]].fine, s[i[1]].coarse}
    BY <1>5, Zenon
  <2>2. \A i \in DOMAIN cells : i[1] \in DOMAIN s
    BY <1>5, Zenon
  <2>3. ASSUME \A i \in DOMAIN cells : {cells[i].at[1][2], cells[i].at[1][3]} \subseteq P, NEW k \in DOMAIN s
        PROVE  {s[k].fine, s[k].coarse} \subseteq P
    <3>1. PICK i \in DOMAIN cells : i[1] = k
      BY <1>6
    <3> QED BY <2>1, <2>3, <3>1, Zenon
  <2>4. ASSUME \A k \in DOMAIN s : {s[k].fine, s[k].coarse} \subseteq P, NEW i \in DOMAIN cells
        PROVE  {cells[i].at[1][2], cells[i].at[1][3]} \subseteq P
    BY <2>1, <2>2, <2>4, Zenon
  <2> QED BY <2>3, <2>4, Zenon
<1> QED BY <1>3, <1>4, <1>7, <1>8, <1>9, Zenon

\* (a set of at most one cell has one if it has that cell)
LEMMA AtMostOne == ASSUME NEW S, NEW x, S \subseteq {x} PROVE Cardinality(S) = 1 <=> x \in S
<1>1. CASE S = {}
  BY <1>1, FS_EmptySet
<1>2. CASE S = {x}
  BY <1>2, FS_Singleton
<1> QED BY <1>1, <1>2

\* the third figure,
LEMMA FigureThreeWhen ==
  ASSUME NEW c, WellTyped(c), Loads(c)
  PROVE  FigureThree(c) <=> ProfileLaw \in Range(c.utilityLaws) /\ c.information \in Range(PopulationRho(c))
<1>1. PICK U : U = Range(c.utilityLaws)
  OBVIOUS
<1>2. PICK P : P = Range(c.partitions)
  OBVIOUS
<1>3. PICK R : R = Range(PopulationRho(c))
  OBVIOUS
<1>4. PICK point : point = <<ProfileLaw, c.finest, c.information>>
  OBVIOUS
<1>5. PICK cells : cells = Population(c)
  OBVIOUS
<1>6. \A cell : cell \in cells <=> InGrid3(cell, U, P, R)
  BY <1>1, <1>2, <1>3, <1>5, PopulationIs, Zenon
<1>7. PICK shown : shown = {cell \in cells : cell.at = point}
  OBVIOUS
<1>8. FigureThree(c) <=> Cardinality(shown) = 1
  BY <1>4, <1>5, <1>7, Zenon DEF FigureThree
<1>9. \A at : Cell(at).at = at
  BY DEF Cell
<1>10. shown \subseteq {Cell(point)}
  <2>1. ASSUME NEW cell \in shown PROVE cell = Cell(point)
    <3>1. cell \in cells /\ cell.at = point
      BY <1>7
    <3>2. PICK x \in U, y \in P, z \in R : cell = Cell(<<x, y, z>>)
      BY <1>6, <3>1, Zenon DEF InGrid3
    <3> QED BY <1>9, <3>1, <3>2, Zenon
  <2> QED BY <2>1
<1>11. Cell(point) \in shown <=> InGrid3(Cell(point), U, P, R)
  <2>1. Cell(point) \in shown <=> Cell(point) \in cells /\ Cell(point).at = point
    BY <1>7
  <2> QED BY <1>6, <1>9, <2>1, Zenon
<1>12. InGrid3(Cell(point), U, P, R) <=> ProfileLaw \in U /\ c.information \in R
  <2>1. c.finest \in P
    BY <1>2, FinestIsPartition
  <2>2. ASSUME InGrid3(Cell(point), U, P, R) PROVE ProfileLaw \in U /\ c.information \in R
    <3>1. PICK x \in U, y \in P, z \in R : Cell(point) = Cell(<<x, y, z>>)
      BY <2>2, Zenon DEF InGrid3
    <3>2. <<ProfileLaw, c.finest, c.information>> = <<x, y, z>>
      BY <1>4, <1>9, <3>1, Zenon
    <3>3. ProfileLaw = x /\ c.information = z
      BY <3>2
    <3> QED BY <3>1, <3>3
  <2>3. ASSUME ProfileLaw \in U, c.information \in R PROVE InGrid3(Cell(point), U, P, R)
    BY <1>4, <2>1, <2>3, Zenon DEF InGrid3
  <2> QED BY <2>2, <2>3
<1> QED BY <1>1, <1>3, <1>8, <1>10, <1>11, <1>12, AtMostOne

\* and the fourth.
LEMMA FigureFourWhen ==
  ASSUME NEW c, WellTyped(c), Loads(c)
  PROVE  FigureFour(c) <=> \E i \in DOMAIN c.scenarios :
           c.scenarios[i].name.text = c.figureScenario /\ c.finest \in Range(c.scenarios[i].bands)
<1>1. PICK s : s = c.scenarios
  OBVIOUS
<1>2. PICK d : d = [n \in DOMAIN s |-> s[n].bands]
  OBVIOUS
<1>3. PICK cells : cells = NamedCells(s, d)
  OBVIOUS
<1>4. Coordinates("Anytime Certification Power", c) = cells
  <2>1. Coordinates("Anytime Certification Power", c) =
          NamedCells(c.scenarios, [n \in DOMAIN c.scenarios |-> c.scenarios[n].bands])
    BY HandlersOfNamed, CoordinatesBy
  <2> QED BY <1>1, <1>2, <1>3, <2>1
<1>5. PICK text : text = c.figureScenario
  OBVIOUS
<1>6. PICK f : f = c.finest
  OBVIOUS
<1>7. Distinct(Texts(s)) /\ text \in Range(Texts(s))
  BY <1>1, <1>5 DEF Loads, PowerHolds, ScenarioNamesDistinct
<1>8. PICK n \in DOMAIN s : s[n].name.text = text
  BY <1>7 DEF Texts, Range
<1>9. \A m \in DOMAIN s : s[m].name.text = text => m = n
  BY <1>7, <1>8 DEF Distinct, IsInjective, Texts
<1>10. PICK point : point = [at |-> <<s[n].law, f>>, name |-> s[n].name]
  OBVIOUS
<1>11. PICK shown : shown = {cell \in Range(cells) : cell.name.text = text /\ cell.at[2] = f}
  OBVIOUS
<1>12. FigureFour(c) <=> Cardinality(shown) = 1
  BY <1>4, <1>5, <1>6, <1>11, Zenon DEF FigureFour
<1>13. ASSUME NEW i \in DOMAIN cells
       PROVE  /\ i[1] \in DOMAIN s /\ i[2] \in DOMAIN d[i[1]]
              /\ cells[i] = [at |-> <<s[i[1]].law, d[i[1]][i[2]]>>, name |-> s[i[1]].name]
  <2>1. i \in DOMAIN Nest(d) /\ cells[i] = [at |-> <<s[i[1]].law, Nest(d)[i][2]>>, name |-> s[i[1]].name]
    BY <1>3 DEF NamedCells
  <2>2. i[1] \in DOMAIN d /\ i[2] \in DOMAIN d[i[1]] /\ Nest(d)[i] = <<i[1], d[i[1]][i[2]]>>
    BY <2>1, NestPositions
  <2>3. Nest(d)[i][2] = d[i[1]][i[2]]
    BY <2>2
  <2>4. i[1] \in DOMAIN s
    BY <1>2, <2>2
  <2> QED BY <2>1, <2>2, <2>3, <2>4, Zenon
<1>14. shown \subseteq {point}
  <2>1. ASSUME NEW cell \in shown PROVE cell = point
    <3>1. cell \in Range(cells) /\ cell.name.text = text /\ cell.at[2] = f
      BY <1>11
    <3>2. PICK i \in DOMAIN cells : cell = cells[i]
      BY <3>1 DEF Range
    <3>3. PICK law : law = s[i[1]].law
      OBVIOUS
    <3>4. PICK band : band = d[i[1]][i[2]]
      OBVIOUS
    <3>5. PICK name : name = s[i[1]].name
      OBVIOUS
    <3>6. cell = [at |-> <<law, band>>, name |-> name]
      BY <1>13, <3>2, <3>3, <3>4, <3>5, Zenon
    <3>7. cell.name = name /\ cell.at[2] = band
      BY <3>6
    <3>8. i[1] = n
      BY <1>9, <1>13, <3>1, <3>5, <3>7, Zenon
    <3>9. band = f
      BY <3>1, <3>7, Zenon
    <3> QED BY <1>10, <3>3, <3>5, <3>6, <3>8, <3>9, Zenon
  <2> QED BY <2>1
<1>15. point \in shown <=> f \in Range(s[n].bands)
  <2>1. d[n] = s[n].bands
    BY <1>2
  <2>2. ASSUME f \in Range(s[n].bands) PROVE point \in shown
    <3>1. PICK k \in DOMAIN d[n] : d[n][k] = f
      BY <2>1, <2>2 DEF Range
    <3>2. <<n, k>> \in DOMAIN cells
      <4>1. n \in DOMAIN d
        BY <1>2
      <4>2. <<n, k>> \in DOMAIN Nest(d)
        BY <4>1 DEF Nest
      <4> QED BY <1>3, <4>2 DEF NamedCells
    <3>3. PICK i \in DOMAIN cells : i = <<n, k>>
      BY <3>2
    <3>4. i[1] = n /\ i[2] = k
      BY <3>3
    <3>5. cells[i] = point
      BY <1>10, <1>13, <3>1, <3>4, Zenon
    <3>6. point \in Range(cells)
      BY <3>5 DEF Range
    <3>7. point.name = s[n].name /\ point.at[2] = f
      BY <1>10
    <3> QED BY <1>8, <1>11, <3>6, <3>7
  <2>3. ASSUME point \in shown PROVE f \in Range(s[n].bands)
    <3>1. point \in Range(cells)
      BY <1>11, <2>3
    <3>2. PICK i \in DOMAIN cells : point = cells[i]
      BY <3>1 DEF Range
    <3>3. PICK band : band = d[i[1]][i[2]]
      OBVIOUS
    <3>4. PICK name : name = s[i[1]].name
      OBVIOUS
    <3>5. PICK law : law = s[i[1]].law
      OBVIOUS
    <3>6. point = [at |-> <<law, band>>, name |-> name]
      BY <1>13, <3>2, <3>3, <3>4, <3>5, Zenon
    <3>7. point.name = name /\ point.at[2] = band
      BY <3>6
    <3>8. point.name = s[n].name /\ point.at[2] = f
      BY <1>10
    <3>9. i[1] = n
      BY <1>8, <1>9, <1>13, <3>4, <3>7, <3>8, Zenon
    <3>10. i[2] \in DOMAIN d[n] /\ d[n][i[2]] = f
      BY <1>13, <3>3, <3>7, <3>8, <3>9, Zenon
    <3> QED BY <2>1, <3>10 DEF Range
  <2> QED BY <2>2, <2>3
<1>16. (\E i \in DOMAIN s : s[i].name.text = text /\ f \in Range(s[i].bands)) <=> f \in Range(s[n].bands)
  BY <1>8, <1>9, Zenon
<1>17. FigureFour(c) <=> \E i \in DOMAIN s : s[i].name.text = text /\ f \in Range(s[i].bands)
  <2>1. Cardinality(shown) = 1 <=> point \in shown
    BY <1>14, AtMostOne
  <2> QED BY <1>12, <1>15, <1>16, <2>1, Zenon
<1> QED BY <1>1, <1>5, <1>6, <1>17, Zenon

\* The figure of the refinement, whose cells sweep the configured grid,
LEMMA RefinementFigureWhen ==
  ASSUME NEW c, WellTyped(c), Loads(c)
  PROVE  RefinementFigure(c) <=> c.figureRho \in Range(c.rho)
<1>1. PICK f : f = RealTrajectoryCells(c)
  OBVIOUS
<1>2. Coordinates("Real-Trajectory Validation", c) = f
  BY <1>1, HandlersOfFigures, CoordinatesBy
<1>3. 1 \in DOMAIN c.partitions
  <2>1. c.partitions \in Seq(Bands) /\ c.partitions # <<>>
    BY DEF WellTyped, Loads, GridsHold
  <2> QED BY <2>1
<1>4. 1 \in DOMAIN c.horizons
  <2>1. c.horizons \in Seq(Nat) /\ c.horizons # <<>>
    BY DEF WellTyped
  <2> QED BY <2>1
<1>5. PICK i : i = <<"pooled", 1, 1>>
  OBVIOUS
<1>6. i \in DOMAIN f
  BY <1>1, <1>3, <1>4, <1>5 DEF RealTrajectoryCells
<1>7. f[i].at[1] = "pooled" /\ f[i].at[4] = c.horizons[1]
  BY <1>1, <1>5, <1>6 DEF RealTrajectoryCells
<1>8. f[i] \in Range(f)
  BY <1>6 DEF Range
<1> QED BY <1>2, <1>7, <1>8, Zenon DEF RefinementFigure

\* (the last of increasing numbers is the largest)
LEMMA LastIsLargest ==
  ASSUME NEW s \in Seq(Int), Increasing(s), NEW x \in Range(s)
  PROVE  Last(s) \in Range(s) /\ x <= Last(s)
<1>1. PICK i \in 1..Len(s) : s[i] = x
  BY DEF Range
<1>2. Len(s) \in 1..Len(s) /\ Last(s) = s[Len(s)]
  BY <1>1 DEF Last
<1>3. s[i] <= s[Len(s)]
  <2>1. CASE i = Len(s)
    BY <1>1, <2>1
  <2>2. CASE i < Len(s)
    BY <1>1, <1>2, <2>2, IncreasingOrders, \A k \in 1..Len(s) : s[k] \in Int
  <2> QED BY <1>1, <2>1, <2>2
<1> QED BY <1>1, <1>2, <1>3 DEF Range

LEMMA WithinLarger ==
  ASSUME NEW t \in Int, NEW f \in Int, NEW o \in Nat, NEW m \in Nat, o <= m
  PROVE  (t <= t + o /\ f <= t + o => f <= t + m) /\ t <= t + m
OBVIOUS

\* the one of the foreign information, of the largest offset,
LEMMA ForeignFigureWhen ==
  ASSUME NEW c \in Configs, Loads(c), DOMAIN Coordinates("Foreign-Information Negative Control", c) # {}
  PROVE  ForeignFigure(c) <=>
           \E law \in Laws, bands \in Range(c.partitions) :
             ForeignTau[law][bands] <= Tau[law][bands] + Last(c.oracleOffsets)
<1>1. PICK P : P = Range(c.partitions)
  OBVIOUS
<1>2. PICK s : s = c.oracleOffsets
  OBVIOUS
<1>3. PICK cells : cells = Plain(Triples(OrderedLaws, c.partitions, s))
  OBVIOUS
<1>4. Coordinates("Foreign-Information Negative Control", c) = cells
  BY <1>2, <1>3, HandlersOfFigures, CoordinatesBy
<1>5. \A cell : cell \in Range(cells) <=> InGrid3(cell, Laws, P, Range(s))
  <2>1. Laws = Range(OrderedLaws)
    BY DEF Laws
  <2> QED BY <1>1, <1>3, <2>1, PlainTriples
<1>6. s \in Seq(Nat) /\ s \in Seq(Int) /\ Increasing(s)
  <2>1. WellTyped(c)
    BY ConfigsAssumption
  <2>2. c.oracleOffsets \in Seq(Nat)
    BY <2>1 DEF WellTyped
  <2>3. Increasing(c.oracleOffsets)
    BY DEF Loads, StudyDesignHolds
  <2> QED BY <1>2, <2>2, <2>3, NaturalSequence
<1>7. PICK largest : largest = Last(s)
  OBVIOUS
<1>8. largest \in Range(s) /\ \A o \in Range(s) : o \in Nat /\ o <= largest
  <2>1. PICK i \in DOMAIN cells : TRUE
    BY <1>4
  <2>2. cells[i] \in Range(cells)
    BY DEF Range
  <2>3. \E o \in Range(s) : TRUE
    BY <1>5, <2>2, Zenon DEF InGrid3
  <2>4. \A o \in Range(s) : o \in Nat
    BY <1>6, OfSequence
  <2>5. \A o \in Range(s) : Last(s) \in Range(s) /\ o <= Last(s)
    BY <1>6, LastIsLargest
  <2> QED BY <1>7, <2>3, <2>4, <2>5
<1>9. \A law \in Laws, b \in P : Tau[law][b] \in Int /\ ForeignTau[law][b] \in Int
  <2> SUFFICES ASSUME NEW law \in Laws, NEW b \in P PROVE Tau[law][b] \in Int /\ ForeignTau[law][b] \in Int
    OBVIOUS
  <2>1. b \in DOMAIN Tau[law]
    BY <1>1, TauAssumption, Zenon
  <2>2. Tau[law][b] \in Int
    BY <2>1, TauAssumption, Zenon
  <2>3. ForeignTau[law][b] \in Int
    BY <1>1, ForeignAssumption, Zenon
  <2> QED BY <2>2, <2>3
<1> DEFINE Known(law, b, o) == Tau[law][b] <= Tau[law][b] + o /\ ForeignTau[law][b] <= Tau[law][b] + o
<1>10. ForeignFigure(c) <=> \E cell \in Range(cells) : Known(cell.at[1], cell.at[2], cell.at[3])
  BY <1>4, Zenon DEF ForeignFigure, Compatible
<1>11. ASSUME NEW law \in Laws, NEW b \in P, NEW o \in Range(s)
       PROVE  /\ Known(law, b, o) => ForeignTau[law][b] <= Tau[law][b] + largest
              /\ ForeignTau[law][b] <= Tau[law][b] + largest => Known(law, b, largest)
  <2>1. PICK t \in Int : t = Tau[law][b]
    BY <1>9
  <2>2. PICK f \in Int : f = ForeignTau[law][b]
    BY <1>9
  <2>3. o \in Nat /\ largest \in Nat /\ o <= largest
    BY <1>8
  <2>4. (t <= t + o /\ f <= t + o => f <= t + largest) /\ t <= t + largest
    BY <2>3, WithinLarger
  <2> QED BY <2>1, <2>2, <2>4
<1> HIDE DEF Known
<1>13. (\E cell \in Range(cells) : Known(cell.at[1], cell.at[2], cell.at[3])) <=>
         \E law \in Laws, b \in P, o \in Range(s) : Known(law, b, o)
  <2>1. ASSUME NEW cell \in Range(cells), Known(cell.at[1], cell.at[2], cell.at[3])
        PROVE  \E law \in Laws, b \in P, o \in Range(s) : Known(law, b, o)
    <3>1. PICK law \in Laws, b \in P, o \in Range(s) : cell = Cell(<<law, b, o>>)
      BY <1>5, Zenon DEF InGrid3
    <3>2. cell.at[1] = law /\ cell.at[2] = b /\ cell.at[3] = o
      BY <3>1 DEF Cell
    <3>3. Known(law, b, o)
      BY <2>1, <3>2
    <3> QED BY <3>3
  <2>2. ASSUME NEW law \in Laws, NEW b \in P, NEW o \in Range(s), Known(law, b, o)
        PROVE  \E cell \in Range(cells) : Known(cell.at[1], cell.at[2], cell.at[3])
    <3>1. Cell(<<law, b, o>>) \in Range(cells)
      BY <1>5, Zenon DEF InGrid3
    <3>2. PICK cell \in Range(cells) : cell = Cell(<<law, b, o>>)
      BY <3>1
    <3>3. cell.at[1] = law /\ cell.at[2] = b /\ cell.at[3] = o
      BY <3>2 DEF Cell
    <3>4. Known(cell.at[1], cell.at[2], cell.at[3])
      BY <2>2, <3>3
    <3> QED BY <3>4
  <2> QED BY <2>1, <2>2
<1>14. (\E law \in Laws, b \in P, o \in Range(s) : Known(law, b, o)) <=>
         \E law \in Laws, b \in P : ForeignTau[law][b] <= Tau[law][b] + largest
  BY <1>8, <1>11, Zenon
<1> QED BY <1>1, <1>2, <1>7, <1>10, <1>13, <1>14, Zenon

\* the table of the decisions,
LEMMA DecisionTableWhen ==
  ASSUME NEW c, WellTyped(c), DOMAIN Coordinates("Trajectory Decision Value", c) # {}
  PROVE  DecisionTable(c) <=> c.decisionBudgets # <<>>
<1>1. PICK s : s = c.decisionBudgets
  OBVIOUS
<1>2. PICK cells : cells = Coordinates("Trajectory Decision Value", c)
  OBVIOUS
<1>3. \E cell : cell \in Range(cells)
  BY <1>2 DEF Range
<1>4. Range(s) # {} <=> s # <<>>
  <2>1. s \in Seq(Int)
    BY <1>1 DEF WellTyped
  <2>2. DOMAIN s # {} <=> s # <<>>
    BY <2>1, NonemptySequence
  <2>3. Range(s) # {} <=> DOMAIN s # {}
    BY DEF Range
  <2> QED BY <2>2, <2>3
<1>5. DecisionTable(c) <=> Range(cells) \X Range(s) # {}
  BY <1>1, <1>2, Zenon DEF DecisionTable
<1>6. PICK X : X = Range(cells)
  OBVIOUS
<1>7. PICK Y : Y = Range(s)
  OBVIOUS
<1>8. X \X Y # {} <=> Y # {}
  <2>1. PICK x \in X : TRUE
    BY <1>3, <1>6
  <2>2. ASSUME NEW y \in Y PROVE <<x, y>> \in X \X Y
    BY <2>1
  <2>3. ASSUME NEW z \in X \X Y PROVE z[2] \in Y
    OBVIOUS
  <2> QED BY <2>2, <2>3
<1> QED BY <1>1, <1>4, <1>5, <1>6, <1>7, <1>8, Zenon

\* and the paths of the fourth figure.
LEMMA PathFigureWhen ==
  ASSUME NEW c, WellTyped(c)
  PROVE  PathFigure(c) <=> (Range(c.representative) \intersect 0..(c.streams - 1)) \ c.emptied # {}
<1>1. PICK R : R = Range(c.representative)
  OBVIOUS
<1>2. PICK n \in Nat : n = c.streams
  BY DEF WellTyped
<1>3. \A stream \in R : stream \in Nat
  <2>1. PICK s : s = c.representative
    OBVIOUS
  <2>2. s \in Seq(Nat)
    BY <2>1 DEF WellTyped
  <2> QED BY <1>1, <2>1, <2>2 DEF Range
<1>4. \A stream \in R : stream \in 0..(n - 1) <=> stream < n
  BY <1>3
<1> QED BY <1>1, <1>2, <1>4, Zenon DEF PathFigure

\* What is completed joins exactly if the configuration keeps the contract of the figures.
LEMMA JoinsWhen ==
  ASSUME NEW c \in Configs, Loads(c), DOMAIN Coordinates("Strict Timing Gain", c) # {},
         DOMAIN Coordinates("Foreign-Information Negative Control", c) # {},
         DOMAIN Coordinates("Trajectory Decision Value", c) # {}
  PROVE  EvidenceJoins(c) <=> FigureContract(c)
<1>1. WellTyped(c)
  BY ConfigsAssumption
<1>2. PICK R : R = Range(PopulationRho(c))
  OBVIOUS
<1>3. R = Range(c.rho) \union {Log2}
  BY <1>1, <1>2, PopulationRhoRange
<1>4. FigureOnePopulation(c) <=>
        /\ FigureLaws \subseteq Range(c.utilityLaws) /\ c.figureRho \in R
        /\ \A law \in FigureLaws : Tau[law][c.finest] <= c.figureRho
  BY <1>2, FigureOneWhen
<1>5. FigureOneSameEndpoint(c) <=>
        /\ c.figureRho \in Range(c.sameEndpointRho)
        /\ \A law \in {TimedLaw, UntimedLaw} : Tau[law][c.finest] <= c.figureRho
  BY SameEndpointWhen
<1>6. TimingTable(c) <=>
        \A i \in DOMAIN c.timingCases : {c.timingCases[i].fine, c.timingCases[i].coarse} \subseteq Range(c.partitions)
  BY TimingTableWhen
<1>7. FigureThree(c) <=> ProfileLaw \in Range(c.utilityLaws) /\ c.information \in R
  BY <1>1, <1>2, FigureThreeWhen
<1>8. FigureFour(c) <=> \E i \in DOMAIN c.scenarios :
        c.scenarios[i].name.text = c.figureScenario /\ c.finest \in Range(c.scenarios[i].bands)
  BY <1>1, FigureFourWhen
<1>9. EvidenceJoins(c) <=>
        /\ FigureOnePopulation(c) /\ FigureOneSameEndpoint(c)
        /\ TimingTable(c) /\ FigureThree(c) /\ FigureFour(c)
        /\ PathFigure(c) /\ RefinementFigure(c) /\ ForeignFigure(c)
        /\ DecisionTable(c) /\ DecisionTimeFigure(c)
  BY DEF EvidenceJoins
<1>10. FigureLaws \union {ProfileLaw} \subseteq Range(c.utilityLaws) <=>
         FigureLaws \subseteq Range(c.utilityLaws) /\ ProfileLaw \in Range(c.utilityLaws)
  OBVIOUS
<1>11. /\ c.information \in Range(c.rho) \union {Log2} <=> c.information \in R
       /\ c.figureRho \in Range(c.rho) => c.figureRho \in R
       /\ c.figureRho \in Range(c.rho) \intersect Range(c.sameEndpointRho) <=>
            c.figureRho \in Range(c.rho) /\ c.figureRho \in Range(c.sameEndpointRho)
  BY <1>3
<1>12. (\A law \in FigureLaws \union {TimedLaw, UntimedLaw} : Tau[law][c.finest] <= c.figureRho) <=>
         /\ \A law \in FigureLaws : Tau[law][c.finest] <= c.figureRho
         /\ \A law \in {TimedLaw, UntimedLaw} : Tau[law][c.finest] <= c.figureRho
  OBVIOUS
<1>13. RefinementFigure(c) <=> c.figureRho \in Range(c.rho)
  BY <1>1, RefinementFigureWhen
<1>14. ForeignFigure(c) <=>
         \E law \in Laws, bands \in Range(c.partitions) :
           ForeignTau[law][bands] <= Tau[law][bands] + Last(c.oracleOffsets)
  BY ForeignFigureWhen
<1>15. DecisionTable(c) <=> c.decisionBudgets # <<>>
  BY <1>1, DecisionTableWhen
<1>16. PathFigure(c) <=> (Range(c.representative) \intersect 0..(c.streams - 1)) \ c.emptied # {}
  BY <1>1, PathFigureWhen
<1>17. DecisionTimeFigure(c) <=> c.cohort = BOOLEAN
  BY DEF DecisionTimeFigure
<1> QED BY <1>4, <1>5, <1>6, <1>7, <1>8, <1>9, <1>10, <1>11, <1>12, <1>13, <1>14, <1>15, <1>16, <1>17, Zenon DEF FigureContract

\* A study that is completed is published exactly if its configuration keeps the contract of
\* the figures.
THEOREM PublishedUnderContract == CampaignSpec => []PublishedUnderFigureContract
<1>0. 17 \in 1..30 /\ 25 \in 1..30 /\ 28 \in 1..30 /\ 30 \in 1..30
  OBVIOUS
<1>1. StudyInv /\ GateInv => PublishedUnderFigureContract
  <2> SUFFICES ASSUME StudyInv, GateInv, outcome \in {"published", "refused"}
               PROVE  (outcome = "published") <=> FigureContract(config)
    BY DEF PublishedUnderFigureContract
  <2>1. /\ stage \in {"run", "over"}
        /\ \A e \in Experiments \ {Synthesis} : Sound(e, config)
        /\ outcome = "published" <=> EvidenceJoins(config)
    BY DEF GateInv, Judged
  <2>2. config \in Configs /\ Loads(config)
    BY <2>1 DEF StudyInv
  <2>3. ASSUME NEW e \in {"Strict Timing Gain", "Foreign-Information Negative Control", "Trajectory Decision Value"}
        PROVE  DOMAIN Coordinates(e, config) # {}
    <3>2. /\ NameAt(17) = "Strict Timing Gain" /\ NameAt(28) = "Foreign-Information Negative Control"
          /\ NameAt(25) = "Trajectory Decision Value" /\ NameAt(30) = "Statistical Synthesis"
      BY CatalogNames
    <3>3. e \in Experiments /\ e # Synthesis
      BY <1>0, <3>2, NameIsExperiment, CatalogEnds
    <3> QED BY <2>1, <3>3, Zenon DEF Sound
  <2> QED BY <2>1, <2>2, <2>3, JoinsWhen
<1> QED BY <1>1, StudyInvHolds, GateInvHolds, PTL
================================================================================
