------------------------------- MODULE ReportTree -------------------------------
(***************************************************************************)
(* What is published under results/ (reporting/export.py) and what it is    *)
(* published from.  A run of the synthesis registers its source data and    *)
(* then renders them, owner by owner, under outputs/; a report copies what  *)
(* is rendered into a staged tree and lets it take the place of the one     *)
(* that is there: the whole of results/, or the tree of one owner in it.    *)
(* The synthesis is the owner of project_summary, an experiment of its own  *)
(* directory.  One command runs at a time, and may be killed at any call.   *)
(***************************************************************************)
EXTENDS Naturals

CONSTANTS
    NoTree,
    Partial,      \* a tree some files of which have been removed
    MaxVersions,  \* bound: times the synthesis is computed
    MaxMishaps    \* bound: kills and errors

Owner == {"summary", "experiment"}
Selection == Owner \cup {"all"}

VARIABLES
    source,      \* the version of the registered source data; 0: none yet
    rendered,    \* the version each owner's rendered files are of
    results,     \* results/: the tree of each owner, and the backup beside it
    rootBackup,  \* the backup of results/
    pc,
    todo,        \* owners the synthesis has still to render
    job,         \* the report under way
    reply,       \* of the last command
    settled,     \* history: a synthesis command has ended since the source changed
    published,   \* history: owners of which a tree has been exported
    mishaps

trees == <<results, rootBackup>>
evidence == <<source, rendered, todo, settled>>
vars == <<evidence, trees, pc, job, reply, published, mishaps>>

\* What is exported of an owner, and results/ with the trees and the backups in it.
Rendered == [Owner -> Nat] \cup [{"summary"} -> Nat] \cup [{"experiment"} -> Nat]
OwnerTree == [source : Nat, render : Rendered]
ResultsTree ==
    [tree : [Owner -> OwnerTree \cup {NoTree}],
     backup : [Owner -> OwnerTree \cup {NoTree, Partial}]]

ASSUME Sentinels ==
    /\ NoTree # Partial
    /\ \A none \in {NoTree, Partial} : none \notin OwnerTree \cup ResultsTree

\* The tree of an owner, with the rendered files of some owners in it: that of the
\* whole report copies the manuscript's files of every owner into project_summary.
Tree(owners) == [source |-> source, render |-> [o \in owners |-> rendered[o]]]

NoBackups == [o \in Owner |-> NoTree]
Empty == [tree |-> NoBackups, backup |-> NoBackups]

Staged(what) ==
    IF what = "all"
    THEN [tree |-> [o \in Owner |-> IF o = "summary" THEN Tree(Owner) ELSE Tree({o})],
          backup |-> NoBackups]
    ELSE Tree({what})

Target(what) ==
    CASE what = "all" -> results
      [] OTHER -> IF results = NoTree THEN NoTree ELSE results.tree[what]

Backup(what) ==
    CASE what = "all" -> rootBackup
      [] OTHER -> IF results = NoTree THEN NoTree ELSE results.backup[what]

Put(what, target, backup) ==
    IF what = "all"
    THEN results' = target /\ rootBackup' = backup
    ELSE /\ results' = [tree |-> [results.tree EXCEPT ![what] = target],
                        backup |-> [results.backup EXCEPT ![what] = backup]]
         /\ UNCHANGED rootBackup

\* A backup in results/ is no publication root, one among the experiments passes for
\* an experiment.
LayoutValid == results = NoTree \/ results.backup["summary"] = NoTree

NoJob == [what |-> "none", overwrite |-> FALSE, staged |-> NoTree, old |-> NoTree]

Init ==
    /\ source = 0
    /\ rendered = [o \in Owner |-> 0]
    /\ results = NoTree
    /\ rootBackup = NoTree
    /\ pc = "idle"
    /\ todo = {}
    /\ job = NoJob
    /\ reply = "none"
    /\ settled = FALSE
    /\ published = {}
    /\ mishaps = 0

Mishap ==
    /\ mishaps < MaxMishaps
    /\ mishaps' = mishaps + 1

Leave(with) ==
    /\ pc' = "idle"
    /\ reply' = with
    /\ job' = NoJob

-----------------------------------------------------------------------------
(* run "Statistical Synthesis"                                             *)

\* Mutant: what was rendered before is not rendered again.
RenderNewOnly(new) ==
    /\ pc = "idle"
    /\ IF new THEN source < MaxVersions /\ source' = source + 1
              ELSE source > 0 /\ UNCHANGED source
    /\ pc' = "render"
    /\ todo' = IF new THEN Owner ELSE {}
    /\ settled' = (settled /\ ~new)
    /\ UNCHANGED <<rendered, trees, job, reply, published, mishaps>>

\* The cell is computed, or reused (module ExperimentPipeline); rendered it is in
\* either case.
StartSynthesis(new) ==
    /\ pc = "idle"
    /\ IF new THEN source < MaxVersions /\ source' = source + 1
              ELSE source > 0 /\ UNCHANGED source
    /\ pc' = "render"
    /\ todo' = Owner
    /\ settled' = (settled /\ ~new)
    /\ UNCHANGED <<rendered, trees, job, reply, published, mishaps>>

Render(o) ==
    /\ pc = "render" /\ o \in todo
    /\ rendered' = [rendered EXCEPT ![o] = source]
    /\ todo' = todo \ {o}
    /\ UNCHANGED <<source, settled, trees, pc, job, reply, published, mishaps>>

EndSynthesis ==
    /\ pc = "render" /\ todo = {}
    /\ Leave("completed")
    /\ settled' = TRUE
    /\ UNCHANGED <<source, rendered, todo, trees, published, mishaps>>

-----------------------------------------------------------------------------
(* report [experiment] [--overwrite]                                       *)

\* require_synthesis_completion: every upstream cell and the synthesis are completed
\* (module ExperimentPipeline), which registers the source data.
SynthesisCompleted == source > 0

\* Without source data, or with one of its rendered files missing, it raises and
\* changes nothing.
BeginReport(what, overwrite) ==
    /\ pc = "idle"
    /\ SynthesisCompleted
    /\ \A o \in Owner : what \in {o, "all"} => rendered[o] > 0
    /\ pc' = "compare"
    /\ job' = [what |-> what, overwrite |-> overwrite, staged |-> Staged(what),
               old |-> Target(what)]
    /\ UNCHANGED <<evidence, trees, reply, published, mishaps>>

(* replace_tree *)

Same == Target(job.what) = job.staged

FindIdentical ==
    /\ pc = "compare" /\ Same
    /\ pc' = "validate"
    /\ UNCHANGED <<evidence, trees, job, reply, published, mishaps>>

Refuse ==
    /\ pc = "compare" /\ ~Same
    /\ Target(job.what) # NoTree /\ ~job.overwrite
    /\ Leave("raised")
    /\ UNCHANGED <<evidence, trees, published, mishaps>>

BeginReplacing ==
    /\ pc = "compare" /\ ~Same
    /\ Target(job.what) = NoTree \/ job.overwrite
    /\ results' = IF results = NoTree /\ job.what # "all" THEN Empty ELSE results
    /\ pc' = "discard"
    /\ UNCHANGED <<evidence, rootBackup, job, reply, published, mishaps>>

\* shutil.rmtree takes its time.
RemoveBackup(next) ==
    LET backup == Backup(job.what)
    IN /\ IF backup = NoTree THEN UNCHANGED trees
          ELSE Put(job.what, Target(job.what), IF backup = Partial THEN NoTree ELSE Partial)
       /\ pc' = IF backup = NoTree THEN next ELSE pc

\* Mutant: a backup that is there is not touched.
RefuseWithBackup ==
    /\ pc = "discard"
    /\ IF Backup(job.what) = NoTree
       THEN pc' = "moveAway" /\ UNCHANGED <<job, reply>>
       ELSE Leave("raised")
    /\ UNCHANGED <<evidence, trees, published, mishaps>>

Discard ==
    /\ pc = "discard"
    /\ RemoveBackup("moveAway")
    /\ UNCHANGED <<evidence, job, reply, published, mishaps>>

\* Mutant: the old tree is removed to make room.
RemoveTarget ==
    /\ pc = "moveAway"
    /\ Put(job.what, NoTree, NoTree)
    /\ pc' = "moveIn"
    /\ UNCHANGED <<evidence, job, reply, published, mishaps>>

MoveAway ==
    /\ pc = "moveAway"
    /\ Put(job.what, NoTree, Target(job.what))
    /\ pc' = "moveIn"
    /\ UNCHANGED <<evidence, job, reply, published, mishaps>>

MoveIn ==
    /\ pc = "moveIn"
    /\ Put(job.what, job.staged, Backup(job.what))
    /\ pc' = "cleanup"
    /\ UNCHANGED <<evidence, job, reply, published, mishaps>>

\* An OSError in either rename moves the backup back; if that fails too, it leaves
\* what a kill there leaves.
MoveFails ==
    /\ pc \in {"moveAway", "moveIn"}
    /\ Mishap
    /\ IF Backup(job.what) # NoTree /\ Target(job.what) = NoTree
       THEN Put(job.what, Backup(job.what), NoTree)
       ELSE UNCHANGED trees
    /\ Leave("raised")
    /\ UNCHANGED <<evidence, published>>

Cleanup ==
    /\ pc = "cleanup"
    /\ RemoveBackup("validate")
    /\ UNCHANGED <<evidence, job, reply, published, mishaps>>

\* rmtree raises: nothing restores what it has removed.
RemovalFails ==
    /\ pc \in {"discard", "cleanup"}
    /\ Backup(job.what) # NoTree
    /\ Mishap
    /\ Put(job.what, Target(job.what), Partial)
    /\ Leave("raised")
    /\ UNCHANGED <<evidence, published>>

Validate ==
    /\ pc = "validate"
    /\ Leave(IF LayoutValid THEN "exported" ELSE "raised")
    /\ published' = published \cup (IF job.what = "all" THEN Owner ELSE {job.what})
    /\ UNCHANGED <<evidence, trees, mishaps>>

\* The process is killed, or raises while it renders.
Kill ==
    /\ pc # "idle"
    /\ Mishap
    /\ Leave("killed")
    /\ todo' = {}
    /\ UNCHANGED <<source, rendered, settled, trees, published>>

-----------------------------------------------------------------------------
CommandStep ==
    \/ \E o \in Owner : Render(o)
    \/ EndSynthesis
    \/ FindIdentical
    \/ Refuse
    \/ BeginReplacing
    \/ Discard
    \/ MoveAway
    \/ MoveIn
    \/ Cleanup
    \/ Validate

Next ==
    \/ \E new \in BOOLEAN : StartSynthesis(new)
    \/ \E what \in Selection, overwrite \in BOOLEAN : BeginReport(what, overwrite)
    \/ CommandStep
    \/ MoveFails
    \/ RemovalFails
    \/ Kill

Spec == Init /\ [][Next]_vars

\* A command that lives goes on; the operator comes back to the synthesis and to the
\* whole report with --overwrite, whatever else is run in between.
Fairness ==
    /\ WF_vars(CommandStep)
    /\ SF_vars(StartSynthesis(FALSE))
    /\ WF_vars(\E new \in BOOLEAN : StartSynthesis(new))
    /\ SF_vars(BeginReport("all", TRUE))

LiveSpec == Spec /\ Fairness

-----------------------------------------------------------------------------
(* Properties.                                                             *)

\* A report that is exported, or found to be there, holds the files rendered from the
\* source data it names, once a synthesis command has ended since these changed.  A
\* synthesis killed after its completion and before its last file is rendered takes
\* that away: the report does not compare the files with their sources.
ExportedAsRendered ==
    [][/\ pc = "validate" /\ reply' = "exported" /\ settled
       => LET out == Target(job.what)
              parts == IF job.what = "all" THEN {out.tree[o] : o \in Owner} ELSE {out}
          IN \A part \in parts :
               /\ part.source = source
               /\ \A o \in DOMAIN part.render : part.render[o] = source]_vars

\* What an owner has had exported is in place or in a backup beside it, until a second
\* mishap: the next call removes the backup before it has anything to put in place.
ExportSurvivesOneMishap ==
    pc = "idle" /\ mishaps <= 1 =>
        \A o \in published :
            \E place \in {results, rootBackup} \ {NoTree, Partial} :
                place.tree[o] # NoTree \/ place.backup[o] \notin {NoTree, Partial}

\* Whatever was killed and whatever is left lying about, a whole report with
\* --overwrite gets the current evidence published.
EventuallyPublished ==
    []<>(pc = "idle" /\ reply = "exported" /\ results = Staged("all")
         /\ \A o \in Owner : rendered[o] = source)
=============================================================================
