-------------------------- MODULE ExperimentPipeline --------------------------
(***************************************************************************)
(* The experiments of the catalog and the commands that run them            *)
(* (experiments/workflows.py, plan.py, status.py, synthesis.py).  The root  *)
(* experiment gates every other one, and the synthesis is gated by them all.*)
(* A command loads its configuration and inspects its dependencies once,    *)
(* when it starts, and then takes for every cell a context from the files   *)
(* that are there, the lock file among them.  It runs its cells one after   *)
(* the other, or hands them to a pool whose workers load the configuration  *)
(* again.  One command runs at a time.  What a cell does file by file is    *)
(* module CellRunner; here an attempt leaves its result, then its index,    *)
(* then its completion.                                                     *)
(***************************************************************************)
EXTENDS Integers, FiniteSets, TLC

CONSTANTS
    Experiment,       \* names in the catalog
    Root,             \* EXPERIMENT_CATALOG[0]
    Synthesis,        \* Statistical Synthesis
    CellsOf,          \* CellsOf[e]: the cells planned for experiment e
    Specs,            \* values of the configuration
    Locks,            \* values of requirements.lock
    Salts,            \* what two executions of a cell may differ in
    NoFile,
    MaxDisturbances,  \* bound: failures, crashes, lost files and commands with --overwrite
    MaxEdits          \* bound: changes of the configuration or the lock file

ASSUME RootAndSynthesis == Root \in Experiment /\ Synthesis \in Experiment /\ Root # Synthesis
ASSUME CellsAreOfOneExperiment ==
    /\ \A e \in Experiment : CellsOf[e] # {} /\ IsFiniteSet(CellsOf[e])
    /\ \A d, e \in Experiment : d # e => CellsOf[d] \cap CellsOf[e] = {}
\* _coordinates_statistical_synthesis
ASSUME SynthesisIsOneCell ==
    \A c \in CellsOf[Synthesis] : CellsOf[Synthesis] = {c}

Cell == UNION {CellsOf[e] : e \in Experiment}
Upstream == Cell \ CellsOf[Synthesis]
ExperimentOf(c) == CHOOSE e \in Experiment : c \in CellsOf[e]

\* _required_experiments
Required(e) ==
    CASE e = Root -> {}
      [] e = Synthesis -> Experiment \ {Synthesis}
      [] OTHER -> {Root}

\* What the files hold.  A result of an ordinary cell has used none; a fingerprint
\* names the indexes of the parents that have one; that of the synthesis, for which
\* every upstream cell must be readable, their completions too.
Salt == UNION {Salts[c] : c \in Cell}
OrdinaryResult == [spec : Specs, salt : Salt, used : {{}}]
OrdinaryContext ==
    [spec : Specs, lock : Locks, parents : SUBSET (Upstream \X OrdinaryResult)]
OrdinaryCompletion == [spec : Specs, fp : OrdinaryContext, sum : OrdinaryResult]
SynthesisResult ==
    [spec : Specs, salt : Salt, used : SUBSET (Upstream \X OrdinaryResult)]
SynthesisContext ==
    [spec : {NoFile}, parents : SUBSET (Upstream \X OrdinaryCompletion \X OrdinaryResult)]
SynthesisCompletion == [spec : Specs, fp : SynthesisContext, sum : SynthesisResult]

Results(c) == IF c \in CellsOf[Synthesis] THEN SynthesisResult ELSE OrdinaryResult
Contexts(c) == IF c \in CellsOf[Synthesis] THEN SynthesisContext ELSE OrdinaryContext
Completions(c) == IF c \in CellsOf[Synthesis] THEN SynthesisCompletion ELSE OrdinaryCompletion
Failures(c) == [fp : Contexts(c), state : {"INVALID", "FAILED"}]

ASSUME NoFileAssumption ==
    /\ NoFile \notin Cell
    /\ \A c \in Cell : NoFile \notin Results(c) \cup Completions(c) \cup Failures(c)

VARIABLES
    config,      \* the configuration now in the workspace
    lock,        \* requirements.lock
    completion,  \* completion records
    index,       \* artifact indexes
    result,      \* scientific results; of the synthesis cell, its source data
    running,     \* running markers
    failure,     \* failure records
    pc,          \* "idle" or "busy"
    cmd,         \* the command under way: experiment, overwrite, pooled, spec, ready
    todo,        \* cells it has taken no context for
    at,          \* of a cell of the command: "none", or the step it comes to next
    ctx,         \* its dependency fingerprint
    loaded,      \* the configuration its executor sees
    tally,       \* outcomes counted so far
    reply,       \* what the last command reported
    lost,        \* history: a file was lost since the command began
    relocked,    \* history: the lock file was edited since the command began
    strayed,     \* history: a worker has loaded another configuration than its command
    disturbances,
    edits

disk == <<completion, index, result, running, failure>>
cells == <<at, ctx, loaded>>
bounds == <<disturbances, edits>>
vars == <<config, lock, disk, pc, cmd, todo, cells, tally, reply, lost, relocked,
          strayed, bounds>>

-----------------------------------------------------------------------------
(* Fingerprints: what a cell's context depends on.                         *)

\* cell_dependency_material, with the digest that _environment_digest takes of the
\* lock file each time; a parent without an index is left out.
OrdinaryFingerprint(c, s) ==
    LET parents == UNION {CellsOf[e] : e \in Required(ExperimentOf(c))}
    IN [spec |-> s, lock |-> lock,
        parents |-> {<<p, index[p]>> : p \in {q \in parents : index[q] # NoFile}}]

\* Mutant: it names the cells and not what they hold.
FingerprintOfCells ==
    [spec |-> NoFile, parents |-> {<<p, NoFile, NoFile>> : p \in Upstream}]

\* synthesis_dependency_fingerprint: it names no configuration of its own.
SynthesisFingerprint ==
    [spec |-> NoFile, parents |-> {<<p, completion[p], index[p]>> : p \in Upstream}]

Fingerprint(c, s) ==
    IF c \in CellsOf[Synthesis] THEN SynthesisFingerprint ELSE OrdinaryFingerprint(c, s)

\* read_model of an upstream record raises SerializationError ...
UpstreamReadable == \A p \in Upstream : completion[p] # NoFile /\ index[p] # NoFile

\* ... and verified_upstream_completion_and_index InvalidScientificDataError.
UpstreamVerified ==
    \A p \in Upstream : completion[p].sum = index[p] /\ result[p] = index[p]

ContextOf(c) ==
    CASE c \notin CellsOf[Synthesis] -> "available"
      [] c \in CellsOf[Synthesis] /\ ~UpstreamReadable -> "raises"
      [] OTHER -> IF UpstreamVerified THEN "available" ELSE "invalid"

\* completion_is_compatible
Compatible(c, s, fp) ==
    /\ completion[c] # NoFile
    /\ completion[c].spec = s
    /\ completion[c].fp = fp
    /\ index[c] = completion[c].sum
    /\ result[c] = completion[c].sum

-----------------------------------------------------------------------------
(* Status: _current_cell_status, inspect_cell_status and the aggregation.  *)

InspectedState(c, s) ==
    LET fp == Fingerprint(c, s)
    IN CASE completion[c] # NoFile -> IF Compatible(c, s, fp) THEN "COMPLETED" ELSE "BLOCKED"
         [] completion[c] = NoFile /\ running[c] -> "RUNNING"
         [] OTHER -> IF failure[c] # NoFile /\ failure[c].fp = fp
                     THEN failure[c].state ELSE "READY"

\* "RAISES": the error leaves the status command.
CellState(c, s, ready) ==
    CASE ~ready -> "BLOCKED"
      [] ready /\ ContextOf(c) = "raises" -> "RAISES"
      [] ready /\ ContextOf(c) = "invalid" -> "BLOCKED"
      [] OTHER -> InspectedState(c, s)

\* _aggregate_state: the first of these that applies.
Aggregate(states) ==
    LET found == {states[c] : c \in DOMAIN states}
    IN IF "RAISES" \in found THEN "RAISES"
       ELSE IF found = {"INVALID"} THEN "INVALID"
       ELSE IF "FAILED" \in found THEN "FAILED"
       ELSE IF "RUNNING" \in found THEN "RUNNING"
       ELSE IF "BLOCKED" \in found THEN "BLOCKED"
       ELSE IF found \subseteq {"COMPLETED", "INVALID"} THEN "COMPLETED"
       ELSE "READY"

ExperimentState(name, s) ==
    LET state[e \in Experiment] ==
            LET ready == \A d \in Required(e) : state[d] = "COMPLETED"
            IN Aggregate([c \in CellsOf[e] |-> CellState(c, s, ready)])
    IN state[name]

-----------------------------------------------------------------------------
NoCommand ==
    [exp |-> NoFile, overwrite |-> FALSE, pooled |-> FALSE, spec |-> NoFile, ready |-> FALSE]
NoneCounted == [o \in {"COMPLETED", "FAILED", "BLOCKED"} |-> 0]
NoneAt == [c \in Cell |-> "none"]
NoneOf == [c \in Cell |-> NoFile]

Init ==
    /\ config \in Specs
    /\ lock \in Locks
    /\ completion = NoneOf
    /\ index = NoneOf
    /\ result = NoneOf
    /\ running = [c \in Cell |-> FALSE]
    /\ failure = NoneOf
    /\ pc = "idle"
    /\ cmd = NoCommand
    /\ todo = {}
    /\ at = NoneAt
    /\ ctx = NoneOf
    /\ loaded = NoneOf
    /\ tally = NoneCounted
    /\ reply = "NONE"
    /\ lost = FALSE
    /\ relocked = FALSE
    /\ strayed = FALSE
    /\ disturbances = 0
    /\ edits = 0

-----------------------------------------------------------------------------
(* A command: run_experiment.                                              *)

Disturb ==
    /\ disturbances < MaxDisturbances
    /\ disturbances' = disturbances + 1
    /\ UNCHANGED edits

Workspace == UNCHANGED <<config, lock, lost, relocked>>
Undisturbed == Workspace /\ UNCHANGED bounds

\* The command returns, or raises, and its process and its workers are gone.
Leave(with) ==
    /\ pc' = "idle"
    /\ reply' = with
    /\ cmd' = NoCommand
    /\ todo' = {}
    /\ at' = NoneAt
    /\ ctx' = NoneOf
    /\ loaded' = NoneOf
    /\ tally' = NoneCounted
    /\ UNCHANGED <<disk, strayed>>

\* Mutant: the dependencies of a command have run, whatever came of it.
StartUngated(e, ow, pooled) ==
    /\ pc = "idle"
    /\ pooled => e # Synthesis
    /\ IF ow THEN Disturb ELSE UNCHANGED bounds
    /\ pc' = "busy"
    /\ cmd' = [exp |-> e, overwrite |-> ow, pooled |-> pooled, spec |-> config,
               ready |-> \A d \in Required(e) : ExperimentState(d, config) # "READY"]
    /\ todo' = CellsOf[e]
    /\ tally' = NoneCounted
    /\ reply' = "NONE"
    /\ lost' = FALSE /\ relocked' = FALSE
    /\ UNCHANGED <<config, lock, disk, cells, strayed>>

\* The plan, the configuration and the state of the dependencies are taken here,
\* once; the cells are run under them however long that takes.  The synthesis, and a
\* command with one worker or with batches, keeps its cells to itself.
StartCommand(e, ow, pooled) ==
    /\ pc = "idle"
    /\ pooled => e # Synthesis
    /\ IF ow THEN Disturb ELSE UNCHANGED bounds
    /\ pc' = "busy"
    /\ cmd' = [exp |-> e, overwrite |-> ow, pooled |-> pooled, spec |-> config,
               ready |-> \A d \in Required(e) : ExperimentState(d, config) = "COMPLETED"]
    /\ todo' = CellsOf[e]
    /\ tally' = NoneCounted
    /\ reply' = "NONE"
    /\ lost' = FALSE /\ relocked' = FALSE
    /\ UNCHANGED <<config, lock, disk, cells, strayed>>

\* It is a cell's turn: in the command itself when no other is under way, in a pool
\* while the earlier ones are waiting or at work.
Turn(c) ==
    /\ pc = "busy" /\ c \in todo
    /\ ~cmd.pooled => at = NoneAt

\* What a cell's context needs of its upstream cells is not there: the error leaves
\* the command before run_cell could report the cell as blocked.
ContextRaises(c) ==
    /\ Turn(c)
    /\ ContextOf(c) # "available"
    /\ Leave("RAISED")
    /\ Undisturbed

\* _execution_context: the configuration is the command's, the lock file and the
\* parents are what is there now.
TakeContext(c) ==
    /\ Turn(c)
    /\ ContextOf(c) = "available"
    /\ todo' = todo \ {c}
    /\ at' = [at EXCEPT ![c] = IF cmd.pooled THEN "submitted" ELSE "called"]
    /\ ctx' = [ctx EXCEPT ![c] = Fingerprint(c, cmd.spec)]
    /\ loaded' = [loaded EXCEPT ![c] = cmd.spec]
    /\ UNCHANGED <<disk, pc, cmd, tally, reply, strayed>>
    /\ Undisturbed

\* _run_cell_worker loads the configuration that is there by now.
WorkerLoadsConfig(c) ==
    /\ at[c] = "submitted"
    /\ at' = [at EXCEPT ![c] = "called"]
    /\ loaded' = [loaded EXCEPT ![c] = config]
    /\ strayed' = (strayed \/ config # cmd.spec)
    /\ UNCHANGED <<disk, pc, cmd, todo, ctx, tally, reply>>
    /\ Undisturbed

\* _tally_outcome: INVALID is counted nowhere.
Count(o) == IF o \in DOMAIN tally THEN [tally EXCEPT ![o] = @ + 1] ELSE tally

\* run_cell has returned an outcome for the cell.
Return(c, outcome) ==
    /\ tally' = Count(outcome)
    /\ at' = [at EXCEPT ![c] = "none"]
    /\ ctx' = [ctx EXCEPT ![c] = NoFile]
    /\ loaded' = [loaded EXCEPT ![c] = NoFile]
    /\ UNCHANGED <<pc, cmd, todo, reply, strayed>>

\* Mutant: a stale completion blocks its cell, as it does in the status.
BlockStaleCell(c) ==
    /\ at[c] = "called"
    /\ \/ ~cmd.ready
       \/ completion[c] # NoFile /\ ~Compatible(c, cmd.spec, ctx[c])
    /\ Return(c, "BLOCKED")
    /\ UNCHANGED disk
    /\ Undisturbed

\* run_cell returns at once: the dependencies were not completed ...
BlockCell(c) ==
    /\ at[c] = "called"
    /\ ~cmd.ready
    /\ Return(c, "BLOCKED")
    /\ UNCHANGED disk
    /\ Undisturbed

\* ... or a compatible completion is there.
ReuseCell(c) ==
    /\ at[c] = "called"
    /\ cmd.ready /\ ~cmd.overwrite
    /\ Compatible(c, cmd.spec, ctx[c])
    /\ Return(c, "COMPLETED")
    /\ UNCHANGED disk
    /\ Undisturbed

BeginCell(c) ==
    /\ at[c] = "called"
    /\ cmd.ready
    /\ cmd.overwrite \/ ~Compatible(c, cmd.spec, ctx[c])
    /\ completion' = [completion EXCEPT ![c] = NoFile]
    /\ failure' = [failure EXCEPT ![c] = NoFile]
    /\ running' = [running EXCEPT ![c] = TRUE]
    /\ at' = [at EXCEPT ![c] = "result"]
    /\ UNCHANGED <<index, result, pc, cmd, todo, ctx, loaded, tally, reply, strayed>>
    /\ Undisturbed

\* An ordinary cell computes from the configuration its process has loaded; the
\* synthesis reads the results of every other cell after it has found them to be
\* those of its context.
Computed(c, salt) ==
    [spec |-> loaded[c], salt |-> salt,
     used |-> IF c \in CellsOf[Synthesis] THEN {<<p, result[p]>> : p \in Upstream} ELSE {}]

WriteResult(c) ==
    /\ at[c] = "result"
    /\ c \in CellsOf[Synthesis] =>
        /\ UpstreamReadable /\ UpstreamVerified
        /\ SynthesisFingerprint = ctx[c]
    /\ \E salt \in Salts[c] : result' = [result EXCEPT ![c] = Computed(c, salt)]
    /\ at' = [at EXCEPT ![c] = "index"]
    /\ UNCHANGED <<completion, index, running, failure, pc, cmd, todo, ctx, loaded, tally,
                   reply, strayed>>
    /\ Undisturbed

WriteIndex(c) ==
    /\ at[c] = "index"
    /\ index' = [index EXCEPT ![c] = result[c]]
    /\ at' = [at EXCEPT ![c] = "completion"]
    /\ UNCHANGED <<completion, result, running, failure, pc, cmd, todo, ctx, loaded, tally,
                   reply, strayed>>
    /\ Undisturbed

WriteCompletion(c) ==
    /\ at[c] = "completion"
    /\ completion' = [completion EXCEPT ![c] =
            [spec |-> cmd.spec, fp |-> ctx[c], sum |-> result[c]]]
    /\ running' = [running EXCEPT ![c] = FALSE]
    /\ Return(c, "COMPLETED")
    /\ UNCHANGED <<index, result, failure>>
    /\ Undisturbed

\* Mutant: the marker is left when a cell fails.
EndCellLeavingMarker(c, state) ==
    /\ failure' = [failure EXCEPT ![c] = [fp |-> ctx[c], state |-> state]]
    /\ completion' = [completion EXCEPT ![c] = NoFile]
    /\ Return(c, state)
    /\ UNCHANGED <<index, result, running>>
    /\ Workspace

\* The handlers of run_cell.
EndCell(c, state) ==
    /\ failure' = [failure EXCEPT ![c] = [fp |-> ctx[c], state |-> state]]
    /\ completion' = [completion EXCEPT ![c] = NoFile]
    /\ running' = [running EXCEPT ![c] = FALSE]
    /\ Return(c, state)
    /\ UNCHANGED <<index, result>>
    /\ Workspace

\* The executor, or a write, raises.
FailCell(c) ==
    /\ Disturb
    /\ \/ at[c] = "result" /\ EndCell(c, "INVALID")
       \/ at[c] \in {"result", "index", "completion"} /\ EndCell(c, "FAILED")

\* The evidence the synthesis would read is no longer that of its context.
RejectCell(c) ==
    /\ at[c] = "result" /\ c \in CellsOf[Synthesis]
    /\ \/ ~UpstreamReadable /\ EndCell(c, "FAILED")
       \/ /\ UpstreamReadable
          /\ ~UpstreamVerified \/ SynthesisFingerprint # ctx[c]
          /\ EndCell(c, "INVALID")
    /\ UNCHANGED bounds

\* _run_state
Reply ==
    CASE tally["FAILED"] > 0 -> "FAILED"
      [] tally["FAILED"] = 0 /\ tally["BLOCKED"] > 0 -> "BLOCKED"
      [] OTHER -> IF tally["COMPLETED"] = Cardinality(CellsOf[cmd.exp])
                  THEN "COMPLETED" ELSE "READY"

EndCommand ==
    /\ pc = "busy" /\ todo = {} /\ at = NoneAt
    /\ Leave(Reply)
    /\ Undisturbed

-----------------------------------------------------------------------------
(* What goes wrong.                                                        *)

Crash ==
    /\ pc # "idle"
    /\ Disturb
    /\ Leave("KILLED")
    /\ Workspace

\* A file of a cell that is not being written is lost (for the others see CellRunner).
LoseFile(c) ==
    /\ at[c] \in {"none", "submitted", "called"}
    /\ Disturb
    /\ lost' = TRUE
    /\ \/ /\ completion[c] # NoFile
          /\ completion' = [completion EXCEPT ![c] = NoFile]
          /\ UNCHANGED <<index, result>>
       \/ /\ index[c] # NoFile
          /\ index' = [index EXCEPT ![c] = NoFile]
          /\ UNCHANGED <<completion, result>>
       \/ /\ result[c] # NoFile
          /\ result' = [result EXCEPT ![c] = NoFile]
          /\ UNCHANGED <<completion, index>>
    /\ UNCHANGED <<config, lock, running, failure, pc, cmd, todo, cells, tally, reply,
                   relocked, strayed>>

Edit ==
    /\ edits < MaxEdits
    /\ edits' = edits + 1
    /\ UNCHANGED <<disk, pc, cmd, todo, cells, tally, reply, lost, strayed, disturbances>>

EditConfig ==
    /\ Edit
    /\ config' \in Specs \ {config}
    /\ UNCHANGED <<lock, relocked>>

EditLock ==
    /\ Edit
    /\ lock' \in Locks \ {lock}
    /\ relocked' = TRUE
    /\ UNCHANGED config

-----------------------------------------------------------------------------
CellStep(c) ==
    \/ ContextRaises(c)
    \/ TakeContext(c)
    \/ WorkerLoadsConfig(c)
    \/ BlockCell(c)
    \/ ReuseCell(c)
    \/ BeginCell(c)
    \/ WriteResult(c)
    \/ WriteIndex(c)
    \/ WriteCompletion(c)
    \/ RejectCell(c)

CommandStep == (\E c \in Cell : CellStep(c)) \/ EndCommand

Next ==
    \/ \E e \in Experiment, ow, pooled \in BOOLEAN : StartCommand(e, ow, pooled)
    \/ CommandStep
    \/ \E c \in Cell : FailCell(c) \/ LoseFile(c)
    \/ Crash
    \/ EditConfig
    \/ EditLock

Spec == Init /\ [][Next]_vars

\* A command that lives goes on, as does its pool, and the operator comes back to each
\* of the experiments, in whatever order, without --overwrite.
Fairness ==
    /\ WF_vars(CommandStep)
    /\ \A e \in Experiment : SF_vars(\E pooled \in BOOLEAN : StartCommand(e, FALSE, pooled))

LiveSpec == Spec /\ Fairness

-----------------------------------------------------------------------------
(* Properties.                                                             *)

\* The type invariant; a cell has a step exactly while the command is at it, and the
\* files it has written so far are there.
TypeOK ==
    /\ config \in Specs /\ lock \in Locks
    /\ DOMAIN completion = Cell /\ DOMAIN index = Cell /\ DOMAIN result = Cell
    /\ DOMAIN failure = Cell /\ DOMAIN ctx = Cell /\ DOMAIN loaded = Cell
    /\ \A c \in Cell :
        /\ completion[c] \in Completions(c) \cup {NoFile}
        /\ index[c] \in Results(c) \cup {NoFile}
        /\ result[c] \in Results(c) \cup {NoFile}
        /\ failure[c] \in Failures(c) \cup {NoFile}
        /\ at[c] # "none" =>
            /\ pc = "busy" /\ c \in CellsOf[cmd.exp] \ todo
            /\ ctx[c] \in Contexts(c) /\ loaded[c] \in Specs
        /\ at[c] \in {"result", "index", "completion"} =>
            running[c] /\ completion[c] = NoFile /\ failure[c] = NoFile
        /\ at[c] \in {"index", "completion"} => result[c] # NoFile
        /\ at[c] = "completion" => index[c] # NoFile
    /\ running \in [Cell -> BOOLEAN]
    /\ at \in [Cell -> {"none", "submitted", "called", "result", "index", "completion"}]
    /\ pc \in {"idle", "busy"}
    /\ pc = "busy" =>
        /\ cmd \in [exp : Experiment, overwrite : BOOLEAN, pooled : BOOLEAN, spec : Specs,
                    ready : BOOLEAN]
        /\ todo \subseteq CellsOf[cmd.exp]
    /\ strayed \in BOOLEAN /\ lost \in BOOLEAN /\ relocked \in BOOLEAN
    /\ reply \in {"NONE", "COMPLETED", "FAILED", "BLOCKED", "READY", "RAISED", "KILLED"}

Vouched(c) ==
    /\ completion[c] # NoFile
    /\ index[c] = completion[c].sum
    /\ result[c] = completion[c].sum

\* A synthesis that is vouched for rests on results that were all recorded under the
\* configuration it is recorded under itself, whatever was edited, recomputed or lost
\* between the runs it draws on (synthesis.py, 132 to 155 and 788 to 829).  They were
\* also computed from it, unless a pool worker has ever loaded another configuration
\* than its command (workflows.py, 552 and 576).
SynthesisOfOneConfiguration ==
    \A c \in CellsOf[Synthesis] : Vouched(c) =>
        /\ result[c].used = {<<parent[1], parent[3]>> : parent \in completion[c].fp.parents}
        /\ \A parent \in completion[c].fp.parents :
            /\ parent[2].spec = completion[c].spec
            /\ parent[2].sum = parent[3]
        /\ ~strayed => \A use \in result[c].used : use[2].spec = completion[c].spec

\* A synthesis that is reported completed was computed from the results that are
\* there now, and each of them is valid under the configuration and the lock file that
\* are there now.
SynthesisIsCurrent ==
    ExperimentState(Synthesis, config) = "COMPLETED" =>
        /\ \A c \in CellsOf[Synthesis] : result[c].used = {<<p, result[p]>> : p \in Upstream}
        /\ \A p \in Upstream : Compatible(p, config, Fingerprint(p, config))

\* What a run reports of an experiment is what the status command reports next, unless
\* files were lost or the lock file was edited while it ran: neither older records, nor
\* markers, nor the gate say otherwise.  A lock file edited to and fro leaves cells of
\* both locks, and the run reports them as completed (workflows.py, 721).  READY is left
\* out: a run of cells that are all invalid reports it where the status reports COMPLETED.
RunAgreesWithStatus ==
    [][/\ pc # "idle" /\ pc' = "idle" /\ cmd.spec = config /\ ~lost /\ ~relocked
       /\ reply' \in {"COMPLETED", "FAILED", "BLOCKED"}
       => ExperimentState(cmd.exp, config) = reply']_vars

\* Whatever failed, crashed, was lost or was edited, coming back to the experiments
\* gets the synthesis completed for the configuration and the lock file that are then
\* there.
EventuallySynthesised ==
    []<>(ExperimentState(Synthesis, config) = "COMPLETED")
=============================================================================
