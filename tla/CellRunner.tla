------------------------------ MODULE CellRunner ------------------------------
(***************************************************************************)
(* run_cell (experiments/runner.py) for one planned cell, one file          *)
(* operation per step: the completion record, the artifact index, the       *)
(* scientific artifacts, the running marker and the failure record on disk, *)
(* and the process that executes the cell.  The process may raise at any    *)
(* call, be interrupted or be killed; files may be damaged and the inputs   *)
(* edited at any time.  Every write is storage.atomic_replace, so a file is *)
(* seen whole or not at all (module AtomicReplace).                         *)
(***************************************************************************)
EXTENDS Naturals

CONSTANTS
    Inputs,           \* values of what a context's digests cover
    Salts,            \* what two executions under equal inputs may differ in
    NumArtifacts,     \* artifacts the cell must produce
    Modes,            \* subset of {"sequential", "parallel"}
    NoFile,           \* the file does not exist
    Damaged,          \* the file exists and cannot be read as what it should be
    MaxDisturbances,  \* bound: errors, interrupts, crashes, blocked gates, damage
    MaxEdits          \* bound: changes of the inputs

ASSUME NumArtifactsAssumption == NumArtifacts \in Nat \ {0}

Artifact == 1 .. NumArtifacts
Content == [inputs : Inputs, salt : Salts]
Sums == [Artifact -> Content]
CompletionRecord == [ctx : Inputs, sums : Sums]
FailureRecord == [ctx : Inputs, state : {"INVALID", "FAILED"}]

\* What a reader is told of the attempt under way (module PublishedResult).
Attempts == [named : Inputs, computed : Inputs, loads : BOOLEAN]

ASSUME ModesAssumption == Modes \subseteq {"sequential", "parallel"}
ASSUME NoFileAssumption ==
    NoFile \notin Content \cup Sums \cup CompletionRecord \cup FailureRecord \cup Attempts
ASSUME DamagedAssumption ==
    Damaged \notin Content \cup Sums \cup CompletionRecord \cup FailureRecord \cup {NoFile}

VARIABLES
    inputs,      \* configuration, lock and parent artifacts now in the workspace
    completion,  \* completion.json
    index,       \* artifact_index.json
    artifact,    \* the scientific artifacts
    running,     \* running.json exists
    failure,     \* failure.json
    pc,          \* where the runner is in run_cell; "idle": no process
    ctx,         \* ExecutionContext: the inputs its digests were taken from
    cfg,         \* the inputs the executor computes from
    pooled,      \* the cell was handed to a pool
    overwrite,   \* the --overwrite flag of this run
    produced,    \* CellExecutionResult.artifact_index as far as it is built
    outcome,     \* the outcome being returned, or of the last run
    tampered,    \* history: files were damaged since this run began
    disturbances,
    edits

disk == <<completion, index, artifact, running, failure>>
command == <<ctx, cfg, pooled, overwrite>>
proc == <<pc, command, produced, outcome>>
vars == <<inputs, disk, proc, tampered, disturbances, edits>>

\* Inside the try block of run_cell; its handlers; outside of both.
InTry == {"execute", "writeIndex", "writeCompletion", "dropFailure"}
InHandler == {"writeFailure", "retract"}
BeforeTry == {"queued", "gate", "clearFailure", "writeRunning"}
Outcomes == {"NONE", "COMPLETED", "REUSED", "BLOCKED", "INVALID", "FAILED",
             "RAISED", "KILLED"}

NothingProduced == [k \in Artifact |-> NoFile]

-----------------------------------------------------------------------------
\* Mutant's part: the completion is believed without a look at its artifacts.
CompatibleUnverified(c) ==
    /\ completion \in CompletionRecord
    /\ completion.ctx = c

\* completion_is_compatible: the record is readable and was written under the
\* same context, the index lists the checksums it lists, and the files have them.
Compatible(c) ==
    /\ completion \in CompletionRecord
    /\ completion.ctx = c
    /\ index = completion.sums
    /\ artifact = completion.sums

\* inspect_cell_status of a cell whose dependencies are ready.
DiskVerdict(c) ==
    CASE completion # NoFile -> IF Compatible(c) THEN "COMPLETED" ELSE "BLOCKED"
      [] completion = NoFile /\ running -> "RUNNING"
      [] completion = NoFile /\ ~running /\ failure = Damaged -> "FAILED"
      [] completion = NoFile /\ ~running /\ failure \in FailureRecord
           -> IF failure.ctx = c THEN failure.state ELSE "READY"
      [] OTHER -> "READY"

-----------------------------------------------------------------------------
Init ==
    /\ inputs \in Inputs
    /\ completion = NoFile
    /\ index = NoFile
    /\ artifact = NothingProduced
    /\ running = FALSE
    /\ failure = NoFile
    /\ pc = "idle"
    /\ ctx = inputs
    /\ cfg = inputs
    /\ pooled = FALSE
    /\ overwrite = FALSE
    /\ produced = NothingProduced
    /\ outcome = "NONE"
    /\ tampered = FALSE
    /\ disturbances = 0
    /\ edits = 0

Disturb ==
    /\ disturbances < MaxDisturbances
    /\ disturbances' = disturbances + 1

Undisturbed == UNCHANGED <<inputs, tampered, disturbances, edits>>

\* An exception inside the try block enters the handler that will report
\* "state"; one that is raised elsewhere, and an interrupt, leave run_cell.
RaiseInTry(state) ==
    /\ Disturb
    /\ pc' = "writeFailure"
    /\ outcome' = state

LeaveRaising ==
    /\ Disturb
    /\ pc' = IF pc \in InTry \cup InHandler THEN "finally" ELSE "idle"
    /\ outcome' = "RAISED"

Continue(next) ==
    /\ pc' = next
    /\ UNCHANGED <<outcome, disturbances>>

-----------------------------------------------------------------------------
(* The steps of the process that runs the cell.                            *)

\* A run command takes the cell's context.  Run in the same process, the cell
\* is executed with the configuration the context was built from; handed to a
\* pool, its worker loads the configuration again when it picks the cell up.
StartRun(ow) ==
    /\ pc = "idle"
    /\ ctx' = inputs
    /\ overwrite' = ow
    /\ produced' = NothingProduced
    /\ outcome' = "NONE"
    /\ tampered' = FALSE
    /\ \/ "sequential" \in Modes /\ pooled' = FALSE /\ pc' = "gate" /\ cfg' = inputs
       \/ "parallel" \in Modes /\ pooled' = TRUE /\ pc' = "queued" /\ UNCHANGED cfg
    /\ UNCHANGED <<inputs, disk, disturbances, edits>>

WorkerLoadsConfig ==
    /\ pc = "queued"
    /\ cfg' = inputs
    /\ pc' = "gate"
    /\ UNCHANGED <<inputs, disk, ctx, pooled, overwrite, produced, outcome, tampered,
                   disturbances, edits>>

Blocked ==
    /\ pc = "gate"
    /\ Disturb
    /\ pc' = "idle"
    /\ outcome' = "BLOCKED"
    /\ UNCHANGED <<inputs, disk, command, produced, tampered, edits>>

\* Mutant: a completion of this context is reused unverified.
ReuseUnverified ==
    /\ pc = "gate"
    /\ ~overwrite
    /\ CompatibleUnverified(ctx)
    /\ pc' = "idle"
    /\ outcome' = "REUSED"
    /\ UNCHANGED <<disk, command, produced>>
    /\ Undisturbed

Reuse ==
    /\ pc = "gate"
    /\ ~overwrite
    /\ Compatible(ctx)
    /\ pc' = "idle"
    /\ outcome' = "REUSED"
    /\ UNCHANGED <<disk, command, produced>>
    /\ Undisturbed

\* Mutant: the old completion stays until the new one replaces it.
KeepCompletion ==
    /\ pc = "gate"
    /\ overwrite \/ ~Compatible(ctx)
    /\ pc' = "clearFailure"
    /\ UNCHANGED <<disk, command, produced, outcome>>
    /\ Undisturbed

\* Mutant: whatever is there is recomputed.
WithdrawAnyCompletion ==
    /\ pc = "gate"
    /\ completion' = NoFile
    /\ pc' = "clearFailure"
    /\ UNCHANGED <<index, artifact, running, failure, command, produced, outcome>>
    /\ Undisturbed

WithdrawCompletion ==
    /\ pc = "gate"
    /\ overwrite \/ ~Compatible(ctx)
    /\ completion' = NoFile
    /\ pc' = "clearFailure"
    /\ UNCHANGED <<index, artifact, running, failure, command, produced, outcome>>
    /\ Undisturbed

ClearFailure ==
    /\ pc = "clearFailure"
    /\ failure' = NoFile
    /\ pc' = "writeRunning"
    /\ UNCHANGED <<completion, index, artifact, running, command, produced, outcome>>
    /\ Undisturbed

\* Outside the try block: an error after the marker is in place leaves it there.
WriteRunning ==
    /\ pc = "writeRunning"
    /\ running' = TRUE
    /\ Continue("execute") \/ LeaveRaising
    /\ UNCHANGED <<inputs, completion, index, artifact, failure, command,
                   produced, tampered, edits>>

\* Mutant: the configuration is read again for every artifact.
ExecutorReadsConfig(k) ==
    /\ pc = "execute"
    /\ produced[k] = NoFile
    /\ \A j \in 1 .. k - 1 : produced[j] # NoFile
    /\ \E s \in Salts :
        /\ artifact' = [artifact EXCEPT ![k] = [inputs |-> inputs, salt |-> s]]
        /\ produced' = [produced EXCEPT ![k] = [inputs |-> inputs, salt |-> s]]
    /\ Continue("execute") \/ RaiseInTry("FAILED")
    /\ UNCHANGED <<inputs, completion, index, running, failure, command, tampered, edits>>

\* The executor writes its artifacts one after another and collects their digests.
ExecutorWrites(k) ==
    /\ pc = "execute"
    /\ produced[k] = NoFile
    /\ \A j \in 1 .. k - 1 : produced[j] # NoFile
    /\ \E s \in Salts :
        /\ artifact' = [artifact EXCEPT ![k] = [inputs |-> cfg, salt |-> s]]
        /\ produced' = [produced EXCEPT ![k] = [inputs |-> cfg, salt |-> s]]
    /\ Continue("execute") \/ RaiseInTry("FAILED")
    /\ UNCHANGED <<inputs, completion, index, running, failure, command, tampered, edits>>

\* InvalidScientificDataError is the executor's alone; every other error fails.
ExecutorRaises ==
    /\ pc = "execute"
    /\ \E state \in {"INVALID", "FAILED"} : RaiseInTry(state)
    /\ UNCHANGED <<inputs, disk, command, produced, tampered, edits>>

\* validate_execution_result and verify_artifacts, on what the executor returned.
VerifyProduced ==
    /\ pc = "execute"
    /\ produced \in Sums
    /\ \/ /\ artifact = produced
          /\ Continue("writeIndex")
       \/ /\ artifact # produced
          /\ pc' = "writeFailure"
          /\ outcome' = "FAILED"
          /\ UNCHANGED disturbances
    /\ UNCHANGED <<inputs, disk, command, produced, tampered, edits>>

WriteIndex ==
    /\ pc = "writeIndex"
    /\ index' = produced
    /\ Continue("writeCompletion") \/ RaiseInTry("FAILED")
    /\ UNCHANGED <<inputs, completion, artifact, running, failure, command,
                   produced, tampered, edits>>

\* Mutant: the record names the inputs now in the workspace, not the context's.
CompletionOfCurrentInputs ==
    /\ pc = "writeCompletion"
    /\ completion' = [ctx |-> inputs, sums |-> produced]
    /\ Continue("dropFailure") \/ RaiseInTry("FAILED")
    /\ UNCHANGED <<inputs, index, artifact, running, failure, command,
                   produced, tampered, edits>>

\* write_completion_last; the write may raise once the record is in place.
WriteCompletion ==
    /\ pc = "writeCompletion"
    /\ completion' = [ctx |-> ctx, sums |-> produced]
    /\ Continue("dropFailure") \/ RaiseInTry("FAILED")
    /\ UNCHANGED <<inputs, index, artifact, running, failure, command,
                   produced, tampered, edits>>

DropFailure ==
    /\ pc = "dropFailure"
    /\ failure' = NoFile
    /\ pc' = "finally"
    /\ outcome' = "COMPLETED"
    /\ UNCHANGED <<completion, index, artifact, running, command, produced>>
    /\ Undisturbed

WriteFailure ==
    /\ pc = "writeFailure"
    /\ failure' = [ctx |-> ctx, state |-> outcome]
    /\ Continue("retract") \/ LeaveRaising
    /\ UNCHANGED <<inputs, completion, index, artifact, running, command,
                   produced, tampered, edits>>

\* Mutant: the handler reports the failure and leaves the completion alone.
KeepFailedCompletion ==
    /\ pc = "retract"
    /\ pc' = "finally"
    /\ UNCHANGED <<disk, command, produced, outcome>>
    /\ Undisturbed

RetractCompletion ==
    /\ pc = "retract"
    /\ completion' = NoFile
    /\ pc' = "finally"
    /\ UNCHANGED <<index, artifact, running, failure, command, produced, outcome>>
    /\ Undisturbed

\* The finally clause removes the running marker, and run_cell returns.
Finally ==
    /\ pc = "finally"
    /\ running' = FALSE
    /\ pc' = "idle"
    /\ UNCHANGED <<completion, index, artifact, failure, command, produced, outcome>>
    /\ Undisturbed

-----------------------------------------------------------------------------
(* What goes wrong.                                                        *)

\* A call inside the try block fails before it has any effect.
ErrorInTry ==
    /\ pc \in InTry \ {"execute"}
    /\ RaiseInTry("FAILED")
    /\ UNCHANGED <<inputs, disk, command, produced, tampered, edits>>

\* KeyboardInterrupt anywhere, or an error no except clause is there to catch.
Propagate ==
    /\ pc # "idle"
    /\ LeaveRaising
    /\ UNCHANGED <<inputs, disk, command, produced, tampered, edits>>

\* The process dies: nothing else of run_cell is executed.
Kill ==
    /\ pc # "idle"
    /\ Disturb
    /\ pc' = "idle"
    /\ outcome' = "KILLED"
    /\ UNCHANGED <<inputs, disk, command, produced, tampered, edits>>

\* A file is lost or corrupted by hand.
Damage ==
    /\ Disturb
    /\ tampered' = TRUE
    /\ \E bad \in {NoFile, Damaged} :
        \/ /\ completion # NoFile
           /\ completion' = bad
           /\ UNCHANGED <<index, artifact, running, failure>>
        \/ /\ index # NoFile
           /\ index' = bad
           /\ UNCHANGED <<completion, artifact, running, failure>>
        \/ /\ failure # NoFile
           /\ failure' = bad
           /\ UNCHANGED <<completion, index, artifact, running>>
        \/ \E k \in Artifact :
           /\ artifact[k] # NoFile
           /\ artifact' = [artifact EXCEPT ![k] = bad]
           /\ UNCHANGED <<completion, index, running, failure>>
    /\ UNCHANGED <<inputs, proc, edits>>

\* The configuration, the lock or an upstream artifact changes.
EditInputs ==
    /\ edits < MaxEdits
    /\ edits' = edits + 1
    /\ inputs' \in Inputs \ {inputs}
    /\ UNCHANGED <<disk, proc, tampered, disturbances>>

-----------------------------------------------------------------------------
RunnerStep ==
    \/ WorkerLoadsConfig
    \/ Reuse
    \/ WithdrawCompletion
    \/ ClearFailure
    \/ WriteRunning
    \/ \E k \in Artifact : ExecutorWrites(k)
    \/ VerifyProduced
    \/ WriteIndex
    \/ WriteCompletion
    \/ DropFailure
    \/ WriteFailure
    \/ RetractCompletion
    \/ Finally

Environment ==
    \/ Blocked
    \/ ExecutorRaises
    \/ ErrorInTry
    \/ Propagate
    \/ Kill
    \/ Damage
    \/ EditInputs

Next ==
    \/ \E ow \in BOOLEAN : StartRun(ow)
    \/ RunnerStep
    \/ Environment

Spec == Init /\ [][Next]_vars

\* A live process goes on; the operator reissues a run that has ended.  Nothing
\* is assumed of errors, crashes, damage or edits, of which there are finitely many.
Fairness ==
    /\ WF_vars(RunnerStep)
    /\ WF_vars(\E ow \in BOOLEAN : StartRun(ow))

LiveSpec == Spec /\ Fairness

-----------------------------------------------------------------------------
(* Properties.                                                             *)

\* The one type invariant: files hold what their writers put there, or damage.
TypeOK ==
    /\ inputs \in Inputs
    /\ completion \in CompletionRecord \cup {NoFile, Damaged}
    /\ index \in Sums \cup {NoFile, Damaged}
    /\ artifact \in [Artifact -> Content \cup {NoFile, Damaged}]
    /\ running \in BOOLEAN
    /\ failure \in FailureRecord \cup {NoFile, Damaged}
    /\ pc \in {"idle", "finally"} \cup BeforeTry \cup InTry \cup InHandler
    /\ ctx \in Inputs
    /\ cfg \in Inputs
    /\ pooled \in BOOLEAN
    /\ overwrite \in BOOLEAN
    /\ produced \in [Artifact -> Content \cup {NoFile}]
    /\ outcome \in Outcomes
    /\ tampered \in BOOLEAN
    /\ disturbances \in Nat
    /\ edits \in Nat

\* Completion last: wherever a run raises, is interrupted or is killed, a
\* completion record found on disk lists exactly the index and the artifacts that
\* are there, except for files damaged by hand (run_cell, lines 108 to 125).
CompletionVouches ==
    completion \in CompletionRecord =>
        /\ index \in {completion.sums, NoFile, Damaged}
        /\ \A k \in Artifact : artifact[k] \in {completion.sums[k], NoFile, Damaged}

\* Run in one process, a completion names the inputs its artifacts were computed
\* from, however the inputs are edited while the cell runs and back again.
CompletedUnderItsContext ==
    completion \in CompletionRecord =>
        \A k \in Artifact : completion.sums[k].inputs = completion.ctx

\* In a pool too, and however the inputs are edited, what a completion vouches for was
\* computed from one configuration: the worker loads it once, and the artifacts of an
\* attempt that ended early do not get into the completion of a later one.
CompletedUnderOneConfiguration ==
    completion \in CompletionRecord =>
        \A j, k \in Artifact : completion.sums[j].inputs = completion.sums[k].inputs

\* Artifacts a run reuses were computed from the inputs the run was given: true of
\* cells run in one process, and what a pool worker that loads the configuration
\* again may break.
ReusedIsOfItsContext ==
    outcome = "REUSED" /\ Compatible(ctx) =>
        \A k \in Artifact : artifact[k].inputs = ctx

\* What run_cell returns is what inspect_cell_status reads from the disk at that
\* moment, unless files were damaged while it ran: neither a leftover completion,
\* nor a marker, nor a failure record of this run or an earlier one hides it.
VerdictMatchesDisk ==
    [][/\ pc # "idle" /\ pc' = "idle" /\ ~tampered
       /\ outcome' \in {"COMPLETED", "REUSED", "INVALID", "FAILED"}
       => DiskVerdict(ctx)' = IF outcome' = "REUSED" THEN "COMPLETED" ELSE outcome']_vars

\* A completion that is compatible with the context of a run is only lost by that
\* run when it was asked to overwrite it or retracts its own after an error.
ValidCompletionKept ==
    [][/\ ctx' = ctx /\ disturbances' = disturbances
       /\ Compatible(ctx) /\ ~Compatible(ctx)'
       => overwrite \/ pc = "retract"]_vars

\* Readers of the cell see whole publications, one at a time: of the inputs the run
\* was given or, when a pool worker ran it, of those the worker found.
Published == INSTANCE PublishedResult WITH
    Nothing <- NoFile,
    attempt <- IF pc = "idle" THEN NoFile
               ELSE [named |-> ctx, computed |-> cfg, loads |-> pooled],
    published <- IF /\ completion \in CompletionRecord
                    /\ index = completion.sums
                    /\ artifact = completion.sums
                 THEN completion ELSE NoFile

RefinesPublishedResult == Published!Spec

\* No crash, error, damage or edit leaves the cell where reissuing the run does
\* not get it completed for the inputs that are then in the workspace.
EventuallyCompleted == []<>(pc = "idle" /\ Compatible(inputs))
=============================================================================
