--------------------------- MODULE StatusInspection ---------------------------
(***************************************************************************)
(* A second process looks at a cell while another one runs it: "trajcert    *)
(* status", and the readiness check a run of a downstream experiment makes  *)
(* (inspect_cell_status, experiments/status.py).  It reads one file after   *)
(* the other and takes no lock, so what it has read may be gone by the time *)
(* it reads the next.                                                       *)
(***************************************************************************)
EXTENDS CellRunner

VARIABLES
    rpc,      \* where the inspection is; "idle": none is under way
    rctx,     \* the context it compares records with
    seen,     \* the completion record it has read, or NoFile
    checked,  \* artifacts whose digest it has verified
    verdict,  \* the state it reports
    truth,    \* history: what DiskVerdict(rctx) has been since it began
    harmed    \* history: some file has been damaged

insp == <<rpc, rctx, seen, checked, verdict>>
allVars == <<vars, insp, truth, harmed>>

InspInit ==
    /\ Init
    /\ rpc = "idle"
    /\ rctx = inputs
    /\ seen = NoFile
    /\ checked = {}
    /\ verdict = "NONE"
    /\ truth = {}
    /\ harmed = FALSE

Goto(next) == rpc' = next /\ UNCHANGED verdict
Report(state) == rpc' = "idle" /\ verdict' = state

BeginInspection ==
    /\ rpc = "idle"
    /\ rctx' = inputs
    /\ seen' = NoFile
    /\ checked' = {}
    /\ verdict' = "NONE"
    /\ rpc' = "completion"

LookForCompletion ==
    /\ rpc = "completion"
    /\ IF completion = NoFile THEN Goto("running") ELSE Goto("readCompletion")
    /\ UNCHANGED <<rctx, seen, checked>>

\* Mutant: a readable completion of any context will do.
ReadAnyCompletion ==
    /\ rpc = "readCompletion"
    /\ \/ /\ completion \in CompletionRecord
          /\ seen' = completion
          /\ Goto("readIndex")
       \/ /\ completion \notin CompletionRecord
          /\ Report("BLOCKED")
          /\ UNCHANGED seen
    /\ UNCHANGED <<rctx, checked>>

\* read_model and _completion_identity_matches.
ReadCompletion ==
    /\ rpc = "readCompletion"
    /\ \/ /\ completion \in CompletionRecord
          /\ completion.ctx = rctx
          /\ seen' = completion
          /\ Goto("readIndex")
       \/ /\ completion \in CompletionRecord => completion.ctx # rctx
          /\ Report("BLOCKED")
          /\ UNCHANGED seen
    /\ UNCHANGED <<rctx, checked>>

ReadIndex ==
    /\ rpc = "readIndex"
    /\ IF index = seen.sums THEN Goto("verify") ELSE Report("BLOCKED")
    /\ UNCHANGED <<rctx, seen, checked>>

VerifyArtifact(k) ==
    /\ rpc = "verify"
    /\ k \notin checked /\ 1 .. k - 1 \subseteq checked
    /\ \/ artifact[k] = seen.sums[k] /\ Goto("verify")
       \/ artifact[k] # seen.sums[k] /\ Report("BLOCKED")
    /\ checked' = checked \cup {k}
    /\ UNCHANGED <<rctx, seen>>

AllVerified ==
    /\ rpc = "verify"
    /\ checked = Artifact
    /\ Report("COMPLETED")
    /\ UNCHANGED <<rctx, seen, checked>>

LookForRunning ==
    /\ rpc = "running"
    /\ IF running THEN Report("RUNNING") ELSE Goto("failure")
    /\ UNCHANGED <<rctx, seen, checked>>

LookForFailure ==
    /\ rpc = "failure"
    /\ IF failure = NoFile THEN Report("READY") ELSE Goto("readFailure")
    /\ UNCHANGED <<rctx, seen, checked>>

\* _matching_failure_status: a record that cannot be read is itself a failure, and
\* one that has been removed since it was found cannot be read.
ReadFailure ==
    /\ rpc = "readFailure"
    /\ \/ failure \notin FailureRecord /\ Report("FAILED")
       \/ /\ failure \in FailureRecord
          /\ Report(IF failure.ctx = rctx THEN failure.state ELSE "READY")
    /\ UNCHANGED <<rctx, seen, checked>>

InspectionStep ==
    \/ BeginInspection
    \/ LookForCompletion
    \/ ReadCompletion
    \/ ReadIndex
    \/ \E k \in Artifact : VerifyArtifact(k)
    \/ AllVerified
    \/ LookForRunning
    \/ LookForFailure
    \/ ReadFailure

InspNext ==
    \/ /\ InspectionStep
       /\ truth' = CASE rpc = "idle" -> {DiskVerdict(rctx')}
                     [] rpc # "idle" /\ rpc' = "idle" -> {}
                     [] OTHER -> truth
       /\ UNCHANGED <<vars, harmed>>
    \/ /\ Next
       /\ UNCHANGED insp
       /\ truth' = IF rpc = "idle" THEN {} ELSE truth \cup {DiskVerdict(rctx)'}
       /\ harmed' = (harmed \/ tampered')

InspSpec == InspInit /\ [][InspNext]_allVars

-----------------------------------------------------------------------------
\* A downstream experiment is let through, and the operator told that a cell runs,
\* only when that was its state at some moment of the inspection.  READY, FAILED and
\* INVALID may be reported of a cell that never was in them meanwhile: the inspection
\* looks for the marker before the run writes it and for the failure after.
ReportedStateHeld ==
    [][/\ rpc # "idle" /\ rpc' = "idle" /\ ~harmed
       /\ verdict' \in {"COMPLETED", "RUNNING"}
       => verdict' \in truth]_allVars
=============================================================================
