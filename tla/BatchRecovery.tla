---------------------------- MODULE BatchRecovery ----------------------------
(***************************************************************************)
(* The executor of a coverage-stress or power cell                          *)
(* (experiments/checkpointing.py).  The cell's seeds are split into batches *)
(* that a process pool works on; every batch leaves a result file and, after*)
(* it, a checkpoint record.  A run that is reissued takes a batch from disk *)
(* when the record is of its context and the result has the digest the      *)
(* record lists, and computes it otherwise.  A batch is a function of its   *)
(* configuration and its seeds, so two computations of it are equal.        *)
(***************************************************************************)
EXTENDS Integers, Sequences, FiniteSets

CONSTANTS
    Configs,          \* what the dependency fingerprint of the context covers
    Streams,          \* Streams[c]: how many seeds a cell has under c
    BatchSize,        \* BatchSize[c]: how many of them a batch takes
    MaxWorkers,       \* size of the pool
    NoFile,
    Damaged,
    MaxDisturbances,  \* bound: errors, kills and damage
    MaxEdits          \* bound: changes of the configuration

ASSUME StreamsAssumption == Streams \in [Configs -> Nat \ {0}]
ASSUME BatchSizeAssumption == BatchSize \in [Configs -> Nat \ {0}]
ASSUME MaxWorkersAssumption == MaxWorkers \in Nat \ {0}

\* batch_seed_ranges: the loop, which steps from one stop to the next.
SeedRanges(total, size) ==
    LET from[start \in 0 .. total] ==
            IF start = total THEN <<>>
            ELSE LET stop == IF start + size < total THEN start + size ELSE total
                 IN <<start .. stop - 1>> \o from[stop]
    IN from[0]

Ranges(c) == SeedRanges(Streams[c], BatchSize[c])
Batches(c) == 1 .. Len(Ranges(c))
Batch == UNION {Batches(c) : c \in Configs}

Payload(c, b) == [ctx |-> c, seeds |-> Ranges(c)[b]]
Payloads == UNION {{Payload(c, b) : b \in Batches(c)} : c \in Configs}
Record == [ctx : Configs, batch : Batch, sum : Payloads]
Worker == [batch : Batch, got : Payloads \cup {NoFile},
           phase : {"record", "digest", "result", "compute", "mark", "returned", "raised"}]

ASSUME NoFileAssumption == NoFile \notin Payloads \cup Record
ASSUME DamagedAssumption == Damaged \notin Payloads \cup Record \cup {NoFile}

VARIABLES
    config,    \* the configuration now in the workspace
    result,    \* batch result files
    record,    \* checkpoint records
    run,       \* "idle", "pool" or "draining"
    ctx,       \* the configuration the run's context was taken under
    picked,    \* batches the pool has taken from its queue
    workers,   \* batches being worked on, or finished and not collected
    evidence,  \* payloads collected, in the order of the batches
    outcome,   \* of the last run
    disturbances,
    edits

disk == <<result, record>>
main == <<run, ctx, picked, evidence, outcome>>
vars == <<config, disk, main, workers, disturbances, edits>>

-----------------------------------------------------------------------------
Disturb ==
    /\ disturbances < MaxDisturbances
    /\ disturbances' = disturbances + 1

Undisturbed == UNCHANGED <<config, disturbances, edits>>

Finished(w) == w.phase \in {"returned", "raised"}
Busy == {w \in workers : ~Finished(w)}

\* What a later run of context c will take from disk.
Recorded(b, c) ==
    /\ record[b] \in Record
    /\ record[b].ctx = c /\ record[b].batch = b
    /\ result[b] = record[b].sum

Init ==
    /\ config \in Configs
    /\ result = [b \in Batch |-> NoFile]
    /\ record = [b \in Batch |-> NoFile]
    /\ run = "idle"
    /\ ctx = config
    /\ picked = 0
    /\ workers = {}
    /\ evidence = <<>>
    /\ outcome = "NONE"
    /\ disturbances = 0
    /\ edits = 0

-----------------------------------------------------------------------------
(* A worker: _recover_batch for one batch, one file operation per step.    *)

Step(w, phase, got) ==
    workers' = (workers \ {w}) \cup {[w EXCEPT !.phase = phase, !.got = got]}

MainUnchanged == UNCHANGED <<config, main, edits>>

\* Mutant: the record of any context will do.
TakeAnyRecord(w) ==
    /\ w.phase = "record"
    /\ IF /\ result[w.batch] # NoFile
          /\ record[w.batch] \in Record
          /\ record[w.batch].batch = w.batch
       THEN Step(w, "digest", record[w.batch].sum)
       ELSE Step(w, "compute", NoFile)
    /\ MainUnchanged
    /\ UNCHANGED <<disk, disturbances>>

\* Both files exist, and the record is readable and names this context and batch.
ReadRecord(w) ==
    /\ w.phase = "record"
    /\ IF /\ result[w.batch] # NoFile
          /\ record[w.batch] \in Record
          /\ record[w.batch].ctx = ctx
          /\ record[w.batch].batch = w.batch
       THEN Step(w, "digest", record[w.batch].sum)
       ELSE Step(w, "compute", NoFile)
    /\ MainUnchanged
    /\ UNCHANGED <<disk, disturbances>>

CompareDigest(w) ==
    /\ w.phase = "digest"
    /\ \/ result[w.batch] = w.got /\ Step(w, "result", NoFile)
       \/ result[w.batch] # w.got /\ Step(w, "compute", NoFile)
    /\ MainUnchanged
    /\ UNCHANGED <<disk, disturbances>>

\* The file whose digest was compared is opened again for its contents.
ReadResult(w) ==
    /\ w.phase = "result"
    /\ \/ result[w.batch] \in Payloads /\ Step(w, "returned", result[w.batch])
       \/ result[w.batch] \notin Payloads /\ Step(w, "compute", NoFile)
    /\ MainUnchanged
    /\ UNCHANGED <<disk, disturbances>>

\* Mutant: a result file that is there is not replaced.
ComputeUnlessPresent(w) ==
    /\ w.phase = "compute"
    /\ result' = IF result[w.batch] # NoFile THEN result
                 ELSE [result EXCEPT ![w.batch] = Payload(ctx, w.batch)]
    /\ Step(w, "mark", Payload(ctx, w.batch))
    /\ MainUnchanged
    /\ UNCHANGED <<record, disturbances>>

\* compute, under the configuration the main process handed to the worker, and the
\* result file.
Compute(w) ==
    /\ w.phase = "compute"
    /\ result' = [result EXCEPT ![w.batch] = Payload(ctx, w.batch)]
    /\ Step(w, "mark", Payload(ctx, w.batch))
    /\ MainUnchanged
    /\ UNCHANGED <<record, disturbances>>

WriteRecord(w) ==
    /\ w.phase = "mark"
    /\ record' = [record EXCEPT ![w.batch] =
                    [ctx |-> ctx, batch |-> w.batch, sum |-> w.got]]
    /\ Step(w, "returned", w.got)
    /\ MainUnchanged
    /\ UNCHANGED <<result, disturbances>>

\* The computation or a write raises: nothing more is written of this batch.
Raise(w) ==
    /\ w.phase \in {"compute", "mark"}
    /\ Disturb
    /\ Step(w, "raised", NoFile)
    /\ MainUnchanged
    /\ UNCHANGED disk

WorkerStep(w) ==
    \/ ReadRecord(w)
    \/ CompareDigest(w)
    \/ ReadResult(w)
    \/ Compute(w)
    \/ WriteRecord(w)

-----------------------------------------------------------------------------
(* The main process: _recovered_batches.                                   *)

\* The --overwrite flag of the cell does not reach the batches.
StartRun ==
    /\ run = "idle"
    /\ run' = "pool"
    /\ ctx' = config
    /\ picked' = 0
    /\ evidence' = <<>>
    /\ outcome' = "NONE"
    /\ UNCHANGED <<disk, workers>>
    /\ Undisturbed

\* A free worker takes the next batch; the pool drains its queue even after one
\* of its batches has raised.
Pick ==
    /\ run # "idle"
    /\ picked + 1 \in Batches(ctx)
    /\ Cardinality(Busy) < MaxWorkers
    /\ picked' = picked + 1
    /\ workers' = workers \cup {[batch |-> picked + 1, got |-> NoFile, phase |-> "record"]}
    /\ UNCHANGED <<disk, run, ctx, evidence, outcome>>
    /\ Undisturbed

\* Mutant: payloads are combined in the order in which they arrive.
CollectAny(w) ==
    /\ run = "pool"
    /\ Finished(w)
    /\ workers' = workers \ {w}
    /\ \/ /\ w.phase = "returned"
          /\ evidence' = Append(evidence, w.got)
          /\ UNCHANGED run
       \/ /\ w.phase = "raised"
          /\ run' = "draining"
          /\ UNCHANGED evidence
    /\ UNCHANGED <<disk, ctx, picked, outcome>>
    /\ Undisturbed

\* The futures are waited for in the order of the batches; the first that raises
\* leaves the loop.
Collect(w) ==
    /\ run = "pool"
    /\ Finished(w) /\ w.batch = Len(evidence) + 1
    /\ workers' = workers \ {w}
    /\ \/ /\ w.phase = "returned"
          /\ evidence' = Append(evidence, w.got)
          /\ UNCHANGED run
       \/ /\ w.phase = "raised"
          /\ run' = "draining"
          /\ UNCHANGED evidence
    /\ UNCHANGED <<disk, ctx, picked, outcome>>
    /\ Undisturbed

EndRun(how) ==
    /\ run' = "idle"
    /\ outcome' = how
    /\ UNCHANGED <<ctx, picked, evidence>>

\* combine_coverage_stress_batches, combine_power_batches.
Combine ==
    /\ run = "pool"
    /\ Len(evidence) = Len(Ranges(ctx))
    /\ EndRun("COMPLETED")
    /\ UNCHANGED <<disk, workers>>
    /\ Undisturbed

\* Leaving the pool waits for every batch, then the exception goes on.
LeavePool ==
    /\ run = "draining"
    /\ picked + 1 \notin Batches(ctx)
    /\ Busy = {}
    /\ EndRun("FAILED")
    /\ workers' = {}
    /\ UNCHANGED disk
    /\ Undisturbed

\* The machine or the process group goes down, or a worker dies and breaks the pool.
Kill ==
    /\ run # "idle"
    /\ Disturb
    /\ EndRun("KILLED")
    /\ workers' = {}
    /\ UNCHANGED <<config, disk, edits>>

-----------------------------------------------------------------------------
\* A file is lost or corrupted by hand.
Damage(b) ==
    /\ Disturb
    /\ \E bad \in {NoFile, Damaged} :
        \/ /\ result[b] # NoFile
           /\ result' = [result EXCEPT ![b] = bad]
           /\ UNCHANGED record
        \/ /\ record[b] # NoFile
           /\ record' = [record EXCEPT ![b] = bad]
           /\ UNCHANGED result
    /\ UNCHANGED <<config, main, workers, edits>>

EditConfig ==
    /\ edits < MaxEdits
    /\ edits' = edits + 1
    /\ config' \in Configs \ {config}
    /\ UNCHANGED <<disk, main, workers, disturbances>>

-----------------------------------------------------------------------------
MainStep ==
    \/ Pick
    \/ \E w \in workers : Collect(w)
    \/ Combine
    \/ LeavePool

Next ==
    \/ StartRun
    \/ MainStep
    \/ \E w \in workers : WorkerStep(w) \/ Raise(w)
    \/ Kill
    \/ \E b \in Batch : Damage(b)
    \/ EditConfig

Spec == Init /\ [][Next]_vars

\* Processes that live go on, and the operator reissues a run that has ended.
Fairness ==
    /\ WF_vars(MainStep)
    /\ WF_vars(\E w \in workers : WorkerStep(w))
    /\ WF_vars(StartRun)

LiveSpec == Spec /\ Fairness

-----------------------------------------------------------------------------
(* Properties.                                                             *)

\* The type invariant; workers of one run are on different batches.
TypeOK ==
    /\ config \in Configs
    /\ result \in [Batch -> Payloads \cup {NoFile, Damaged}]
    /\ record \in [Batch -> Record \cup {NoFile, Damaged}]
    /\ run \in {"idle", "pool", "draining"}
    /\ ctx \in Configs
    /\ picked \in 0 .. Len(Ranges(ctx))
    /\ workers \subseteq Worker
    /\ \A v, w \in workers : v.batch = w.batch => v = w
    /\ evidence \in Seq(Payloads)
    /\ outcome \in {"NONE", "COMPLETED", "FAILED", "KILLED"}

\* Whatever mixture of old and new files crashes and edits have left, the batches
\* a run combines are all of its own configuration (lines 87 to 132).
EvidenceOfItsContext ==
    \A b \in DOMAIN evidence : evidence[b].ctx = ctx

\* Every seed of the cell is in exactly one of the batches combined, and they are
\* combined in the order of the seeds whichever worker was faster (lines 52 to 59
\* and 206 to 227).
SeedsUsedOnceInOrder ==
    outcome = "COMPLETED" =>
        /\ UNION {evidence[b].seeds : b \in DOMAIN evidence} = 0 .. Streams[ctx] - 1
        /\ \A b, d \in DOMAIN evidence :
            b < d => \A s \in evidence[b].seeds, t \in evidence[d].seeds : s < t

\* Finitely many errors, kills and edits do not keep the cell from completing with
\* all its batches on disk.
EventuallyRecorded ==
    []<>(run = "idle" /\ \A b \in Batches(config) : Recorded(b, config))
=============================================================================
