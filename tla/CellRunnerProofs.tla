-------------------------- MODULE CellRunnerProofs --------------------------
(***************************************************************************)
(* Proofs about CellRunner and about the inspection beside it               *)
(* (StatusInspection) for every number of artifacts, every set of inputs    *)
(* and every bound on what may go wrong.                                    *)
(***************************************************************************)
EXTENDS StatusInspection, TLAPS

\* Between the withdrawal of the old completion and the write of the new one, the
\* completion on disk is nobody's (run_cell, lines 108 to 125).
WithdrawnWhileWorking ==
    pc \in {"clearFailure", "writeRunning", "execute", "writeIndex", "writeCompletion"}
        => completion \notin CompletionRecord

\* Only a complete result is indexed; a handler has a state to report.
ProducedComplete == pc \in {"writeIndex", "writeCompletion"} => produced \in Sums

HandlerHasState == pc \in InHandler => outcome \in {"INVALID", "FAILED"}

TInv == TypeOK /\ ProducedComplete /\ HandlerHasState

\* Once verified, what the executor produced is still on disk.
ProducedStands ==
    pc \in {"writeIndex", "writeCompletion"} =>
        \A k \in Artifact : artifact[k] \in {produced[k], NoFile, Damaged}

IndexStands ==
    pc = "writeCompletion" => index \in {produced, NoFile, Damaged}

Protocol ==
    /\ WithdrawnWhileWorking
    /\ ProducedStands
    /\ IndexStands
    /\ CompletionVouches

-----------------------------------------------------------------------------
\* Sentinels are no contents; a completion record is neither of them.
LEMMA Sentinels ==
    /\ NoFile \notin CompletionRecord
    /\ Damaged \notin CompletionRecord
    /\ NoFile \notin Content
    /\ Damaged \notin Content
    /\ NoFile \notin Sums
    /\ Damaged \notin Sums
    /\ NoFile \notin Attempts
    /\ NoFile # Damaged
    /\ NoFile \notin FailureRecord
    /\ Damaged \notin FailureRecord
  BY NoFileAssumption, DamagedAssumption

\* Types are inductive with the two facts beside them: the files written last get
\* complete values, and a handler has a state to report.
LEMMA TypeInvariant == Spec => []TInv
<1>1. Init => TInv
  <2> SUFFICES ASSUME Init PROVE TInv
    OBVIOUS
  <2>1. NothingProduced \in [Artifact -> Content \cup {NoFile}]
    BY DEF NothingProduced
  <2>2. artifact \in [Artifact -> Content \cup {NoFile, Damaged}]
    BY DEF Init, NothingProduced
  <2>3. QED
    BY <2>1, <2>2 DEF Init, TInv, TypeOK, ProducedComplete, HandlerHasState, Outcomes,
                      InHandler, InTry, BeforeTry
<1>2. TInv /\ [Next]_vars => TInv'
  <2> SUFFICES ASSUME TInv, [Next]_vars PROVE TInv'
    OBVIOUS
  <2> USE DEF TInv, TypeOK, ProducedComplete, HandlerHasState, disk, proc, command,
              Undisturbed, Continue, Disturb, RaiseInTry, LeaveRaising, InTry, InHandler,
              BeforeTry, Outcomes
  <2>1. ASSUME NEW ow \in BOOLEAN, StartRun(ow) PROVE TInv'
    BY <2>1 DEF StartRun, NothingProduced
  <2>2. CASE WorkerLoadsConfig
    BY <2>2 DEF WorkerLoadsConfig
  <2>3. CASE Reuse
    BY <2>3 DEF Reuse
  <2>4. CASE WithdrawCompletion
    BY <2>4 DEF WithdrawCompletion
  <2>5. CASE ClearFailure
    BY <2>5 DEF ClearFailure
  <2>6. CASE WriteRunning
    BY <2>6 DEF WriteRunning
  <2>7. ASSUME NEW k \in Artifact, ExecutorWrites(k) PROVE TInv'
    BY <2>7 DEF ExecutorWrites, Content
  <2>8. CASE VerifyProduced
    BY <2>8 DEF VerifyProduced
  <2>9. CASE WriteIndex
    BY <2>9 DEF WriteIndex
  <2>10. CASE WriteCompletion
    BY <2>10 DEF WriteCompletion, CompletionRecord
  <2>11. CASE DropFailure
    BY <2>11 DEF DropFailure
  <2>12. CASE WriteFailure
    BY <2>12 DEF WriteFailure, FailureRecord
  <2>13. CASE RetractCompletion
    BY <2>13 DEF RetractCompletion
  <2>14. CASE Finally
    BY <2>14 DEF Finally
  <2>15. CASE Blocked
    BY <2>15 DEF Blocked
  <2>16. CASE ExecutorRaises
    BY <2>16 DEF ExecutorRaises
  <2>17. CASE ErrorInTry
    BY <2>17 DEF ErrorInTry
  <2>18. CASE Propagate
    BY <2>18 DEF Propagate
  <2>19. CASE Kill
    BY <2>19 DEF Kill
  <2>20. CASE Damage
    BY <2>20 DEF Damage
  <2>21. CASE EditInputs
    BY <2>21 DEF EditInputs
  <2>22. CASE UNCHANGED vars
    BY <2>22 DEF vars
  <2>23. QED
    BY <2>1, <2>2, <2>3, <2>4, <2>5, <2>6, <2>7, <2>8, <2>9, <2>10, <2>11, <2>12, <2>13, <2>14, <2>15, <2>16, <2>17, <2>18, <2>19, <2>20, <2>21, <2>22
       DEF Next, RunnerStep, Environment
<1>3. QED
  BY <1>1, <1>2, PTL DEF Spec

\* Files, process and counters keep their types.
THEOREM TypeCorrect == Spec => []TypeOK
  BY TypeInvariant, PTL DEF TInv

-----------------------------------------------------------------------------
\* Every step keeps the order of the writes.
LEMMA ProtocolStep == TInv /\ Protocol /\ [Next]_vars => Protocol'
<1> SUFFICES ASSUME TInv, Protocol, [Next]_vars PROVE Protocol'
  OBVIOUS
<1> USE Sentinels DEF Protocol, WithdrawnWhileWorking, ProducedStands, IndexStands,
                      CompletionVouches, TInv, ProducedComplete, HandlerHasState,
                      disk, proc, command, Undisturbed, Continue, Disturb,
                      RaiseInTry, LeaveRaising, InTry, InHandler, BeforeTry
<1>1. ASSUME NEW ow \in BOOLEAN, StartRun(ow) PROVE Protocol'
  BY <1>1 DEF StartRun
<1>2. CASE WorkerLoadsConfig
  BY <1>2 DEF WorkerLoadsConfig
<1>3. CASE Reuse
  BY <1>3 DEF Reuse
<1>4. CASE WithdrawCompletion
  BY <1>4 DEF WithdrawCompletion
<1>5. CASE ClearFailure
  BY <1>5 DEF ClearFailure
<1>6. CASE WriteRunning
  BY <1>6 DEF WriteRunning
<1>7. ASSUME NEW k \in Artifact, ExecutorWrites(k) PROVE Protocol'
  BY <1>7 DEF ExecutorWrites, TypeOK, Sums
<1>8. CASE VerifyProduced
  BY <1>8 DEF VerifyProduced, TypeOK
<1>9. CASE WriteIndex
  BY <1>9 DEF WriteIndex
<1>10. CASE WriteCompletion
  BY <1>10 DEF WriteCompletion
<1>11. CASE DropFailure
  BY <1>11 DEF DropFailure
<1>12. CASE WriteFailure
  BY <1>12 DEF WriteFailure
<1>13. CASE RetractCompletion
  BY <1>13 DEF RetractCompletion
<1>14. CASE Finally
  BY <1>14 DEF Finally
<1>15. CASE Blocked
  BY <1>15 DEF Blocked
<1>16. CASE ExecutorRaises
  BY <1>16 DEF ExecutorRaises
<1>17. CASE ErrorInTry
  BY <1>17 DEF ErrorInTry
<1>18. CASE Propagate
  BY <1>18 DEF Propagate
<1>19. CASE Kill
  BY <1>19 DEF Kill
<1>20. CASE Damage
  BY <1>20 DEF Damage, TypeOK
<1>21. CASE EditInputs
  BY <1>21 DEF EditInputs
<1>22. CASE UNCHANGED vars
  BY <1>22 DEF vars
<1>23. QED
  BY <1>1, <1>2, <1>3, <1>4, <1>5, <1>6, <1>7, <1>8, <1>9, <1>10, <1>11, <1>12,
     <1>13, <1>14, <1>15, <1>16, <1>17, <1>18, <1>19, <1>20, <1>21, <1>22
     DEF Next, RunnerStep, Environment

\* Completion last, for any number of artifacts and any errors, kills and damage.
THEOREM CompletionLast == Spec => []CompletionVouches
<1>1. Init => Protocol
  BY Sentinels DEF Init, Protocol, WithdrawnWhileWorking, ProducedStands, IndexStands,
                   CompletionVouches
<1>2. Protocol => CompletionVouches
  BY DEF Protocol
<1>3. QED
  BY <1>1, <1>2, ProtocolStep, TypeInvariant, PTL DEF Spec

-----------------------------------------------------------------------------
\* A cell run in one process computes from the inputs its context was taken from,
\* and records that context: what EditInputs does meanwhile changes neither.
OneConfig ==
    /\ cfg = ctx
    /\ pc # "queued"
    /\ \A k \in Artifact : produced[k] \in Content => produced[k].inputs = ctx

\* In one process every step computes from and records the same inputs.
LEMMA OneConfigStep ==
    ASSUME Modes = {"sequential"}
    PROVE  TInv /\ OneConfig /\ CompletedUnderItsContext /\ [Next]_vars
               => (OneConfig /\ CompletedUnderItsContext)'
<1> SUFFICES ASSUME TInv, OneConfig, CompletedUnderItsContext, [Next]_vars
             PROVE  (OneConfig /\ CompletedUnderItsContext)'
  OBVIOUS
<1> USE Sentinels DEF OneConfig, CompletedUnderItsContext, TInv, ProducedComplete,
                      disk, proc, command, Undisturbed, Continue, Disturb,
                      RaiseInTry, LeaveRaising, InTry, InHandler
<1>1. ASSUME NEW ow \in BOOLEAN, StartRun(ow) PROVE (OneConfig /\ CompletedUnderItsContext)'
  BY <1>1 DEF StartRun, NothingProduced
<1>2. CASE WorkerLoadsConfig
  BY <1>2 DEF WorkerLoadsConfig
<1>3. CASE Reuse
  BY <1>3 DEF Reuse
<1>4. CASE WithdrawCompletion
  BY <1>4 DEF WithdrawCompletion
<1>5. CASE ClearFailure
  BY <1>5 DEF ClearFailure
<1>6. CASE WriteRunning
  BY <1>6 DEF WriteRunning
<1>7. ASSUME NEW k \in Artifact, ExecutorWrites(k) PROVE (OneConfig /\ CompletedUnderItsContext)'
  BY <1>7 DEF ExecutorWrites, TypeOK, Content
<1>8. CASE VerifyProduced
  BY <1>8 DEF VerifyProduced
<1>9. CASE WriteIndex
  BY <1>9 DEF WriteIndex
<1>10. CASE WriteCompletion
  BY <1>10 DEF WriteCompletion, Sums
<1>11. CASE DropFailure
  BY <1>11 DEF DropFailure
<1>12. CASE WriteFailure
  BY <1>12 DEF WriteFailure
<1>13. CASE RetractCompletion
  BY <1>13 DEF RetractCompletion
<1>14. CASE Finally
  BY <1>14 DEF Finally
<1>15. CASE Blocked
  BY <1>15 DEF Blocked
<1>16. CASE ExecutorRaises
  BY <1>16 DEF ExecutorRaises
<1>17. CASE ErrorInTry
  BY <1>17 DEF ErrorInTry
<1>18. CASE Propagate
  BY <1>18 DEF Propagate
<1>19. CASE Kill
  BY <1>19 DEF Kill
<1>20. CASE Damage
  BY <1>20 DEF Damage
<1>21. CASE EditInputs
  BY <1>21 DEF EditInputs
<1>22. CASE UNCHANGED vars
  BY <1>22 DEF vars
<1>23. QED
  BY <1>1, <1>2, <1>3, <1>4, <1>5, <1>6, <1>7, <1>8, <1>9, <1>10, <1>11, <1>12,
     <1>13, <1>14, <1>15, <1>16, <1>17, <1>18, <1>19, <1>20, <1>21, <1>22
     DEF Next, RunnerStep, Environment

\* A completion names the inputs its artifacts were computed from.
THEOREM CompletedUnderContext ==
    ASSUME Modes = {"sequential"}
    PROVE  Spec => []CompletedUnderItsContext
<1>1. Init => OneConfig /\ CompletedUnderItsContext
  BY Sentinels DEF Init, OneConfig, CompletedUnderItsContext, NothingProduced
<1>2. QED
  BY <1>1, OneConfigStep, TypeInvariant, PTL DEF Spec

-----------------------------------------------------------------------------
\* What an attempt has produced was computed from what it, or its worker, has loaded;
\* a worker loads before anything is produced.
LoadedOnce ==
    /\ pc = "queued" => pooled /\ \A k \in Artifact : produced[k] = NoFile
    /\ \A k \in Artifact : produced[k] \in Content => produced[k].inputs = cfg

\* Every step, in a pool or not, computes from what was loaded once.
LEMMA LoadedOnceStep ==
    TInv /\ LoadedOnce /\ CompletedUnderOneConfiguration /\ [Next]_vars
        => (LoadedOnce /\ CompletedUnderOneConfiguration)'
<1> SUFFICES ASSUME TInv, LoadedOnce, CompletedUnderOneConfiguration, [Next]_vars
             PROVE  (LoadedOnce /\ CompletedUnderOneConfiguration)'
  OBVIOUS
<1> USE Sentinels DEF LoadedOnce, CompletedUnderOneConfiguration, TInv,
                      ProducedComplete, disk, proc, command, Undisturbed, Continue, Disturb,
                      RaiseInTry, LeaveRaising, InTry, InHandler
<1>1. ASSUME NEW ow \in BOOLEAN, StartRun(ow) PROVE (LoadedOnce /\ CompletedUnderOneConfiguration)'
  BY <1>1 DEF StartRun, NothingProduced
<1>2. CASE WorkerLoadsConfig
  BY <1>2 DEF WorkerLoadsConfig
<1>3. CASE Reuse
  BY <1>3 DEF Reuse
<1>4. CASE WithdrawCompletion
  BY <1>4 DEF WithdrawCompletion
<1>5. CASE ClearFailure
  BY <1>5 DEF ClearFailure
<1>6. CASE WriteRunning
  BY <1>6 DEF WriteRunning
<1>7. ASSUME NEW k \in Artifact, ExecutorWrites(k) PROVE (LoadedOnce /\ CompletedUnderOneConfiguration)'
  BY <1>7 DEF ExecutorWrites, TypeOK, Content
<1>8. CASE VerifyProduced
  BY <1>8 DEF VerifyProduced
<1>9. CASE WriteIndex
  BY <1>9 DEF WriteIndex
<1>10. CASE WriteCompletion
  BY <1>10 DEF WriteCompletion, Sums
<1>11. CASE DropFailure
  BY <1>11 DEF DropFailure
<1>12. CASE WriteFailure
  BY <1>12 DEF WriteFailure
<1>13. CASE RetractCompletion
  BY <1>13 DEF RetractCompletion
<1>14. CASE Finally
  BY <1>14 DEF Finally
<1>15. CASE Blocked
  BY <1>15 DEF Blocked
<1>16. CASE ExecutorRaises
  BY <1>16 DEF ExecutorRaises
<1>17. CASE ErrorInTry
  BY <1>17 DEF ErrorInTry
<1>18. CASE Propagate
  BY <1>18 DEF Propagate
<1>19. CASE Kill
  BY <1>19 DEF Kill
<1>20. CASE Damage
  BY <1>20 DEF Damage
<1>21. CASE EditInputs
  BY <1>21 DEF EditInputs
<1>22. CASE UNCHANGED vars
  BY <1>22 DEF vars
<1>23. QED
  BY <1>1, <1>2, <1>3, <1>4, <1>5, <1>6, <1>7, <1>8, <1>9, <1>10, <1>11, <1>12,
     <1>13, <1>14, <1>15, <1>16, <1>17, <1>18, <1>19, <1>20, <1>21, <1>22
     DEF Next, RunnerStep, Environment

\* In a pool too, the artifacts of a completion are of one configuration.
THEOREM CompletedUnderOne == Spec => []CompletedUnderOneConfiguration
<1>1. Init => LoadedOnce /\ CompletedUnderOneConfiguration
  BY Sentinels DEF Init, LoadedOnce, CompletedUnderOneConfiguration, NothingProduced
<1>2. QED
  BY <1>1, LoadedOnceStep, TypeInvariant, PTL DEF Spec

-----------------------------------------------------------------------------
\* What this run has put on disk, as long as nobody damages files meanwhile.
OnDisk ==
    ~tampered =>
        /\ pc = "writeIndex" => artifact = produced
        /\ pc = "writeCompletion" => artifact = produced /\ index = produced
        /\ pc = "dropFailure" => Compatible(ctx)
        /\ pc = "finally" /\ outcome = "COMPLETED" => Compatible(ctx)
        /\ pc = "retract" => failure = [ctx |-> ctx, state |-> outcome]
        /\ pc = "finally" /\ outcome \in {"INVALID", "FAILED"} =>
               completion = NoFile /\ failure = [ctx |-> ctx, state |-> outcome]

\* A reused completion is reported before anything is executed.
ReuseReturnsAtOnce == pc = "finally" => outcome # "REUSED"

\* Every step keeps on disk what is going to be reported.
LEMMA OnDiskStep ==
    TInv /\ OnDisk /\ ReuseReturnsAtOnce /\ [Next]_vars => (OnDisk /\ ReuseReturnsAtOnce)'
<1> SUFFICES ASSUME TInv, OnDisk, ReuseReturnsAtOnce, [Next]_vars
             PROVE  (OnDisk /\ ReuseReturnsAtOnce)'
  OBVIOUS
<1> USE Sentinels DEF OnDisk, ReuseReturnsAtOnce, TInv, ProducedComplete, HandlerHasState,
                      disk, proc, command, Undisturbed, Continue, Disturb,
                      RaiseInTry, LeaveRaising, InTry, InHandler, Compatible
<1>1. ASSUME NEW ow \in BOOLEAN, StartRun(ow) PROVE (OnDisk /\ ReuseReturnsAtOnce)'
  BY <1>1 DEF StartRun
<1>2. CASE WorkerLoadsConfig
  BY <1>2 DEF WorkerLoadsConfig
<1>3. CASE Reuse
  BY <1>3 DEF Reuse
<1>4. CASE WithdrawCompletion
  BY <1>4 DEF WithdrawCompletion, TypeOK, BeforeTry
<1>5. CASE ClearFailure
  BY <1>5 DEF ClearFailure
<1>6. CASE WriteRunning
  BY <1>6 DEF WriteRunning
<1>7. ASSUME NEW k \in Artifact, ExecutorWrites(k) PROVE (OnDisk /\ ReuseReturnsAtOnce)'
  BY <1>7 DEF ExecutorWrites
<1>8. CASE VerifyProduced
  BY <1>8 DEF VerifyProduced
<1>9. CASE WriteIndex
  BY <1>9 DEF WriteIndex
<1>10. CASE WriteCompletion
  BY <1>10 DEF WriteCompletion, TypeOK, CompletionRecord
<1>11. CASE DropFailure
  BY <1>11 DEF DropFailure
<1>12. CASE WriteFailure
  BY <1>12 DEF WriteFailure
<1>13. CASE RetractCompletion
  BY <1>13 DEF RetractCompletion
<1>14. CASE Finally
  BY <1>14 DEF Finally
<1>15. CASE Blocked
  BY <1>15 DEF Blocked
<1>16. CASE ExecutorRaises
  BY <1>16 DEF ExecutorRaises
<1>17. CASE ErrorInTry
  BY <1>17 DEF ErrorInTry
<1>18. CASE Propagate
  BY <1>18 DEF Propagate
<1>19. CASE Kill
  BY <1>19 DEF Kill
<1>20. CASE Damage
  BY <1>20 DEF Damage
<1>21. CASE EditInputs
  BY <1>21 DEF EditInputs
<1>22. CASE UNCHANGED vars
  BY <1>22 DEF vars
<1>23. QED
  BY <1>1, <1>2, <1>3, <1>4, <1>5, <1>6, <1>7, <1>8, <1>9, <1>10, <1>11, <1>12,
     <1>13, <1>14, <1>15, <1>16, <1>17, <1>18, <1>19, <1>20, <1>21, <1>22
     DEF Next, RunnerStep, Environment

\* The verdict run_cell returns is the one inspect_cell_status then reads.
THEOREM VerdictOnDisk == Spec => VerdictMatchesDisk
<1>1. Init => OnDisk /\ ReuseReturnsAtOnce
  BY DEF Init, OnDisk, ReuseReturnsAtOnce, InTry
<1> DEFINE Returns ==
        /\ pc # "idle" /\ pc' = "idle" /\ ~tampered
        /\ outcome' \in {"COMPLETED", "REUSED", "INVALID", "FAILED"}
<1> DEFINE Read ==
        DiskVerdict(ctx)' = IF outcome' = "REUSED" THEN "COMPLETED" ELSE outcome'
<1>2. TInv /\ OnDisk /\ ReuseReturnsAtOnce /\ [Next]_vars => [Returns => Read]_vars
  <2> SUFFICES ASSUME TInv, OnDisk, ReuseReturnsAtOnce, Next, Returns PROVE Read
    OBVIOUS
  <2>1. Reuse \/ Finally
    BY DEF Next, RunnerStep, Environment, StartRun, WorkerLoadsConfig, WithdrawCompletion,
           ClearFailure, WriteRunning, ExecutorWrites, VerifyProduced, WriteIndex,
           WriteCompletion, DropFailure, WriteFailure, RetractCompletion, Blocked,
           ExecutorRaises, ErrorInTry, Propagate, Kill, Damage, EditInputs, Continue,
           LeaveRaising, RaiseInTry, proc, command
  <2>2. CASE Reuse
    <3>1. Compatible(ctx)' /\ completion' # NoFile
      BY <2>2, Sentinels DEF Reuse, Compatible, disk, command
    <3>2. outcome' = "REUSED"
      BY <2>2 DEF Reuse
    <3>3. QED
      BY <3>1, <3>2 DEF DiskVerdict
  <2>3. CASE Finally /\ outcome = "COMPLETED"
    <3>1. Compatible(ctx)
      BY <2>3 DEF OnDisk, Finally
    <3>2. Compatible(ctx)' /\ completion' # NoFile
      BY <2>3, <3>1, Sentinels DEF Finally, Compatible, command
    <3>3. outcome' = "COMPLETED"
      BY <2>3 DEF Finally
    <3>4. QED
      BY <3>2, <3>3 DEF DiskVerdict
  <2>4. CASE Finally /\ outcome \in {"INVALID", "FAILED"}
    <3>1. completion' = NoFile /\ ~running' /\ outcome' = outcome /\ ctx' = ctx
      BY <2>4 DEF Finally, OnDisk, command
    <3>2. failure' = [ctx |-> ctx, state |-> outcome]
      BY <2>4 DEF Finally, OnDisk, command
    <3>3. failure' \in FailureRecord /\ failure' # Damaged
      BY <2>4, <3>2, Sentinels DEF TInv, TypeOK, FailureRecord
    <3>4. DiskVerdict(ctx)' = failure'.state
      BY <3>1, <3>2, <3>3 DEF DiskVerdict
    <3>5. QED
      BY <2>4, <3>1, <3>2, <3>4
  <2>5. QED
    BY <2>1, <2>2, <2>3, <2>4 DEF Finally, ReuseReturnsAtOnce
<1>3. QED
  BY <1>1, <1>2, OnDiskStep, TypeInvariant, PTL DEF Spec, VerdictMatchesDisk

-----------------------------------------------------------------------------
\* A run never loses the completion it could have reused, unless told to overwrite.
THEOREM ValidCompletionIsKept == Spec => ValidCompletionKept
<1>1. Init => Protocol
  BY Sentinels DEF Init, Protocol, WithdrawnWhileWorking, ProducedStands, IndexStands,
                   CompletionVouches
<1> DEFINE Loses == /\ ctx' = ctx /\ disturbances' = disturbances
                    /\ Compatible(ctx) /\ ~Compatible(ctx)'
<1>2. TInv /\ Protocol /\ [Next]_vars => [Loses => overwrite \/ pc = "retract"]_vars
  <2> SUFFICES ASSUME TInv, Protocol, [Next]_vars, Loses
               PROVE  overwrite \/ pc = "retract"
    OBVIOUS
  <2> USE DEF Protocol, WithdrawnWhileWorking, Compatible, disk, proc, command,
              Undisturbed, Continue, Disturb, RaiseInTry, LeaveRaising, TInv, TypeOK
  <2>1. ASSUME NEW ow \in BOOLEAN, StartRun(ow) PROVE overwrite \/ pc = "retract"
    BY <2>1 DEF StartRun
  <2>2. CASE WorkerLoadsConfig
    BY <2>2 DEF WorkerLoadsConfig
  <2>3. CASE Reuse
    BY <2>3 DEF Reuse
  <2>4. CASE WithdrawCompletion
    BY <2>4 DEF WithdrawCompletion
  <2>5. CASE ClearFailure
    BY <2>5 DEF ClearFailure
  <2>6. CASE WriteRunning
    BY <2>6 DEF WriteRunning
  <2>7. ASSUME NEW k \in Artifact, ExecutorWrites(k) PROVE overwrite \/ pc = "retract"
    BY <2>7 DEF ExecutorWrites
  <2>8. CASE VerifyProduced
    BY <2>8 DEF VerifyProduced
  <2>9. CASE WriteIndex
    BY <2>9 DEF WriteIndex
  <2>10. CASE WriteCompletion
    BY <2>10 DEF WriteCompletion
  <2>11. CASE DropFailure
    BY <2>11 DEF DropFailure
  <2>12. CASE WriteFailure
    BY <2>12 DEF WriteFailure
  <2>13. CASE RetractCompletion
    BY <2>13 DEF RetractCompletion
  <2>14. CASE Finally
    BY <2>14 DEF Finally
  <2>15. CASE Blocked
    BY <2>15 DEF Blocked
  <2>16. CASE ExecutorRaises
    BY <2>16 DEF ExecutorRaises
  <2>17. CASE ErrorInTry
    BY <2>17 DEF ErrorInTry
  <2>18. CASE Propagate
    BY <2>18 DEF Propagate
  <2>19. CASE Kill
    BY <2>19 DEF Kill
  <2>20. CASE Damage
    BY <2>20 DEF Damage
  <2>21. CASE EditInputs
    BY <2>21 DEF EditInputs
  <2>22. CASE UNCHANGED vars
    BY <2>22 DEF vars
  <2>23. QED
    BY <2>1, <2>2, <2>3, <2>4, <2>5, <2>6, <2>7, <2>8, <2>9, <2>10, <2>11, <2>12,
       <2>13, <2>14, <2>15, <2>16, <2>17, <2>18, <2>19, <2>20, <2>21, <2>22
       DEF Next, RunnerStep, Environment
<1>3. QED
  BY <1>1, <1>2, ProtocolStep, TypeInvariant, PTL DEF Spec, ValidCompletionKept

-----------------------------------------------------------------------------
\* The two components of the refinement mapping, and the steps of the abstract
\* specification in terms of them.
Visible ==
    IF /\ completion \in CompletionRecord
       /\ index = completion.sums
       /\ artifact = completion.sums
    THEN completion ELSE NoFile

Attempt == IF pc = "idle" THEN NoFile
           ELSE [named |-> ctx, computed |-> cfg, loads |-> pooled]

\* The abstract actions, spelled out under the refinement mapping.
LEMMA AbstractSteps ==
    /\ Published!Begin <=>
          /\ Attempt = NoFile
          /\ \/ Attempt' = [named |-> inputs, computed |-> inputs, loads |-> FALSE]
             \/ \E i \in Inputs :
                   Attempt' = [named |-> inputs, computed |-> i, loads |-> TRUE]
          /\ inputs' = inputs /\ Visible' = Visible
    /\ Published!Load <=> /\ Attempt # NoFile /\ Attempt.loads
                          /\ Attempt' = [named |-> Attempt.named, computed |-> inputs,
                                         loads |-> TRUE]
                          /\ inputs' = inputs /\ Visible' = Visible
    /\ Published!Publish <=> /\ Attempt # NoFile /\ Visible = NoFile
                             /\ Visible' \in Published!Publication(Attempt)
                             /\ inputs' = inputs /\ Attempt' = Attempt
    /\ Published!Withdraw <=> /\ Visible' = NoFile
                              /\ inputs' = inputs /\ Attempt' = Attempt
    /\ Published!End <=> /\ Attempt' = NoFile
                         /\ inputs' = inputs /\ Visible' = Visible
    /\ Published!ChangeInputs <=> /\ inputs' \in Inputs
                                  /\ Attempt' = Attempt /\ Visible' = Visible
    /\ UNCHANGED Published!pubVars <=> /\ inputs' = inputs /\ Attempt' = Attempt
                                       /\ Visible' = Visible
  BY DEF Published!Begin, Published!Load, Published!Publish, Published!Withdraw, Published!End,
         Published!ChangeInputs, Published!pubVars, Visible, Attempt

\* What changes no file a publication consists of leaves the publication as it is;
\* no publication is visible while the completion is withdrawn.
LEMMA VisibleUnchanged ==
    UNCHANGED <<completion, index, artifact>> => Visible' = Visible
  BY DEF Visible

\* Without a completion record there is no publication.
LEMMA NothingVisible == completion \notin CompletionRecord => Visible = NoFile
  BY DEF Visible

\* Every step of the runner is an abstract step or a stutter.
LEMMA MappedStep ==
    ASSUME TInv, Protocol, TInv', Protocol', LoadedOnce, [Next]_vars
    PROVE  [Published!Next]_Published!pubVars
<1> DEFINE Goal == [Published!Next]_Published!pubVars
<1> USE DEF Published!Next, disk, proc, command, Undisturbed, Continue, RaiseInTry,
            LeaveRaising
<1>1. ASSUME inputs' = inputs, Attempt' = Attempt, Visible' = Visible PROVE Goal
  BY <1>1, AbstractSteps
<1>2. ASSUME inputs' = inputs, Visible' = Visible, Attempt' \in {Attempt, NoFile}
      PROVE  Goal
  BY <1>2, AbstractSteps
<1>3. ASSUME inputs' = inputs, Attempt' = Attempt, Visible' = NoFile PROVE Goal
  BY <1>3, AbstractSteps
<1>4. ASSUME NEW ow \in BOOLEAN, StartRun(ow) PROVE Goal
  <2>1. Attempt = NoFile /\ inputs' = inputs
    BY <1>4 DEF StartRun, Attempt
  <2>2. Visible' = Visible
    BY <1>4, VisibleUnchanged DEF StartRun
  <2>3. CASE pooled' = FALSE /\ pc' = "gate" /\ cfg' = inputs
    <3>1. Attempt' = [named |-> inputs, computed |-> inputs, loads |-> FALSE]
      BY <1>4, <2>3 DEF StartRun, Attempt
    <3>2. QED
      BY <2>1, <2>2, <3>1, AbstractSteps
  <2>4. CASE pooled' = TRUE /\ pc' = "queued"
    <3>1. Attempt' = [named |-> inputs, computed |-> cfg', loads |-> TRUE]
      BY <1>4, <2>4 DEF StartRun, Attempt
    <3>2. cfg' \in Inputs
      BY DEF TInv, TypeOK
    <3>3. QED
      BY <2>1, <2>2, <3>1, <3>2, AbstractSteps
  <2>5. QED
    BY <1>4, <2>3, <2>4 DEF StartRun
<1>5. CASE WorkerLoadsConfig
  <2>1. inputs' = inputs /\ Visible' = Visible
    BY <1>5, VisibleUnchanged DEF WorkerLoadsConfig
  <2>2. Attempt = [named |-> ctx, computed |-> cfg, loads |-> TRUE]
    BY <1>5 DEF WorkerLoadsConfig, Attempt, LoadedOnce, TInv, TypeOK
  <2>3. Attempt' = [named |-> ctx, computed |-> inputs, loads |-> TRUE]
    BY <1>5 DEF WorkerLoadsConfig, Attempt, LoadedOnce, TInv, TypeOK
  <2>4. Attempt \in Attempts
    BY <2>2 DEF Attempts, TInv, TypeOK
  <2>5. Attempt # NoFile
    BY <2>4, Sentinels
  <2>6. Attempt.loads
    <3>1. [named |-> ctx, computed |-> cfg, loads |-> TRUE].loads
      BY Zenon
    <3>2. QED
      BY <2>2, <3>1, Zenon
  <2>7. Attempt.named = ctx
    <3>1. [named |-> ctx, computed |-> cfg, loads |-> TRUE].named = ctx
      BY Zenon
    <3>2. QED
      BY <2>2, <3>1, Zenon
  <2>8. QED
    BY <2>1, <2>3, <2>5, <2>6, <2>7, AbstractSteps, Zenon
<1>6. CASE Reuse \/ Blocked \/ Kill \/ Finally \/ Propagate
           \/ ClearFailure \/ WriteRunning \/ DropFailure \/ WriteFailure
           \/ VerifyProduced \/ ExecutorRaises \/ ErrorInTry
  <2>1. inputs' = inputs /\ UNCHANGED <<completion, index, artifact, ctx, cfg, pooled>>
    BY <1>6 DEF Reuse, Blocked, Kill, Finally, Propagate, ClearFailure,
                WriteRunning, DropFailure, WriteFailure, VerifyProduced, ExecutorRaises,
                ErrorInTry
  <2>2. pc # "idle"
    BY <1>6 DEF Reuse, Blocked, Kill, Finally, Propagate, ClearFailure,
                WriteRunning, DropFailure, WriteFailure, VerifyProduced, ExecutorRaises,
                ErrorInTry, InTry
  <2>3. Attempt' \in {Attempt, NoFile}
    BY <2>1, <2>2 DEF Attempt
  <2>4. QED
    BY <1>2, <2>1, <2>3, VisibleUnchanged
<1>7. CASE WithdrawCompletion \/ RetractCompletion
  <2>1. inputs' = inputs /\ Attempt' = Attempt
    BY <1>7 DEF WithdrawCompletion, RetractCompletion, Attempt
  <2>2. completion' \notin CompletionRecord
    BY <1>7, Sentinels DEF WithdrawCompletion, RetractCompletion
  <2>3. Visible' = NoFile
    BY <2>2 DEF Visible
  <2>4. QED
    BY <1>3, <2>1, <2>3
<1>8. ASSUME NEW k \in Artifact, ExecutorWrites(k) PROVE Goal
  <2>1. inputs' = inputs /\ Attempt' = Attempt /\ completion' = completion
    BY <1>8 DEF ExecutorWrites, Attempt
  <2>2. completion \notin CompletionRecord
    BY <1>8 DEF ExecutorWrites, Protocol, WithdrawnWhileWorking
  <2>3. Visible' = NoFile
    BY <2>1, <2>2 DEF Visible
  <2>4. QED
    BY <1>3, <2>1, <2>3
<1>9. CASE WriteIndex
  <2>1. inputs' = inputs /\ Attempt' = Attempt /\ completion' = completion
    BY <1>9 DEF WriteIndex, Attempt
  <2>2. completion \notin CompletionRecord
    BY <1>9 DEF WriteIndex, Protocol, WithdrawnWhileWorking
  <2>3. Visible' = NoFile
    BY <2>1, <2>2 DEF Visible
  <2>4. QED
    BY <1>3, <2>1, <2>3
<1>10. CASE WriteCompletion
  <2>1. /\ inputs' = inputs /\ Attempt' = Attempt
        /\ Attempt = [named |-> ctx, computed |-> cfg, loads |-> pooled]
    BY <1>10 DEF WriteCompletion, Attempt
  <2>2. Attempt # NoFile
    BY <2>1, Sentinels DEF TInv, TypeOK, Attempts
  <2>3. Visible = NoFile
    BY <1>10, NothingVisible DEF WriteCompletion, Protocol, WithdrawnWhileWorking
  <2>4. completion' = [ctx |-> ctx, sums |-> produced]
    BY <1>10 DEF WriteCompletion
  <2>5. completion' \in Published!Publication(Attempt)
    <3>1. produced \in Sums
      BY <1>10 DEF WriteCompletion, TInv, ProducedComplete
    <3>2. \A k \in Artifact : produced[k] \in [inputs : {cfg}, salt : Salts]
      BY <3>1 DEF LoadedOnce, Sums, Content
    <3>3. produced \in [Artifact -> [inputs : {cfg}, salt : Salts]]
      BY <3>1, <3>2 DEF Sums
    <3>4. Attempt.named = ctx /\ Attempt.computed = cfg
      BY <2>1
    <3>5. QED
      BY <2>4, <3>3, <3>4 DEF Published!Publication
  <2>6. Visible' \in {completion', NoFile}
    BY DEF Visible
  <2>7. CASE Visible' = NoFile
    BY <1>3, <2>1, <2>7
  <2>8. CASE Visible' = completion'
    <3>1. Published!Publish
      BY <2>1, <2>2, <2>3, <2>5, <2>8, AbstractSteps
    <3>2. QED
      BY <3>1
  <2>9. QED
    BY <2>6, <2>7, <2>8
<1>11. CASE Damage
  <2>1. inputs' = inputs /\ Attempt' = Attempt
    BY <1>11 DEF Damage, Attempt
  <2>2. CASE Visible' = NoFile
    BY <1>3, <2>1, <2>2
  <2>3. CASE Visible' # NoFile
    <3>1. /\ completion' \in CompletionRecord
          /\ index' = completion'.sums /\ artifact' = completion'.sums
      BY <2>3 DEF Visible
    <3>2. completion' = completion
      BY <1>11, <3>1, Sentinels DEF Damage
    <3>3. completion.sums \in Sums
      BY <3>1, <3>2 DEF CompletionRecord
    <3>4. index' = index
      BY <1>11, <3>1, <3>2, <3>3, Sentinels DEF Damage
    <3>5. artifact' = artifact
      <4>1. \A k \in Artifact : artifact'[k] \in Content
        BY <3>1, <3>2, <3>3 DEF Sums
      <4>2. QED
        BY <1>11, <4>1, Sentinels DEF Damage, TInv, TypeOK
    <3>6. QED
      BY <1>1, <2>1, <3>2, <3>4, <3>5, VisibleUnchanged
  <2>4. QED
    BY <2>2, <2>3
<1>12. CASE EditInputs
  <2>1. inputs' \in Inputs /\ Attempt' = Attempt
    BY <1>12 DEF EditInputs, Attempt
  <2>2. Visible' = Visible
    BY <1>12, VisibleUnchanged DEF EditInputs
  <2>3. Published!ChangeInputs
    BY <2>1, <2>2, AbstractSteps
  <2>4. QED
    BY <2>3
<1>13. CASE UNCHANGED vars
  BY <1>13, <1>1, VisibleUnchanged DEF vars, Attempt
<1>14. QED
  BY <1>4, <1>5, <1>6, <1>7, <1>8, <1>9, <1>10, <1>11, <1>12, <1>13
     DEF Next, RunnerStep, Environment

\* run_cell implements the published result: whatever raises, dies or is damaged,
\* a reader sees nothing, or one whole set of artifacts of one execution under the
\* inputs its completion names or, in a pool, under those its worker found.
THEOREM Refinement == Spec => RefinesPublishedResult
<1>1. Init => Published!Init
  BY Sentinels DEF Init, Published!Init
<1>2. Init => Protocol /\ LoadedOnce /\ CompletedUnderOneConfiguration
  BY Sentinels DEF Init, Protocol, WithdrawnWhileWorking, ProducedStands, IndexStands,
                   CompletionVouches, LoadedOnce, CompletedUnderOneConfiguration,
                   NothingProduced
<1>3. TInv /\ Protocol /\ TInv' /\ Protocol' /\ LoadedOnce /\ [Next]_vars
        => [Published!Next]_Published!pubVars
  BY MappedStep
<1>4. QED
  BY <1>1, <1>2, <1>3, ProtocolStep, LoadedOnceStep, TypeInvariant, PTL
     DEF Spec, RefinesPublishedResult, Published!Spec

-----------------------------------------------------------------------------
(* What a status command reports of a cell that another process is running. *)

Withdrawn == {"clearFailure", "writeRunning", "execute", "writeIndex", "writeCompletion"}

\* Unless a file was damaged by hand, a completion is there with all it lists, and
\* is gone while the cell is computed; the marker stands by then.
Intact ==
    /\ tampered => harmed
    /\ pc \in InTry \cup InHandler => running
    /\ ~harmed =>
        /\ completion # Damaged
        /\ pc \in Withdrawn => completion = NoFile
        /\ pc \in {"writeIndex", "writeCompletion"} => artifact = produced
        /\ pc = "writeCompletion" => index = produced
        /\ completion # NoFile => index = completion.sums /\ artifact = completion.sums

\* The present verdict is among those that have held.  A completion of the context was
\* valid when it was read; a marker found after the completion had been looked for
\* in vain was there before the completion that is there now.
Witnessed ==
    /\ rpc # "idle" => DiskVerdict(rctx) \in truth
    /\ ~harmed =>
        /\ rpc \in {"readIndex", "verify"} => "COMPLETED" \in truth
        /\ rpc = "running" /\ completion # NoFile => "RUNNING" \in truth

InspectionInv == Intact /\ Witnessed

-----------------------------------------------------------------------------
\* Looking at a cell changes nothing of it: the runner's facts hold beside it.
LEMMA InspectedRunner == InspSpec => []TInv
<1>1. InspInit => Init
  BY DEF InspInit
<1>2. [InspNext]_allVars => [Next]_vars
  BY DEF InspNext, allVars
<1>3. InspSpec => Spec
  BY <1>1, <1>2, PTL DEF InspSpec, Spec
<1>4. QED
  BY <1>3, TypeInvariant, PTL

\* Every step of the runner, and all that befalls its files.
LEMMA IntactStep ==
    ASSUME TInv, Intact, Next, harmed' = (harmed \/ tampered')
    PROVE  Intact'
<1> USE Sentinels DEF Intact, Withdrawn, TInv, ProducedComplete, disk, proc, command,
                      Undisturbed, Continue, Disturb, RaiseInTry, LeaveRaising, InTry,
                      InHandler
<1>1. ASSUME NEW ow \in BOOLEAN, StartRun(ow) PROVE Intact'
  BY <1>1 DEF StartRun
<1>2. CASE WorkerLoadsConfig
  BY <1>2 DEF WorkerLoadsConfig
<1>3. CASE Reuse
  BY <1>3 DEF Reuse
<1>4. CASE WithdrawCompletion
  BY <1>4 DEF WithdrawCompletion
<1>5. CASE ClearFailure
  BY <1>5 DEF ClearFailure
<1>6. CASE WriteRunning
  BY <1>6 DEF WriteRunning
<1>7. ASSUME NEW k \in Artifact, ExecutorWrites(k) PROVE Intact'
  BY <1>7 DEF ExecutorWrites
<1>8. CASE VerifyProduced
  BY <1>8 DEF VerifyProduced
<1>9. CASE WriteIndex
  BY <1>9 DEF WriteIndex
<1>10. CASE WriteCompletion
  <2>1. completion' \in CompletionRecord /\ completion'.sums = produced
    BY <1>10 DEF WriteCompletion, CompletionRecord, TypeOK
  <2>2. completion' # Damaged
    BY <2>1
  <2>3. QED
    BY <1>10, <2>1, <2>2 DEF WriteCompletion
<1>11. CASE DropFailure
  BY <1>11 DEF DropFailure
<1>12. CASE WriteFailure
  BY <1>12 DEF WriteFailure
<1>13. CASE RetractCompletion
  BY <1>13 DEF RetractCompletion
<1>14. CASE Finally
  BY <1>14 DEF Finally
<1>15. CASE Blocked
  BY <1>15 DEF Blocked
<1>16. CASE ExecutorRaises
  BY <1>16 DEF ExecutorRaises
<1>17. CASE ErrorInTry
  BY <1>17 DEF ErrorInTry
<1>18. CASE Propagate
  BY <1>18 DEF Propagate
<1>19. CASE Kill
  BY <1>19 DEF Kill
<1>20. CASE Damage
  <2>1. tampered' /\ UNCHANGED <<pc, running>>
    BY <1>20 DEF Damage
  <2>2. QED
    BY <2>1
<1>21. CASE EditInputs
  BY <1>21 DEF EditInputs
<1>22. QED
  BY <1>1, <1>2, <1>3, <1>4, <1>5, <1>6, <1>7, <1>8, <1>9, <1>10, <1>11, <1>12,
     <1>13, <1>14, <1>15, <1>16, <1>17, <1>18, <1>19, <1>20, <1>21
     DEF Next, RunnerStep, Environment

\* Only WriteCompletion brings a completion where none was.
LEMMA CompletionAppears ==
    ASSUME Next, completion = NoFile, completion' # NoFile
    PROVE  pc = "writeCompletion"
BY DEF Next, RunnerStep, Environment, StartRun, WorkerLoadsConfig, Reuse,
       WithdrawCompletion, ClearFailure, WriteRunning, ExecutorWrites, VerifyProduced,
       WriteIndex, WriteCompletion, DropFailure, WriteFailure, RetractCompletion, Finally,
       Blocked, ExecutorRaises, ErrorInTry, Propagate, Kill, Damage, EditInputs, disk, proc

\* While the runner moves, the inspection stays where it is.
LEMMA WitnessedByRunner ==
    ASSUME Intact, Witnessed, Next, UNCHANGED insp, harmed' = (harmed \/ tampered'),
           truth' = IF rpc = "idle" THEN {} ELSE truth \cup {DiskVerdict(rctx)'}
    PROVE  Witnessed'
<1> USE DEF insp
<1>1. rpc' # "idle" => DiskVerdict(rctx)' \in truth' /\ truth \subseteq truth'
  OBVIOUS
<1>2. ~harmed' => ~harmed
  OBVIOUS
<1>3. ASSUME ~harmed', rpc' \in {"readIndex", "verify"} PROVE "COMPLETED" \in truth'
  BY <1>1, <1>2, <1>3 DEF Witnessed
<1>4. ASSUME ~harmed', rpc' = "running", completion' # NoFile PROVE "RUNNING" \in truth'
  <2>1. CASE completion # NoFile
    BY <1>1, <1>2, <1>4, <2>1 DEF Witnessed
  <2>2. CASE completion = NoFile
    <3>1. running
      BY <1>4, <2>2, CompletionAppears DEF Intact, InTry
    <3>2. DiskVerdict(rctx) = "RUNNING"
      BY <2>2, <3>1 DEF DiskVerdict
    <3>3. QED
      BY <1>1, <1>4, <3>2 DEF Witnessed
  <2>3. QED
    BY <2>1, <2>2
<1>5. QED
  BY <1>1, <1>3, <1>4 DEF Witnessed

\* The verdict on files nobody touches.
LEMMA VerdictStands ==
    ASSUME UNCHANGED vars
    PROVE  DiskVerdict(rctx)' = DiskVerdict(rctx')
BY DEF DiskVerdict, Compatible, vars, disk

\* A completion that is found to be of the inspection's context is valid then.
LEMMA ReadWhileValid ==
    ASSUME Intact, ~harmed, completion \in CompletionRecord, completion.ctx = rctx
    PROVE  DiskVerdict(rctx) = "COMPLETED"
<1>1. Compatible(rctx)
  BY Sentinels DEF Intact, Compatible
<1>2. QED
  BY <1>1, Sentinels DEF DiskVerdict

\* While the inspection moves, the files stay as they are.
LEMMA WitnessedByInspection ==
    ASSUME Intact, Witnessed, InspectionStep, UNCHANGED <<vars, harmed>>,
           truth' = CASE rpc = "idle" -> {DiskVerdict(rctx')}
                      [] rpc # "idle" /\ rpc' = "idle" -> {}
                      [] OTHER -> truth
    PROVE  Witnessed'
<1>1. DiskVerdict(rctx)' = DiskVerdict(rctx')
  BY VerdictStands
<1>2. UNCHANGED <<completion, harmed>>
  BY DEF vars, disk
<1>3. CASE BeginInspection
  BY <1>1, <1>3 DEF BeginInspection, Witnessed
<1>4. CASE rpc' = "idle"
  BY <1>4 DEF Witnessed
<1>5. ASSUME rpc # "idle", rpc' # "idle" PROVE Witnessed'
  <2>1. truth' = truth
    BY <1>5
  <2>2. rctx' = rctx
    BY <1>5 DEF InspectionStep, BeginInspection, LookForCompletion, ReadCompletion, ReadIndex,
                VerifyArtifact, AllVerified, LookForRunning, LookForFailure, ReadFailure
  <2>3. DiskVerdict(rctx)' \in truth'
    BY <1>1, <1>5, <2>1, <2>2 DEF Witnessed
  <2>4. ASSUME ~harmed, rpc' \in {"readIndex", "verify"} PROVE "COMPLETED" \in truth'
    <3>1. CASE ReadCompletion /\ completion \in CompletionRecord /\ completion.ctx = rctx
      BY <1>5, <2>1, <2>4, <3>1, ReadWhileValid DEF Witnessed
    <3>2. CASE rpc \in {"readIndex", "verify"}
      BY <2>1, <2>4, <3>2 DEF Witnessed
    <3>3. QED
      BY <2>4, <3>1, <3>2
      DEF InspectionStep, BeginInspection, LookForCompletion, ReadCompletion, ReadIndex,
          VerifyArtifact, AllVerified, LookForRunning, LookForFailure, ReadFailure, Goto, Report
  <2>5. rpc' = "running" => completion = NoFile
    BY <1>5
    DEF InspectionStep, BeginInspection, LookForCompletion, ReadCompletion, ReadIndex,
        VerifyArtifact, AllVerified, LookForRunning, LookForFailure, ReadFailure, Goto, Report
  <2>6. QED
    BY <1>2, <2>3, <2>4, <2>5 DEF Witnessed
<1>6. QED
  BY <1>3, <1>4, <1>5 DEF InspectionStep, LookForCompletion, ReadCompletion, ReadIndex,
     VerifyArtifact, AllVerified, LookForRunning, LookForFailure, ReadFailure

LEMMA InspectionStepKeeps ==
    TInv /\ InspectionInv /\ [InspNext]_allVars => InspectionInv'
<1> SUFFICES ASSUME TInv, InspectionInv, [InspNext]_allVars PROVE InspectionInv'
  OBVIOUS
<1>1. ASSUME UNCHANGED <<vars, harmed>> PROVE Intact'
  BY <1>1 DEF InspectionInv, Intact, vars, disk, proc
<1>2. ASSUME InspectionStep, UNCHANGED <<vars, harmed>>,
             truth' = CASE rpc = "idle" -> {DiskVerdict(rctx')}
                        [] rpc # "idle" /\ rpc' = "idle" -> {}
                        [] OTHER -> truth
      PROVE  InspectionInv'
  BY <1>1, <1>2, WitnessedByInspection DEF InspectionInv
<1>3. ASSUME Next, UNCHANGED insp, harmed' = (harmed \/ tampered'),
             truth' = IF rpc = "idle" THEN {} ELSE truth \cup {DiskVerdict(rctx)'}
      PROVE  InspectionInv'
  BY <1>3, IntactStep, WitnessedByRunner DEF InspectionInv
<1>4. CASE UNCHANGED allVars
  <2>1. DiskVerdict(rctx)' = DiskVerdict(rctx)
    BY <1>4, VerdictStands DEF allVars, insp
  <2>2. QED
    BY <1>1, <1>4, <2>1 DEF InspectionInv, Witnessed, allVars, insp, vars, disk
<1>5. QED
  BY <1>2, <1>3, <1>4 DEF InspNext

\* A cell that is reported completed or running was so at some moment of the inspection,
\* however the runner moves while it is made, unless files were damaged
\* (inspect_cell_status, experiments/status.py, 59 to 97).
THEOREM ReportHeld == InspSpec => ReportedStateHeld
<1>1. InspInit => InspectionInv
  BY Sentinels DEF InspInit, Init, InspectionInv, Intact, Witnessed, Withdrawn, InTry, InHandler
<1>2. InspectionInv /\ [InspNext]_allVars =>
        [rpc # "idle" /\ rpc' = "idle" /\ ~harmed /\ verdict' \in {"COMPLETED", "RUNNING"}
           => verdict' \in truth]_allVars
  <2> SUFFICES ASSUME InspectionInv, InspNext, rpc # "idle", rpc' = "idle", ~harmed,
                      verdict' \in {"COMPLETED", "RUNNING"}
               PROVE  verdict' \in truth
    OBVIOUS
  <2>1. InspectionStep
    BY DEF InspNext, insp
  <2>2. CASE AllVerified
    BY <2>2 DEF AllVerified, Report, InspectionInv, Witnessed
  <2>3. CASE LookForRunning
    <3>1. running /\ rpc = "running" /\ verdict' = "RUNNING"
      BY <2>3 DEF LookForRunning, Goto, Report
    <3>2. completion = NoFile => DiskVerdict(rctx) = "RUNNING"
      BY <3>1 DEF DiskVerdict
    <3>3. QED
      BY <3>1, <3>2 DEF InspectionInv, Witnessed
  <2>4. QED
    BY <2>1, <2>2, <2>3
    DEF InspectionStep, BeginInspection, LookForCompletion, ReadCompletion, ReadIndex,
        VerifyArtifact, LookForFailure, ReadFailure, Goto, Report, FailureRecord
<1>3. QED
  BY <1>1, <1>2, InspectedRunner, InspectionStepKeeps, PTL DEF InspSpec, ReportedStateHeld
=============================================================================
