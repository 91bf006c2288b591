------------------------- MODULE BatchRecoveryProofs -------------------------
(***************************************************************************)
(* Proofs about BatchRecovery, for any configurations, any sizes of cells  *)
(* and batches, any pool and any number of disturbances: what a run        *)
(* combines is, batch for batch, what its own context computes, and uses   *)
(* every seed of the cell once, in order.  Facts about the loop that splits*)
(* the seeds need an induction: it is carried out over sets of numbers,    *)
(* whose least element WFMin gives.                                        *)
(***************************************************************************)
EXTENDS BatchRecovery, WellFoundedInduction, TLAPS

\* Types, without a bound on the number of batches already handed out.
ShapeOK ==
    /\ config \in Configs
    /\ ctx \in Configs
    /\ result \in [Batch -> Payloads \cup {NoFile, Damaged}]
    /\ record \in [Batch -> Record \cup {NoFile, Damaged}]
    /\ run \in {"idle", "pool", "draining"}
    /\ picked \in Nat
    /\ workers \subseteq Worker
    /\ evidence \in Seq(Payloads)

\* A record that can be read lists the digest of what its context computes for its batch.
RecordsTrue ==
    \A b \in Batch : record[b] \in Record =>
        record[b].sum = Payload(record[b].ctx, record[b].batch)

\* What a worker holds, or is about to read, is of the run's context and its own batch:
\* once the digest has matched, the result file can only be damaged.
WorkersTrue ==
    \A w \in workers :
        /\ w.batch \in Batches(ctx)
        /\ w.phase \in {"digest", "mark", "returned"} => w.got = Payload(ctx, w.batch)
        /\ w.phase = "result" /\ result[w.batch] \in Payloads =>
             result[w.batch] = Payload(ctx, w.batch)

\* The pool works ahead of what has been collected, one worker to a batch, and a
\* run that is over has left no worker behind.
PoolAhead ==
    /\ \A w \in workers : w.batch > Len(evidence) /\ w.batch =< picked
    /\ \A v, w \in workers : v.batch = w.batch => v = w
    /\ Len(evidence) =< picked
    /\ run = "idle" => workers = {}

\* The evidence collected so far is that of the first batches, in their order.
EvidenceTrue == \A b \in DOMAIN evidence : evidence[b] = Payload(ctx, b)

RecoveryInv == ShapeOK /\ RecordsTrue /\ WorkersTrue /\ PoolAhead /\ EvidenceTrue

-----------------------------------------------------------------------------
\* The payload of a batch, and what a run may find in its place.
LEMMA PayloadFacts ==
    ASSUME NEW c \in Configs, NEW b \in Batches(c)
    PROVE  /\ b \in Batch
           /\ Payload(c, b) \in Payloads
           /\ Payload(c, b).ctx = c
           /\ NoFile \notin Payloads /\ Damaged \notin Payloads
           /\ NoFile \notin Record /\ Damaged \notin Record
<1>1. b \in Batch
  BY DEF Batch
<1>2. Payload(c, b) \in Payloads
  BY DEF Payloads
<1>3. Payload(c, b).ctx = c
  BY DEF Payload
<1> QED
  BY <1>1, <1>2, <1>3, NoFileAssumption, DamagedAssumption

LEMMA InitRecovery == Init => RecoveryInv
BY NoFileAssumption, DamagedAssumption
   DEF Init, RecoveryInv, ShapeOK, RecordsTrue, WorkersTrue, PoolAhead, EvidenceTrue

-----------------------------------------------------------------------------
\* A worker that goes on in its batch, with files that stay or become those of its
\* context, keeps the invariant.
LEMMA WorkerMoves ==
    ASSUME RecoveryInv,
           NEW w \in workers,
           NEW phase \in {"record", "digest", "result", "compute", "mark", "returned", "raised"},
           NEW got \in Payloads \cup {NoFile},
           Step(w, phase, got), MainUnchanged,
           result' \in [Batch -> Payloads \cup {NoFile, Damaged}],
           record' \in [Batch -> Record \cup {NoFile, Damaged}],
           RecordsTrue',
           phase \in {"digest", "mark", "returned"} => got = Payload(ctx, w.batch),
           phase = "result" /\ result'[w.batch] \in Payloads =>
               result'[w.batch] = Payload(ctx, w.batch),
           \A v \in workers : result'[v.batch] # result[v.batch] =>
               result'[v.batch] = Payload(ctx, v.batch)
    PROVE  RecoveryInv'
<1> DEFINE moved == [w EXCEPT !.phase = phase, !.got = got]
<1>1. /\ workers' = (workers \ {w}) \cup {moved}
      /\ config' = config /\ run' = run /\ ctx' = ctx /\ picked' = picked
      /\ evidence' = evidence
  BY DEF Step, MainUnchanged, main
<1>2. /\ w \in Worker
      /\ moved \in Worker
      /\ moved.batch = w.batch /\ moved.phase = phase /\ moved.got = got
  BY DEF RecoveryInv, ShapeOK, Worker
<1> HIDE DEF moved
<1>3. ShapeOK'
  BY <1>1, <1>2 DEF RecoveryInv, ShapeOK
<1>4. WorkersTrue'
  <2> SUFFICES ASSUME NEW v \in workers'
               PROVE  /\ v.batch \in Batches(ctx)
                      /\ v.phase \in {"digest", "mark", "returned"} => v.got = Payload(ctx, v.batch)
                      /\ v.phase = "result" /\ result'[v.batch] \in Payloads =>
                           result'[v.batch] = Payload(ctx, v.batch)
    BY <1>1 DEF WorkersTrue, Batches, Payload, Ranges
  <2>1. CASE v = moved
    BY <2>1, <1>2 DEF RecoveryInv, WorkersTrue
  <2>2. CASE v \in workers
    BY <2>2 DEF RecoveryInv, WorkersTrue
  <2> QED
    BY <2>1, <2>2, <1>1
<1>5. PoolAhead'
  BY <1>1, <1>2 DEF RecoveryInv, PoolAhead
<1>6. EvidenceTrue'
  BY <1>1 DEF RecoveryInv, EvidenceTrue, Payload, Ranges
<1> QED
  BY <1>3, <1>4, <1>5, <1>6 DEF RecoveryInv

\* Every step of a worker, and a worker that raises, keep the invariant.
LEMMA WorkerStepKeeps ==
    ASSUME RecoveryInv, NEW w \in workers, WorkerStep(w) \/ Raise(w)
    PROVE  RecoveryInv'
<1>1. /\ w \in Worker /\ w.batch \in Batches(ctx) /\ w.batch \in Batch
      /\ ctx \in Configs
      /\ result \in [Batch -> Payloads \cup {NoFile, Damaged}]
      /\ record \in [Batch -> Record \cup {NoFile, Damaged}]
      /\ RecordsTrue
  BY PayloadFacts DEF RecoveryInv, ShapeOK, WorkersTrue
<1>2. /\ Payload(ctx, w.batch) \in Payloads
      /\ Payload(ctx, w.batch) # NoFile
  BY <1>1, PayloadFacts
<1>3. CASE result' = result /\ record' = record
  <2>1. RecordsTrue'
    BY <1>3, <1>1 DEF RecordsTrue, Payload, Ranges
  <2>2. ASSUME NEW phase \in {"record", "compute", "raised"},
               Step(w, phase, NoFile), MainUnchanged
        PROVE  RecoveryInv'
    BY <2>1, <2>2, <1>1, <1>3, WorkerMoves
  <2>3. CASE ReadRecord(w)
    <3>1. CASE /\ record[w.batch] \in Record /\ record[w.batch].ctx = ctx
               /\ record[w.batch].batch = w.batch
               /\ Step(w, "digest", record[w.batch].sum)
      <4>1. record[w.batch].sum = Payload(ctx, w.batch)
        BY <3>1, <1>1 DEF RecordsTrue
      <4> QED
        BY <2>1, <2>3, <3>1, <4>1, <1>1, <1>2, <1>3, WorkerMoves DEF ReadRecord
    <3> QED
      BY <2>2, <2>3, <3>1 DEF ReadRecord
  <2>4. CASE CompareDigest(w)
    <3>1. CASE result[w.batch] = w.got /\ w.phase = "digest" /\ Step(w, "result", NoFile)
      <4>1. result[w.batch] = Payload(ctx, w.batch)
        BY <3>1 DEF RecoveryInv, WorkersTrue
      <4> QED
        BY <2>1, <2>4, <3>1, <4>1, <1>1, <1>2, <1>3, WorkerMoves DEF CompareDigest
    <3> QED
      BY <2>2, <2>4, <3>1 DEF CompareDigest
  <2>5. CASE ReadResult(w)
    <3>1. CASE result[w.batch] \in Payloads /\ Step(w, "returned", result[w.batch])
      <4>1. result[w.batch] = Payload(ctx, w.batch)
        BY <2>5, <3>1 DEF ReadResult, RecoveryInv, WorkersTrue
      <4> QED
        BY <2>1, <2>5, <3>1, <4>1, <1>1, <1>2, <1>3, WorkerMoves DEF ReadResult
    <3> QED
      BY <2>2, <2>5, <3>1 DEF ReadResult
  <2>6. CASE Raise(w)
    BY <2>2, <2>6 DEF Raise
  <2>7. CASE Compute(w)
    <3>1. Step(w, "mark", Payload(ctx, w.batch)) /\ MainUnchanged
      BY <2>7 DEF Compute
    <3> QED
      BY <3>1, <2>1, <1>1, <1>2, <1>3, WorkerMoves
  <2>8. CASE WriteRecord(w)
    <3>1. Step(w, "returned", w.got) /\ MainUnchanged /\ w.got = Payload(ctx, w.batch)
      BY <2>8 DEF WriteRecord, RecoveryInv, WorkersTrue
    <3> QED
      BY <3>1, <2>1, <1>1, <1>2, <1>3, WorkerMoves
  <2> QED
    BY <2>3, <2>4, <2>5, <2>6, <2>7, <2>8 DEF WorkerStep
<1>4. CASE Compute(w)
  <2>1. /\ Step(w, "mark", Payload(ctx, w.batch)) /\ MainUnchanged
        /\ result' = [result EXCEPT ![w.batch] = Payload(ctx, w.batch)]
        /\ record' = record
    BY <1>4 DEF Compute
  <2>2. RecordsTrue'
    BY <2>1, <1>1 DEF RecordsTrue, Payload, Ranges
  <2>3. \A v \in workers : result'[v.batch] # result[v.batch] =>
               result'[v.batch] = Payload(ctx, v.batch)
    <3> SUFFICES ASSUME NEW v \in workers, result'[v.batch] # result[v.batch]
                 PROVE  result'[v.batch] = Payload(ctx, v.batch)
      OBVIOUS
    <3>1. v.batch \in Batch
      BY DEF RecoveryInv, ShapeOK, Worker
    <3> QED
      BY <3>1, <2>1, <1>1
  <2> QED
    BY <2>1, <2>2, <2>3, <1>1, <1>2, WorkerMoves
<1>5. CASE WriteRecord(w)
  <2>1. /\ Step(w, "returned", w.got) /\ MainUnchanged /\ w.got = Payload(ctx, w.batch)
        /\ record' = [record EXCEPT ![w.batch] = [ctx |-> ctx, batch |-> w.batch, sum |-> w.got]]
        /\ result' = result
    BY <1>5 DEF WriteRecord, RecoveryInv, WorkersTrue
  <2>2. record' \in [Batch -> Record \cup {NoFile, Damaged}]
    BY <2>1, <1>1, <1>2 DEF Record
  <2>3. RecordsTrue'
    BY <2>1, <1>1 DEF RecordsTrue, Payload, Ranges
  <2> QED
    BY <2>1, <2>2, <2>3, <1>1, <1>2, WorkerMoves
<1> QED
  BY <1>3, <1>4, <1>5 DEF WorkerStep, ReadRecord, CompareDigest, ReadResult, Raise, disk

-----------------------------------------------------------------------------
\* The main process keeps the invariant: what it appends is the result of the next
\* batch, and it combines only when no worker is left.
LEMMA MainKeeps ==
    ASSUME RecoveryInv, StartRun \/ MainStep \/ Kill
    PROVE  RecoveryInv'
<1>1. /\ result' = result /\ record' = record /\ config' = config
      /\ config \in Configs /\ ctx \in Configs /\ picked \in Nat
      /\ workers \subseteq Worker /\ evidence \in Seq(Payloads)
  BY DEF RecoveryInv, ShapeOK, StartRun, MainStep, Pick, Collect, Combine, LeavePool, Kill,
         Undisturbed, disk
<1>2. RecordsTrue'
  BY <1>1 DEF RecoveryInv, RecordsTrue, Payload, Ranges
<1>3. CASE StartRun
  <2>1. workers' = {} /\ evidence' = <<>> /\ picked' = 0 /\ ctx' = config /\ run' = "pool"
    BY <1>3 DEF StartRun, RecoveryInv, PoolAhead
  <2> QED
    BY <1>1, <1>2, <2>1 DEF RecoveryInv, ShapeOK, WorkersTrue, PoolAhead, EvidenceTrue
<1>4. CASE Pick
  <2> DEFINE new == [batch |-> picked + 1, got |-> NoFile, phase |-> "record"]
  <2>1. /\ picked' = picked + 1 /\ workers' = workers \cup {new}
        /\ run' = run /\ ctx' = ctx /\ evidence' = evidence
        /\ picked + 1 \in Batches(ctx) /\ run # "idle"
    BY <1>4 DEF Pick
  <2>2. new \in Worker
    BY <1>1, <2>1, PayloadFacts DEF Worker
  <2>3. new.batch = picked + 1 /\ new.phase = "record"
    OBVIOUS
  <2> HIDE DEF new
  <2>4. ShapeOK'
    BY <1>1, <2>1, <2>2 DEF RecoveryInv, ShapeOK
  <2>5. WorkersTrue'
    BY <1>1, <2>1, <2>3 DEF RecoveryInv, WorkersTrue, Batches, Payload, Ranges
  <2>6. PoolAhead'
    <3>1. \A w \in workers : w.batch \in Nat /\ w.batch =< picked /\ w.batch > Len(evidence)
      BY <1>1 DEF RecoveryInv, PoolAhead, WorkersTrue, Batches
    <3>2. \A w \in workers : w.batch # new.batch
      BY <1>1, <2>3, <3>1
    <3>3. Len(evidence) \in Nat /\ Len(evidence) =< picked
      BY <1>1 DEF RecoveryInv, PoolAhead
    <3>4. \A w \in workers' : w.batch > Len(evidence') /\ w.batch =< picked'
      BY <1>1, <2>1, <2>3, <3>1, <3>3
    <3>5. \A v, w \in workers' : v.batch = w.batch => v = w
      BY <2>1, <3>2 DEF RecoveryInv, PoolAhead
    <3> QED
      BY <1>1, <2>1, <3>3, <3>4, <3>5 DEF PoolAhead
  <2>7. EvidenceTrue'
    BY <2>1 DEF RecoveryInv, EvidenceTrue, Payload, Ranges
  <2> QED
    BY <1>2, <2>4, <2>5, <2>6, <2>7 DEF RecoveryInv
<1>5. ASSUME NEW w \in workers, Collect(w)
      PROVE  RecoveryInv'
  <2>1. /\ workers' = workers \ {w} /\ ctx' = ctx /\ picked' = picked
        /\ run = "pool" /\ run' \in {"pool", "draining"}
        /\ w.batch = Len(evidence) + 1
        /\ \/ w.phase = "returned" /\ evidence' = Append(evidence, w.got)
           \/ evidence' = evidence
    BY <1>5 DEF Collect
  <2>2. /\ w.batch \in Batches(ctx) /\ w.batch \in Nat /\ w.batch =< picked
        /\ w.phase = "returned" => w.got = Payload(ctx, w.batch) /\ w.got \in Payloads
    BY <1>1, PayloadFacts DEF RecoveryInv, WorkersTrue, PoolAhead, Batches
  <2>3. ShapeOK'
    BY <1>1, <2>1, <2>2 DEF RecoveryInv, ShapeOK
  <2>4. WorkersTrue'
    BY <1>1, <2>1 DEF RecoveryInv, WorkersTrue, Batches, Payload, Ranges
  <2>5. PoolAhead'
    <3>1. \A v \in workers : v.batch \in Nat /\ v.batch > Len(evidence) /\ v.batch =< picked
      BY <1>1 DEF RecoveryInv, PoolAhead, WorkersTrue, Batches
    <3>2. \A v \in workers' : v \in workers /\ v.batch > Len(evidence) + 1
      BY <1>1, <2>1, <3>1 DEF RecoveryInv, PoolAhead
    <3>3. Len(evidence) \in Nat /\ Len(evidence') \in {Len(evidence), Len(evidence) + 1}
      BY <1>1, <2>1, <2>2
    <3> QED
      BY <1>1, <2>1, <2>2, <3>1, <3>2, <3>3 DEF RecoveryInv, PoolAhead
  <2>6. EvidenceTrue'
    <3>1. CASE w.phase = "returned" /\ evidence' = Append(evidence, w.got)
      BY <3>1, <1>1, <2>1, <2>2 DEF RecoveryInv, EvidenceTrue, Payload, Ranges
    <3>2. CASE evidence' = evidence
      BY <3>2, <2>1 DEF RecoveryInv, EvidenceTrue, Payload, Ranges
    <3> QED
      BY <2>1, <3>1, <3>2
  <2> QED
    BY <1>2, <2>3, <2>4, <2>5, <2>6 DEF RecoveryInv
<1>6. ASSUME workers' = {}, run' = "idle", UNCHANGED <<ctx, picked, evidence>>
      PROVE  RecoveryInv'
  BY <1>1, <1>2, <1>6
     DEF RecoveryInv, ShapeOK, WorkersTrue, PoolAhead, EvidenceTrue, Payload, Ranges
<1>7. CASE Combine
  <2>1. Len(evidence) = Len(Ranges(ctx)) /\ workers' = workers
    BY <1>7 DEF Combine
  <2>2. Len(evidence) \in Nat
    BY <1>1
  <2>3. \A w \in workers : w.batch \in Nat /\ w.batch =< Len(evidence) /\ w.batch > Len(evidence)
    BY <2>1, <2>2 DEF RecoveryInv, WorkersTrue, PoolAhead, Batches
  <2>4. workers' = {}
    BY <2>1, <2>2, <2>3
  <2> QED
    BY <1>6, <1>7, <2>4 DEF Combine, EndRun
<1>8. CASE LeavePool
  BY <1>6, <1>8 DEF LeavePool, EndRun
<1>9. CASE Kill
  BY <1>6, <1>9 DEF Kill, EndRun
<1> QED
  BY <1>3, <1>4, <1>5, <1>7, <1>8, <1>9 DEF MainStep

\* A file that is lost or cannot be read is no evidence, and an edit touches no file.
LEMMA WorldKeeps ==
    ASSUME RecoveryInv, (\E b \in Batch : Damage(b)) \/ EditConfig \/ UNCHANGED vars
    PROVE  RecoveryInv'
<1>1. /\ workers' = workers /\ ctx' = ctx /\ run' = run /\ picked' = picked
      /\ evidence' = evidence /\ config' \in Configs
  BY DEF RecoveryInv, ShapeOK, Damage, EditConfig, vars, main
<1>2. /\ result' \in [Batch -> Payloads \cup {NoFile, Damaged}]
      /\ record' \in [Batch -> Record \cup {NoFile, Damaged}]
      /\ \A b \in Batch : result'[b] \in {result[b], NoFile, Damaged}
      /\ \A b \in Batch : record'[b] \in {record[b], NoFile, Damaged}
  <2>1. CASE \E b \in Batch : Damage(b)
    BY <2>1 DEF RecoveryInv, ShapeOK, Damage
  <2>2. CASE EditConfig \/ UNCHANGED vars
    BY <2>2 DEF RecoveryInv, ShapeOK, EditConfig, vars, disk
  <2> QED
    BY <2>1, <2>2
<1>3. ShapeOK'
  BY <1>1, <1>2 DEF RecoveryInv, ShapeOK
<1>4. RecordsTrue'
  BY <1>2, NoFileAssumption, DamagedAssumption DEF RecoveryInv, RecordsTrue, Payload, Ranges
<1>5. WorkersTrue'
  <2> SUFFICES ASSUME NEW w \in workers
               PROVE  /\ w.batch \in Batches(ctx)
                      /\ w.phase \in {"digest", "mark", "returned"} => w.got = Payload(ctx, w.batch)
                      /\ w.phase = "result" /\ result'[w.batch] \in Payloads =>
                           result'[w.batch] = Payload(ctx, w.batch)
    BY <1>1 DEF WorkersTrue, Batches, Payload, Ranges
  <2>1. w.batch \in Batch
    BY DEF RecoveryInv, ShapeOK, Worker
  <2> QED
    BY <2>1, <1>2, NoFileAssumption, DamagedAssumption DEF RecoveryInv, WorkersTrue
<1>6. PoolAhead' /\ EvidenceTrue'
  BY <1>1 DEF RecoveryInv, PoolAhead, EvidenceTrue, Payload, Ranges
<1> QED
  BY <1>3, <1>4, <1>5, <1>6 DEF RecoveryInv

LEMMA RecoveryStep == RecoveryInv /\ [Next]_vars => RecoveryInv'
BY WorkerStepKeeps, MainKeeps, WorldKeeps DEF Next

LEMMA AlwaysRecovery == Spec => []RecoveryInv
BY InitRecovery, RecoveryStep, PTL DEF Spec

-----------------------------------------------------------------------------
\* Whatever crashes, damage and edits have left on disk, the evidence a run collects
\* is of the context it was started with (lines 87 to 132 of checkpointing.py).
THEOREM EvidenceOwn == Spec => []EvidenceOfItsContext
<1>1. RecoveryInv => EvidenceOfItsContext
  <2> SUFFICES ASSUME RecoveryInv, NEW b \in DOMAIN evidence
               PROVE  evidence[b].ctx = ctx
    BY DEF EvidenceOfItsContext
  <2> QED
    BY DEF RecoveryInv, EvidenceTrue, Payload
<1> QED
  BY <1>1, AlwaysRecovery, PTL

\* A cell that completes has combined exactly its batches, each as its context
\* computes it and in the order of the ranges, however the pool was scheduled.
EvidenceIsItsBatches ==
    /\ \A b \in DOMAIN evidence : evidence[b] = [ctx |-> ctx, seeds |-> Ranges(ctx)[b]]
    /\ run = "pool" /\ Len(evidence) = Len(Ranges(ctx)) => workers = {}

THEOREM EvidenceComplete == Spec => []EvidenceIsItsBatches
<1>1. RecoveryInv => EvidenceIsItsBatches
  <2> SUFFICES ASSUME RecoveryInv
               PROVE  EvidenceIsItsBatches
    OBVIOUS
  <2>1. \A b \in DOMAIN evidence : evidence[b] = [ctx |-> ctx, seeds |-> Ranges(ctx)[b]]
    BY DEF RecoveryInv, EvidenceTrue, Payload
  <2>2. Len(evidence) \in Nat
    BY DEF RecoveryInv, ShapeOK
  <2>3. ASSUME Len(evidence) = Len(Ranges(ctx))
        PROVE  workers = {}
    BY <2>2, <2>3 DEF RecoveryInv, WorkersTrue, PoolAhead, Batches
  <2> QED
    BY <2>1, <2>3 DEF EvidenceIsItsBatches
<1> QED
  BY <1>1, AlwaysRecovery, PTL

-----------------------------------------------------------------------------
\* A sequence of sets of numbers that splits lo .. hi - 1, in order.
Splits(s, lo, hi) ==
    /\ s \in Seq(SUBSET Int)
    /\ UNION {s[b] : b \in DOMAIN s} = lo .. hi - 1
    /\ \A b, d \in DOMAIN s : b < d => \A x \in s[b], y \in s[d] : x < y

\* A set of numbers that is not empty has a least one.
LEMMA LeastNumber ==
    ASSUME NEW T, T \subseteq Nat, T # {}
    PROVE  \E n \in T : \A k \in T : n =< k
<1> DEFINE less == OpToRel(<, Nat)
<1>1. IsWellFoundedOn(less, Nat)
  BY NatLessThanWellFounded
<1>2. ASSUME NEW k \in Nat, NEW n \in Nat, k < n
      PROVE  <<k, n>> \in less
  <2>1. <<k, n>> \in Nat \X Nat
    OBVIOUS
  <2>2. <<k, n>>[1] < <<k, n>>[2]
    BY <1>2
  <2> QED
    BY <2>1, <2>2, Zenon DEF OpToRel
<1> HIDE DEF less
<1>3. PICK n \in T : \A k \in T : ~ (<<k, n>> \in less)
  BY <1>1, WFMin
<1>4. ASSUME NEW k \in T
      PROVE  n =< k
  <2>1. ~ (k < n)
    BY <1>2, <1>3
  <2> QED
    BY <2>1
<1> QED
  BY <1>4

\* Induction over a set: what holds of 0, and of a number when of all before it.
LEMMA CountUp ==
    ASSUME NEW total \in Nat, NEW S,
           \A n \in 0 .. total : (\A k \in 0 .. total : k < n => k \in S) => n \in S
    PROVE  0 .. total \subseteq S
<1> DEFINE bad == (0 .. total) \ S
<1> SUFFICES ASSUME bad # {}
             PROVE  FALSE
  OBVIOUS
<1>1. PICK n \in bad : \A k \in bad : n =< k
  <2>1. bad \subseteq Nat
    OBVIOUS
  <2> HIDE DEF bad
  <2> QED
    BY <2>1, LeastNumber
<1>2. ASSUME NEW k \in 0 .. total, k < n
      PROVE  k \in S
  BY <1>1, <1>2
<1> QED
  BY <1>1, <1>2

\* One range in front of a split.
LEMMA SplitsInFront ==
    ASSUME NEW lo \in Int, NEW mid \in Int, NEW hi \in Int, lo =< mid, mid =< hi,
           NEW t, Splits(t, mid, hi)
    PROVE  Splits(<<lo .. mid - 1>> \o t, lo, hi)
<1> DEFINE s == <<lo .. mid - 1>> \o t
<1>1. /\ t \in Seq(SUBSET Int) /\ Len(t) \in Nat /\ DOMAIN t = 1 .. Len(t)
      /\ UNION {t[b] : b \in DOMAIN t} = mid .. hi - 1
  BY DEF Splits
<1>2. /\ s \in Seq(SUBSET Int)
      /\ DOMAIN s = 1 .. Len(t) + 1
      /\ s[1] = lo .. mid - 1
      /\ \A b \in 1 .. Len(t) : s[b + 1] = t[b]
  BY <1>1
<1> HIDE DEF s
<1>3. \A b \in DOMAIN s : b = 1 \/ (b - 1 \in DOMAIN t /\ s[b] = t[b - 1])
  <2> TAKE b \in DOMAIN s
  <2>1. CASE b # 1
    <3>1. b - 1 \in 1 .. Len(t) /\ (b - 1) + 1 = b
      BY <2>1, <1>1, <1>2
    <3>2. s[(b - 1) + 1] = t[b - 1]
      BY <3>1, <1>2
    <3> QED
      BY <3>1, <3>2, <1>1
  <2> QED
    BY <2>1
<1>4. \A b \in DOMAIN t : t[b] \subseteq mid .. hi - 1
  BY <1>1
<1>5. UNION {s[b] : b \in DOMAIN s} = lo .. hi - 1
  <2>1. ASSUME NEW b \in DOMAIN s
        PROVE  s[b] \subseteq lo .. hi - 1
    BY <1>2, <1>3, <1>4
  <2>2. ASSUME NEW x \in lo .. hi - 1
        PROVE  \E b \in DOMAIN s : x \in s[b]
    <3>1. CASE x < mid
      BY <3>1, <1>1, <1>2
    <3>2. CASE x >= mid
      <4>1. PICK b \in DOMAIN t : x \in t[b]
        BY <3>2, <1>1
      <4>2. b + 1 \in DOMAIN s /\ s[b + 1] = t[b]
        BY <1>1, <1>2
      <4> QED
        BY <4>1, <4>2
    <3> QED
      BY <3>1, <3>2
  <2> QED
    BY <2>1, <2>2
<1>6. ASSUME NEW b \in DOMAIN s, NEW d \in DOMAIN s, b < d,
             NEW x \in s[b], NEW y \in s[d]
      PROVE  x < y
  <2>1. d - 1 \in DOMAIN t /\ s[d] = t[d - 1] /\ y \in mid .. hi - 1
    BY <1>1, <1>2, <1>3, <1>4, <1>6
  <2>2. CASE b = 1
    BY <2>1, <2>2, <1>2
  <2>3. CASE b # 1
    <3>1. b - 1 \in DOMAIN t /\ s[b] = t[b - 1] /\ b - 1 < d - 1
      BY <2>3, <1>2, <1>3, <1>6
    <3> QED
      BY <2>1, <3>1 DEF Splits
  <2> QED
    BY <2>2, <2>3
<1> QED
  BY <1>2, <1>5, <1>6 DEF Splits, s

LEMMA SeedRangesSplit ==
    ASSUME NEW total \in Nat, NEW size \in Nat \ {0}
    PROVE  Splits(SeedRanges(total, size), 0, total)
<1> DEFINE stop(start) == IF start + size < total THEN start + size ELSE total
           one(f, start) == IF start = total THEN <<>>
                            ELSE <<start .. stop(start) - 1>> \o f[stop(start)]
           fits(f, lo) == f = [start \in lo .. total |-> one(f, start)]
<1>1. \A start \in 0 .. total : start # total => stop(start) \in start + 1 .. total
  OBVIOUS
<1>2. \E f : fits(f, 0)
  <2> DEFINE built == {n \in 0 .. total : \E f : fits(f, total - n)}
  <2>1. ASSUME NEW n \in 0 .. total, \A k \in 0 .. total : k < n => k \in built
        PROVE  \E f : fits(f, total - n)
    <3>1. CASE n = 0
      <4>1. fits([start \in total .. total |-> <<>>], total)
        <5>1. \A start \in total .. total : start = total
          OBVIOUS
        <5> QED
          BY <5>1
      <4>2. total - n = total
        BY <3>1
      <4> HIDE DEF fits
      <4> QED
        BY <4>1, <4>2
    <3>2. CASE n # 0
      <4>1. n - 1 \in 0 .. total /\ n - 1 < n
        BY <3>2
      <4>2. PICK g : fits(g, total - (n - 1))
        <5> HIDE DEF fits
        <5> QED
          BY <2>1, <4>1
      <4> DEFINE lo == total - n
                 f == [start \in lo .. total |->
                         IF start = lo THEN <<lo .. stop(lo) - 1>> \o g[stop(lo)] ELSE g[start]]
      <4>3. lo \in 0 .. total /\ lo # total /\ total - (n - 1) = lo + 1
        BY <3>2
      <4>4. \A start \in lo + 1 .. total : f[start] = g[start] /\ g[start] = one(g, start)
        <5> TAKE start \in lo + 1 .. total
        <5>1. start \in lo .. total /\ start # lo
          BY <4>3
        <5>2. g[start] = one(g, start)
          <6> HIDE DEF one
          <6> QED
            BY <4>2, <4>3
        <5> QED
          BY <5>1, <5>2
      <4>5. \A start \in lo .. total : f[start] = one(f, start)
        <5>1. f[lo] = <<lo .. stop(lo) - 1>> \o g[stop(lo)]
          BY <4>3
        <5> HIDE DEF f
        <5> TAKE start \in lo .. total
        <5>2. start # total => stop(start) \in lo + 1 .. total
          BY <1>1, <4>3
        <5>3. start # total => f[stop(start)] = g[stop(start)]
          BY <5>2, <4>4
        <5>4. CASE start = lo
          BY <5>1, <5>3, <5>4, <4>3
        <5>5. CASE start # lo
          <6>1. start \in lo + 1 .. total
            BY <5>5, <4>3
          <6>2. f[start] = one(g, start)
            BY <6>1, <4>4
          <6>3. one(g, start) = one(f, start)
            BY <5>3
          <6> QED
            BY <6>2, <6>3
        <5> QED
          BY <5>4, <5>5
      <4>6. f = [start \in lo .. total |-> f[start]]
        OBVIOUS
      <4>7. fits(f, lo)
        <5> HIDE DEF one, f
        <5> QED
          BY <4>5, <4>6
      <4> HIDE DEF fits, f
      <4> QED
        BY <4>7
    <3> QED
      BY <3>1, <3>2
  <2> HIDE DEF fits
  <2>2. \A n \in 0 .. total : (\A k \in 0 .. total : k < n => k \in built) => n \in built
    BY <2>1
  <2> HIDE DEF built
  <2>3. total \in built
    BY <2>2, CountUp
  <2>4. \E f : fits(f, total - total)
    BY <2>3 DEF built
  <2> QED
    BY <2>4
<1> DEFINE from == CHOOSE f : fits(f, 0)
<1>3. SeedRanges(total, size) = from[0]
  BY DEF SeedRanges
<1>4. fits(from, 0)
  BY <1>2
<1> HIDE DEF from
<1>5. \A start \in 0 .. total : from[start] = one(from, start)
  BY <1>4
<1> DEFINE split == {n \in 0 .. total : Splits(from[total - n], total - n, total)}
<1>6. ASSUME NEW n \in 0 .. total, \A k \in 0 .. total : k < n => k \in split
      PROVE  n \in split
  <2> DEFINE lo == total - n
  <2>1. lo \in 0 .. total
    OBVIOUS
  <2> SUFFICES Splits(from[lo], lo, total)
    OBVIOUS
  <2>2. CASE n = 0
    <3>1. lo = total
      BY <2>2
    <3>3. from[lo] = <<>>
      <4> HIDE DEF lo
      <4> QED
        BY <2>1, <3>1, <1>5
    <3>2. Splits(<<>>, total, total)
      BY DEF Splits
    <3> HIDE DEF lo
    <3> QED
      BY <3>1, <3>2, <3>3
  <2>3. CASE n # 0
    <3>1. lo # total /\ stop(lo) \in lo + 1 .. total
      BY <2>1, <2>3, <1>1
    <3>2. from[lo] = <<lo .. stop(lo) - 1>> \o from[stop(lo)]
      BY <2>1, <3>1, <1>5
    <3> DEFINE k == total - stop(lo)
    <3>3. k \in 0 .. total /\ k < n /\ total - k = stop(lo)
      <4> HIDE DEF stop
      <4> QED
        BY <2>1, <3>1
    <3>4. Splits(from[total - k], total - k, total)
      <4> HIDE DEF k, lo
      <4> QED
        BY <1>6, <3>3
    <3> HIDE DEF stop, k, lo
    <3> QED
      BY <2>1, <3>1, <3>2, <3>3, <3>4, SplitsInFront
  <2> QED
    BY <2>2, <2>3
<1>7. Splits(from[total - total], total - total, total)
  <2> HIDE DEF split
  <2>1. total \in split
    BY <1>6, CountUp
  <2> QED
    BY <2>1 DEF split
<1> QED
  BY <1>3, <1>7

\* A run that completed has collected a payload for each of its batches.
CompletedAll ==
    outcome = "COMPLETED" => run = "idle" /\ Len(evidence) = Len(Ranges(ctx))

LEMMA AlwaysCompletedAll == Spec => []CompletedAll
<1>1. Init => CompletedAll
  BY DEF Init, CompletedAll
<1>2. CompletedAll /\ [Next]_vars => CompletedAll'
  <2> SUFFICES ASSUME CompletedAll, [Next]_vars
               PROVE  CompletedAll'
    OBVIOUS
  <2>1. CASE StartRun
    BY <2>1 DEF StartRun, CompletedAll
  <2>2. CASE \E w \in workers : Collect(w)
    BY <2>2 DEF Collect, CompletedAll
  <2>3. CASE Combine
    BY <2>3 DEF Combine, EndRun, CompletedAll, Ranges
  <2>4. CASE LeavePool \/ Kill
    BY <2>4 DEF LeavePool, Kill, EndRun, CompletedAll
  <2>5. CASE Pick
    BY <2>5 DEF Pick, CompletedAll, Ranges
  <2>6. ASSUME UNCHANGED main
        PROVE  CompletedAll'
    BY <2>6 DEF main, CompletedAll, Ranges
  <2>7. CASE \E w \in workers : WorkerStep(w) \/ Raise(w)
    BY <2>6, <2>7 DEF WorkerStep, ReadRecord, CompareDigest, ReadResult, Compute, WriteRecord,
                      Raise, MainUnchanged
  <2>8. CASE (\E b \in Batch : Damage(b)) \/ EditConfig \/ UNCHANGED vars
    BY <2>6, <2>8 DEF Damage, EditConfig, vars
  <2> QED
    BY <2>1, <2>2, <2>3, <2>4, <2>5, <2>7, <2>8 DEF Next, MainStep
<1> QED
  BY <1>1, <1>2, PTL DEF Spec

\* A cell that completes has used each of its seeds in exactly one of the batches it
\* combines, and in the order of the seeds (lines 52 to 59 and 206 to 227 of
\* checkpointing.py), for any number of seeds and any size of the batches.
THEOREM SeedsInOrder == Spec => []SeedsUsedOnceInOrder
<1>1. RecoveryInv /\ CompletedAll => SeedsUsedOnceInOrder
  <2> SUFFICES ASSUME RecoveryInv, CompletedAll, outcome = "COMPLETED"
               PROVE  /\ UNION {evidence[b].seeds : b \in DOMAIN evidence} = 0 .. Streams[ctx] - 1
                      /\ \A b, d \in DOMAIN evidence :
                          b < d => \A s \in evidence[b].seeds, t \in evidence[d].seeds : s < t
    BY DEF SeedsUsedOnceInOrder
  <2>1. Streams[ctx] \in Nat /\ BatchSize[ctx] \in Nat \ {0}
    BY StreamsAssumption, BatchSizeAssumption DEF RecoveryInv, ShapeOK
  <2>2. Splits(Ranges(ctx), 0, Streams[ctx])
    BY <2>1, SeedRangesSplit DEF Ranges
  <2> DEFINE ranges == Ranges(ctx)
  <2>3. ranges \in Seq(SUBSET Int) /\ evidence \in Seq(Payloads) /\ Len(evidence) = Len(ranges)
    BY <2>2 DEF Splits, CompletedAll, RecoveryInv, ShapeOK
  <2> HIDE DEF ranges
  <2>4. DOMAIN evidence = DOMAIN ranges
    BY <2>3
  <2>5. \A b \in DOMAIN evidence : evidence[b].seeds = ranges[b]
    BY DEF RecoveryInv, EvidenceTrue, Payload, ranges
  <2>6. {evidence[b].seeds : b \in DOMAIN evidence} = {ranges[b] : b \in DOMAIN ranges}
    BY <2>4, <2>5
  <2>7. Splits(ranges, 0, Streams[ctx])
    BY <2>2 DEF ranges
  <2> QED
    BY <2>4, <2>5, <2>6, <2>7 DEF Splits
<1> QED
  BY <1>1, AlwaysRecovery, AlwaysCompletedAll, PTL

=============================================================================
