----------------------- MODULE ExperimentPipelineProofs -----------------------
(***************************************************************************)
(* For any catalog of experiments, any cells, configurations and lock files *)
(* and any bounds on failures and edits, whether the cells run one by one   *)
(* or in a pool: the synthesis uses evidence recorded under a single        *)
(* configuration, what status calls completed rests on the present results, *)
(* and a run reports what status reads next.                                *)
(***************************************************************************)
EXTENDS ExperimentPipeline, FiniteSetTheorems, TLAPS

Shape ==
    /\ DOMAIN completion = Cell
    /\ DOMAIN index = Cell
    /\ DOMAIN result = Cell
    /\ DOMAIN running = Cell
    /\ DOMAIN failure = Cell
    /\ DOMAIN at = Cell
    /\ DOMAIN ctx = Cell
    /\ DOMAIN loaded = Cell
    /\ \A c \in Cell : failure[c] # NoFile => failure[c].state \in {"INVALID", "FAILED"}

\* The command under way has an experiment.  A cell under way is one of its cells; its
\* dependencies were completed when the command began, if it writes; and its executor
\* sees the command's configuration, unless a pool worker has loaded another.
CommandTrue ==
    /\ pc # "idle" =>
        /\ cmd.exp \in Experiment /\ todo \subseteq CellsOf[cmd.exp]
        /\ cmd.pooled => cmd.exp # Synthesis
    /\ \A c \in Cell :
        /\ at[c] # "none" =>
            /\ pc # "idle" /\ c \in CellsOf[cmd.exp] \ todo
            /\ ~strayed => loaded[c] = cmd.spec
        /\ at[c] \in {"result", "index", "completion"} => cmd.ready

\* The results the synthesis reads under a fingerprint that names them by their
\* indexes.
Named(fp) == {<<parent[1], parent[3]>> : parent \in fp.parents}

\* A completion of a cell under configuration s and fingerprint fp with result r: the
\* synthesis read what fp names, all of it completed under s, and no result is of
\* another configuration unless a worker has strayed.
OfOne(c, r, s, fp) ==
    /\ ~strayed => r.spec = s
    /\ c \in CellsOf[Synthesis] =>
        /\ r.used = Named(fp)
        /\ \A parent \in fp.parents : parent[2].spec = s /\ parent[2].sum = parent[3]
        /\ ~strayed => \A use \in r.used : use[2].spec = s

\* That is so of every completion, and of the one a cell is about to write.
RecordsTrue ==
    \A c \in Cell :
        /\ completion[c] # NoFile =>
            OfOne(c, completion[c].sum, completion[c].spec, completion[c].fp)
        /\ at[c] \in {"index", "completion"} => OfOne(c, result[c], cmd.spec, ctx[c])

\* While the synthesis runs nobody completes another cell: what was completed
\* under its configuration when it began still is, or is gone.
EvidenceStands ==
    pc # "idle" /\ cmd.exp = Synthesis /\ cmd.ready =>
        \A p \in Upstream : completion[p] # NoFile => completion[p].spec = cmd.spec

PipelineInv == Shape /\ CommandTrue /\ RecordsTrue /\ EvidenceStands

-----------------------------------------------------------------------------
(* The recursive state of an experiment.                                   *)

\* The state of an experiment, given those of the experiments it requires.
Layer(f, e, s) ==
    Aggregate([c \in CellsOf[e] |->
                  CellState(c, s, \A d \in Required(e) : f[d] = "COMPLETED")])

\* An experiment's state depends on the states of its dependencies only.
LEMMA LayerDependsOnRequired ==
    ASSUME NEW f, NEW h, NEW e, NEW s, \A d \in Required(e) : f[d] = h[d]
    PROVE  Layer(f, e, s) = Layer(h, e, s)
<1> DEFINE F == \A d \in Required(e) : f[d] = "COMPLETED"
<1> DEFINE H == \A d \in Required(e) : h[d] = "COMPLETED"
<1>1. F = H
  OBVIOUS
<1>2. Layer(f, e, s) = Aggregate([c \in CellsOf[e] |-> CellState(c, s, F)])
  BY Zenon DEF Layer
<1>3. Layer(h, e, s) = Aggregate([c \in CellsOf[e] |-> CellState(c, s, H)])
  BY Zenon DEF Layer
<1> HIDE DEF F, H
<1>4. QED
  BY <1>1, <1>2, <1>3, Zenon

\* The catalog is three layers deep, so the recursion has a solution.
LEMMA StateExists ==
    ASSUME NEW s
    PROVE  \E f : f = [e \in Experiment |-> Layer(f, e, s)]
<1> DEFINE f0 == [e \in Experiment |-> "READY"]
           f1 == [e \in Experiment |-> Layer(f0, e, s)]
           f2 == [e \in Experiment |-> Layer(f1, e, s)]
           f3 == [e \in Experiment |-> Layer(f2, e, s)]
<1>1. Required(Root) = {}
  BY RootAndSynthesis DEF Required
<1>2. \A e \in Experiment \ {Root, Synthesis} : Required(e) = {Root}
  BY RootAndSynthesis DEF Required
<1>3. Required(Synthesis) = Experiment \ {Synthesis}
  BY RootAndSynthesis DEF Required
<1>4. \A f, h : Layer(f, Root, s) = Layer(h, Root, s)
  BY <1>1, LayerDependsOnRequired
<1>5. \A f, h : f[Root] = h[Root] =>
        \A e \in Experiment \ {Root, Synthesis} : Layer(f, e, s) = Layer(h, e, s)
  BY <1>2, LayerDependsOnRequired
<1>6. \A f, h : (\A e \in Experiment \ {Synthesis} : f[e] = h[e]) =>
        Layer(f, Synthesis, s) = Layer(h, Synthesis, s)
  BY <1>3, LayerDependsOnRequired
<1>7. f1[Root] = f2[Root] /\ f2[Root] = f3[Root]
  BY <1>4, RootAndSynthesis, Zenon
<1>8. \A e \in Experiment \ {Root, Synthesis} : f2[e] = f3[e] /\ f3[e] = Layer(f3, e, s)
  BY <1>5, <1>7, Zenon
<1>9. \A e \in Experiment \ {Synthesis} : f2[e] = f3[e]
  BY <1>7, <1>8, Zenon
<1>10. f3[Synthesis] = Layer(f3, Synthesis, s)
  BY <1>6, <1>9, RootAndSynthesis, Zenon
<1>11. f3[Root] = Layer(f3, Root, s)
  BY <1>4, RootAndSynthesis, Zenon
<1>12. \A e \in Experiment : f3[e] = Layer(f3, e, s)
  BY <1>8, <1>10, <1>11, Zenon
<1>13. f3 = [e \in Experiment |-> Layer(f3, e, s)]
  BY <1>12, Zenon
<1>14. QED
  BY <1>13, Zenon

Ready(e, s) == \A d \in Required(e) : ExperimentState(d, s) = "COMPLETED"

StateGiven(e, s, ready) == Aggregate([c \in CellsOf[e] |-> CellState(c, s, ready)])

\* The state of an experiment is the aggregate of its cells' states, given those of
\* the experiments it requires.
LEMMA StateEquation ==
    ASSUME NEW e \in Experiment, NEW s
    PROVE  ExperimentState(e, s) = StateGiven(e, s, Ready(e, s))
<1> DEFINE st == CHOOSE f : f = [d \in Experiment |-> Layer(f, d, s)]
<1>1. st = [d \in Experiment |-> Layer(st, d, s)]
  BY StateExists, Zenon
<1>2. \A d \in Experiment : ExperimentState(d, s) = st[d]
  BY DEF ExperimentState, Layer
<1>3. st[e] = Layer(st, e, s)
  BY <1>1, Zenon
<1>4. Required(e) \subseteq Experiment
  BY RootAndSynthesis DEF Required
<1> HIDE DEF st
<1> DEFINE given == \A d \in Required(e) : st[d] = "COMPLETED"
<1>5. Layer(st, e, s) = StateGiven(e, s, given)
  BY Zenon DEF Layer, StateGiven
<1>6. given = Ready(e, s)
  BY <1>2, <1>4 DEF Ready
<1> HIDE DEF given
<1>7. QED
  BY <1>2, <1>3, <1>5, <1>6, Zenon

\* Of a completed experiment no cell raises and none is blocked.
LEMMA CompletedCells ==
    ASSUME NEW e \in Experiment, NEW s, ExperimentState(e, s) = "COMPLETED",
           NEW c \in CellsOf[e]
    PROVE  CellState(c, s, Ready(e, s)) \in {"COMPLETED", "INVALID"}
<1> DEFINE states == [k \in CellsOf[e] |-> CellState(k, s, Ready(e, s))]
<1>1. Aggregate(states) = "COMPLETED"
  BY StateEquation DEF StateGiven
<1>2. \A st : Aggregate(st) = "COMPLETED" =>
        {st[k] : k \in DOMAIN st} \subseteq {"COMPLETED", "INVALID"}
  BY DEF Aggregate
<1>3. states[c] \in {states[k] : k \in DOMAIN states}
  OBVIOUS
<1>4. states[c] \in {"COMPLETED", "INVALID"}
  BY <1>1, <1>2, <1>3
<1>5. QED
  BY <1>4

\* Of a completed experiment every completion there is, is valid under the
\* configuration it was found completed under.
LEMMA CompletedIsCompatible ==
    ASSUME NEW e \in Experiment, NEW s, ExperimentState(e, s) = "COMPLETED",
           NEW c \in CellsOf[e], completion[c] # NoFile
    PROVE  Compatible(c, s, Fingerprint(c, s)) /\ ContextOf(c) = "available"
<1>1. CellState(c, s, Ready(e, s)) \in {"COMPLETED", "INVALID"}
  BY CompletedCells
<1>2. ContextOf(c) \in {"available", "raises", "invalid"}
  BY DEF ContextOf
<1>3. ContextOf(c) = "available"
  BY <1>1, <1>2 DEF CellState
<1>4. InspectedState(c, s) \in {"COMPLETED", "INVALID"}
  BY <1>1, <1>3 DEF CellState
<1>5. QED
  BY <1>3, <1>4 DEF InspectedState

-----------------------------------------------------------------------------
(* The invariant.                                                          *)

LEMMA UpstreamIsOfAnother ==
    ASSUME NEW p \in Upstream
    PROVE  \E e \in Experiment \ {Synthesis} : p \in CellsOf[e]
BY RootAndSynthesis DEF Upstream, Cell

LEMMA InitInv == Init => PipelineInv
BY DEF Init, PipelineInv, Shape, CommandTrue, RecordsTrue, EvidenceStands, NoneAt, NoneOf

\* A record that was true stays true when a worker strays.
LEMMA OfOneStays ==
    ASSUME NEW c, NEW r, NEW s, NEW fp, OfOne(c, r, s, fp), strayed => strayed'
    PROVE  OfOne(c, r, s, fp)'
BY DEF OfOne

\* A command that takes the synthesis for ready has every other experiment completed.
LEMMA StartKeeps ==
    ASSUME PipelineInv, NEW e \in Experiment, NEW ow \in BOOLEAN, NEW pooled \in BOOLEAN,
           StartCommand(e, ow, pooled)
    PROVE  PipelineInv'
<1>1. Shape' /\ RecordsTrue'
  BY DEF PipelineInv, Shape, RecordsTrue, CommandTrue, OfOne, StartCommand, disk, cells
<1>2. CommandTrue'
  BY DEF PipelineInv, StartCommand, CommandTrue, cells
<1>3. EvidenceStands'
  <2> SUFFICES ASSUME cmd'.exp = Synthesis, cmd'.ready,
                      NEW p \in Upstream, completion'[p] # NoFile
               PROVE  completion'[p].spec = cmd'.spec
    BY DEF EvidenceStands
  <2>1. e = Synthesis /\ cmd'.spec = config /\ completion' = completion
    BY DEF StartCommand, disk
  <2>2. \A d \in Required(Synthesis) : ExperimentState(d, config) = "COMPLETED"
    BY <2>1 DEF StartCommand
  <2>3. Required(Synthesis) = Experiment \ {Synthesis}
    BY RootAndSynthesis DEF Required
  <2>4. PICK d \in Experiment \ {Synthesis} : p \in CellsOf[d]
    BY UpstreamIsOfAnother
  <2>5. Compatible(p, config, Fingerprint(p, config))
    BY <2>1, <2>2, <2>3, <2>4, CompletedIsCompatible
  <2>6. QED
    BY <2>1, <2>5 DEF Compatible
<1>4. QED
  BY <1>1, <1>2, <1>3 DEF PipelineInv

\* When the command ends, raises or is killed the records are as they were.
LEMMA LeaveKeeps ==
    ASSUME PipelineInv, NEW with, Leave(with)
    PROVE  PipelineInv'
BY DEF PipelineInv, Shape, CommandTrue, RecordsTrue, OfOne, EvidenceStands, Leave, disk,
       NoneAt, NoneOf

\* A cell that is handed over, blocked or reused has written nothing; a worker of a pool
\* may see another configuration from then on.
LEMMA PassKeeps ==
    ASSUME PipelineInv, NEW c \in Cell,
           \/ TakeContext(c) \/ WorkerLoadsConfig(c) \/ BlockCell(c) \/ ReuseCell(c)
    PROVE  PipelineInv'
<1>1. /\ UNCHANGED disk /\ pc' = pc /\ cmd' = cmd /\ todo' \subseteq todo
      /\ \A k \in Cell \ {c} : at'[k] = at[k] /\ ctx'[k] = ctx[k] /\ loaded'[k] = loaded[k]
      /\ DOMAIN at' = Cell /\ DOMAIN ctx' = Cell /\ DOMAIN loaded' = Cell
      /\ strayed => strayed'
      /\ at'[c] \in {"none", "submitted", "called"}
  <2>1. CASE TakeContext(c)
    BY <2>1 DEF TakeContext, PipelineInv, Shape
  <2>2. CASE WorkerLoadsConfig(c)
    BY <2>2 DEF WorkerLoadsConfig, PipelineInv, Shape
  <2>3. CASE BlockCell(c) \/ ReuseCell(c)
    BY <2>3 DEF BlockCell, ReuseCell, Return, PipelineInv, Shape
  <2>4. QED
    BY <2>1, <2>2, <2>3
<1>2. at'[c] # "none" => /\ pc # "idle" /\ c \in CellsOf[cmd.exp] \ todo'
                         /\ ~strayed' => loaded'[c] = cmd.spec
  <2>1. CASE TakeContext(c)
    BY <2>1 DEF TakeContext, Turn, PipelineInv, CommandTrue, Shape
  <2>2. CASE WorkerLoadsConfig(c)
    BY <2>2 DEF WorkerLoadsConfig, PipelineInv, CommandTrue, Shape
  <2>3. CASE BlockCell(c) \/ ReuseCell(c)
    BY <2>3 DEF BlockCell, ReuseCell, Return, PipelineInv, Shape
  <2>4. QED
    BY <2>1, <2>2, <2>3
<1>3. Shape'
  BY <1>1 DEF PipelineInv, Shape, disk
<1>4. ~strayed' => ~strayed
  BY <1>1
<1>5. CommandTrue'
  BY <1>1, <1>2, <1>4 DEF PipelineInv, CommandTrue
<1>6. RecordsTrue'
  <2> SUFFICES ASSUME NEW k \in Cell
               PROVE  /\ completion'[k] # NoFile =>
                           OfOne(k, completion[k].sum, completion[k].spec, completion[k].fp)'
                      /\ at'[k] \in {"index", "completion"} =>
                           OfOne(k, result[k], cmd.spec, ctx[k])'
    BY DEF RecordsTrue
  <2>1. completion' = completion /\ result' = result /\ cmd' = cmd
    BY <1>1 DEF disk
  <2>2. at'[k] \in {"index", "completion"} => at'[k] = at[k] /\ ctx'[k] = ctx[k]
    BY <1>1
  <2>3. QED
    BY <1>1, <2>1, <2>2 DEF PipelineInv, RecordsTrue, OfOne
<1>7. EvidenceStands'
  BY <1>1 DEF PipelineInv, EvidenceStands, disk
<1>8. QED
  BY <1>3, <1>5, <1>6, <1>7 DEF PipelineInv

LEMMA BeginKeeps ==
    ASSUME PipelineInv, NEW c \in Cell, BeginCell(c)
    PROVE  PipelineInv'
<1>1. completion' = [completion EXCEPT ![c] = NoFile] /\ DOMAIN completion = Cell
  BY DEF BeginCell, PipelineInv, Shape
<1>2. \A p \in Cell : completion'[p] # NoFile => completion'[p] = completion[p]
  BY <1>1
<1>3. Shape' /\ CommandTrue'
  BY <1>1 DEF PipelineInv, Shape, CommandTrue, BeginCell
<1>4. RecordsTrue'
  BY <1>2 DEF PipelineInv, Shape, RecordsTrue, OfOne, BeginCell
<1>5. EvidenceStands'
  BY <1>2 DEF PipelineInv, EvidenceStands, BeginCell, Upstream
<1>6. QED
  BY <1>3, <1>4, <1>5 DEF PipelineInv

\* The fingerprint of the synthesis names every other cell with its index.
LEMMA NamedUpstream == Named(SynthesisFingerprint) = {<<p, index[p]>> : p \in Upstream}
<1> DEFINE parent(p) == <<p, completion[p], index[p]>>
<1>1. SynthesisFingerprint.parents = {parent(p) : p \in Upstream}
  BY DEF SynthesisFingerprint
<1>2. \A p : parent(p)[1] = p /\ parent(p)[3] = index[p]
  OBVIOUS
<1> HIDE DEF parent
<1>3. Named(SynthesisFingerprint) = {<<parent(p)[1], parent(p)[3]>> : p \in Upstream}
  BY <1>1 DEF Named
<1>4. QED
  BY <1>2, <1>3

\* The synthesis has just found the results it reads to be the completed ones.
LEMMA ComputedOfOne ==
    ASSUME PipelineInv, NEW c \in Cell, WriteResult(c), NEW salt
    PROVE  OfOne(c, Computed(c, salt), cmd.spec, ctx[c])
<1>1. ~strayed => Computed(c, salt).spec = cmd.spec
  BY DEF Computed, PipelineInv, CommandTrue, WriteResult
<1>2. ASSUME c \in CellsOf[Synthesis], NEW p \in Upstream
      PROVE  /\ completion[p].spec = cmd.spec
             /\ completion[p].sum = index[p] /\ result[p] = index[p]
             /\ ~strayed => result[p].spec = cmd.spec
  <2>1. cmd.exp = Synthesis /\ cmd.ready /\ pc # "idle"
    BY <1>2, RootAndSynthesis, CellsAreOfOneExperiment DEF PipelineInv, CommandTrue, WriteResult
  <2>2. completion[p] # NoFile /\ completion[p].sum = index[p] /\ result[p] = index[p]
    BY <1>2 DEF WriteResult, UpstreamReadable, UpstreamVerified
  <2>3. completion[p].spec = cmd.spec
    BY <2>1, <2>2 DEF PipelineInv, EvidenceStands
  <2>4. ~strayed => completion[p].sum.spec = completion[p].spec
    BY <2>2 DEF PipelineInv, RecordsTrue, OfOne, Upstream
  <2>5. QED
    BY <2>2, <2>3, <2>4
<1>3. ASSUME c \in CellsOf[Synthesis]
      PROVE  Computed(c, salt).used = Named(ctx[c])
  <2>1. Computed(c, salt).used = {<<p, result[p]>> : p \in Upstream}
    BY <1>3 DEF Computed
  <2>2. ctx[c] = SynthesisFingerprint
    BY <1>3 DEF WriteResult
  <2>3. Named(ctx[c]) = {<<p, index[p]>> : p \in Upstream}
    BY <2>2, NamedUpstream
  <2>4. QED
    BY <1>2, <1>3, <2>1, <2>3
<1>4. ASSUME c \in CellsOf[Synthesis], NEW parent \in ctx[c].parents
      PROVE  parent[2].spec = cmd.spec /\ parent[2].sum = parent[3]
  <2>1. ctx[c].parents = {<<p, completion[p], index[p]>> : p \in Upstream}
    BY <1>4 DEF WriteResult, SynthesisFingerprint
  <2>2. PICK p \in Upstream : parent = <<p, completion[p], index[p]>>
    BY <1>4, <2>1
  <2>3. QED
    BY <1>2, <1>4, <2>2
<1>5. ASSUME c \in CellsOf[Synthesis], ~strayed, NEW use \in Computed(c, salt).used
      PROVE  use[2].spec = cmd.spec
  <2>1. PICK p \in Upstream : use = <<p, result[p]>>
    BY <1>5 DEF Computed
  <2>2. QED
    BY <1>2, <1>5, <2>1
<1>6. QED
  BY <1>1, <1>3, <1>4, <1>5 DEF OfOne

LEMMA WriteResultKeeps ==
    ASSUME PipelineInv, NEW c \in Cell, WriteResult(c)
    PROVE  PipelineInv'
<1>1. PICK salt \in Salts[c] : result' = [result EXCEPT ![c] = Computed(c, salt)]
  BY DEF WriteResult
<1>2. result'[c] = Computed(c, salt) /\ \A k \in Cell \ {c} : result'[k] = result[k]
  BY <1>1 DEF PipelineInv, Shape
<1>3. OfOne(c, result'[c], cmd.spec, ctx[c])
  BY <1>2, ComputedOfOne
<1>4. Shape' /\ CommandTrue' /\ EvidenceStands'
  BY <1>1 DEF PipelineInv, Shape, CommandTrue, EvidenceStands, WriteResult
<1>5. RecordsTrue'
  BY <1>2, <1>3 DEF PipelineInv, Shape, RecordsTrue, OfOne, WriteResult
<1>6. QED
  BY <1>4, <1>5 DEF PipelineInv

LEMMA WriteIndexKeeps ==
    ASSUME PipelineInv, NEW c \in Cell, WriteIndex(c)
    PROVE  PipelineInv'
BY DEF PipelineInv, Shape, CommandTrue, RecordsTrue, OfOne, EvidenceStands, WriteIndex

\* Completing a cell of the synthesis leaves the evidence alone.
LEMMA WriteCompletionKeeps ==
    ASSUME PipelineInv, NEW c \in Cell, WriteCompletion(c)
    PROVE  PipelineInv'
<1> DEFINE done == [spec |-> cmd.spec, fp |-> ctx[c], sum |-> result[c]]
<1>1. /\ completion' = [completion EXCEPT ![c] = done]
      /\ c \in CellsOf[cmd.exp] /\ cmd.exp \in Experiment
  BY DEF WriteCompletion, PipelineInv, CommandTrue
<1>2. \A p \in Cell : completion'[p] = IF p = c THEN done ELSE completion[p]
  BY <1>1 DEF PipelineInv, Shape
<1>3. Shape' /\ CommandTrue'
  BY <1>1 DEF PipelineInv, Shape, CommandTrue, WriteCompletion, Return
<1>4. RecordsTrue'
  BY <1>2 DEF PipelineInv, Shape, RecordsTrue, OfOne, WriteCompletion, Return
<1>5. EvidenceStands'
  <2>1. cmd.exp = Synthesis => c \notin Upstream
    BY <1>1 DEF Upstream
  <2>2. QED
    BY <1>2, <2>1 DEF PipelineInv, EvidenceStands, WriteCompletion, Return, Upstream
<1>6. QED
  BY <1>3, <1>4, <1>5 DEF PipelineInv

\* The handlers of a failed cell withdraw its completion.
LEMMA EndCellKeeps ==
    ASSUME PipelineInv, NEW c \in Cell, NEW state \in {"INVALID", "FAILED"}, EndCell(c, state)
    PROVE  PipelineInv'
<1>1. completion' = [completion EXCEPT ![c] = NoFile] /\ DOMAIN completion = Cell
  BY DEF EndCell, PipelineInv, Shape
<1>2. \A p \in Cell : completion'[p] # NoFile => completion'[p] = completion[p]
  BY <1>1
<1>3. Shape' /\ CommandTrue'
  BY <1>1 DEF PipelineInv, Shape, CommandTrue, EndCell, Return
<1>4. RecordsTrue'
  BY <1>2 DEF PipelineInv, Shape, RecordsTrue, OfOne, EndCell, Return
<1>5. EvidenceStands'
  BY <1>2 DEF PipelineInv, EvidenceStands, EndCell, Return, Upstream
<1>6. QED
  BY <1>3, <1>4, <1>5 DEF PipelineInv

\* A cell that is being written is not the one that loses a file.
LEMMA LoseFileKeeps ==
    ASSUME PipelineInv, NEW c \in Cell, LoseFile(c)
    PROVE  PipelineInv'
<1>1. \A p \in Cell : completion'[p] # NoFile => completion'[p] = completion[p]
  BY DEF LoseFile, PipelineInv, Shape
<1>2. \A p \in Cell : at[p] \in {"index", "completion"} => result'[p] = result[p]
  BY DEF LoseFile, PipelineInv, Shape
<1>3. Shape' /\ CommandTrue'
  BY DEF PipelineInv, Shape, CommandTrue, LoseFile, cells
<1>4. RecordsTrue'
  BY <1>1, <1>2 DEF PipelineInv, RecordsTrue, OfOne, LoseFile, cells
<1>5. EvidenceStands'
  BY <1>1 DEF PipelineInv, EvidenceStands, LoseFile, Upstream
<1>6. QED
  BY <1>3, <1>4, <1>5 DEF PipelineInv

LEMMA IdleKeeps ==
    ASSUME PipelineInv, EditConfig \/ EditLock \/ UNCHANGED vars
    PROVE  PipelineInv'
<1>1. UNCHANGED <<disk, cells, pc, cmd, todo, strayed>>
  BY DEF EditConfig, EditLock, Edit, vars
<1>2. QED
  BY <1>1 DEF PipelineInv, Shape, CommandTrue, RecordsTrue, OfOne, EvidenceStands, disk, cells

LEMMA StepInv == PipelineInv /\ [Next]_vars => PipelineInv'
<1> SUFFICES ASSUME PipelineInv, [Next]_vars PROVE PipelineInv'
  OBVIOUS
<1>1. ASSUME NEW e \in Experiment, NEW ow \in BOOLEAN, NEW pooled \in BOOLEAN,
             StartCommand(e, ow, pooled)
      PROVE  PipelineInv'
  BY <1>1, StartKeeps
<1>2. ASSUME NEW c \in Cell, CellStep(c) PROVE PipelineInv'
  <2>1. CASE ContextRaises(c)
    BY <2>1, LeaveKeeps DEF ContextRaises
  <2>2. CASE TakeContext(c) \/ WorkerLoadsConfig(c) \/ BlockCell(c) \/ ReuseCell(c)
    BY <2>2, PassKeeps
  <2>3. CASE RejectCell(c)
    BY <2>3, EndCellKeeps DEF RejectCell
  <2>4. QED
    BY <1>2, <2>1, <2>2, <2>3, BeginKeeps, WriteResultKeeps, WriteIndexKeeps,
       WriteCompletionKeeps DEF CellStep
<1>3. CASE EndCommand
  BY <1>3, LeaveKeeps DEF EndCommand
<1>4. ASSUME NEW c \in Cell, FailCell(c) PROVE PipelineInv'
  BY <1>4, EndCellKeeps DEF FailCell
<1>5. CASE Crash
  BY <1>5, LeaveKeeps DEF Crash
<1>6. ASSUME NEW c \in Cell, LoseFile(c) PROVE PipelineInv'
  BY <1>6, LoseFileKeeps
<1>7. CASE EditConfig \/ EditLock \/ UNCHANGED vars
  BY <1>7, IdleKeeps
<1>8. QED
  BY <1>1, <1>2, <1>3, <1>4, <1>5, <1>6, <1>7 DEF Next, CommandStep

\* The synthesis of any catalog of experiments uses evidence that was recorded under
\* one configuration, whatever was edited, recomputed, lost or killed in between
\* (synthesis.py, 132 to 155 and 788 to 829), and computed from it as long as no pool
\* worker has loaded another configuration than its command (workflows.py, 576).
THEOREM OneConfiguration == Spec => []SynthesisOfOneConfiguration
<1>1. PipelineInv => SynthesisOfOneConfiguration
  <2> SUFFICES ASSUME PipelineInv, NEW c \in CellsOf[Synthesis], Vouched(c)
               PROVE  /\ result[c].used = Named(completion[c].fp)
                      /\ \A parent \in completion[c].fp.parents :
                            /\ parent[2].spec = completion[c].spec
                            /\ parent[2].sum = parent[3]
                      /\ ~strayed => \A use \in result[c].used : use[2].spec = completion[c].spec
    BY DEF SynthesisOfOneConfiguration, Named
  <2>1. c \in Cell
    BY RootAndSynthesis DEF Cell
  <2>2. OfOne(c, result[c], completion[c].spec, completion[c].fp)
    BY <2>1 DEF PipelineInv, RecordsTrue, Vouched
  <2>3. QED
    BY <2>2 DEF OfOne
<1>2. QED
  BY <1>1, InitInv, StepInv, PTL DEF Spec

\* The one cell of a completed synthesis has a compatible completion.
LEMMA CompletedSynthesis ==
    ASSUME Shape, NEW s, ExperimentState(Synthesis, s) = "COMPLETED",
           NEW c \in CellsOf[Synthesis]
    PROVE  Ready(Synthesis, s) /\ completion[c] # NoFile
<1> DEFINE states == [k \in CellsOf[Synthesis] |-> CellState(k, s, Ready(Synthesis, s))]
<1>1. Aggregate(states) = "COMPLETED"
  BY StateEquation, RootAndSynthesis DEF StateGiven
<1>2. {states[k] : k \in DOMAIN states} = {states[c]}
  BY SynthesisIsOneCell
<1>3. states[c] = "COMPLETED"
  BY <1>1, <1>2 DEF Aggregate
<1>4. CellState(c, s, Ready(Synthesis, s)) = "COMPLETED"
  BY <1>3
<1>5. ContextOf(c) \in {"available", "raises", "invalid"}
  BY DEF ContextOf
<1>6. Ready(Synthesis, s) \in BOOLEAN
  BY DEF Ready
<1>7. Ready(Synthesis, s) /\ InspectedState(c, s) = "COMPLETED"
  BY <1>4, <1>5, <1>6 DEF CellState
<1>8. ASSUME completion[c] = NoFile PROVE FALSE
  <2>1. InspectedState(c, s) = IF running[c] THEN "RUNNING" ELSE
            IF failure[c] # NoFile /\ failure[c].fp = Fingerprint(c, s)
            THEN failure[c].state ELSE "READY"
    BY <1>8 DEF InspectedState
  <2>2. failure[c] # NoFile => failure[c].state \in {"INVALID", "FAILED"}
    BY RootAndSynthesis DEF Shape, Cell
  <2>3. QED
    BY <1>7, <2>1, <2>2
<1>9. QED
  BY <1>7, <1>8

\* A synthesis that is reported completed is that of the results that are there, and
\* these are valid under the configuration and the lock file that are there, whatever
\* was edited, recomputed, lost or killed since (synthesis.py, 788 to 829).
THEOREM CurrentSynthesis == Spec => []SynthesisIsCurrent
<1>1. PipelineInv => SynthesisIsCurrent
  <2> SUFFICES ASSUME PipelineInv, ExperimentState(Synthesis, config) = "COMPLETED"
               PROVE  /\ \A c \in CellsOf[Synthesis] :
                             result[c].used = {<<p, result[p]>> : p \in Upstream}
                      /\ \A p \in Upstream : Compatible(p, config, Fingerprint(p, config))
    BY DEF SynthesisIsCurrent
  <2>1. \A c \in CellsOf[Synthesis] :
          /\ Ready(Synthesis, config)
          /\ Compatible(c, config, Fingerprint(c, config))
          /\ ContextOf(c) = "available"
    BY CompletedSynthesis, CompletedIsCompatible, RootAndSynthesis DEF PipelineInv
  <2>2. PICK c0 \in CellsOf[Synthesis] : TRUE
    BY RootAndSynthesis, CellsAreOfOneExperiment
  <2>3. UpstreamReadable /\ UpstreamVerified
    BY <2>1, <2>2 DEF ContextOf
  <2>4. ASSUME NEW c \in CellsOf[Synthesis]
        PROVE  result[c].used = {<<p, result[p]>> : p \in Upstream}
    <3>1. Compatible(c, config, SynthesisFingerprint) /\ c \in Cell
      BY <2>1, RootAndSynthesis DEF Fingerprint, Cell
    <3>2. result[c].used = Named(SynthesisFingerprint)
      BY <3>1 DEF Compatible, PipelineInv, RecordsTrue, OfOne
    <3>3. \A p \in Upstream : result[p] = index[p]
      BY <2>3 DEF UpstreamVerified
    <3>4. QED
      BY <3>2, <3>3, NamedUpstream
  <2>5. ASSUME NEW p \in Upstream PROVE Compatible(p, config, Fingerprint(p, config))
    <3>1. PICK d \in Experiment \ {Synthesis} : p \in CellsOf[d]
      BY UpstreamIsOfAnother
    <3>2. ExperimentState(d, config) = "COMPLETED"
      BY <2>1, <2>2, <3>1, RootAndSynthesis DEF Ready, Required
    <3>3. completion[p] # NoFile
      BY <2>3 DEF UpstreamReadable
    <3>4. QED
      BY <3>1, <3>2, <3>3, CompletedIsCompatible
  <2>6. QED
    BY <2>4, <2>5
<1>2. QED
  BY <1>1, InitInv, StepInv, PTL DEF Spec

-----------------------------------------------------------------------------
(* Types.                                                                  *)

\* A cell under way, as every action but the first finds it.
LEMMA CellUnderWay ==
    ASSUME TypeOK, NEW c \in Cell, at[c] # "none"
    PROVE  /\ pc = "busy" /\ cmd.exp \in Experiment /\ cmd.spec \in Specs
           /\ c \in CellsOf[cmd.exp] \ todo /\ ctx[c] \in Contexts(c) /\ loaded[c] \in Specs
BY DEF TypeOK

\* What a context names is there: a parent without an index is left out, and an
\* upstream cell without its records raises.
LEMMA FingerprintType ==
    ASSUME TypeOK, NEW c \in Cell, NEW s \in Specs, ContextOf(c) = "available"
    PROVE  Fingerprint(c, s) \in Contexts(c)
<1>1. \A p \in Upstream :
        /\ completion[p] \in OrdinaryCompletion \cup {NoFile}
        /\ index[p] \in OrdinaryResult \cup {NoFile}
  BY DEF TypeOK, Upstream, Completions, Results
<1>2. CASE c \in CellsOf[Synthesis]
  <2>1. UpstreamReadable
    BY <1>2 DEF ContextOf
  <2>2. \A p \in Upstream : completion[p] \in OrdinaryCompletion /\ index[p] \in OrdinaryResult
    BY <1>1, <2>1 DEF UpstreamReadable
  <2>3. {<<p, completion[p], index[p]>> : p \in Upstream}
          \in SUBSET (Upstream \X OrdinaryCompletion \X OrdinaryResult)
    BY <2>2
  <2>4. QED
    BY <1>2, <2>3 DEF Fingerprint, SynthesisFingerprint, Contexts, SynthesisContext
<1>3. CASE c \notin CellsOf[Synthesis]
  <2> DEFINE parents == UNION {CellsOf[e] : e \in Required(ExperimentOf(c))}
             found == {<<p, index[p]>> : p \in {q \in parents : index[q] # NoFile}}
  <2>1. PICK e \in Experiment : c \in CellsOf[e]
    BY DEF Cell
  <2>2. ExperimentOf(c) = e /\ e # Synthesis
    BY <1>3, <2>1, CellsAreOfOneExperiment DEF ExperimentOf
  <2>3. Required(e) \subseteq {Root}
    BY <2>2, RootAndSynthesis DEF Required
  <2>4. parents \subseteq Upstream
    BY <2>2, <2>3, RootAndSynthesis, CellsAreOfOneExperiment DEF Upstream, Cell
  <2>5. found \in SUBSET (Upstream \X OrdinaryResult)
    BY <1>1, <2>4
  <2>6. OrdinaryFingerprint(c, s) = [spec |-> s, lock |-> lock, parents |-> found]
    BY DEF OrdinaryFingerprint
  <2>7. lock \in Locks
    BY DEF TypeOK
  <2> HIDE DEF parents, found
  <2>8. QED
    BY <1>3, <2>5, <2>6, <2>7 DEF Fingerprint, Contexts, OrdinaryContext
<1>4. QED
  BY <1>2, <1>3

LEMMA ComputedType ==
    ASSUME TypeOK, NEW c \in Cell, WriteResult(c), NEW salt \in Salts[c]
    PROVE  Computed(c, salt) \in Results(c)
<1>1. loaded[c] \in Specs
  BY CellUnderWay DEF WriteResult
<1>2. salt \in Salt
  BY DEF Salt
<1>3. CASE c \in CellsOf[Synthesis]
  <2>1. \A p \in Upstream : completion[p] \in OrdinaryCompletion /\ result[p] = completion[p].sum
    BY <1>3 DEF TypeOK, Upstream, Completions, WriteResult, UpstreamReadable, UpstreamVerified
  <2>2. \A p \in Upstream : result[p] \in OrdinaryResult
    BY <2>1 DEF OrdinaryCompletion
  <2>3. {<<p, result[p]>> : p \in Upstream} \in SUBSET (Upstream \X OrdinaryResult)
    BY <2>2
  <2>4. QED
    BY <1>1, <1>2, <1>3, <2>3 DEF Computed, Results, SynthesisResult
<1>4. CASE c \notin CellsOf[Synthesis]
  BY <1>1, <1>2, <1>4 DEF Computed, Results, OrdinaryResult
<1>5. QED
  BY <1>3, <1>4

LEMMA InitType == Init => TypeOK
BY DEF Init, TypeOK, NoneAt, NoneOf

LEMMA LeaveType ==
    ASSUME TypeOK, Leave("RAISED") \/ Leave("KILLED") \/ Leave(Reply), Workspace
    PROVE  TypeOK'
<1>1. Reply \in {"FAILED", "BLOCKED", "COMPLETED", "READY"}
  BY DEF Reply
<1>2. QED
  BY <1>1 DEF TypeOK, Leave, disk, NoneAt, NoneOf, Workspace

LEMMA StartType ==
    ASSUME TypeOK, NEW e \in Experiment, NEW ow \in BOOLEAN, NEW pooled \in BOOLEAN,
           StartCommand(e, ow, pooled)
    PROVE  TypeOK'
<1>1. \A c \in Cell : at[c] = "none"
  BY DEF TypeOK, StartCommand
<1>2. QED
  BY <1>1 DEF TypeOK, StartCommand, disk, cells

LEMMA PassType ==
    ASSUME TypeOK, NEW c \in Cell,
           \/ TakeContext(c) \/ WorkerLoadsConfig(c) \/ BlockCell(c) \/ ReuseCell(c)
    PROVE  TypeOK'
<1>1. /\ UNCHANGED disk /\ pc' = pc /\ cmd' = cmd /\ todo' \subseteq todo
      /\ UNCHANGED <<config, lock, reply, lost, relocked>>
      /\ strayed' \in BOOLEAN
      /\ at' \in [Cell -> {"none", "submitted", "called", "result", "index", "completion"}]
      /\ DOMAIN ctx' = Cell /\ DOMAIN loaded' = Cell
      /\ \A k \in Cell \ {c} : at'[k] = at[k] /\ ctx'[k] = ctx[k] /\ loaded'[k] = loaded[k]
      /\ at'[c] \in {"none", "submitted", "called"}
      /\ at'[c] # "none" => /\ pc = "busy" /\ c \in CellsOf[cmd.exp] \ todo'
                            /\ ctx'[c] \in Contexts(c) /\ loaded'[c] \in Specs
  <2>1. CASE TakeContext(c)
    <3>1. pc = "busy" /\ c \in todo /\ cmd.spec \in Specs /\ c \in CellsOf[cmd.exp]
      BY <2>1 DEF TakeContext, Turn, TypeOK
    <3>2. Fingerprint(c, cmd.spec) \in Contexts(c)
      BY <2>1, <3>1, FingerprintType DEF TakeContext
    <3>3. QED
      BY <2>1, <3>1, <3>2 DEF TakeContext, TypeOK, Undisturbed, Workspace
  <2>2. CASE WorkerLoadsConfig(c)
    BY <2>2 DEF WorkerLoadsConfig, TypeOK, Undisturbed, Workspace
  <2>3. CASE BlockCell(c) \/ ReuseCell(c)
    BY <2>3 DEF BlockCell, ReuseCell, Return, TypeOK, Undisturbed, Workspace
  <2>4. QED
    BY <2>1, <2>2, <2>3
<1>2. \A k \in Cell : at'[k] # "none" =>
        /\ pc' = "busy" /\ k \in CellsOf[cmd'.exp] \ todo'
        /\ ctx'[k] \in Contexts(k) /\ loaded'[k] \in Specs
  BY <1>1 DEF TypeOK
<1>3. \A k \in Cell : at'[k] \in {"result", "index", "completion"} => at'[k] = at[k]
  BY <1>1
<1>4. QED
  BY <1>1, <1>2, <1>3 DEF TypeOK, disk

LEMMA BeginType ==
    ASSUME TypeOK, NEW c \in Cell, BeginCell(c)
    PROVE  TypeOK'
<1>1. /\ DOMAIN completion' = Cell /\ DOMAIN failure' = Cell /\ running' \in [Cell -> BOOLEAN]
      /\ running'[c] /\ completion'[c] = NoFile /\ failure'[c] = NoFile
      /\ \A k \in Cell \ {c} :
           completion'[k] = completion[k] /\ failure'[k] = failure[k] /\ running'[k] = running[k]
  BY DEF TypeOK, BeginCell
<1>2. /\ at' \in [Cell -> {"none", "submitted", "called", "result", "index", "completion"}]
      /\ at'[c] = "result" /\ at[c] = "called" /\ \A k \in Cell \ {c} : at'[k] = at[k]
  BY DEF TypeOK, BeginCell
<1>3. QED
  BY <1>1, <1>2 DEF TypeOK, BeginCell, Undisturbed, Workspace

LEMMA WriteResultType ==
    ASSUME TypeOK, NEW c \in Cell, WriteResult(c)
    PROVE  TypeOK'
<1>1. result'[c] \in Results(c) /\ result'[c] # NoFile
  <2>1. PICK salt \in Salts[c] : result' = [result EXCEPT ![c] = Computed(c, salt)]
    BY DEF WriteResult
  <2>2. QED
    BY <2>1, ComputedType, NoFileAssumption DEF TypeOK
<1>2. DOMAIN result' = Cell /\ \A k \in Cell \ {c} : result'[k] = result[k]
  BY DEF WriteResult, TypeOK
<1>3. /\ at' \in [Cell -> {"none", "submitted", "called", "result", "index", "completion"}]
      /\ at'[c] = "index" /\ at[c] = "result" /\ \A k \in Cell \ {c} : at'[k] = at[k]
  BY DEF TypeOK, WriteResult
<1>4. QED
  BY <1>1, <1>2, <1>3 DEF TypeOK, WriteResult, Undisturbed, Workspace

LEMMA WriteIndexType ==
    ASSUME TypeOK, NEW c \in Cell, WriteIndex(c)
    PROVE  TypeOK'
<1>1. /\ DOMAIN index' = Cell /\ index'[c] = result[c]
      /\ \A k \in Cell \ {c} : index'[k] = index[k]
  BY DEF WriteIndex, TypeOK
<1>2. /\ at' \in [Cell -> {"none", "submitted", "called", "result", "index", "completion"}]
      /\ at'[c] = "completion" /\ at[c] = "index" /\ \A k \in Cell \ {c} : at'[k] = at[k]
  BY DEF TypeOK, WriteIndex
<1>3. QED
  BY <1>1, <1>2 DEF TypeOK, WriteIndex, Undisturbed, Workspace

\* What Return leaves of the cells under way.
LEMMA ReturnOf ==
    ASSUME TypeOK, NEW c \in Cell, NEW o, Return(c, o)
    PROVE  /\ at' \in [Cell -> {"none", "submitted", "called", "result", "index", "completion"}]
           /\ at'[c] = "none" /\ DOMAIN ctx' = Cell /\ DOMAIN loaded' = Cell
           /\ \A k \in Cell \ {c} : at'[k] = at[k] /\ ctx'[k] = ctx[k] /\ loaded'[k] = loaded[k]
BY DEF TypeOK, Return

LEMMA WriteCompletionType ==
    ASSUME TypeOK, NEW c \in Cell, WriteCompletion(c)
    PROVE  TypeOK' /\ completion'[c] # NoFile
<1> DEFINE done == [spec |-> cmd.spec, fp |-> ctx[c], sum |-> result[c]]
<1>1. cmd.spec \in Specs /\ ctx[c] \in Contexts(c)
  BY CellUnderWay DEF WriteCompletion
<1>2. result[c] \in Results(c)
  BY DEF TypeOK, WriteCompletion
<1>3. done \in Completions(c)
  BY <1>1, <1>2 DEF Completions, Contexts, Results, OrdinaryCompletion, SynthesisCompletion
<1>4. /\ DOMAIN completion' = Cell /\ completion'[c] = done
      /\ \A k \in Cell \ {c} : completion'[k] = completion[k] /\ running'[k] = running[k]
      /\ running' \in [Cell -> BOOLEAN]
  BY DEF WriteCompletion, TypeOK
<1> HIDE DEF done
<1>5. completion'[c] # NoFile
  BY <1>3, <1>4, NoFileAssumption
<1>6. /\ at' \in [Cell -> {"none", "submitted", "called", "result", "index", "completion"}]
      /\ at'[c] = "none" /\ DOMAIN ctx' = Cell /\ DOMAIN loaded' = Cell
      /\ \A k \in Cell \ {c} : at'[k] = at[k] /\ ctx'[k] = ctx[k] /\ loaded'[k] = loaded[k]
  BY ReturnOf DEF WriteCompletion
<1>7. UNCHANGED <<pc, cmd, todo, reply, strayed>>
  BY DEF WriteCompletion, Return
<1>8. TypeOK'
  BY <1>3, <1>4, <1>6, <1>7 DEF TypeOK, WriteCompletion, Undisturbed, Workspace
<1>9. QED
  BY <1>5, <1>8

LEMMA EndCellType ==
    ASSUME TypeOK, NEW c \in Cell, at[c] # "none",
           NEW state \in {"INVALID", "FAILED"}, EndCell(c, state)
    PROVE  TypeOK' /\ failure'[c] # NoFile
<1>1. ctx[c] \in Contexts(c)
  BY CellUnderWay
<1>2. /\ DOMAIN completion' = Cell /\ completion'[c] = NoFile
      /\ DOMAIN failure' = Cell /\ failure'[c] = [fp |-> ctx[c], state |-> state]
      /\ \A k \in Cell \ {c} : /\ completion'[k] = completion[k] /\ failure'[k] = failure[k]
                               /\ running'[k] = running[k]
      /\ running' \in [Cell -> BOOLEAN]
  BY DEF EndCell, TypeOK
<1>3. [fp |-> ctx[c], state |-> state] \in Failures(c)
  BY <1>1 DEF Failures
<1>4. failure'[c] # NoFile
  BY <1>2, <1>3, NoFileAssumption
<1>5. /\ at' \in [Cell -> {"none", "submitted", "called", "result", "index", "completion"}]
      /\ at'[c] = "none" /\ DOMAIN ctx' = Cell /\ DOMAIN loaded' = Cell
      /\ \A k \in Cell \ {c} : at'[k] = at[k] /\ ctx'[k] = ctx[k] /\ loaded'[k] = loaded[k]
  BY ReturnOf DEF EndCell
<1>6. UNCHANGED <<pc, cmd, todo, reply, strayed>>
  BY DEF EndCell, Return
<1>7. TypeOK'
  BY <1>2, <1>3, <1>5, <1>6 DEF TypeOK, EndCell, Workspace
<1>8. QED
  BY <1>4, <1>7

LEMMA LoseFileType ==
    ASSUME TypeOK, NEW c \in Cell, LoseFile(c)
    PROVE  TypeOK'
<1>1. /\ DOMAIN completion' = Cell /\ DOMAIN index' = Cell /\ DOMAIN result' = Cell
      /\ completion'[c] \in {completion[c], NoFile}
      /\ index'[c] \in {index[c], NoFile}
      /\ result'[c] \in {result[c], NoFile}
      /\ \A k \in Cell \ {c} :
           completion'[k] = completion[k] /\ index'[k] = index[k] /\ result'[k] = result[k]
  BY DEF LoseFile, TypeOK
<1>2. \A k \in Cell : at[k] \in {"result", "index", "completion"} => k # c
  BY DEF LoseFile
<1>3. QED
  BY <1>1, <1>2 DEF TypeOK, LoseFile, cells

LEMMA IdleType ==
    ASSUME TypeOK, EditConfig \/ EditLock \/ UNCHANGED vars
    PROVE  TypeOK'
<1>1. /\ UNCHANGED <<disk, cells, pc, cmd, todo, reply, lost, strayed>>
      /\ config' \in Specs /\ lock' \in Locks /\ relocked' \in BOOLEAN
  BY DEF EditConfig, EditLock, Edit, vars, TypeOK
<1>2. QED
  BY <1>1 DEF TypeOK, disk, cells

\* The records hold what they are meant to hold, whatever fails or is lost.
THEOREM PipelineTypes == Spec => []TypeOK
<1>1. TypeOK /\ [Next]_vars => TypeOK'
  <2> SUFFICES ASSUME TypeOK, [Next]_vars PROVE TypeOK'
    OBVIOUS
  <2>1. ASSUME NEW e \in Experiment, NEW ow \in BOOLEAN, NEW pooled \in BOOLEAN,
               StartCommand(e, ow, pooled)
        PROVE  TypeOK'
    BY <2>1, StartType
  <2>2. ASSUME NEW c \in Cell, CellStep(c) PROVE TypeOK'
    <3>1. CASE ContextRaises(c)
      BY <3>1, LeaveType DEF ContextRaises, Undisturbed
    <3>2. CASE TakeContext(c) \/ WorkerLoadsConfig(c) \/ BlockCell(c) \/ ReuseCell(c)
      BY <3>2, PassType
    <3>3. CASE RejectCell(c)
      BY <3>3, EndCellType DEF RejectCell
    <3>4. QED
      BY <2>2, <3>1, <3>2, <3>3, BeginType, WriteResultType, WriteIndexType,
         WriteCompletionType DEF CellStep
  <2>3. CASE EndCommand \/ Crash
    BY <2>3, LeaveType DEF EndCommand, Crash, Undisturbed
  <2>4. ASSUME NEW c \in Cell, FailCell(c) PROVE TypeOK'
    BY <2>4, EndCellType DEF FailCell
  <2>5. ASSUME NEW c \in Cell, LoseFile(c) PROVE TypeOK'
    BY <2>5, LoseFileType
  <2>6. CASE EditConfig \/ EditLock \/ UNCHANGED vars
    BY <2>6, IdleType
  <2>7. QED
    BY <2>1, <2>2, <2>3, <2>4, <2>5, <2>6 DEF Next, CommandStep
<1>2. QED
  BY <1>1, InitType, PTL DEF Spec

-----------------------------------------------------------------------------
(* What a command reports is what the status command reports.              *)

\* The cells a command has taken a context for, and those of them it is done with.
Begun(e) == CellsOf[e] \ todo
Done(e) == {c \in Begun(e) : at[c] = "none"}

\* Of the command that runs e under configuration s: the dependencies are as they
\* were found, every cell it has come to can still be inspected and would get the same
\* context again, a failure that was counted is one the status finds, and so is every
\* completion.
Honest(e, s) ==
    /\ cmd.ready = Ready(e, s)
    /\ \A c \in Begun(e) :
        ContextOf(c) = "available" /\ (at[c] # "none" => ctx[c] = Fingerprint(c, s))
    /\ cmd.ready => tally["BLOCKED"] = 0
    /\ ~cmd.ready => tally["FAILED"] = 0 /\ tally["COMPLETED"] = 0
    /\ tally["FAILED"] > 0 => \E c \in Done(e) : InspectedState(c, s) = "FAILED"
    /\ tally["COMPLETED"] <= Cardinality({c \in Done(e) : InspectedState(c, s) = "COMPLETED"})

ReportInv ==
    /\ tally \in [{"COMPLETED", "FAILED", "BLOCKED"} -> Nat]
    /\ \A c \in Cell : at[c] = "completion" => index[c] = result[c]
    /\ \A e, s : pc # "idle" /\ ~lost /\ ~relocked /\ cmd.exp = e /\ cmd.spec = s
                 => Honest(e, s)

FilesKept(c) ==
    /\ completion'[c] = completion[c]
    /\ index'[c] = index[c]
    /\ result'[c] = result[c]
    /\ running'[c] = running[c]
    /\ failure'[c] = failure[c]

\* A step writes files of some cells of one experiment only.
WritesOnly(e, written) ==
    /\ lock' = lock
    /\ written \subseteq CellsOf[e] /\ \A c \in Cell \ written : FilesKept(c)

LEMMA StateFormula ==
    \A e \in Experiment : \A s : ExperimentState(e, s) = StateGiven(e, s, Ready(e, s))
BY StateEquation

LEMMA StateFormulaNext ==
    (\A e \in Experiment : \A s : ExperimentState(e, s) = StateGiven(e, s, Ready(e, s)))'
BY StateFormula, PTL

\* An experiment keeps its state when its cells and its dependencies keep theirs.
LEMMA SameState ==
    ASSUME NEW e \in Experiment, NEW s, Ready(e, s)' = Ready(e, s),
           \A c \in CellsOf[e] :
              ContextOf(c)' = ContextOf(c) /\ InspectedState(c, s)' = InspectedState(c, s)
    PROVE  ExperimentState(e, s)' = ExperimentState(e, s)
<1>1. ASSUME NEW c \in CellsOf[e]
      PROVE  CellState(c, s, Ready(e, s))' = CellState(c, s, Ready(e, s))
  <2>1. ContextOf(c)' = ContextOf(c) /\ InspectedState(c, s)' = InspectedState(c, s)
    OBVIOUS
  <2>2. QED
    BY <2>1, Zenon DEF CellState
<1>2. ExperimentState(e, s)' = StateGiven(e, s, Ready(e, s))'
  BY StateFormulaNext
<1>3. ExperimentState(e, s) = StateGiven(e, s, Ready(e, s))
  BY StateFormula
<1>4. StateGiven(e, s, Ready(e, s))' = StateGiven(e, s, Ready(e, s))
  BY <1>1, Zenon DEF StateGiven
<1>5. QED
  BY <1>2, <1>3, <1>4

\* A cell of an experiment is of that one only.
LEMMA ExperimentOfCell ==
    ASSUME NEW e \in Experiment, NEW c \in CellsOf[e]
    PROVE  ExperimentOf(c) = e /\ (c \in CellsOf[Synthesis] <=> e = Synthesis)
BY CellsAreOfOneExperiment, RootAndSynthesis DEF ExperimentOf

LEMMA SameFingerprint ==
    ASSUME NEW e \in Experiment, NEW c \in CellsOf[e], NEW s, lock' = lock,
           \A d \in Required(e) : \A p \in CellsOf[d] : FilesKept(p)
    PROVE  Fingerprint(c, s)' = Fingerprint(c, s) /\ ContextOf(c)' = ContextOf(c)
<1>1. CASE e = Synthesis
  <2>1. \A p \in Upstream : FilesKept(p)
    BY <1>1, RootAndSynthesis DEF Upstream, Cell, Required
  <2>2. c \in CellsOf[Synthesis]
    BY <1>1
  <2>3. Fingerprint(c, s)' = Fingerprint(c, s)
    BY <2>1, <2>2 DEF Fingerprint, SynthesisFingerprint, FilesKept
  <2>4. UpstreamReadable' = UpstreamReadable
    BY <2>1 DEF UpstreamReadable, FilesKept
  <2>5. UpstreamVerified' = UpstreamVerified
    BY <2>1 DEF UpstreamVerified, FilesKept
  <2>6. ContextOf(c)' = ContextOf(c)
    BY <2>2, <2>4, <2>5 DEF ContextOf
  <2>7. QED
    BY <2>3, <2>6
<1>2. CASE e # Synthesis
  <2>1. c \notin CellsOf[Synthesis] /\ ExperimentOf(c) = e
    BY <1>2, ExperimentOfCell
  <2> DEFINE parents == UNION {CellsOf[d] : d \in Required(e)}
  <2>2. \A p \in parents : index'[p] = index[p]
    BY DEF FilesKept
  <2> HIDE DEF parents
  <2>3. {q \in parents : index'[q] # NoFile} = {q \in parents : index[q] # NoFile}
    BY <2>2
  <2>4. {<<p, index'[p]>> : p \in {q \in parents : index'[q] # NoFile}}
          = {<<p, index[p]>> : p \in {q \in parents : index[q] # NoFile}}
    BY <2>2, <2>3
  <2>5. OrdinaryFingerprint(c, s)' = OrdinaryFingerprint(c, s)
    BY <2>1, <2>4 DEF OrdinaryFingerprint, parents
  <2>6. QED
    BY <2>1, <2>5 DEF Fingerprint, ContextOf
<1>3. QED
  BY <1>1, <1>2

LEMMA SameInspected ==
    ASSUME NEW c, NEW s, FilesKept(c), Fingerprint(c, s)' = Fingerprint(c, s)
    PROVE  InspectedState(c, s)' = InspectedState(c, s)
BY DEF InspectedState, Compatible, FilesKept

\* A command leaves what its experiment depends on as it is: the fingerprints of its
\* cells, their contexts and the gate.
LEMMA DependenciesKept ==
    ASSUME NEW e \in Experiment, NEW s, NEW written, WritesOnly(e, written)
    PROVE  /\ \A c \in CellsOf[e] :
                 Fingerprint(c, s)' = Fingerprint(c, s) /\ ContextOf(c)' = ContextOf(c)
           /\ \A c \in CellsOf[e] \ written : InspectedState(c, s)' = InspectedState(c, s)
           /\ Ready(e, s)' = Ready(e, s)
<1>1. \A d \in Required(e) : d \in Experiment /\ d # e /\ d # Synthesis
  BY RootAndSynthesis DEF Required
<1>2. \A d \in Required(e) : \A p \in CellsOf[d] : FilesKept(p)
  BY <1>1, CellsAreOfOneExperiment DEF WritesOnly, Cell
<1>3. \A c \in CellsOf[e] :
        Fingerprint(c, s)' = Fingerprint(c, s) /\ ContextOf(c)' = ContextOf(c)
  BY <1>2, SameFingerprint DEF WritesOnly
<1>4. ASSUME NEW c \in CellsOf[e] \ written
      PROVE  InspectedState(c, s)' = InspectedState(c, s)
  <2>1. FilesKept(c)
    BY DEF WritesOnly, Cell
  <2>2. QED
    BY <1>3, <2>1, SameInspected
<1>5. \A d \in Required(e) : Required(d) \subseteq Required(e)
  BY RootAndSynthesis DEF Required
<1>6. ASSUME NEW d \in Required(e), Ready(d, s)' = Ready(d, s)
      PROVE  ExperimentState(d, s)' = ExperimentState(d, s)
  <2>1. \A c \in CellsOf[d] : Fingerprint(c, s)' = Fingerprint(c, s) /\ ContextOf(c)' = ContextOf(c)
    BY <1>1, <1>2, <1>5, SameFingerprint DEF WritesOnly
  <2>2. \A c \in CellsOf[d] : InspectedState(c, s)' = InspectedState(c, s)
    BY <1>2, <2>1, SameInspected
  <2>3. QED
    BY <1>1, <1>6, <2>1, <2>2, SameState
<1>7. \A d \in Required(e) : Required(d) = {} \/ Required(d) = {Root}
  BY RootAndSynthesis DEF Required
<1>8. Required(Root) = {}
  BY RootAndSynthesis DEF Required
<1>9. \A d : Required(d) = {} => Ready(d, s)' = Ready(d, s)
  BY DEF Ready
<1>10. Root \in Required(e) => ExperimentState(Root, s)' = ExperimentState(Root, s)
  BY <1>6, <1>8, <1>9
<1>11. \A d \in Required(e) : Ready(d, s)' = Ready(d, s)
  BY <1>5, <1>7, <1>9, <1>10 DEF Ready
<1>12. \A d \in Required(e) : ExperimentState(d, s)' = ExperimentState(d, s)
  BY <1>6, <1>11
<1>13. Ready(e, s)' = Ready(e, s)
  BY <1>12 DEF Ready
<1>14. QED
  BY <1>3, <1>4, <1>13

\* What the counting needs of a step of the command: it writes no file of a cell it is
\* done with, and what it counts is what the status finds of a cell it is done with.
LEMMA HonestStep ==
    ASSUME NEW e \in Experiment, NEW s, Honest(e, s), NEW written, WritesOnly(e, written),
           ReportInv, tally' \in [{"COMPLETED", "FAILED", "BLOCKED"} -> Nat],
           cmd'.ready = cmd.ready,
           written \cap Done(e) = {}, Done(e) \subseteq Done(e)', Done(e)' \subseteq CellsOf[e],
           Begun(e)' \subseteq CellsOf[e],
           \A c \in Begun(e)' : ContextOf(c) = "available",
           \A c \in Begun(e)' : at'[c] # "none" => ctx'[c] = Fingerprint(c, s),
           cmd.ready => tally'["BLOCKED"] = 0,
           ~cmd.ready => tally'["FAILED"] = 0 /\ tally'["COMPLETED"] = 0,
           \/ tally'["FAILED"] = tally["FAILED"]
           \/ \E c \in Done(e)' : InspectedState(c, s)' = "FAILED",
           \/ tally'["COMPLETED"] = tally["COMPLETED"]
           \/ /\ tally'["COMPLETED"] = tally["COMPLETED"] + 1
              /\ \E c \in Done(e)' \ Done(e) : InspectedState(c, s)' = "COMPLETED"
    PROVE  Honest(e, s)'
<1>1. /\ \A c \in CellsOf[e] :
            Fingerprint(c, s)' = Fingerprint(c, s) /\ ContextOf(c)' = ContextOf(c)
      /\ \A c \in CellsOf[e] \ written : InspectedState(c, s)' = InspectedState(c, s)
      /\ Ready(e, s)' = Ready(e, s)
  BY DependenciesKept
<1>2. cmd'.ready = Ready(e, s)'
  BY <1>1 DEF Honest
<1>3. \A c \in Begun(e)' :
        ContextOf(c)' = "available" /\ (at'[c] # "none" => ctx'[c] = Fingerprint(c, s)')
  BY <1>1
<1>4. \A c \in Done(e) : InspectedState(c, s)' = InspectedState(c, s) /\ c \in CellsOf[e]
  BY <1>1
<1>5. tally'["FAILED"] > 0 => \E c \in Done(e)' : InspectedState(c, s)' = "FAILED"
  BY <1>4 DEF Honest
<1> DEFINE Found == {c \in Done(e) : InspectedState(c, s) = "COMPLETED"}
           Now == {c \in Done(e)' : InspectedState(c, s)' = "COMPLETED"}
<1>6. IsFiniteSet(Now) /\ IsFiniteSet(Found) /\ Found \subseteq Now
  <2>1. IsFiniteSet(CellsOf[e]) /\ Now \subseteq CellsOf[e] /\ Found \subseteq Now
    BY <1>4, CellsAreOfOneExperiment
  <2>2. QED
    BY <2>1, FS_Subset
<1>7. tally'["COMPLETED"] <= Cardinality(Now)
  <2>1. tally["COMPLETED"] <= Cardinality(Found)
    BY DEF Honest
  <2>2. Cardinality(Found) \in Nat /\ Cardinality(Now) \in Nat
        /\ Cardinality(Found) <= Cardinality(Now)
    BY <1>6, FS_Subset, FS_CardinalityType
  <2>3. tally["COMPLETED"] \in Nat /\ tally'["COMPLETED"] \in Nat
    BY DEF ReportInv
  <2>4. ASSUME NEW c \in Done(e)' \ Done(e), InspectedState(c, s)' = "COMPLETED"
        PROVE  Cardinality(Found) + 1 <= Cardinality(Now)
    <3>1. c \notin Found /\ Found \cup {c} \subseteq Now
      BY <1>6, <2>4
    <3>2. Cardinality(Found \cup {c}) = Cardinality(Found) + 1
      BY <1>6, <3>1, FS_AddElement
    <3>3. QED
      BY <1>6, <3>1, <3>2, FS_Subset
  <2> HIDE DEF Found, Now
  <2>5. QED
    BY <2>1, <2>2, <2>3, <2>4
<1>8. QED
  BY <1>2, <1>3, <1>5, <1>7 DEF Honest

LEMMA InitReport == Init => ReportInv
BY DEF Init, ReportInv, NoneCounted, NoneAt

LEMMA LeaveReports ==
    ASSUME ReportInv, NEW with, Leave(with)
    PROVE  ReportInv'
BY DEF ReportInv, Leave, NoneCounted, NoneAt

LEMMA StartReports ==
    ASSUME PipelineInv, ReportInv, NEW e \in Experiment, NEW ow \in BOOLEAN,
           NEW pooled \in BOOLEAN, StartCommand(e, ow, pooled)
    PROVE  ReportInv'
<1>1. \A c \in Cell : at'[c] = "none"
  BY DEF PipelineInv, CommandTrue, StartCommand, cells
<1> SUFFICES ASSUME NEW f, NEW s, cmd'.exp = f, cmd'.spec = s PROVE Honest(f, s)'
  BY <1>1 DEF ReportInv, StartCommand, NoneCounted
<1>2. f = e /\ s = config /\ cmd'.ready = Ready(e, config)
  BY DEF StartCommand, Ready
<1>3. WritesOnly(e, {})
  BY DEF WritesOnly, FilesKept, StartCommand, disk
<1>4. Ready(e, s)' = Ready(e, s)
  BY <1>3, DependenciesKept
<1>5. cmd'.ready = Ready(f, s)'
  BY <1>2, <1>4
<1>6. Begun(f)' = {} /\ Done(f)' = {}
  BY <1>2 DEF Begun, Done, StartCommand
<1>7. {c \in Done(f)' : InspectedState(c, s)' = "COMPLETED"} = {}
  BY <1>6
<1>8. tally' = NoneCounted
  BY DEF StartCommand
<1>9. QED
  BY <1>5, <1>6, <1>7, <1>8, FS_EmptySet DEF Honest, NoneCounted

\* What Count does.
LEMMA CountOf ==
    ASSUME ReportInv, NEW o, tally' = Count(o)
    PROVE  /\ tally' \in [{"COMPLETED", "FAILED", "BLOCKED"} -> Nat]
           /\ \A k \in {"COMPLETED", "FAILED", "BLOCKED"} :
                tally'[k] = IF k = o THEN tally[k] + 1 ELSE tally[k]
BY DEF ReportInv, Count

\* A step of one cell leaves the others where they are and their contexts as they are.
OthersStay(k) ==
    /\ DOMAIN at' = Cell /\ DOMAIN ctx' = Cell
    /\ \A c \in Cell \ {k} : at'[c] = at[c] /\ ctx'[c] = ctx[c]

\* The cells of the command before and after a step of one that stays under way.
LEMMA AtWorkSets ==
    ASSUME PipelineInv, NEW k \in Cell, at[k] # "none", at'[k] # "none", OthersStay(k),
           todo' = todo, NEW e \in Experiment, cmd.exp = e
    PROVE  /\ Done(e)' = Done(e) /\ k \notin Done(e) /\ Begun(e)' = Begun(e) /\ k \in Begun(e)
           /\ Begun(e) \subseteq CellsOf[e] /\ Done(e) \subseteq CellsOf[e] /\ k \in CellsOf[e]
<1>1. k \in CellsOf[e] \ todo /\ CellsOf[e] \subseteq Cell
  BY DEF PipelineInv, CommandTrue, Cell
<1>2. QED
  BY <1>1 DEF Done, Begun, OthersStay

\* ... and of one that ends.
LEMMA EndSets ==
    ASSUME PipelineInv, NEW k \in Cell, at[k] # "none", at'[k] = "none", OthersStay(k),
           todo' = todo, NEW e \in Experiment, cmd.exp = e
    PROVE  /\ Done(e)' = Done(e) \cup {k} /\ k \notin Done(e)
           /\ Begun(e)' = Begun(e) /\ k \in Begun(e) /\ Done(e) \subseteq Done(e)'
           /\ Begun(e) \subseteq CellsOf[e] /\ Done(e)' \subseteq CellsOf[e] /\ k \in CellsOf[e]
<1>1. k \in CellsOf[e] \ todo /\ CellsOf[e] \subseteq Cell
  BY DEF PipelineInv, CommandTrue, Cell
<1>2. QED
  BY <1>1 DEF Done, Begun, OthersStay

\* A context that is taken is the one the status would take.
LEMMA TakeReports ==
    ASSUME PipelineInv, ReportInv, NEW k \in Cell, TakeContext(k)
    PROVE  ReportInv'
<1>1. /\ pc # "idle" /\ pc' = pc /\ cmd' = cmd /\ UNCHANGED <<lost, relocked>>
      /\ k \in todo /\ todo' = todo \ {k}
      /\ OthersStay(k) /\ at'[k] \in {"submitted", "called"}
      /\ ctx'[k] = Fingerprint(k, cmd.spec)
      /\ ContextOf(k) = "available" /\ tally' = tally /\ UNCHANGED disk /\ lock' = lock
  BY DEF TakeContext, Turn, Undisturbed, Workspace, OthersStay, PipelineInv, Shape
<1>2. at[k] = "none" /\ k \in CellsOf[cmd.exp] /\ cmd.exp \in Experiment
  BY <1>1 DEF PipelineInv, CommandTrue
<1>3. \A c \in Cell : at'[c] = "completion" => index'[c] = result'[c]
  BY <1>1 DEF ReportInv, OthersStay, disk
<1> SUFFICES ASSUME NEW e, NEW s, ~lost, ~relocked, cmd.exp = e, cmd.spec = s
             PROVE  Honest(e, s)'
  BY <1>1, <1>3 DEF ReportInv
<1>4. Honest(e, s)
  BY <1>1 DEF ReportInv
<1>5. WritesOnly(e, {})
  BY <1>1 DEF WritesOnly, FilesKept, disk
<1>6. /\ Done(e)' = Done(e) /\ Begun(e)' = Begun(e) \cup {k} /\ k \notin Begun(e)
      /\ Begun(e)' \subseteq CellsOf[e] /\ Done(e) \subseteq CellsOf[e]
      /\ CellsOf[e] \subseteq Cell
  BY <1>1, <1>2 DEF Done, Begun, OthersStay, Cell
<1>7. \A c \in Begun(e)' : /\ ContextOf(c) = "available"
                           /\ at'[c] # "none" => ctx'[c] = Fingerprint(c, s)
  BY <1>1, <1>4, <1>6 DEF Honest, OthersStay
<1>8. /\ cmd.ready => tally["BLOCKED"] = 0
      /\ ~cmd.ready => tally["FAILED"] = 0 /\ tally["COMPLETED"] = 0
      /\ tally' \in [{"COMPLETED", "FAILED", "BLOCKED"} -> Nat]
  BY <1>1, <1>4 DEF Honest, ReportInv
<1>9. QED
  BY <1>1, <1>2, <1>4, <1>5, <1>6, <1>7, <1>8, HonestStep

\* What every step of a cell that stays under way needs.
LEMMA AtWorkReports ==
    ASSUME PipelineInv, ReportInv, NEW k \in Cell, at[k] # "none", at'[k] # "none",
           OthersStay(k), ctx'[k] = ctx[k], todo' = todo, cmd' = cmd, lock' = lock,
           UNCHANGED <<pc, tally, lost, relocked>>,
           \A c \in Cell \ {k} : FilesKept(c),
           at'[k] = "completion" => index'[k] = result'[k]
    PROVE  ReportInv'
<1>1. pc # "idle" /\ cmd.exp \in Experiment /\ k \in CellsOf[cmd.exp]
  BY DEF PipelineInv, CommandTrue
<1>2. \A c \in Cell : at'[c] = "completion" => index'[c] = result'[c]
  BY DEF ReportInv, OthersStay, FilesKept
<1> SUFFICES ASSUME NEW e, NEW s, ~lost, ~relocked, cmd.exp = e, cmd.spec = s
             PROVE  Honest(e, s)'
  BY <1>1, <1>2 DEF ReportInv
<1>3. Honest(e, s)
  BY <1>1 DEF ReportInv
<1>4. WritesOnly(e, {k})
  BY <1>1 DEF WritesOnly
<1>5. /\ Done(e)' = Done(e) /\ k \notin Done(e) /\ Begun(e)' = Begun(e) /\ k \in Begun(e)
      /\ Begun(e) \subseteq CellsOf[e] /\ Done(e) \subseteq CellsOf[e]
      /\ CellsOf[e] \subseteq Cell
  BY <1>1, AtWorkSets DEF Cell
<1>6. \A c \in Begun(e)' : /\ ContextOf(c) = "available"
                           /\ at'[c] # "none" => ctx'[c] = Fingerprint(c, s)
  BY <1>3, <1>5 DEF Honest, OthersStay
<1>7. /\ cmd.ready => tally["BLOCKED"] = 0
      /\ ~cmd.ready => tally["FAILED"] = 0 /\ tally["COMPLETED"] = 0
      /\ tally' \in [{"COMPLETED", "FAILED", "BLOCKED"} -> Nat]
  BY <1>3 DEF Honest, ReportInv
<1>8. QED
  BY <1>1, <1>3, <1>4, <1>5, <1>6, <1>7, HonestStep

\* A cell under way is not one the command is done with.
LEMMA WorkReports ==
    ASSUME PipelineInv, ReportInv, NEW k \in Cell,
           WorkerLoadsConfig(k) \/ BeginCell(k) \/ WriteResult(k) \/ WriteIndex(k)
    PROVE  ReportInv'
<1>1. CASE WorkerLoadsConfig(k)
  <2>1. /\ at[k] # "none" /\ at'[k] = "called" /\ OthersStay(k) /\ ctx'[k] = ctx[k]
        /\ todo' = todo /\ cmd' = cmd /\ lock' = lock /\ UNCHANGED <<pc, tally, lost, relocked>>
        /\ \A c \in Cell \ {k} : FilesKept(c)
    BY <1>1 DEF WorkerLoadsConfig, Undisturbed, Workspace, OthersStay, FilesKept, PipelineInv,
                Shape, disk
  <2>2. QED
    BY <2>1, AtWorkReports
<1>2. CASE BeginCell(k)
  <2>1. /\ at[k] # "none" /\ at'[k] = "result" /\ OthersStay(k) /\ ctx'[k] = ctx[k]
        /\ todo' = todo /\ cmd' = cmd /\ lock' = lock /\ UNCHANGED <<pc, tally, lost, relocked>>
        /\ \A c \in Cell \ {k} : FilesKept(c)
    BY <1>2 DEF BeginCell, Undisturbed, Workspace, OthersStay, FilesKept, PipelineInv, Shape
  <2>2. QED
    BY <2>1, AtWorkReports
<1>3. CASE WriteResult(k)
  <2>1. /\ at[k] # "none" /\ at'[k] = "index" /\ OthersStay(k) /\ ctx'[k] = ctx[k]
        /\ todo' = todo /\ cmd' = cmd /\ lock' = lock /\ UNCHANGED <<pc, tally, lost, relocked>>
        /\ \A c \in Cell \ {k} : FilesKept(c)
    BY <1>3 DEF WriteResult, Undisturbed, Workspace, OthersStay, FilesKept, PipelineInv, Shape
  <2>2. QED
    BY <2>1, AtWorkReports
<1>4. CASE WriteIndex(k)
  <2>1. /\ at[k] # "none" /\ at'[k] = "completion" /\ OthersStay(k) /\ ctx'[k] = ctx[k]
        /\ todo' = todo /\ cmd' = cmd /\ lock' = lock /\ UNCHANGED <<pc, tally, lost, relocked>>
        /\ \A c \in Cell \ {k} : FilesKept(c)
        /\ index'[k] = result'[k]
    BY <1>4 DEF WriteIndex, Undisturbed, Workspace, OthersStay, FilesKept, PipelineInv, Shape
  <2>2. QED
    BY <2>1, AtWorkReports
<1>5. QED
  BY <1>1, <1>2, <1>3, <1>4

\* What every step that ends a cell needs: what it counts is what the status finds.
LEMMA EndReports ==
    ASSUME PipelineInv, ReportInv, NEW k \in Cell, at[k] # "none",
           at'[k] = "none", OthersStay(k), todo' = todo, cmd' = cmd, lock' = lock,
           UNCHANGED <<pc, lost, relocked>>, \A c \in Cell \ {k} : FilesKept(c),
           NEW outcome \in {"COMPLETED", "FAILED", "INVALID", "BLOCKED"},
           tally' = Count(outcome),
           outcome = "BLOCKED" <=> ~cmd.ready,
           \A e \in Experiment : \A s :
              Honest(e, s) /\ cmd.exp = e /\ cmd.spec = s /\ outcome \in {"COMPLETED", "FAILED"}
              => InspectedState(k, s)' = outcome
    PROVE  ReportInv'
<1>1. pc # "idle" /\ cmd.exp \in Experiment /\ k \in CellsOf[cmd.exp]
  BY DEF PipelineInv, CommandTrue
<1>2. \A c \in Cell : at'[c] = "completion" => index'[c] = result'[c]
  BY DEF ReportInv, OthersStay, FilesKept
<1>3. /\ tally' \in [{"COMPLETED", "FAILED", "BLOCKED"} -> Nat]
      /\ \A o \in {"COMPLETED", "FAILED", "BLOCKED"} :
           tally'[o] = IF o = outcome THEN tally[o] + 1 ELSE tally[o]
  BY CountOf
<1> SUFFICES ASSUME NEW e, NEW s, ~lost, ~relocked, cmd.exp = e, cmd.spec = s
             PROVE  Honest(e, s)'
  BY <1>1, <1>2, <1>3 DEF ReportInv
<1>4. Honest(e, s)
  BY <1>1 DEF ReportInv
<1>5. WritesOnly(e, {k})
  BY <1>1 DEF WritesOnly
<1>6. /\ Done(e)' = Done(e) \cup {k} /\ k \notin Done(e) /\ Begun(e)' = Begun(e)
      /\ Done(e) \subseteq Done(e)' /\ Done(e)' \subseteq CellsOf[e]
      /\ Begun(e) \subseteq CellsOf[e] /\ CellsOf[e] \subseteq Cell
  BY <1>1, EndSets DEF Cell
<1>7. \A c \in Begun(e)' : /\ ContextOf(c) = "available"
                           /\ at'[c] # "none" => ctx'[c] = Fingerprint(c, s)
  BY <1>4, <1>6 DEF Honest, OthersStay
<1>8. outcome \in {"COMPLETED", "FAILED"} => InspectedState(k, s)' = outcome
  BY <1>1, <1>4
<1>9. /\ cmd.ready => tally["BLOCKED"] = 0
      /\ ~cmd.ready => tally["FAILED"] = 0 /\ tally["COMPLETED"] = 0
  BY <1>4 DEF Honest
<1>10. /\ cmd.ready => tally'["BLOCKED"] = 0
       /\ ~cmd.ready => tally'["FAILED"] = 0 /\ tally'["COMPLETED"] = 0
  BY <1>3, <1>9
<1>11. tally'["FAILED"] = tally["FAILED"] \/ \E c \in Done(e)' : InspectedState(c, s)' = "FAILED"
  BY <1>3, <1>6, <1>8
<1>12. \/ tally'["COMPLETED"] = tally["COMPLETED"]
       \/ /\ tally'["COMPLETED"] = tally["COMPLETED"] + 1
          /\ \E c \in Done(e)' \ Done(e) : InspectedState(c, s)' = "COMPLETED"
  BY <1>3, <1>6, <1>8
<1>13. {k} \cap Done(e) = {}
  BY <1>6
<1>14. QED
  BY <1>1, <1>3, <1>4, <1>5, <1>6, <1>7, <1>10, <1>11, <1>12, <1>13, HonestStep

\* What Return leaves, as the counting sees it.
LEMMA ReturnStays ==
    ASSUME PipelineInv, NEW k \in Cell, NEW o, Return(k, o)
    PROVE  /\ at'[k] = "none" /\ OthersStay(k) /\ todo' = todo /\ cmd' = cmd /\ pc' = pc
           /\ tally' = Count(o)
BY DEF Return, OthersStay, PipelineInv, Shape

\* A cell that is passed over is blocked because the gate is shut, or reused because
\* its completion is compatible.
LEMMA PassReports ==
    ASSUME PipelineInv, ReportInv, NEW k \in Cell, BlockCell(k) \/ ReuseCell(k)
    PROVE  ReportInv'
<1> DEFINE outcome == IF cmd.ready THEN "COMPLETED" ELSE "BLOCKED"
<1>1. /\ at[k] = "called" /\ UNCHANGED disk /\ lock' = lock /\ UNCHANGED <<lost, relocked>>
      /\ Return(k, outcome)
      /\ cmd.ready => Compatible(k, cmd.spec, ctx[k])
  BY DEF BlockCell, ReuseCell, Undisturbed, Workspace
<1>2. \A c \in Cell : FilesKept(c)
  BY <1>1 DEF FilesKept, disk
<1>3. outcome \in {"COMPLETED", "FAILED", "INVALID", "BLOCKED"} /\ (outcome = "BLOCKED" <=> ~cmd.ready)
  OBVIOUS
<1>4. ASSUME NEW e \in Experiment, NEW s, Honest(e, s), cmd.exp = e, cmd.spec = s,
             outcome \in {"COMPLETED", "FAILED"}
      PROVE  InspectedState(k, s)' = outcome
  <2>1. WritesOnly(e, {})
    BY <1>1, <1>2 DEF WritesOnly
  <2>2. k \in CellsOf[e] /\ k \in Begun(e)
    BY <1>1, <1>4 DEF PipelineInv, CommandTrue, Begun
  <2>3. InspectedState(k, s)' = InspectedState(k, s)
    BY <2>1, <2>2, DependenciesKept
  <2>4. ctx[k] = Fingerprint(k, s) /\ cmd.ready
    BY <1>1, <1>4, <2>2 DEF Honest
  <2>5. QED
    BY <1>1, <1>4, <2>3, <2>4 DEF InspectedState, Compatible
<1> HIDE DEF outcome
<1>5. /\ at'[k] = "none" /\ OthersStay(k) /\ todo' = todo /\ cmd' = cmd /\ pc' = pc
      /\ tally' = Count(outcome)
  BY <1>1, ReturnStays
<1>6. QED
  BY <1>1, <1>2, <1>3, <1>4, <1>5, EndReports

LEMMA WriteCompletionReports ==
    ASSUME TypeOK, PipelineInv, ReportInv, NEW k \in Cell, WriteCompletion(k)
    PROVE  ReportInv'
<1>1. /\ at[k] = "completion" /\ lock' = lock /\ UNCHANGED <<lost, relocked>>
      /\ Return(k, "COMPLETED") /\ cmd.ready
      /\ \A c \in Cell \ {k} : FilesKept(c)
  BY DEF WriteCompletion, Undisturbed, Workspace, FilesKept, PipelineInv, CommandTrue, Shape
<1>2. ASSUME NEW e \in Experiment, NEW s, Honest(e, s), cmd.exp = e, cmd.spec = s
      PROVE  InspectedState(k, s)' = "COMPLETED"
  <2>1. k \in CellsOf[e] /\ k \in Begun(e)
    BY <1>1, <1>2 DEF PipelineInv, CommandTrue, Begun
  <2>2. WritesOnly(e, {k})
    BY <1>1, <2>1 DEF WritesOnly
  <2>3. Fingerprint(k, s)' = Fingerprint(k, s)
    BY <2>1, <2>2, DependenciesKept
  <2>4. Fingerprint(k, s) = ctx[k]
    BY <1>1, <1>2, <2>1 DEF Honest
  <2>5. completion'[k] = [spec |-> s, fp |-> ctx[k], sum |-> result[k]]
    BY <1>2 DEF WriteCompletion, PipelineInv, Shape
  <2>6. index'[k] = result[k] /\ result'[k] = result[k]
    BY <1>1 DEF WriteCompletion, ReportInv
  <2>7. Compatible(k, s, Fingerprint(k, s))' <=> completion'[k] # NoFile
    BY <2>3, <2>4, <2>5, <2>6 DEF Compatible
  <2>8. completion'[k] # NoFile
    BY WriteCompletionType
  <2>9. QED
    BY <2>7, <2>8 DEF InspectedState
<1>3. /\ at'[k] = "none" /\ OthersStay(k) /\ todo' = todo /\ cmd' = cmd /\ pc' = pc
      /\ tally' = Count("COMPLETED")
  BY <1>1, ReturnStays
<1>4. QED
  BY <1>1, <1>2, <1>3, EndReports

\* A failure is recorded under the fingerprint the status computes again; an invalid
\* cell is counted nowhere.
LEMMA EndCellReports ==
    ASSUME TypeOK, PipelineInv, ReportInv, NEW k \in Cell,
           at[k] \in {"result", "index", "completion"},
           NEW state \in {"INVALID", "FAILED"}, EndCell(k, state)
    PROVE  ReportInv'
<1>1. /\ at[k] # "none" /\ lock' = lock /\ UNCHANGED <<lost, relocked>>
      /\ Return(k, state) /\ cmd.ready
      /\ \A c \in Cell \ {k} : FilesKept(c)
  BY DEF EndCell, Workspace, FilesKept, PipelineInv, CommandTrue, Shape
<1>2. ASSUME NEW e \in Experiment, NEW s, Honest(e, s), cmd.exp = e, cmd.spec = s
      PROVE  InspectedState(k, s)' = state
  <2>1. k \in CellsOf[e] /\ k \in Begun(e)
    BY <1>1, <1>2 DEF PipelineInv, CommandTrue, Begun
  <2>2. WritesOnly(e, {k})
    BY <1>1, <2>1 DEF WritesOnly
  <2>3. Fingerprint(k, s)' = ctx[k]
    BY <1>1, <1>2, <2>1, <2>2, DependenciesKept DEF Honest
  <2>4. /\ completion'[k] = NoFile /\ running'[k] = FALSE /\ failure'[k] # NoFile
        /\ failure'[k] = [fp |-> ctx[k], state |-> state]
    BY <1>1, EndCellType DEF EndCell, PipelineInv, Shape
  <2>5. QED
    BY <2>3, <2>4 DEF InspectedState
<1>3. /\ at'[k] = "none" /\ OthersStay(k) /\ todo' = todo /\ cmd' = cmd /\ pc' = pc
      /\ tally' = Count(state)
  BY <1>1, ReturnStays
<1>4. QED
  BY <1>1, <1>2, <1>3, EndReports

LEMMA LoseFileReports ==
    ASSUME PipelineInv, ReportInv, NEW c \in Cell, LoseFile(c)
    PROVE  ReportInv'
<1>1. \A k \in Cell : at[k] = "completion" => index'[k] = index[k] /\ result'[k] = result[k]
  BY DEF LoseFile, PipelineInv, Shape
<1>2. QED
  BY <1>1 DEF ReportInv, LoseFile, cells

\* The configuration is not looked at again before the command ends.
LEMMA IdleReports ==
    ASSUME PipelineInv, ReportInv, EditConfig \/ EditLock \/ UNCHANGED vars
    PROVE  ReportInv'
<1>1. UNCHANGED <<disk, cells, pc, cmd, todo, tally, lost>>
  BY DEF EditConfig, EditLock, Edit, vars
<1>2. CASE EditLock
  BY <1>1, <1>2 DEF ReportInv, EditLock, disk, cells
<1>3. CASE EditConfig \/ UNCHANGED vars
  <2>1. UNCHANGED <<lock, relocked>>
    BY <1>3 DEF EditConfig, vars
  <2> SUFFICES ASSUME NEW e, NEW s, pc # "idle", ~lost, ~relocked, cmd.exp = e, cmd.spec = s
               PROVE  Honest(e, s)'
    BY <1>1, <2>1 DEF ReportInv, disk, cells
  <2>2. Honest(e, s) /\ e \in Experiment
    BY DEF ReportInv, PipelineInv, CommandTrue
  <2>3. WritesOnly(e, {})
    BY <1>1, <2>1 DEF WritesOnly, FilesKept, disk
  <2>4. /\ Done(e)' = Done(e) /\ Begun(e)' = Begun(e)
        /\ Begun(e) \subseteq CellsOf[e] /\ Done(e) \subseteq CellsOf[e]
    BY <1>1 DEF Done, Begun, cells
  <2>5. \A c \in Begun(e)' : /\ ContextOf(c) = "available"
                             /\ at'[c] # "none" => ctx'[c] = Fingerprint(c, s)
    BY <1>1, <2>2, <2>4 DEF Honest, cells
  <2>6. /\ cmd.ready => tally["BLOCKED"] = 0
        /\ ~cmd.ready => tally["FAILED"] = 0 /\ tally["COMPLETED"] = 0
        /\ tally' \in [{"COMPLETED", "FAILED", "BLOCKED"} -> Nat]
    BY <1>1, <2>2 DEF Honest, ReportInv
  <2>7. QED
    BY <1>1, <2>2, <2>3, <2>4, <2>5, <2>6, HonestStep
<1>4. QED
  BY <1>2, <1>3

LEMMA ReportStep == TypeOK /\ PipelineInv /\ ReportInv /\ [Next]_vars => ReportInv'
<1> SUFFICES ASSUME TypeOK, PipelineInv, ReportInv, [Next]_vars PROVE ReportInv'
  OBVIOUS
<1>1. ASSUME NEW e \in Experiment, NEW ow \in BOOLEAN, NEW pooled \in BOOLEAN,
             StartCommand(e, ow, pooled)
      PROVE  ReportInv'
  BY <1>1, StartReports
<1>2. ASSUME NEW c \in Cell, CellStep(c) PROVE ReportInv'
  <2>1. CASE ContextRaises(c)
    BY <2>1, LeaveReports DEF ContextRaises
  <2>2. CASE WorkerLoadsConfig(c) \/ BeginCell(c) \/ WriteResult(c) \/ WriteIndex(c)
    BY <2>2, WorkReports
  <2>3. CASE BlockCell(c) \/ ReuseCell(c)
    BY <2>3, PassReports
  <2>4. CASE RejectCell(c)
    BY <2>4, EndCellReports DEF RejectCell
  <2>5. QED
    BY <1>2, <2>1, <2>2, <2>3, <2>4, TakeReports, WriteCompletionReports DEF CellStep
<1>3. ASSUME NEW c \in Cell, FailCell(c) PROVE ReportInv'
  BY <1>3, EndCellReports DEF FailCell
<1>4. ASSUME NEW c \in Cell, LoseFile(c) PROVE ReportInv'
  BY <1>4, LoseFileReports
<1>5. CASE EndCommand \/ Crash
  BY <1>5, LeaveReports DEF EndCommand, Crash
<1>6. CASE EditConfig \/ EditLock \/ UNCHANGED vars
  BY <1>6, IdleReports
<1>7. QED
  BY <1>1, <1>2, <1>3, <1>4, <1>5, <1>6 DEF Next, CommandStep

\* What a command counted, aggregated over all its cells, is what the status
\* aggregates.
LEMMA ReplyIsState ==
    ASSUME PipelineInv, ReportInv, pc = "busy", todo = {}, at = NoneAt, ~lost, ~relocked, NEW s, cmd.spec = s,
           Reply \in {"COMPLETED", "FAILED", "BLOCKED"},
           NEW e \in Experiment, cmd.exp = e
    PROVE  ExperimentState(e, s) = Reply
<1> DEFINE states == [c \in CellsOf[e] |-> CellState(c, s, Ready(e, s))]
           found == {states[c] : c \in DOMAIN states}
<1>1. Honest(e, s)
  BY DEF ReportInv
<1>2. Begun(e) = CellsOf[e] /\ Done(e) = CellsOf[e]
  <2>1. CellsOf[e] \subseteq Cell
    BY DEF PipelineInv, CommandTrue, Cell
  <2>2. QED
    BY <2>1 DEF Begun, Done, NoneAt
<1>3. \A c \in CellsOf[e] : ContextOf(c) = "available"
  BY <1>1, <1>2 DEF Honest
<1>4. ExperimentState(e, s) = Aggregate(states)
  BY StateEquation DEF StateGiven
<1>5. \E c \in CellsOf[e] : TRUE
  BY CellsAreOfOneExperiment
<1>6. tally \in [{"COMPLETED", "FAILED", "BLOCKED"} -> Nat]
  BY DEF ReportInv
<1>7. CASE cmd.ready
  <2>1. Ready(e, s) = TRUE
    BY <1>1, <1>7 DEF Honest
  <2>2. \A c \in CellsOf[e] : states[c] = InspectedState(c, s)
    BY <1>3, <2>1 DEF CellState
  <2>3. \A c : InspectedState(c, s) = "RAISES" => failure[c].state = "RAISES" /\ failure[c] # NoFile
    BY DEF InspectedState
  <2>4. "RAISES" \notin found
    <3>1. \A c \in CellsOf[e] : failure[c] # NoFile => failure[c].state \in {"INVALID", "FAILED"}
      BY DEF PipelineInv, Shape, Cell
    <3>2. \A c \in CellsOf[e] : states[c] # "RAISES"
      BY <2>2, <2>3, <3>1
    <3>3. QED
      BY <3>2
  <2>5. tally["BLOCKED"] = 0
    BY <1>1, <1>7 DEF Honest
  <2>6. CASE tally["FAILED"] > 0
    <3>1. Reply = "FAILED"
      BY <2>6 DEF Reply
    <3>2. "FAILED" \in found
      BY <1>1, <1>2, <2>2, <2>6 DEF Honest
    <3>3. Aggregate(states) = "FAILED"
      BY <2>4, <3>2 DEF Aggregate
    <3>4. QED
      BY <1>4, <3>1, <3>3
  <2>7. CASE tally["FAILED"] = 0
    <3>1. Reply = "COMPLETED" /\ tally["COMPLETED"] = Cardinality(CellsOf[e])
      BY <2>5, <2>7 DEF Reply
    <3> DEFINE completed == {c \in CellsOf[e] : InspectedState(c, s) = "COMPLETED"}
    <3>2. tally["COMPLETED"] <= Cardinality(completed)
      BY <1>1, <1>2 DEF Honest
    <3>3. IsFiniteSet(CellsOf[e]) /\ completed \subseteq CellsOf[e]
      BY CellsAreOfOneExperiment
    <3> HIDE DEF completed
    <3>4. completed = CellsOf[e]
      <4>1. /\ Cardinality(completed) <= Cardinality(CellsOf[e])
            /\ Cardinality(CellsOf[e]) = Cardinality(completed) => completed = CellsOf[e]
            /\ Cardinality(completed) \in Nat /\ Cardinality(CellsOf[e]) \in Nat
        BY <3>3, FS_Subset, FS_CardinalityType
      <4>2. QED
        BY <1>6, <3>1, <3>2, <4>1
    <3>5. found = {"COMPLETED"}
      <4>1. \A c \in CellsOf[e] : c \in completed
        BY <3>4
      <4>2. \A c \in CellsOf[e] : states[c] = "COMPLETED"
        BY <2>2, <4>1 DEF completed
      <4>3. QED
        BY <1>5, <4>2
    <3>6. Aggregate(states) = "COMPLETED"
      BY <3>5 DEF Aggregate
    <3>7. QED
      BY <1>4, <3>1, <3>6
  <2>8. QED
    BY <1>6, <2>6, <2>7
<1>8. CASE ~cmd.ready
  <2>1. Ready(e, s) = FALSE
    BY <1>1, <1>8 DEF Honest, Ready
  <2>2. \A c \in CellsOf[e] : states[c] = "BLOCKED"
    BY <2>1 DEF CellState
  <2>3. found = {"BLOCKED"}
    BY <1>5, <2>2
  <2>4. Aggregate(states) = "BLOCKED"
    BY <2>3 DEF Aggregate
  <2>5. tally["FAILED"] = 0 /\ tally["COMPLETED"] = 0
    BY <1>1, <1>8 DEF Honest
  <2>6. Cardinality(CellsOf[e]) # 0
    BY <1>5, CellsAreOfOneExperiment, FS_EmptySet
  <2>7. Reply = "BLOCKED"
    BY <1>6, <2>5, <2>6 DEF Reply
  <2>8. QED
    BY <1>4, <2>4, <2>7
<1>9. QED
  BY <1>7, <1>8

\* A run that finds no file lost and the lock file as it was reports what the status
\* command reports next: the outcomes run_cell returned, folded by _run_state, are the
\* states the inspection derives from the files, folded by _aggregate_state.
THEOREM RunIsStatus == Spec => RunAgreesWithStatus
<1> DEFINE Agrees ==
        /\ pc # "idle" /\ pc' = "idle" /\ cmd.spec = config /\ ~lost /\ ~relocked
        /\ reply' \in {"COMPLETED", "FAILED", "BLOCKED"}
        => ExperimentState(cmd.exp, config) = reply'
<1>1. ASSUME TypeOK, PipelineInv, ReportInv, Next PROVE Agrees
  <2> SUFFICES ASSUME pc # "idle", pc' = "idle", cmd.spec = config, ~lost, ~relocked,
                      reply' \in {"COMPLETED", "FAILED", "BLOCKED"}
               PROVE  ExperimentState(cmd.exp, config) = reply'
    OBVIOUS
  <2>1. ASSUME NEW c \in Cell, CellStep(c) PROVE FALSE
    <3>1. ~ContextRaises(c)
      BY DEF ContextRaises, Leave
    <3>2. CellStep(c) => pc' = pc \/ ContextRaises(c)
      BY DEF CellStep, TakeContext, WorkerLoadsConfig, BlockCell, ReuseCell, BeginCell,
         WriteResult, WriteIndex, WriteCompletion, RejectCell, EndCell, Return
    <3>3. QED
      BY <2>1, <3>1, <3>2
  <2>2. ASSUME NEW c \in Cell, FailCell(c) \/ LoseFile(c) PROVE FALSE
    BY <2>2 DEF FailCell, EndCell, Return, LoseFile
  <2>3. ~EditConfig /\ ~EditLock /\ ~Crash
    BY DEF EditConfig, EditLock, Edit, Crash, Leave
  <2>4. EndCommand
    BY <1>1, <2>1, <2>2, <2>3 DEF Next, CommandStep, StartCommand
  <2>5. pc = "busy" /\ todo = {} /\ at = NoneAt /\ reply' = Reply
    BY <2>4 DEF EndCommand, Leave
  <2>6. PICK e \in Experiment : e = cmd.exp
    BY <1>1 DEF PipelineInv, CommandTrue
  <2>7. QED
    BY <1>1, <2>5, <2>6, ReplyIsState
<1>2. TypeOK /\ PipelineInv /\ ReportInv /\ [Next]_vars => [Agrees]_vars
  BY <1>1
<1>3. [][Agrees]_vars => RunAgreesWithStatus
  BY DEF RunAgreesWithStatus
<1>4. QED
  BY <1>2, <1>3, PipelineTypes, InitInv, StepInv, InitReport, ReportStep, PTL DEF Spec

=============================================================================
