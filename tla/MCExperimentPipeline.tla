------------------------ MODULE MCExperimentPipeline ------------------------
(***************************************************************************)
(* The root, one ordinary experiment of two cells and the synthesis.  The   *)
(* ordinary cells may come out differently when they are computed again,    *)
(* as timings do.                                                           *)
(***************************************************************************)
EXTENDS ExperimentPipeline

CONSTANTS legacy, timing, synthesis, before, after, pinned, bumped

MCExperiment == {legacy, timing, synthesis}
MCCellsOf == (legacy :> {"legacy"}) @@ (timing :> {"small", "large"}) @@ (synthesis :> {"synthesis"})
MCSpecs == {before, after}
MCLocks == {pinned, bumped}
MCSalts == ("legacy" :> {0}) @@ ("small" :> {0, 1}) @@ ("large" :> {0}) @@ ("synthesis" :> {0})
\* For the liveness property, whose graph has no symmetry to reduce it.
MCFewCellsOf == (legacy :> {"legacy"}) @@ (timing :> {"small"}) @@ (synthesis :> {"synthesis"})
MCFewSalts == [c \in {"legacy", "small", "synthesis"} |-> {0}]
MCSymmetry == Permutations(MCSpecs) \cup Permutations(MCLocks)
=============================================================================
