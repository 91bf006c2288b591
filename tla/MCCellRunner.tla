---------------------------- MODULE MCCellRunner ----------------------------
(***************************************************************************)
(* One cell with two artifacts, two values of the inputs and executions     *)
(* that differ from one another: a mixture of two executions, or of two     *)
(* contexts, would be visible.                                              *)
(***************************************************************************)
EXTENDS CellRunner

CONSTANTS before, after, first, second

MCInputs == {before, after}
MCSalts == {first, second}

ASSUME Modes # {}
=============================================================================
