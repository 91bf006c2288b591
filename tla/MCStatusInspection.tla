-------------------------- MODULE MCStatusInspection --------------------------
EXTENDS StatusInspection, TLC

CONSTANTS before, after, first, second

MCInputs == {before, after}
MCSalts == {first, second}

\* Neither the values of the inputs nor the executions are told apart by name.
MCSymmetry == Permutations(MCInputs) \cup Permutations(MCSalts)

ASSUME Modes # {}
=============================================================================
