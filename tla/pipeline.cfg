SPECIFICATION Spec
CONSTANTS
    legacy = legacy
    timing = timing
    synthesis = synthesis
    before = before
    after = after
    pinned = pinned
    bumped = bumped
    Experiment <- MCExperiment
    Root = legacy
    Synthesis = synthesis
    CellsOf <- MCCellsOf
    Specs <- MCSpecs
    Locks <- MCLocks
    Salts <- MCSalts
    NoFile = NoFile
    MaxDisturbances = 1
    MaxEdits = 2
INVARIANTS
    SynthesisOfOneConfiguration
    SynthesisIsCurrent
PROPERTIES
    RunAgreesWithStatus
SYMMETRY MCSymmetry
