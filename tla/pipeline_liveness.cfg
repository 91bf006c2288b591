SPECIFICATION LiveSpec
CONSTANTS
    legacy = legacy
    timing = timing
    synthesis = synthesis
    before = before
    after = after
    pinned = pinned
    bumped = bumped
    Experiment <- MCExperiment
    Root = legacy
    Synthesis = synthesis
    CellsOf <- MCFewCellsOf
    Specs <- MCSpecs
    Locks <- MCLocks
    Salts <- MCFewSalts
    NoFile = NoFile
    MaxDisturbances = 1
    MaxEdits = 1
PROPERTIES
    EventuallySynthesised
