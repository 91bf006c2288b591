SPECIFICATION InspSpec
CONSTANTS
    before = before
    after = after
    first = first
    second = second
    Inputs <- MCInputs
    Salts <- MCSalts
    NumArtifacts = 2
    Modes = {"sequential", "parallel"}
    NoFile = NoFile
    Damaged = Damaged
    MaxDisturbances = 1
    MaxEdits = 2
PROPERTIES
    ReportedStateHeld
SYMMETRY MCSymmetry
