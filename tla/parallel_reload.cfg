SPECIFICATION LiveSpec
CONSTANTS
    before = before
    after = after
    first = first
    second = second
    Inputs <- MCInputs
    Salts <- MCSalts
    NumArtifacts = 1
    Modes = {"parallel"}
    NoFile = NoFile
    Damaged = Damaged
    MaxDisturbances = 0
    MaxEdits = 2
INVARIANTS
    ReusedIsOfItsContext
